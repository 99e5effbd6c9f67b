--------------------------- MODULE HitPathProofs ---------------------------
(***************************************************************************)
(* Proofs about the way of the hits, for any readouts, any lines lost from *)
(* the file of the damaged source, any configuration of the crates.        *)
(***************************************************************************)
EXTENDS HitPath, TLAPS, SequenceTheorems

-----------------------------------------------------------------------------
(***************************************************************************)
(* Sequences of anything.                                                  *)
(***************************************************************************)
IsSeq(q) == q \in Seq({q[k] : k \in 1 .. Len(q)})

LEMMA SeqIsSeq ==
  ASSUME NEW S, NEW q \in Seq(S)
  PROVE  IsSeq(q)
<1>. DEFINE T == {q[k] : k \in 1 .. Len(q)}
<1>1. Len(q) \in Nat /\ q \in [1 .. Len(q) -> S]
  BY LenProperties
<1>2. q \in [1 .. Len(q) -> T]
  BY <1>1
<1>. HIDE DEF T
<1>3. q \in Seq(T)
  BY <1>1, <1>2, SeqDef
<1>. QED
  BY <1>3 DEF IsSeq, T

LEMMA IsSeqFacts ==
  ASSUME NEW q, IsSeq(q)
  PROVE  Len(q) \in Nat /\ DOMAIN q = 1 .. Len(q)
  BY LenProperties DEF IsSeq

LEMMA EmptyIsSeq == IsSeq(<< >>) /\ Len(<< >>) = 0
  BY EmptySeq, SeqIsSeq

LEMMA AppendIsSeq ==
  ASSUME NEW q, NEW x, IsSeq(q)
  PROVE  /\ IsSeq(Append(q, x))
         /\ Len(Append(q, x)) = Len(q) + 1
         /\ \A k \in 1 .. Len(q) : Append(q, x)[k] = q[k]
         /\ Append(q, x)[Len(q) + 1] = x
<1>. DEFINE S == {q[k] : k \in 1 .. Len(q)} \cup {x}
<1>1. q \in Seq(S) /\ x \in S
  <2>1. {q[k] : k \in 1 .. Len(q)} \subseteq S /\ x \in S
    OBVIOUS
  <2>. HIDE DEF S
  <2>. QED
    BY <2>1, SeqMonotonic DEF IsSeq
<1>. HIDE DEF S
<1>2. /\ Append(q, x) \in Seq(S)
      /\ Len(Append(q, x)) = Len(q) + 1
      /\ \A k \in 1 .. Len(q) : Append(q, x)[k] = q[k]
      /\ Append(q, x)[Len(q) + 1] = x
  BY <1>1, AppendProperties
<1>. QED
  BY <1>2, SeqIsSeq

-----------------------------------------------------------------------------
(***************************************************************************)
(* What the DAQ has read out.                                              *)
(***************************************************************************)
LEMMA ReadoutFacts ==
  ASSUME readout \in Readouts, NEW s \in Sources
  PROVE  /\ Len(readout[s]) \in Nat
         /\ DOMAIN readout[s] = 1 .. Len(readout[s])
         /\ \A n \in 1 .. Len(readout[s]) : readout[s][n] \in ChipReadouts \cup RegisterReadouts
<1>1. readout[s] \in Seq(ChipReadouts \cup RegisterReadouts)
  BY WriterAssumption
<1>. HIDE DEF ChipReadouts, RegisterReadouts
<1>. QED
  BY <1>1, LenProperties, ElementOfSeq

(***************************************************************************)
(* The places of the lines of a file and their order.                      *)
(***************************************************************************)
Places == [of : Nat \ {0}, half : {1, 2}, part : {"hit", "data", "samples"}]

IsPlace(r, p) ==
  /\ p \in Places
  /\ p.half = 2 \/ p.part = "samples" => r.type = "CALO"
  /\ p.part = "samples" => HasSamples(r, p)

PartKey(part) == IF part = "hit" THEN 0 ELSE IF part = "data" THEN 1 ELSE 2

Key(p) == 6 * p.of + 3 * p.half + PartKey(p.part)

LEMMA NextPlaceFacts ==
  ASSUME NEW r, NEW p, IsPlace(r, p)
  PROVE  /\ NextPlace(r, p) \in Places
         /\ Key(p) \in Nat /\ Key(NextPlace(r, p)) \in Nat
         /\ Key(p) < Key(NextPlace(r, p))
         /\ \/ NextPlace(r, p) = FirstPlace(p.of + 1)
            \/ NextPlace(r, p).of = p.of /\ IsPlace(r, NextPlace(r, p))
         /\ \/ NextPlace(r, p) = NextHitPlace(r, p)
            \/ /\ NextPlace(r, p).of = p.of /\ NextPlace(r, p).half = p.half
               /\ NextPlace(r, p).part # "hit"
         /\ p.part = "hit" => NextPlace(r, p) = [of |-> p.of, half |-> p.half, part |-> "data"]
<1>. USE DEF Places
<1>1. CASE p.part = "hit"
  <2>1. NextPlace(r, p) = [of |-> p.of, half |-> p.half, part |-> "data"]
    BY <1>1 DEF NextPlace, IsPlace
  <2>. QED
    BY <1>1, <2>1 DEF IsPlace, Key, PartKey, FirstPlace
<1>2. CASE p.part = "data" /\ HasSamples(r, p)
  <2>1. NextPlace(r, p) = [of |-> p.of, half |-> p.half, part |-> "samples"]
    BY <1>2 DEF NextPlace, IsPlace
  <2>. QED
    BY <1>2, <2>1 DEF IsPlace, Key, PartKey, FirstPlace, HasSamples
<1>3. CASE p.part # "hit" /\ ~ (p.part = "data" /\ HasSamples(r, p))
  <2>1. NextPlace(r, p) = NextHitPlace(r, p)
    BY <1>3 DEF NextPlace
  <2>2. CASE r.type = "CALO" /\ p.half = 1
    <3>1. NextPlace(r, p) = [of |-> p.of, half |-> 2, part |-> "hit"]
      BY <2>1, <2>2 DEF NextHitPlace
    <3>. QED
      BY <1>3, <2>1, <2>2, <3>1 DEF IsPlace, Key, PartKey, FirstPlace
  <2>3. CASE ~ (r.type = "CALO" /\ p.half = 1)
    <3>1. NextPlace(r, p) = [of |-> p.of + 1, half |-> 1, part |-> "hit"]
      BY <2>1, <2>3 DEF NextHitPlace, FirstPlace
    <3>. QED
      BY <1>3, <2>1, <2>3, <3>1 DEF IsPlace, Key, PartKey, FirstPlace
  <2>. QED
    BY <2>2, <2>3
<1>. QED
  BY <1>1, <1>2, <1>3

-----------------------------------------------------------------------------
(***************************************************************************)
(* The invariant of a file that is written.  PlaceInv: where the DAQ is.   *)
(* LinesInv: each line is that of its place, and the places increase, also *)
(* when lines were lost.  NumberInv: a HIT line whose number is the next   *)
(* one is that of the next hit.                                            *)
(***************************************************************************)
PlaceInv(s) ==
  /\ number[s] \in Nat
  /\ IF Written(s) THEN place[s] = FirstPlace(Len(readout[s]) + 1)
     ELSE place[s].of \in 1 .. Len(readout[s]) /\ IsPlace(Current(s), place[s])

IsLine(s, l) ==
  /\ l.at.of \in 1 .. Len(readout[s])
  /\ IsPlace(readout[s][l.at.of], l.at)
  /\ \E n \in Nat : l = LineFor(s, readout[s][l.at.of], l.at, n)

LinesInv(s) ==
  /\ IsSeq(lines[s])
  /\ \A k \in 1 .. Len(lines[s]) :
       IsLine(s, lines[s][k]) /\ Key(lines[s][k].at) < Key(place[s])
  /\ \A j, k \in 1 .. Len(lines[s]) : j < k => Key(lines[s][j].at) < Key(lines[s][k].at)

WithinHit(p, q) == q.of = p.of /\ q.half = p.half /\ q.part # "hit"

NumberInv(s) ==
  /\ \A k \in 1 .. Len(lines[s]) : lines[s][k].at.part = "hit" =>
       LET p == lines[s][k].at
       IN  /\ lines[s][k].num \in 0 .. number[s] - 1
           /\ lines[s][k].num + 1 = number[s] =>
                WithinHit(p, place[s]) \/ place[s] = NextHitPlace(readout[s][p.of], p)
  /\ \A j, k \in 1 .. Len(lines[s]) :
       lines[s][j].at.part = "hit" /\ lines[s][k].at.part = "hit" =>
         LET p == lines[s][j].at
         IN  lines[s][k].num = lines[s][j].num + 1 =>
               lines[s][k].at = NextHitPlace(readout[s][p.of], p)

WriterInv(s) == PlaceInv(s) /\ LinesInv(s) /\ NumberInv(s)

Domains ==
  /\ readout \in Readouts
  /\ DOMAIN lines = Sources /\ DOMAIN place = Sources /\ DOMAIN number = Sources
  /\ DOMAIN pos = Sources /\ DOMAIN reading = Sources /\ DOMAIN hits = Sources

LEMMA LineFacts ==
  ASSUME NEW s, NEW r, NEW p, IsPlace(r, p), NEW n
  PROVE  /\ LineFor(s, r, p, n).text = "hit" <=> p.part = "hit"
         /\ LineFor(s, r, p, n).text = "channel" <=> p.part = "data" /\ r.type = "CALO"
         /\ p.part = "hit" => LineFor(s, r, p, n) = HitLine(r, p, n)
         /\ p.part = "data" /\ r.type = "CALO" => LineFor(s, r, p, n) = ChannelData(s, r, p)
         /\ p.part = "data" /\ r.type # "CALO" => LineFor(s, r, p, n) = TimestampData(s, r, p)
         /\ p.part = "samples" => LineFor(s, r, p, n) = SamplesData(r, p)
<1>1. p.part \in {"hit", "data", "samples"}
  BY DEF IsPlace, Places
<1>2. CASE p.part = "hit"
  <2>1. LineFor(s, r, p, n) = HitLine(r, p, n)
    BY <1>2 DEF LineFor
  <2>. QED
    BY <1>2, <2>1 DEF HitLine
<1>3. CASE p.part = "samples"
  <2>1. LineFor(s, r, p, n) = SamplesData(r, p)
    BY <1>3 DEF LineFor
  <2>. QED
    BY <1>3, <2>1 DEF SamplesData
<1>4. CASE p.part = "data" /\ r.type = "CALO"
  <2>1. LineFor(s, r, p, n) = ChannelData(s, r, p)
    BY <1>4 DEF LineFor
  <2>. QED
    BY <1>4, <2>1 DEF ChannelData
<1>5. CASE p.part = "data" /\ r.type # "CALO"
  <2>1. LineFor(s, r, p, n) = TimestampData(s, r, p)
    BY <1>5 DEF LineFor
  <2>. QED
    BY <1>5, <2>1 DEF TimestampData
<1>. QED
  BY <1>1, <1>2, <1>3, <1>4, <1>5

LEMMA LineAtPlace ==
  ASSUME NEW s, NEW r, NEW p, IsPlace(r, p), NEW n
  PROVE  LineFor(s, r, p, n).at = p
<1>1. p.part \in {"hit", "data", "samples"}
  BY DEF IsPlace, Places
<1>2. CASE p.part = "hit"
  BY <1>2 DEF LineFor, HitLine
<1>3. CASE p.part = "samples"
  BY <1>3 DEF LineFor, SamplesData
<1>4. CASE p.part = "data" /\ r.type = "CALO"
  BY <1>4 DEF LineFor, ChannelData
<1>5. CASE p.part = "data" /\ r.type # "CALO"
  BY <1>5 DEF LineFor, TimestampData
<1>. QED
  BY <1>1, <1>2, <1>3, <1>4, <1>5

LEMMA InitWriter ==
  ASSUME WriterInit, NEW s \in Sources
  PROVE  WriterInv(s)
<1>1. /\ readout \in Readouts /\ place[s] = FirstPlace(1) /\ number[s] = 0 /\ lines[s] = << >>
  BY DEF WriterInit
<1>2. Len(readout[s]) \in Nat
  BY <1>1, ReadoutFacts
<1>3. Len(lines[s]) = 0 /\ IsSeq(lines[s]) /\ 1 .. Len(lines[s]) = {}
  BY <1>1, EmptyIsSeq
<1>4. place[s].of = 1 /\ FirstPlace(1) \in Places /\ FirstPlace(1).half = 1
      /\ FirstPlace(1).part = "hit"
  BY <1>1 DEF FirstPlace, Places
<1>5. PlaceInv(s)
  BY <1>1, <1>2, <1>4 DEF PlaceInv, Written, IsPlace
<1>. QED
  BY <1>3, <1>5 DEF WriterInv, LinesInv, NumberInv

(***************************************************************************)
(* Nothing changes for a file that is not written to.                      *)
(***************************************************************************)
LEMMA WriterFrame ==
  ASSUME NEW s \in Sources, WriterInv(s), readout' = readout, lines'[s] = lines[s],
         place'[s] = place[s], number'[s] = number[s]
  PROVE  WriterInv(s)'
<1>1. Written(s)' = Written(s) /\ Current(s)' = Current(s)
  BY DEF Written, Current
<1>2. PlaceInv(s)'
  BY <1>1 DEF WriterInv, PlaceInv
<1>3. \A l : IsLine(s, l)' = IsLine(s, l)
  BY DEF IsLine
<1>4. LinesInv(s)'
  BY <1>3 DEF WriterInv, LinesInv
<1>5. NumberInv(s)'
  BY DEF WriterInv, NumberInv
<1>. QED
  BY <1>2, <1>4, <1>5 DEF WriterInv

(***************************************************************************)
(* What the DAQ does to its place and number, for a line kept or lost.     *)
(***************************************************************************)
LEMMA AdvanceFacts ==
  ASSUME Domains, NEW s \in Sources, WriterInv(s), Advance(s)
  PROVE  /\ PlaceInv(s)'
         /\ place'[s] = NextPlace(Current(s), place[s])
         /\ number'[s] = IF place[s].part = "hit" THEN number[s] + 1 ELSE number[s]
         /\ number[s] \in Nat
         /\ place[s].of \in 1 .. Len(readout[s]) /\ IsPlace(Current(s), place[s])
         /\ Key(place[s]) < Key(place'[s]) /\ Key(place[s]) \in Nat /\ Key(place'[s]) \in Nat
         /\ readout' = readout
<1>1. /\ place'[s] = NextPlace(Current(s), place[s])
      /\ number'[s] = IF place[s].part = "hit" THEN number[s] + 1 ELSE number[s]
      /\ readout' = readout /\ ~ Written(s)
  BY DEF Advance, Domains
<1>2. /\ place[s].of \in 1 .. Len(readout[s]) /\ IsPlace(Current(s), place[s])
      /\ number[s] \in Nat
  BY <1>1 DEF WriterInv, PlaceInv
<1>3. Len(readout[s]) \in Nat
  BY ReadoutFacts DEF Domains
<1>4. number'[s] \in Nat
  BY <1>1, <1>2
<1>5. PlaceInv(s)'
  <2>1. CASE place'[s] = FirstPlace(place[s].of + 1)
    <3>1. place'[s].of = place[s].of + 1
      BY <2>1 DEF FirstPlace
    <3>2. CASE place[s].of = Len(readout[s])
      <4>1. Written(s)'
        BY <1>1, <1>3, <3>1, <3>2 DEF Written
      <4>. QED
        BY <1>1, <1>4, <2>1, <3>2, <4>1 DEF PlaceInv
    <3>3. CASE place[s].of # Len(readout[s])
      <4>1. ~ Written(s)' /\ place'[s].of \in 1 .. Len(readout'[s])
        BY <1>1, <1>2, <1>3, <3>1, <3>3 DEF Written
      <4>2. \A r : IsPlace(r, place'[s])
        BY <1>2, <2>1 DEF IsPlace, FirstPlace, Places
      <4>. QED
        BY <1>4, <4>1, <4>2 DEF PlaceInv
    <3>. QED
      BY <3>2, <3>3
  <2>2. CASE place'[s].of = place[s].of /\ IsPlace(Current(s), place'[s])
    <3>1. Current(s)' = Current(s)
      BY <1>1, <2>2 DEF Current
    <3>2. ~ Written(s)' /\ place'[s].of \in 1 .. Len(readout'[s])
      BY <1>1, <1>2, <1>3, <2>2 DEF Written
    <3>. QED
      BY <1>4, <2>2, <3>1, <3>2 DEF PlaceInv
  <2>. QED
    BY <1>1, <1>2, <2>1, <2>2, NextPlaceFacts
<1>. QED
  BY <1>1, <1>2, <1>5, NextPlaceFacts

LEMMA NumberKept ==
  ASSUME Domains, NEW s \in Sources, WriterInv(s), Advance(s), NEW l, IsLine(s, l),
         l.at.part = "hit", l.num \in 0 .. number[s] - 1,
         l.num + 1 = number[s] =>
           WithinHit(l.at, place[s]) \/ place[s] = NextHitPlace(readout[s][l.at.of], l.at)
  PROVE  /\ l.num \in 0 .. number'[s] - 1
         /\ l.num + 1 = number'[s] =>
              WithinHit(l.at, place'[s]) \/ place'[s] = NextHitPlace(readout[s][l.at.of], l.at)
<1>1. /\ place'[s] = NextPlace(Current(s), place[s])
      /\ number'[s] = IF place[s].part = "hit" THEN number[s] + 1 ELSE number[s]
      /\ number[s] \in Nat /\ IsPlace(Current(s), place[s])
  BY AdvanceFacts
<1>2. l.num \in 0 .. number'[s] - 1
  BY <1>1
<1>3. ASSUME l.num + 1 = number'[s]
      PROVE  WithinHit(l.at, place'[s]) \/ place'[s] = NextHitPlace(readout[s][l.at.of], l.at)
  <2>1. place[s].part # "hit" /\ l.num + 1 = number[s]
    BY <1>1, <1>3
  <2>2. NextHitPlace(readout[s][l.at.of], l.at).part = "hit"
    BY DEF NextHitPlace, FirstPlace
  <2>3. WithinHit(l.at, place[s])
    BY <2>1, <2>2
  <2>4. place[s].of = l.at.of /\ place[s].half = l.at.half /\ Current(s) = readout[s][l.at.of]
    BY <2>3 DEF WithinHit, Current
  <2>5. NextHitPlace(Current(s), place[s]) = NextHitPlace(readout[s][l.at.of], l.at)
    BY <2>4 DEF NextHitPlace
  <2>6. CASE place'[s] = NextHitPlace(Current(s), place[s])
    BY <2>5, <2>6
  <2>7. CASE place'[s].of = place[s].of /\ place'[s].half = place[s].half /\ place'[s].part # "hit"
    BY <2>4, <2>7 DEF WithinHit
  <2>. QED
    BY <1>1, <2>6, <2>7, NextPlaceFacts
<1>. QED
  BY <1>2, <1>3

LEMMA LoseLineInv ==
  ASSUME Domains, NEW s \in Sources, WriterInv(s), LoseLine(s)
  PROVE  WriterInv(s)'
<1>1. Advance(s) /\ lines' = lines
  BY DEF LoseLine
<1>2. PlaceInv(s)' /\ readout' = readout /\ Key(place[s]) < Key(place'[s])
      /\ Key(place[s]) \in Nat /\ Key(place'[s]) \in Nat
  BY <1>1, AdvanceFacts
<1>3. \A l : IsLine(s, l)' = IsLine(s, l)
  BY <1>2 DEF IsLine
<1>4. LinesInv(s)'
  <2>1. ASSUME NEW k \in 1 .. Len(lines[s])
        PROVE  IsLine(s, lines[s][k]) /\ Key(lines[s][k].at) < Key(place'[s])
    <3>1. IsLine(s, lines[s][k]) /\ Key(lines[s][k].at) < Key(place[s])
      BY DEF WriterInv, LinesInv
    <3>2. Key(lines[s][k].at) \in Nat
      BY <3>1, NextPlaceFacts DEF IsLine
    <3>. QED
      BY <1>2, <3>1, <3>2
  <2>. QED
    BY <1>1, <1>2, <1>3, <2>1 DEF WriterInv, LinesInv
<1>5. NumberInv(s)'
  <2>1. ASSUME NEW k \in 1 .. Len(lines[s]), lines[s][k].at.part = "hit"
        PROVE  LET p == lines[s][k].at
               IN  /\ lines[s][k].num \in 0 .. number'[s] - 1
                   /\ lines[s][k].num + 1 = number'[s] =>
                        WithinHit(p, place'[s]) \/ place'[s] = NextHitPlace(readout[s][p.of], p)
    BY <1>1, <2>1, NumberKept DEF WriterInv, LinesInv, NumberInv
  <2>. QED
    BY <1>1, <1>2, <2>1 DEF WriterInv, NumberInv
<1>. QED
  BY <1>2, <1>4, <1>5 DEF WriterInv

LEMMA WriteLineInv ==
  ASSUME Domains, NEW s \in Sources, WriterInv(s), WriteLine(s)
  PROVE  WriterInv(s)'
<1>. DEFINE l == LineFor(s, Current(s), place[s], number[s])
            n == Len(lines[s])
<1>1. Advance(s) /\ lines'[s] = Append(lines[s], l)
  BY DEF WriteLine, Domains
<1>2. /\ PlaceInv(s)' /\ readout' = readout
      /\ Key(place[s]) < Key(place'[s]) /\ Key(place[s]) \in Nat /\ Key(place'[s]) \in Nat
      /\ number[s] \in Nat /\ place[s].of \in 1 .. Len(readout[s])
      /\ IsPlace(Current(s), place[s])
      /\ place'[s] = NextPlace(Current(s), place[s])
      /\ number'[s] = IF place[s].part = "hit" THEN number[s] + 1 ELSE number[s]
  BY <1>1, AdvanceFacts
<1>3. \A m : IsLine(s, m)' = IsLine(s, m)
  BY <1>2 DEF IsLine
<1>4. l.at = place[s] /\ IsLine(s, l) /\ (place[s].part = "hit" => l.num = number[s])
  <2>1. Current(s) = readout[s][place[s].of]
    BY DEF Current
  <2>2. l.at = place[s]
    BY <1>2, LineAtPlace
  <2>3. ASSUME place[s].part = "hit" PROVE l.num = number[s]
    BY <2>3 DEF LineFor, HitLine
  <2>. QED
    BY <1>2, <2>1, <2>2, <2>3 DEF IsLine
<1>5. /\ IsSeq(lines'[s]) /\ Len(lines'[s]) = n + 1 /\ n \in Nat
      /\ \A k \in 1 .. n : lines'[s][k] = lines[s][k]
      /\ lines'[s][n + 1] = l
  BY <1>1, AppendIsSeq, IsSeqFacts DEF WriterInv, LinesInv
<1>. HIDE DEF l, n
<1>6. ASSUME NEW k \in 1 .. n
      PROVE  /\ IsLine(s, lines[s][k]) /\ Key(lines[s][k].at) \in Nat
             /\ Key(lines[s][k].at) < Key(place[s])
  <2>1. IsLine(s, lines[s][k]) /\ Key(lines[s][k].at) < Key(place[s])
    BY DEF WriterInv, LinesInv, n
  <2>. QED
    BY <2>1, NextPlaceFacts DEF IsLine
<1>7. LinesInv(s)'
  <2>1. ASSUME NEW k \in 1 .. n + 1
        PROVE  IsLine(s, lines'[s][k]) /\ Key(lines'[s][k].at) < Key(place'[s])
    <3>1. CASE k \in 1 .. n
      <4>1. lines'[s][k] = lines[s][k]
        BY <1>5, <3>1
      <4>. QED
        BY <1>2, <1>6, <3>1, <4>1
    <3>2. CASE k = n + 1
      BY <1>2, <1>4, <1>5, <3>2
    <3>. QED
      BY <1>5, <3>1, <3>2
  <2>2. ASSUME NEW j \in 1 .. n + 1, NEW k \in 1 .. n + 1, j < k
        PROVE  Key(lines'[s][j].at) < Key(lines'[s][k].at)
    <3>1. j \in 1 .. n
      BY <1>5, <2>2
    <3>2. CASE k \in 1 .. n
      BY <1>5, <2>2, <3>1, <3>2 DEF WriterInv, LinesInv, n
    <3>3. CASE k = n + 1
      BY <1>4, <1>5, <1>6, <3>1, <3>3
    <3>. QED
      BY <1>5, <3>2, <3>3
  <2>. QED
    BY <1>3, <1>5, <2>1, <2>2 DEF LinesInv
<1>8. NumberInv(s)'
  <2>. DEFINE Next1(m) == NextHitPlace(readout[s][m.at.of], m.at)
  <2>1. ASSUME NEW k \in 1 .. n, lines[s][k].at.part = "hit"
        PROVE  /\ lines[s][k].num \in 0 .. number[s] - 1
               /\ lines[s][k].num + 1 = number[s] =>
                    WithinHit(lines[s][k].at, place[s]) \/ place[s] = Next1(lines[s][k])
    BY <2>1 DEF WriterInv, NumberInv, n
  <2>2. ASSUME NEW k \in 1 .. n + 1, lines'[s][k].at.part = "hit"
        PROVE  /\ lines'[s][k].num \in 0 .. number'[s] - 1
               /\ lines'[s][k].num + 1 = number'[s] =>
                    WithinHit(lines'[s][k].at, place'[s]) \/ place'[s] = Next1(lines'[s][k])
    <3>1. CASE k \in 1 .. n
      <4>1. lines'[s][k] = lines[s][k]
        BY <1>5, <3>1
      <4>. QED
        BY <1>1, <1>6, <2>1, <2>2, <3>1, <4>1, NumberKept
    <3>2. CASE k = n + 1
      <4>1. lines'[s][k] = l /\ l.num = number[s] /\ number'[s] = number[s] + 1
            /\ l.num \in 0 .. number'[s] - 1 /\ place[s].part = "hit"
        BY <1>2, <1>4, <1>5, <2>2, <3>2
      <4>2. place'[s] = [of |-> place[s].of, half |-> place[s].half, part |-> "data"]
        BY <1>2, <4>1, NextPlaceFacts
      <4>. QED
        BY <1>4, <4>1, <4>2 DEF WithinHit
    <3>. QED
      BY <1>5, <3>1, <3>2
  <2>3. ASSUME NEW j \in 1 .. n + 1, NEW k \in 1 .. n + 1,
               lines'[s][j].at.part = "hit", lines'[s][k].at.part = "hit",
               lines'[s][k].num = lines'[s][j].num + 1
        PROVE  lines'[s][k].at = Next1(lines'[s][j])
    <3>1. CASE j \in 1 .. n /\ k \in 1 .. n
      BY <1>5, <2>3, <3>1 DEF WriterInv, NumberInv, n
    <3>2. CASE j \in 1 .. n /\ k = n + 1
      <4>1. /\ place[s].part = "hit" /\ l.num = number[s] /\ lines'[s][k] = l
            /\ lines'[s][j] = lines[s][j]
        BY <1>4, <1>5, <2>3, <3>2
      <4>2. lines[s][j].num + 1 = number[s]
        BY <2>3, <4>1
      <4>3. ~ WithinHit(lines[s][j].at, place[s])
        BY <4>1 DEF WithinHit
      <4>. QED
        BY <1>4, <2>1, <2>3, <3>2, <4>1, <4>2, <4>3
    <3>3. CASE j = n + 1
      <4>1. lines'[s][j].num = number[s]
        BY <1>4, <1>5, <2>3, <3>3
      <4>2. CASE k \in 1 .. n
        <5>1. lines'[s][k].num \in 0 .. number[s] - 1
          BY <1>5, <2>1, <2>3, <4>2
        <5>. QED
          BY <1>2, <2>3, <4>1, <5>1
      <4>3. CASE k = n + 1
        BY <1>2, <2>3, <3>3, <4>1, <4>3
      <4>. QED
        BY <1>5, <4>2, <4>3
    <3>. QED
      BY <1>5, <3>1, <3>2, <3>3
  <2>. HIDE DEF Next1
  <2>. QED
    BY <1>2, <1>5, <2>2, <2>3 DEF NumberInv, Next1
<1>. QED
  BY <1>2, <1>7, <1>8 DEF WriterInv

-----------------------------------------------------------------------------
(***************************************************************************)
(* The invariant of a file that is read: reading begins when the file is   *)
(* written, and each hit was made of lines that passed all the checks.     *)
(***************************************************************************)
CaloReadAt(s, k, h) ==
  /\ lines[s][k].text = "hit" /\ lines[s][k].type = "CALO"
  /\ Config[s].calo
  /\ CaloParses(s, k)
  /\ h = CaloHit(s, k)

TrackerReadAt(s, k, h) ==
  /\ lines[s][k].text = "hit" /\ lines[s][k].type = "TRACKER"
  /\ Config[s].tracker
  /\ TrackerParses(s, k)
  /\ h = TrackerHit(s, k)

HitsInv(s) ==
  /\ IsSeq(hits[s])
  /\ pos[s] \in Nat \ {0}
  /\ reading[s] \in {"hits", "end", "failed"}
  /\ ~ Written(s) => pos[s] = 1 /\ hits[s] = << >> /\ reading[s] = "hits"
  /\ \A j \in 1 .. Len(hits[s]) : \E k \in 1 .. Len(lines[s]) :
       CaloReadAt(s, k, hits[s][j]) \/ TrackerReadAt(s, k, hits[s][j])

LineSamples(a, b, n) == [i \in 1 .. n |-> << AdcAt(a, i), AdcAt(b, i) >>]

LEMMA ReadFrame ==
  ASSUME NEW s \in Sources, lines'[s] = lines[s], NEW k
  PROVE  /\ CaloParses(s, k)' = CaloParses(s, k)
         /\ CaloHit(s, k)' = CaloHit(s, k)
         /\ TrackerParses(s, k)' = TrackerParses(s, k)
         /\ TrackerHit(s, k)' = TrackerHit(s, k)
<1>1. \A n : LineAt(s, n)' = LineAt(s, n)
  BY DEF LineAt
<1>2. /\ \A c : ChannelLine(s, k, c)' = ChannelLine(s, k, c)
      /\ \A c : SamplesLine(s, k, c)' = SamplesLine(s, k, c)
      /\ SecondHitLine(s, k)' = SecondHitLine(s, k)
  BY <1>1 DEF ChannelLine, SamplesLine, SecondHitLine
<1>3. CaloHit(s, k)' = CaloHit(s, k)
  <2>1. /\ ChannelLine(s, k, 1)' = ChannelLine(s, k, 1)
        /\ ChannelLine(s, k, 2)' = ChannelLine(s, k, 2)
        /\ SamplesLine(s, k, 1)' = SamplesLine(s, k, 1)
        /\ SamplesLine(s, k, 2)' = SamplesLine(s, k, 2)
        /\ lines'[s][k] = lines[s][k]
    BY <1>2
  <2>. DEFINE a == SamplesLine(s, k, 1)
              b == SamplesLine(s, k, 2)
              n == IF Config[s].waveforms THEN Len(a.adc) ELSE 0
              smp == LineSamples(a, b, n)
  <2>2. a' = a /\ b' = b /\ n' = n
    BY <2>1
  <2>3. smp' = smp
    <3>. HIDE DEF n, a, b
    <3>. QED
      BY <2>2
  <2>. QED
    BY <2>1, <2>2, <2>3, Zenon DEF CaloHit, LineSamples
<1>4. CaloParses(s, k)' = CaloParses(s, k)
  BY <1>2, <1>3 DEF CaloParses
<1>5. TrackerHit(s, k)' = TrackerHit(s, k)
  BY <1>1 DEF TrackerHit
<1>6. TrackerParses(s, k)' = TrackerParses(s, k)
  BY <1>1, <1>5 DEF TrackerParses
<1>. QED
  BY <1>3, <1>4, <1>5, <1>6

LEMMA InitHits ==
  ASSUME ReaderInit, NEW s \in Sources
  PROVE  HitsInv(s)
<1>1. pos[s] = 1 /\ reading[s] = "hits" /\ hits[s] = << >>
  BY DEF ReaderInit
<1>2. IsSeq(hits[s]) /\ 1 .. Len(hits[s]) = {}
  BY <1>1, EmptyIsSeq
<1>. QED
  BY <1>1, <1>2 DEF HitsInv

LEMMA HitsFrame ==
  ASSUME NEW s \in Sources, HitsInv(s), readout' = readout, place'[s] = place[s],
         lines'[s] = lines[s], pos'[s] = pos[s], reading'[s] = reading[s], hits'[s] = hits[s]
  PROVE  HitsInv(s)'
<1>1. Written(s)' = Written(s)
  BY DEF Written
<1>2. \A k, h : /\ CaloReadAt(s, k, h)' = CaloReadAt(s, k, h)
                /\ TrackerReadAt(s, k, h)' = TrackerReadAt(s, k, h)
  BY ReadFrame DEF CaloReadAt, TrackerReadAt
<1>. QED
  BY <1>1, <1>2 DEF HitsInv

LEMMA WriterStepHits ==
  ASSUME Domains, NEW s \in Sources, HitsInv(s), WriterStep(s),
         UNCHANGED << pos, reading, hits >>
  PROVE  HitsInv(s)'
<1>1. ~ Written(s)
  BY DEF WriterStep, WriteLine, LoseLine, Advance
<1>2. pos'[s] = 1 /\ hits'[s] = << >> /\ reading'[s] = "hits"
  BY <1>1 DEF HitsInv
<1>3. IsSeq(hits'[s]) /\ 1 .. Len(hits'[s]) = {}
  BY <1>2, EmptyIsSeq
<1>. QED
  BY <1>2, <1>3 DEF HitsInv

LEMMA ReaderStepHits ==
  ASSUME Domains, NEW s \in Sources, WriterInv(s), HitsInv(s), Written(s), ReaderStep(s),
         UNCHANGED writervars
  PROVE  HitsInv(s)'
<1>1. lines' = lines /\ readout' = readout /\ place' = place /\ Written(s)'
  BY DEF ReaderStep, ReadCalo, ReadTracker, ReadFails, EndOfFile, Deliver, writervars, Written
<1>2. \A k, h : /\ CaloReadAt(s, k, h)' = CaloReadAt(s, k, h)
                /\ TrackerReadAt(s, k, h)' = TrackerReadAt(s, k, h)
  BY <1>1, ReadFrame DEF CaloReadAt, TrackerReadAt
<1>3. Len(lines[s]) \in Nat
  BY IsSeqFacts DEF WriterInv, LinesInv
<1>4. ASSUME NEW h, NEW n \in Nat, Deliver(s, h, n), HasNextHit(s),
             CaloReadAt(s, pos[s], h) \/ TrackerReadAt(s, pos[s], h)
      PROVE  HitsInv(s)'
  <2>1. hits'[s] = Append(hits[s], h) /\ pos'[s] = pos[s] + n /\ reading' = reading
    BY <1>4 DEF Deliver, Domains
  <2>2. /\ IsSeq(hits'[s]) /\ Len(hits'[s]) = Len(hits[s]) + 1 /\ Len(hits[s]) \in Nat
        /\ \A j \in 1 .. Len(hits[s]) : hits'[s][j] = hits[s][j]
        /\ hits'[s][Len(hits[s]) + 1] = h
    BY <2>1, AppendIsSeq, IsSeqFacts DEF HitsInv
  <2>3. pos[s] \in 1 .. Len(lines[s])
    BY <1>3, <1>4 DEF HasNextHit, HitsInv
  <2>4. ASSUME NEW j \in 1 .. Len(hits[s]) + 1
        PROVE  \E k \in 1 .. Len(lines[s]) :
                 CaloReadAt(s, k, hits'[s][j]) \/ TrackerReadAt(s, k, hits'[s][j])
    <3>1. CASE j \in 1 .. Len(hits[s])
      BY <2>2, <3>1 DEF HitsInv
    <3>2. CASE j = Len(hits[s]) + 1
      BY <1>4, <2>2, <2>3, <3>2
    <3>. QED
      BY <2>2, <3>1, <3>2
  <2>5. pos'[s] \in Nat \ {0} /\ reading'[s] \in {"hits", "end", "failed"}
    BY <1>4, <2>1 DEF HitsInv
  <2>. QED
    BY <1>1, <1>2, <2>2, <2>4, <2>5 DEF HitsInv
<1>5. CASE ReadCalo(s)
  <2>1. CaloLines(s) \in Nat
    BY DEF CaloLines, LinesPerChannel
  <2>. QED
    BY <1>4, <1>5, <2>1 DEF ReadCalo, CaloIsNext, IsHitLine, CaloReadAt
<1>6. CASE ReadTracker(s)
  BY <1>4, <1>6 DEF ReadTracker, TrackerIsNext, IsHitLine, TrackerReadAt
<1>7. CASE ReadFails(s) \/ EndOfFile(s)
  <2>1. pos' = pos /\ hits' = hits /\ reading'[s] \in {"hits", "end", "failed"}
    BY <1>7 DEF ReadFails, EndOfFile, Domains
  <2>. QED
    BY <1>1, <1>2, <2>1 DEF HitsInv
<1>. QED
  BY <1>5, <1>6, <1>7 DEF ReaderStep

(***************************************************************************)
(* Both invariants for all the files.                                      *)
(***************************************************************************)
FilesInv == Domains /\ \A s \in Sources : WriterInv(s) /\ HitsInv(s)

LEMMA InitFiles ==
  ASSUME Init
  PROVE  FilesInv
<1>1. Domains
  BY DEF Init, WriterInit, ReaderInit, Domains
<1>. QED
  BY <1>1, InitWriter, InitHits DEF Init, FilesInv

LEMMA QuietFiles ==
  ASSUME FilesInv, UNCHANGED << writervars, readervars >>
  PROVE  FilesInv'
<1>1. UNCHANGED << lines, pos, reading, hits, readout, place, number >>
  BY DEF writervars, readervars
<1>2. Domains'
  BY <1>1 DEF FilesInv, Domains
<1>. QED
  BY <1>1, <1>2, WriterFrame, HitsFrame DEF FilesInv

LEMMA WriteFiles ==
  ASSUME FilesInv, NEW s \in Sources, Write(s)
  PROVE  FilesInv'
<1>1. WriterStep(s) /\ UNCHANGED << pos, reading, hits >> /\ UNCHANGED readout
  BY DEF Write, WriterStep, WriteLine, LoseLine, Advance
<1>2. /\ Domains'
      /\ \A t \in Sources \ {s} :
           lines'[t] = lines[t] /\ place'[t] = place[t] /\ number'[t] = number[t]
  BY <1>1 DEF WriterStep, WriteLine, LoseLine, Advance, FilesInv, Domains
<1>3. WriterInv(s)' /\ HitsInv(s)'
  BY <1>1, WriteLineInv, LoseLineInv, WriterStepHits DEF FilesInv, WriterStep
<1>4. ASSUME NEW t \in Sources \ {s} PROVE WriterInv(t)' /\ HitsInv(t)'
  <2>1. t \in Sources /\ WriterInv(t) /\ HitsInv(t)
    BY DEF FilesInv
  <2>. QED
    BY <1>1, <1>2, <2>1, WriterFrame, HitsFrame
<1>. QED
  BY <1>2, <1>3, <1>4 DEF FilesInv

LEMMA ReadFiles ==
  ASSUME FilesInv, NEW s \in Sources, Read(s)
  PROVE  FilesInv'
<1>1. Written(s) /\ ReaderStep(s) /\ UNCHANGED writervars
  BY DEF Read
<1>2. UNCHANGED << lines, readout, place, number >>
  BY <1>1 DEF ReaderStep, ReadCalo, ReadTracker, ReadFails, EndOfFile, Deliver, writervars
<1>3. /\ Domains'
      /\ \A t \in Sources \ {s} :
           pos'[t] = pos[t] /\ reading'[t] = reading[t] /\ hits'[t] = hits[t]
  BY <1>1, <1>2 DEF ReaderStep, ReadCalo, ReadTracker, ReadFails, EndOfFile, Deliver, FilesInv, Domains
<1>4. HitsInv(s)' /\ WriterInv(s)'
  BY <1>1, <1>2, ReaderStepHits, WriterFrame DEF FilesInv
<1>5. ASSUME NEW t \in Sources \ {s} PROVE WriterInv(t)' /\ HitsInv(t)'
  <2>1. t \in Sources /\ WriterInv(t) /\ HitsInv(t)
    BY DEF FilesInv
  <2>. QED
    BY <1>2, <1>3, <2>1, WriterFrame, HitsFrame
<1>. QED
  BY <1>3, <1>4, <1>5 DEF FilesInv

LEMMA QuietSteps ==
  ASSUME (\E s \in Sources : Collect(s)) \/ Convert \/ Ended \/ UNCHANGED vars
  PROVE  UNCHANGED << writervars, readervars >>
  BY DEF Collect, Convert, Ended, vars

(***************************************************************************)
(* The invariant of the files holds in every run.                          *)
(***************************************************************************)
THEOREM FilesInvariant == Spec => []FilesInv
<1>1. Init => FilesInv
  BY InitFiles
<1>2. FilesInv /\ [Next]_vars => FilesInv'
  BY WriteFiles, ReadFiles, QuietFiles, QuietSteps DEF Next
<1>. QED
  BY <1>1, <1>2, PTL DEF Spec

-----------------------------------------------------------------------------
(***************************************************************************)
(* The lines of a file.                                                    *)
(***************************************************************************)
LEMMA LinesAre ==
  ASSUME FilesInv, NEW s \in Sources, NEW k \in 1 .. Len(lines[s])
  PROVE  LET l == lines[s][k]
             r == readout[s][l.at.of]
         IN  /\ l.at.of \in 1 .. Len(readout[s])
             /\ r \in ChipReadouts \cup RegisterReadouts
             /\ IsPlace(r, l.at)
             /\ \E n \in Nat : l = LineFor(s, r, l.at, n)
  BY ReadoutFacts DEF FilesInv, WriterInv, LinesInv, IsLine, Domains

LEMMA HitLineFacts ==
  ASSUME FilesInv, NEW s \in Sources, NEW k \in 1 .. Len(lines[s]), lines[s][k].text = "hit"
  PROVE  /\ lines[s][k].at.part = "hit"
         /\ lines[s][k].num \in Nat
         /\ lines[s][k].type = readout[s][lines[s][k].at.of].type
         /\ lines[s][k].trig = readout[s][lines[s][k].at.of].trig
<1>. DEFINE l == lines[s][k]
            p == l.at
            r == readout[s][p.of]
<1>1. IsPlace(r, p) /\ l.text = "hit"
  BY LinesAre
<1>2. PICK n \in Nat : l = LineFor(s, r, p, n)
  BY LinesAre
<1>3. p.part = "hit" /\ l.num \in Nat /\ l.type = r.type /\ l.trig = r.trig
  <2>. HIDE DEF l, p, r
  <2>1. p.part = "hit"
    BY <1>1, <1>2, LineFacts
  <2>. QED
    BY <1>2, <2>1 DEF LineFor, HitLine
<1>. QED
  BY <1>3

LEMMA ChannelLineFacts ==
  ASSUME FilesInv, NEW s \in Sources, NEW k \in 1 .. Len(lines[s]), lines[s][k].text = "channel"
  PROVE  LET l == lines[s][k]
             r == readout[s][l.at.of]
         IN  /\ l.at.part = "data" /\ r \in ChipReadouts
             /\ l.slot = r.slot /\ l.channel = 2 * r.chip + l.at.half - 1
             /\ l.event = r.event /\ l.tdc = r.tdc /\ l.fcr = r.fcr
             /\ l.lto = r.ch[l.at.half].lto /\ l.ht = r.ch[l.at.half].ht
             /\ l.charge = r.ch[l.at.half].charge
<1>. DEFINE l == lines[s][k]
            p == l.at
            r == readout[s][p.of]
<1>1. IsPlace(r, p) /\ r \in ChipReadouts \cup RegisterReadouts /\ l.text = "channel"
  BY LinesAre
<1>2. PICK n \in Nat : l = LineFor(s, r, p, n)
  BY LinesAre
<1>3. /\ p.part = "data" /\ r \in ChipReadouts
      /\ l.slot = r.slot /\ l.channel = 2 * r.chip + p.half - 1
      /\ l.event = r.event /\ l.tdc = r.tdc /\ l.fcr = r.fcr
      /\ l.lto = r.ch[p.half].lto /\ l.ht = r.ch[p.half].ht
      /\ l.charge = r.ch[p.half].charge
  <2>. HIDE DEF l, p, r
  <2>1. p.part = "data" /\ r.type = "CALO" /\ LineFor(s, r, p, n) = ChannelData(s, r, p)
    BY <1>1, <1>2, LineFacts
  <2>2. r \in ChipReadouts
    BY <1>1, <2>1 DEF RegisterReadouts
  <2>. QED
    BY <1>2, <2>1, <2>2 DEF ChannelData
<1>. QED
  BY <1>3, Zenon

LEMMA TimestampLineFacts ==
  ASSUME FilesInv, NEW s \in Sources, NEW k \in 1 .. Len(lines[s]), lines[s][k].text = "timestamp"
  PROVE  LET l == lines[s][k]
             r == readout[s][l.at.of]
         IN  /\ l.at.part = "data" /\ r \in RegisterReadouts
             /\ l.slot = r.slot /\ l.feast = r.feast /\ l.channel = r.channel
             /\ l.category = r.category /\ l.register = r.register /\ l.time = r.time
<1>. DEFINE l == lines[s][k]
            p == l.at
            r == readout[s][p.of]
<1>1. IsPlace(r, p) /\ r \in ChipReadouts \cup RegisterReadouts /\ l.text = "timestamp"
  BY LinesAre
<1>2. PICK n \in Nat : l = LineFor(s, r, p, n)
  BY LinesAre
<1>3. /\ p.part = "data" /\ r \in RegisterReadouts
      /\ l.slot = r.slot /\ l.feast = r.feast /\ l.channel = r.channel
      /\ l.category = r.category /\ l.register = r.register /\ l.time = r.time
  <2>. HIDE DEF l, p, r
  <2>1. p.part # "hit" /\ ~ (p.part = "data" /\ r.type = "CALO")
    BY <1>1, <1>2, LineFacts
  <2>2. p.part # "samples"
    <3>. SUFFICES ASSUME p.part = "samples" PROVE FALSE
      OBVIOUS
    <3>1. l = SamplesData(r, p)
      BY <1>1, <1>2, LineFacts
    <3>. QED
      BY <1>1, <3>1 DEF SamplesData
  <2>3. p.part \in {"hit", "data", "samples"}
    BY <1>1 DEF IsPlace, Places
  <2>4. p.part = "data" /\ r.type # "CALO" /\ LineFor(s, r, p, n) = TimestampData(s, r, p)
    BY <1>1, <2>1, <2>2, <2>3, LineFacts
  <2>5. r \in RegisterReadouts
    BY <1>1, <2>4 DEF ChipReadouts
  <2>. QED
    BY <1>2, <2>4, <2>5 DEF TimestampData
<1>. QED
  BY <1>3, Zenon

LEMMA PresentLine ==
  ASSUME FilesInv, NEW s \in Sources, NEW m \in Nat \ {0}, LineAt(s, m).text # "none"
  PROVE  m \in 1 .. Len(lines[s]) /\ LineAt(s, m) = lines[s][m]
<1>1. Len(lines[s]) \in Nat
  BY IsSeqFacts DEF FilesInv, WriterInv, LinesInv
<1>2. m <= Len(lines[s])
  BY DEF LineAt, NoLine
<1>. QED
  BY <1>1, <1>2 DEF LineAt

-----------------------------------------------------------------------------
(***************************************************************************)
(* Hits are complete: what the checks of the parsers do not ask for, the   *)
(* formats provide.                                                        *)
(***************************************************************************)
ChannelPlace(s, k, c) == k + 1 + (c - 1) * (LinesPerChannel(s) + 1)

LEMMA CaloChannels ==
  ASSUME FilesInv, NEW s \in Sources, NEW k \in 1 .. Len(lines[s]), CaloParses(s, k), NEW c \in {1, 2}
  PROVE  /\ ChannelPlace(s, k, c) \in 1 .. Len(lines[s])
         /\ ChannelLine(s, k, c) = lines[s][ChannelPlace(s, k, c)]
         /\ ChannelLine(s, k, c).text = "channel"
<1>. DEFINE m == ChannelPlace(s, k, c)
<1>1. m \in Nat \ {0}
  BY DEF ChannelPlace, LinesPerChannel
<1>2. ChannelLine(s, k, c) = LineAt(s, m) /\ ChannelLine(s, k, c).text = "channel"
  BY DEF CaloParses, IsChannelLine, ChannelLine, ChannelPlace
<1>. HIDE DEF m
<1>3. m \in 1 .. Len(lines[s]) /\ LineAt(s, m) = lines[s][m]
  BY <1>1, <1>2, PresentLine
<1>. QED
  BY <1>2, <1>3 DEF m

IsSampled(h) == IsSeq(h.samples) /\ (h.waveforms => h.nsamples = Len(h.samples))

NoInvalidNumber(h) ==
  h.crate # INVALID_NUMBER /\ h.board # INVALID_NUMBER /\ h.chip # INVALID_NUMBER

LEMMA CaloHitIsComplete ==
  ASSUME FilesInv, NEW s \in Sources, NEW k \in 1 .. Len(lines[s]), NEW h, CaloReadAt(s, k, h)
  PROVE  /\ h.type = "CALO" /\ IsSampled(h)
         /\ NoInvalidNumber(h) => CaloComplete(h)
<1>. DEFINE w  == Config[s].waveforms
            n  == IF w THEN Len(SamplesLine(s, k, 1).adc) ELSE 0
            smp(i) == << AdcAt(SamplesLine(s, k, 1), i), AdcAt(SamplesLine(s, k, 2), i) >>
<1>1. /\ h.type = "CALO" /\ h.waveforms = w
      /\ h.start = IF w THEN 0 ELSE SAMLONG_INVALID_SAMPLE
      /\ h.nsamples = n /\ h.samples = [i \in 1 .. n |-> smp(i)]
  BY DEF CaloReadAt, CaloHit
<1>2. ~ MakeCaloThrows(h)
  BY DEF CaloReadAt, CaloParses
<1>. HIDE DEF smp
<1>3. ASSUME w PROVE n \in 1 .. SAMLONG_MAX_NUMBER_OF_SAMPLES
  <2>1. h.waveforms
    BY <1>1, <1>3
  <2>2. h.nsamples \in 1 .. SAMLONG_MAX_NUMBER_OF_SAMPLES
    BY <1>2, <2>1 DEF MakeCaloThrows
  <2>. QED
    BY <1>1, <2>2
<1>4. n \in Nat
  <2>1. CASE w
    <3>1. n \in 1 .. SAMLONG_MAX_NUMBER_OF_SAMPLES
      BY <1>3, <2>1
    <3>. HIDE DEF n
    <3>. QED
      BY <3>1 DEF SAMLONG_MAX_NUMBER_OF_SAMPLES
  <2>2. CASE ~ w
    BY <2>2
  <2>. QED
    BY <2>1, <2>2
<1>. HIDE DEF n
<1>5. h.samples \in Seq({smp(i) : i \in 1 .. n}) /\ Len(h.samples) = n
  <2>. DEFINE S == {smp(i) : i \in 1 .. n}
  <2>1. \A i \in 1 .. n : smp(i) \in S
    OBVIOUS
  <2>. HIDE DEF S
  <2>2. [i \in 1 .. n |-> smp(i)] \in [1 .. n -> S]
    BY <2>1
  <2>3. [i \in 1 .. n |-> smp(i)] \in Seq(S)
    BY <1>4, <2>2, SeqDef
  <2>4. Len([i \in 1 .. n |-> smp(i)]) = n
    BY <1>4
  <2>. QED
    BY <1>1, <2>3, <2>4 DEF S
<1>6. IsSeq(h.samples)
  BY <1>5, SeqIsSeq
<1>7. h.hit # INVALID_NUMBER /\ h.trig # INVALID_NUMBER
  BY <1>2 DEF MakeCaloThrows, INVALID_NUMBER
<1>8. h.tdc # Invalid64
  <2>1. ~ TdcOverflows(h.tdc)
    BY <1>2 DEF MakeCaloThrows
  <2>2. TdcOverflows(Invalid64)
    BY DEF TdcOverflows, Invalid64
  <2>. QED
    BY <2>1, <2>2
<1>9. h.l2 # INVALID_NUMBER_16U /\ h.fcr # SAMLONG_INVALID_SAMPLE
  BY <1>2 DEF MakeCaloThrows, INVALID_NUMBER_16U, SAMLONG_INVALID_SAMPLE
<1>10. ASSUME h.waveforms
       PROVE  h.start # SAMLONG_INVALID_SAMPLE /\ h.nsamples # 0 /\ h.nsamples = Len(h.samples)
  <2>1. w
    BY <1>1, <1>10
  <2>2. h.start = 0 /\ n \in 1 .. SAMLONG_MAX_NUMBER_OF_SAMPLES
    BY <1>1, <1>3, <2>1
  <2>. QED
    BY <1>1, <1>5, <2>2 DEF SAMLONG_INVALID_SAMPLE, SAMLONG_MAX_NUMBER_OF_SAMPLES
<1>. QED
  BY <1>1, <1>6, <1>7, <1>8, <1>9, <1>10, Zenon DEF CaloComplete, IsSampled, NoInvalidNumber

(***************************************************************************)
(* A number of a readout that fits into 16 bits is the one in the hit.     *)
(***************************************************************************)
LEMMA CaloHitNumbers ==
  ASSUME FilesInv, NEW s \in Sources, NEW k \in 1 .. Len(lines[s]), NEW h, CaloReadAt(s, k, h),
         \A n \in DOMAIN readout[s] : NumbersFit(readout[s][n])
  PROVE  NoInvalidNumber(h)
<1>. DEFINE m == ChannelPlace(s, k, 1)
            l == lines[s][m]
            p == l.at
            r == readout[s][p.of]
            c == 2 * r.chip + p.half - 1
<1>1. m \in 1 .. Len(lines[s]) /\ ChannelLine(s, k, 1) = l /\ l.text = "channel"
  BY CaloChannels DEF CaloReadAt
<1>. HIDE DEF m
<1>2. r \in ChipReadouts /\ IsPlace(r, p) /\ l.slot = r.slot /\ l.channel = c
  BY <1>1, ChannelLineFacts, LinesAre
<1>3. NumbersFit(r)
  <2>1. p.of \in DOMAIN readout[s]
    BY <1>1, LinesAre, ReadoutFacts DEF FilesInv, Domains
  <2>. QED
    BY <2>1
<1>4. /\ h.crate = Config[s].crate
      /\ h.board = ToInt16(l.slot) /\ h.chip = ToInt16(l.channel \div 2)
  BY <1>1 DEF CaloReadAt, CaloHit
<1>. HIDE DEF l, p, r
<1>5. r.slot \in Nat /\ r.chip \in Nat /\ r.type = "CALO" /\ p.half \in {1, 2}
  BY <1>2 DEF ChipReadouts, IsPlace, Places
<1>6. c \div 2 = r.chip
  BY <1>5
<1>7. h.board = r.slot /\ h.chip = r.chip
  <2>1. h.chip = ToInt16(r.chip)
    BY <1>2, <1>4, <1>6
  <2>. QED
    BY <1>2, <1>3, <1>4, <1>5, <2>1 DEF NumbersFit, Fits16
<1>. QED
  BY <1>4, <1>5, <1>7, WriterAssumption DEF NoInvalidNumber, INVALID_NUMBER

LEMMA SmallNumbers ==
  /\ ToInt16(0) = 0 /\ ToInt16(1) = 1
  /\ \A v \in 0 .. SAMPLE_ADC_MAX : v % 65536 = v
  BY DEF ToInt16, SAMPLE_ADC_MAX

LEMMA TrackerHitIsComplete ==
  ASSUME FilesInv, NEW s \in Sources, NEW k \in 1 .. Len(lines[s]), NEW h, TrackerReadAt(s, k, h)
  PROVE  /\ h.type = "TRACKER"
         /\ (\A n \in DOMAIN readout[s] : NumbersFit(readout[s][n])) => TrackerComplete(h)
<1>. DEFINE m == k + 1
            l == lines[s][m]
            r == readout[s][l.at.of]
<1>1. LineAt(s, m).text = "timestamp" /\ ~ MakeTrackerThrows(h) /\ h = TrackerHit(s, k)
  BY DEF TrackerReadAt, TrackerParses, IsTimestampLine
<1>2. m \in 1 .. Len(lines[s]) /\ LineAt(s, m) = l
  BY <1>1, PresentLine
<1>3. /\ h.type = "TRACKER" /\ h.crate = Config[s].crate /\ h.board = ToInt16(l.slot)
      /\ h.chip = ToInt16(l.feast) /\ h.channel = ToInt16(l.channel) /\ h.time = l.time
  BY <1>1, <1>2 DEF TrackerHit
<1>4. /\ r \in RegisterReadouts
      /\ l.slot = r.slot /\ l.feast = r.feast /\ l.channel = r.channel /\ l.time = r.time
  BY <1>1, <1>2, TimestampLineFacts
<1>5. r \in RegisterReadouts => l.at.of \in DOMAIN readout[s]
  BY <1>2, LinesAre, ReadoutFacts DEF FilesInv, Domains
<1>. SUFFICES ASSUME \A n \in DOMAIN readout[s] : NumbersFit(readout[s][n])
              PROVE  TrackerComplete(h)
  BY <1>3
<1>6. NumbersFit(r)
  BY <1>4, <1>5
<1>. HIDE DEF l, r
<1>7. r.slot \in Nat /\ r.feast \in {0, 1} /\ r.channel \in Nat /\ r.time # Invalid64 /\ r.type = "TRACKER"
  BY <1>4 DEF RegisterReadouts
<1>8. ToInt16(0) = 0 /\ ToInt16(1) = 1
  BY SmallNumbers
<1>9. h.board \in Nat /\ h.chip \in Nat /\ h.channel \in Nat
  BY <1>3, <1>4, <1>6, <1>7, <1>8 DEF NumbersFit, Fits16
<1>10. h.hit # INVALID_NUMBER /\ h.trig # INVALID_NUMBER /\ h.category # "undef" /\ h.register # "undef"
  BY <1>1 DEF MakeTrackerThrows, INVALID_NUMBER
<1>11. h.crate # INVALID_NUMBER /\ h.board # INVALID_NUMBER /\ h.chip # INVALID_NUMBER
      /\ h.channel # INVALID_NUMBER
  BY <1>3, <1>9, WriterAssumption DEF INVALID_NUMBER
<1>. QED
  BY <1>3, <1>4, <1>7, <1>10, <1>11 DEF TrackerComplete

(***************************************************************************)
(* Every hit that crd2rhd delivers out of a file whose numbers fit into 16 *)
(* bits is complete, so that rhd2rtd accepts it, whatever lines the file   *)
(* has lost.                                                               *)
(***************************************************************************)
THEOREM HitsAreComplete == Spec => []HitsComplete
<1>1. FilesInv => HitsComplete
  <2>. SUFFICES ASSUME FilesInv, NEW s \in Sources, NEW j \in DOMAIN hits[s],
                       \A n \in DOMAIN readout[s] : NumbersFit(readout[s][n])
                PROVE  HitComplete(hits[s][j])
    BY DEF HitsComplete
  <2>1. j \in 1 .. Len(hits[s])
    BY IsSeqFacts DEF FilesInv, HitsInv
  <2>2. PICK k \in 1 .. Len(lines[s]) :
          CaloReadAt(s, k, hits[s][j]) \/ TrackerReadAt(s, k, hits[s][j])
    BY <2>1 DEF FilesInv, HitsInv
  <2>. QED
    BY <2>2, CaloHitIsComplete, CaloHitNumbers, TrackerHitIsComplete DEF HitComplete
<1>. QED
  BY <1>1, FilesInvariant, PTL

-----------------------------------------------------------------------------
(***************************************************************************)
(* Damage is seen.  The number of the second HIT line is that of the next  *)
(* hit, so the first channel line, which is between the two, belongs to    *)
(* the first.  The second channel line comes after the second HIT line; if *)
(* it is not of the same chip readout, it is of a later one that agrees in *)
(* all that the parser compares.                                           *)
(***************************************************************************)
LEMMA LinesOrdered ==
  ASSUME FilesInv, NEW s \in Sources, NEW j \in 1 .. Len(lines[s]), NEW k \in 1 .. Len(lines[s]), j < k
  PROVE  /\ lines[s][j].at \in Places /\ lines[s][k].at \in Places
         /\ Key(lines[s][j].at) < Key(lines[s][k].at)
<1>1. Key(lines[s][j].at) < Key(lines[s][k].at)
  BY DEF FilesInv, WriterInv, LinesInv
<1>. QED
  BY <1>1, LinesAre DEF IsPlace

LEMMA SecondHit ==
  ASSUME FilesInv, NEW s \in Sources, NEW k \in 1 .. Len(lines[s]), NEW h, CaloReadAt(s, k, h)
  PROVE  LET m == k + 1 + LinesPerChannel(s)
         IN  /\ m \in 1 .. Len(lines[s])
             /\ lines[s][m].at = NextHitPlace(readout[s][lines[s][k].at.of], lines[s][k].at)
<1>. DEFINE m == k + 1 + LinesPerChannel(s)
<1>1. m \in Nat \ {0}
  BY DEF LinesPerChannel
<1>2. /\ LineAt(s, m).text = "hit" /\ LineAt(s, m).num = lines[s][k].num + 1
      /\ lines[s][k].text = "hit"
  BY DEF CaloReadAt, CaloParses, HalvesFollow, SecondHitLine
<1>. HIDE DEF m
<1>3. m \in 1 .. Len(lines[s]) /\ LineAt(s, m) = lines[s][m]
  BY <1>1, <1>2, PresentLine
<1>4. lines[s][k].at.part = "hit" /\ lines[s][m].at.part = "hit"
  BY <1>2, <1>3, HitLineFacts
<1>5. lines[s][m].num = lines[s][k].num + 1
  BY <1>2, <1>3
<1>6. lines[s][m].at = NextHitPlace(readout[s][lines[s][k].at.of], lines[s][k].at)
  BY <1>3, <1>4, <1>5 DEF FilesInv, WriterInv, NumberInv
<1>. QED
  BY <1>3, <1>6 DEF m

\* Only the line of data is between the HIT line of a half and the next one, by their keys.
LEMMA Sixths ==
  ASSUME NEW a \in Nat, NEW b \in Nat, NEW h \in {1, 2}
  PROVE  /\ 6 * a + 3 < 6 * b + 3 * h + 1 /\ 6 * b + 3 * h + 1 < 6 * a + 6 => b = a /\ h = 1
         /\ 6 * a + 6 < 6 * b + 3 * h + 1 /\ 6 * b + 3 * h + 1 < 6 * a + 9 => b = a /\ h = 2
<1>1. CASE h = 1
  BY <1>1
<1>2. CASE h = 2
  BY <1>2
<1>. QED
  BY <1>1, <1>2

LEMMA FourLines ==
  ASSUME FilesInv, NEW s \in Sources, NEW k \in 1 .. Len(lines[s]), NEW h, CaloReadAt(s, k, h)
  PROVE  LET p  == lines[s][k].at
             p0 == lines[s][ChannelPlace(s, k, 1)].at
             p1 == lines[s][ChannelPlace(s, k, 2)].at
         IN  /\ p0 \in Places /\ p1 \in Places
             /\ p0.of = p.of /\ p0.half = p.half
             /\ p.half = 1 => p1.of > p.of \/ (p1.of = p.of /\ p1.half = 2)
             /\ p.half = 2 => p1.of > p.of
<1>. DEFINE m  == k + 1 + LinesPerChannel(s)
            m0 == ChannelPlace(s, k, 1)
            m1 == ChannelPlace(s, k, 2)
            p  == lines[s][k].at
            p0 == lines[s][m0].at
            p1 == lines[s][m1].at
            q  == lines[s][m].at
            r  == readout[s][p.of]
<1>1. m0 \in 1 .. Len(lines[s]) /\ m1 \in 1 .. Len(lines[s]) /\ m \in 1 .. Len(lines[s])
  BY CaloChannels, SecondHit DEF CaloReadAt
<1>2. k < m0 /\ m0 < m /\ m < m1
  BY DEF ChannelPlace, LinesPerChannel
<1>3. /\ q = NextHitPlace(r, p) /\ r.type = "CALO" /\ p.part = "hit"
  BY SecondHit, HitLineFacts DEF CaloReadAt
<1>4. lines[s][m0].text = "channel"
  BY CaloChannels DEF CaloReadAt
<1>5. p0.part = "data"
  BY <1>1, <1>4, ChannelLineFacts
<1>. HIDE DEF m, m0, m1
<1>6. /\ p \in Places /\ p0 \in Places /\ p1 \in Places /\ q \in Places
      /\ Key(p) < Key(p0) /\ Key(p0) < Key(q) /\ Key(q) < Key(p1)
  BY <1>1, <1>2, LinesOrdered
<1>. HIDE DEF p, p0, p1, q, r
<1>7. CASE p.half = 1
  <2>1. q.of = p.of /\ q.half = 2 /\ q.part = "hit"
    BY <1>3, <1>7 DEF NextHitPlace
  <2>2. p0.of = p.of /\ p0.half = p.half
    <3>1. p.of \in Nat /\ p0.of \in Nat /\ p0.half \in {1, 2}
      BY <1>6 DEF Places
    <3>2. Key(p) = 6 * p.of + 3 /\ Key(q) = 6 * p.of + 6
      BY <1>3, <1>7, <2>1, <3>1 DEF Key, PartKey
    <3>3. Key(p0) = 6 * p0.of + 3 * p0.half + 1
      BY <1>5, <3>1 DEF Key, PartKey
    <3>4. 6 * p.of + 3 < 6 * p0.of + 3 * p0.half + 1 /\ 6 * p0.of + 3 * p0.half + 1 < 6 * p.of + 6
      BY <1>6, <3>2, <3>3
    <3>. QED
      BY <1>7, <3>1, <3>4, Sixths
  <2>3. p1.of > p.of \/ (p1.of = p.of /\ p1.half = 2)
    BY <1>6, <2>1 DEF Key, PartKey, Places
  <2>. QED
    BY <1>6, <1>7, <2>2, <2>3 DEF p, p0, p1, m0, m1
<1>8. CASE p.half = 2
  <2>1. q.of = p.of + 1 /\ q.half = 1 /\ q.part = "hit"
    BY <1>3, <1>8 DEF NextHitPlace, FirstPlace
  <2>2. p0.of = p.of /\ p0.half = p.half
    <3>1. p.of \in Nat /\ p0.of \in Nat /\ p0.half \in {1, 2}
      BY <1>6 DEF Places
    <3>2. Key(p) = 6 * p.of + 6 /\ Key(q) = 6 * p.of + 9
      BY <1>3, <1>8, <2>1, <3>1 DEF Key, PartKey
    <3>3. Key(p0) = 6 * p0.of + 3 * p0.half + 1
      BY <1>5, <3>1 DEF Key, PartKey
    <3>4. 6 * p.of + 6 < 6 * p0.of + 3 * p0.half + 1 /\ 6 * p0.of + 3 * p0.half + 1 < 6 * p.of + 9
      BY <1>6, <3>2, <3>3
    <3>. QED
      BY <1>8, <3>1, <3>4, Sixths
  <2>3. p1.of > p.of
    BY <1>6, <2>1 DEF Key, PartKey, Places
  <2>. QED
    BY <1>6, <1>8, <2>2, <2>3 DEF p, p0, p1, m0, m1
<1>. QED
  BY <1>6, <1>7, <1>8 DEF Places

LEMMA SameChannel ==
  ASSUME NEW s, NEW l, NEW c, l.lto = c.lto, l.ht = c.ht, l.charge = c.charge,
         c.lto \in BOOLEAN, c.ht \in BOOLEAN
  PROVE  SameFeatures(s, ChannelOf(s, l), c)
<1>1. ChannelOf(s, l).charge = ToInt16(c.charge)
  BY DEF ChannelOf
<1>2. ASSUME HasFlags(s) PROVE ChannelOf(s, l).ht = c.ht
  BY <1>2 DEF ChannelOf
<1>3. ASSUME HasFlags(s) PROVE ChannelOf(s, l).lt = (c.ht \/ c.lto)
  BY <1>3 DEF ChannelOf
<1>. QED
  BY <1>1, <1>2, <1>3 DEF SameFeatures

LEMMA HitIsOfReadout ==
  ASSUME FilesInv, NEW s \in Sources, NEW k \in 1 .. Len(lines[s]), NEW h, CaloReadAt(s, k, h)
  PROVE  \/ Confusable(s) /\ lines[s][ChannelPlace(s, k, 2)].at.of # lines[s][k].at.of
         \/ IsReadoutOf(s, h, readout[s][lines[s][k].at.of])
<1>. DEFINE a  == lines[s][k]
            l0 == lines[s][ChannelPlace(s, k, 1)]
            l1 == lines[s][ChannelPlace(s, k, 2)]
            p  == a.at
            p0 == l0.at
            p1 == l1.at
            r  == readout[s][p.of]
            q  == readout[s][p1.of]
<1>1. /\ ChannelPlace(s, k, 1) \in 1 .. Len(lines[s]) /\ ChannelLine(s, k, 1) = l0
      /\ ChannelPlace(s, k, 2) \in 1 .. Len(lines[s]) /\ ChannelLine(s, k, 2) = l1
      /\ l0.text = "channel" /\ l1.text = "channel"
  BY CaloChannels DEF CaloReadAt
<1>2. /\ p.half \in {1, 2} /\ p.of \in 1 .. Len(readout[s]) /\ p1.of \in 1 .. Len(readout[s])
      /\ p1.half \in {1, 2} /\ Len(readout[s]) \in Nat /\ DOMAIN readout[s] = 1 .. Len(readout[s])
  BY <1>1, LinesAre, ReadoutFacts DEF IsPlace, Places, FilesInv, Domains
<1>3. /\ p0.of = p.of /\ p0.half = p.half
      /\ p.half = 1 => p1.of > p.of \/ (p1.of = p.of /\ p1.half = 2)
      /\ p.half = 2 => p1.of > p.of
  BY FourLines
<1>4. /\ r \in ChipReadouts
      /\ l0.slot = r.slot /\ l0.channel = 2 * r.chip + p.half - 1
      /\ l0.event = r.event /\ l0.tdc = r.tdc /\ l0.fcr = r.fcr
      /\ l0.lto = r.ch[p.half].lto /\ l0.ht = r.ch[p.half].ht
      /\ l0.charge = r.ch[p.half].charge
  <2>. DEFINE t == readout[s][p0.of]
  <2>1. /\ t \in ChipReadouts
        /\ l0.slot = t.slot /\ l0.channel = 2 * t.chip + p0.half - 1
        /\ l0.event = t.event /\ l0.tdc = t.tdc /\ l0.fcr = t.fcr
        /\ l0.lto = t.ch[p0.half].lto /\ l0.ht = t.ch[p0.half].ht
        /\ l0.charge = t.ch[p0.half].charge
    BY <1>1, ChannelLineFacts
  <2>2. t = r /\ p0.half = p.half
    BY <1>3
  <2>. HIDE DEF a, l0, p, p0, t, r
  <2>. QED
    BY <2>1, <2>2
<1>5. /\ q \in ChipReadouts
      /\ l1.slot = q.slot /\ l1.channel = 2 * q.chip + p1.half - 1
      /\ l1.event = q.event /\ l1.tdc = q.tdc /\ l1.fcr = q.fcr
      /\ l1.lto = q.ch[p1.half].lto /\ l1.ht = q.ch[p1.half].ht
      /\ l1.charge = q.ch[p1.half].charge
  BY <1>1, ChannelLineFacts
<1>6. /\ l0.slot = l1.slot /\ l1.channel = l0.channel + 1
      /\ l0.event = l1.event /\ l0.tdc = l1.tdc /\ l0.fcr = l1.fcr
  BY <1>1 DEF CaloReadAt, CaloParses, ChannelsPair
<1>7. /\ h.trig = a.trig /\ a.trig = r.trig
      /\ h.board = ToInt16(l0.slot) /\ h.chip = ToInt16(l0.channel \div 2) /\ h.tdc = l0.tdc
      /\ h.fcr = l0.fcr % 1024
      /\ h.ch[1] = ChannelOf(s, l0) /\ h.ch[2] = ChannelOf(s, l1)
  <2>1. a.trig = r.trig
    BY HitLineFacts DEF CaloReadAt
  <2>. QED
    BY <1>1, <2>1 DEF CaloReadAt, CaloHit
<1>. HIDE DEF a, l0, l1, p, p0, p1
<1>8. r.chip \in Nat /\ q.chip \in Nat /\ r.type = "CALO" /\ q.type = "CALO" /\ r.fcr \in 0 .. 1023
  <2>1. \A x \in ChipReadouts : x.chip \in Nat /\ x.type = "CALO" /\ x.fcr \in 0 .. 1023
    BY DEF ChipReadouts
  <2>. HIDE DEF r, q, ChipReadouts
  <2>2. r \in ChipReadouts /\ q \in ChipReadouts
    BY <1>4, <1>5
  <2>. QED
    BY <2>1, <2>2
<1>9. CASE p1.of # p.of
  <2>1. p.of < p1.of
    BY <1>2, <1>3, <1>9
  <2>2. q.chip - r.chip \in {0, 1}
    <3>1. 2 * q.chip + p1.half - 1 = 2 * r.chip + p.half - 1 + 1
      BY <1>4, <1>5, <1>6
    <3>. HIDE DEF r, q
    <3>. QED
      BY <1>2, <1>8, <3>1
  <2>3. Alike(r, q)
    BY <1>4, <1>5, <1>6, <1>8, <2>2 DEF Alike
  <2>4. Confusable(s)
    BY <1>2, <2>1, <2>3 DEF Confusable
  <2>. QED
    BY <1>9, <2>4 DEF p, p1, a, l1
<1>10. CASE p1.of = p.of
  <2>1. p.half = 1 /\ p1.half = 2 /\ q = r
    BY <1>2, <1>3, <1>10
  <2>. HIDE DEF r, q
  <2>2. h.chip = ToInt16(r.chip)
    <3>1. (2 * r.chip + 1 - 1) \div 2 = r.chip
      BY <1>8
    <3>. QED
      BY <1>4, <1>7, <2>1, <3>1
  <2>3. h.fcr = r.fcr
    <3>. DEFINE f == r.fcr
    <3>1. h.fcr = f % 1024
      BY <1>4, <1>7
    <3>2. f % 1024 = f
      <4>1. f \in 0 .. 1023
        BY <1>8
      <4>. HIDE DEF f
      <4>. QED
        BY <4>1
    <3>. QED
      BY <3>1, <3>2
  <2>4. /\ r.ch[1].lto \in BOOLEAN /\ r.ch[1].ht \in BOOLEAN
        /\ r.ch[2].lto \in BOOLEAN /\ r.ch[2].ht \in BOOLEAN
    BY <1>4 DEF ChipReadouts, ChannelReadouts
  <2>5. SameFeatures(s, h.ch[1], r.ch[1])
    BY <1>4, <1>7, <2>1, <2>4, SameChannel
  <2>6. SameFeatures(s, h.ch[2], r.ch[2])
    BY <1>5, <1>7, <2>1, <2>4, SameChannel
  <2>7. \A c \in 1 .. 2 : SameFeatures(s, h.ch[c], r.ch[c])
    BY <2>5, <2>6
  <2>8. IsReadoutOf(s, h, r)
    BY <1>4, <1>7, <1>8, <2>2, <2>3, <2>7 DEF IsReadoutOf
  <2>. QED
    BY <2>8 DEF r, p, a
<1>. QED
  BY <1>9, <1>10

(***************************************************************************)
(* Whatever lines the file of the damaged source has lost, every           *)
(* calorimeter hit joins the two channels of one chip readout, unless two  *)
(* chips of the source are confusable.                                     *)
(***************************************************************************)
THEOREM DamageShows == Spec => []DamageIsSeen
<1>1. FilesInv => DamageIsSeen
  <2>. SUFFICES ASSUME FilesInv, NEW s \in Sources, NEW j \in DOMAIN hits[s],
                       hits[s][j].type = "CALO", ~ Confusable(s)
                PROVE  \E n \in DOMAIN readout[s] : IsReadoutOf(s, hits[s][j], readout[s][n])
    BY DEF DamageIsSeen
  <2>1. j \in 1 .. Len(hits[s])
    BY IsSeqFacts DEF FilesInv, HitsInv
  <2>2. PICK k \in 1 .. Len(lines[s]) :
          CaloReadAt(s, k, hits[s][j]) \/ TrackerReadAt(s, k, hits[s][j])
    BY <2>1 DEF FilesInv, HitsInv
  <2>3. CaloReadAt(s, k, hits[s][j])
    BY <2>2, TrackerHitIsComplete
  <2>4. IsReadoutOf(s, hits[s][j], readout[s][lines[s][k].at.of])
    BY <2>3, HitIsOfReadout
  <2>5. lines[s][k].at.of \in DOMAIN readout[s]
    BY LinesAre, ReadoutFacts DEF FilesInv, Domains
  <2>. QED
    BY <2>4, <2>5
<1>. QED
  BY <1>1, FilesInvariant, PTL

-----------------------------------------------------------------------------
(***************************************************************************)
(* The invariant of a whole file.  CountInv: the next hit has the next     *)
(* number.  ChainInv: in a file with all its lines each line is followed   *)
(* by that of the next place.                                              *)
(***************************************************************************)
Readout(s, p) == readout[s][p.of]

CountInv(s) ==
  /\ \A k \in 1 .. Len(lines[s]) : lines[s][k].at.part = "hit" =>
       LET p == lines[s][k].at
       IN  WithinHit(p, place[s]) \/ place[s] = NextHitPlace(Readout(s, p), p) =>
             lines[s][k].num + 1 = number[s]
  /\ \A j, k \in 1 .. Len(lines[s]) :
       lines[s][j].at.part = "hit" /\ lines[s][k].at.part = "hit" =>
         LET p == lines[s][j].at
         IN  lines[s][k].at = NextHitPlace(Readout(s, p), p) =>
               lines[s][k].num = lines[s][j].num + 1

ChainInv(s) ==
  /\ Len(lines[s]) = 0 => place[s] = FirstPlace(1)
  /\ Len(lines[s]) > 0 => lines[s][1].at = FirstPlace(1)
  /\ \A k \in 1 .. Len(lines[s]) :
       LET p == lines[s][k].at
       IN  NextPlace(Readout(s, p), p) = IF k < Len(lines[s]) THEN lines[s][k + 1].at ELSE place[s]

WholeInv(s) == CountInv(s) /\ (Intact(s) => ChainInv(s))

LEMMA NextHitKey ==
  ASSUME NEW r, NEW p, IsPlace(r, p), p.part = "hit" \/ NextPlace(r, p) = NextHitPlace(r, p)
  PROVE  Key(p) \in Nat /\ Key(NextHitPlace(r, p)) \in Nat /\ Key(p) < Key(NextHitPlace(r, p))
<1>1. CASE r.type = "CALO" /\ p.half = 1
  <2>1. NextHitPlace(r, p) = [of |-> p.of, half |-> 2, part |-> "hit"]
    BY <1>1 DEF NextHitPlace
  <2>. QED
    BY <1>1, <2>1 DEF IsPlace, Places, Key, PartKey
<1>2. CASE ~ (r.type = "CALO" /\ p.half = 1)
  <2>1. NextHitPlace(r, p) = [of |-> p.of + 1, half |-> 1, part |-> "hit"]
    BY <1>2 DEF NextHitPlace, FirstPlace
  <2>. QED
    BY <1>2, <2>1 DEF IsPlace, Places, Key, PartKey
<1>. QED
  BY <1>1, <1>2

(***************************************************************************)
(* Two places of one readout with the same next hit are of the same half.  *)
(***************************************************************************)
LEMMA SameNextHit ==
  ASSUME NEW s, NEW p, NEW q, IsPlace(Readout(s, p), p), IsPlace(Readout(s, q), q),
         NextHitPlace(Readout(s, p), p) = NextHitPlace(Readout(s, q), q)
  PROVE  p.of = q.of /\ p.half = q.half
<1>1. p \in Places /\ q \in Places
  BY DEF IsPlace
<1>2. ASSUME NEW r, NEW x
      PROVE  /\ r.type = "CALO" /\ x.half = 1 =>
                  NextHitPlace(r, x).of = x.of /\ NextHitPlace(r, x).half = 2
             /\ ~ (r.type = "CALO" /\ x.half = 1) =>
                  NextHitPlace(r, x).of = x.of + 1 /\ NextHitPlace(r, x).half = 1
  BY DEF NextHitPlace, FirstPlace
<1>3. p.of = q.of
  BY <1>1, <1>2 DEF Places
<1>4. Readout(s, p) = Readout(s, q)
  BY <1>3 DEF Readout
<1>. QED
  BY <1>1, <1>2, <1>3, <1>4 DEF IsPlace, Places

LEMMA InitWhole ==
  ASSUME WriterInit, NEW s \in Sources
  PROVE  WholeInv(s)
<1>1. Len(lines[s]) = 0 /\ 1 .. Len(lines[s]) = {} /\ place[s] = FirstPlace(1)
  BY EmptyIsSeq DEF WriterInit
<1>. QED
  BY <1>1 DEF WholeInv, CountInv, ChainInv

LEMMA WholeFrame ==
  ASSUME NEW s \in Sources, WholeInv(s), readout' = readout, lines'[s] = lines[s],
         place'[s] = place[s], number'[s] = number[s], Intact(s)' => Intact(s)
  PROVE  WholeInv(s)'
<1>1. \A p : Readout(s, p)' = Readout(s, p)
  BY DEF Readout
<1>2. CountInv(s)'
  BY <1>1 DEF WholeInv, CountInv
<1>3. ASSUME Intact(s) PROVE ChainInv(s)'
  BY <1>1, <1>3 DEF WholeInv, ChainInv
<1>. QED
  BY <1>2, <1>3 DEF WholeInv

(***************************************************************************)
(* The number of a hit that was written, when the DAQ goes on.             *)
(***************************************************************************)
LEMMA CountKept ==
  ASSUME Domains, NEW s \in Sources, WriterInv(s), Advance(s), NEW l, IsLine(s, l),
         l.at.part = "hit", Key(l.at) < Key(place[s]),
         WithinHit(l.at, place[s]) => l.num + 1 = number[s],
         WithinHit(l.at, place'[s]) \/ place'[s] = NextHitPlace(Readout(s, l.at), l.at)
  PROVE  l.num + 1 = number'[s]
<1>1. /\ place'[s] = NextPlace(Current(s), place[s])
      /\ number'[s] = IF place[s].part = "hit" THEN number[s] + 1 ELSE number[s]
      /\ IsPlace(Current(s), place[s])
  BY AdvanceFacts
<1>2. Current(s) = Readout(s, place[s])
  BY DEF Current, Readout
<1>3. IsPlace(Readout(s, l.at), l.at)
  BY DEF IsLine, Readout
<1>4. place[s].of = l.at.of /\ place[s].half = l.at.half
  <2>1. CASE place'[s] = NextHitPlace(Current(s), place[s])
    <3>1. place'[s].part = "hit"
      BY <2>1 DEF NextHitPlace, FirstPlace
    <3>2. place'[s] = NextHitPlace(Readout(s, l.at), l.at)
      BY <3>1 DEF WithinHit
    <3>. DEFINE p == place[s]
                q == l.at
    <3>3. IsPlace(Readout(s, p), p) /\ IsPlace(Readout(s, q), q)
      BY <1>1, <1>2, <1>3
    <3>4. NextHitPlace(Readout(s, p), p) = NextHitPlace(Readout(s, q), q)
      BY <1>2, <2>1, <3>2
    <3>. HIDE DEF p, q
    <3>5. p.of = q.of /\ p.half = q.half
      BY <3>3, <3>4, SameNextHit
    <3>. QED
      BY <3>5 DEF p, q
  <2>2. CASE /\ place'[s].of = place[s].of /\ place'[s].half = place[s].half
             /\ place'[s].part # "hit"
    <3>1. WithinHit(l.at, place'[s])
      BY <2>2 DEF NextHitPlace, FirstPlace
    <3>. QED
      BY <2>2, <3>1 DEF WithinHit
  <2>. QED
    BY <1>1, <2>1, <2>2, NextPlaceFacts
<1>5. place[s].part # "hit"
  <2>. SUFFICES ASSUME place[s].part = "hit" PROVE FALSE
    OBVIOUS
  <2>1. Key(place[s]) = Key(l.at)
    BY <1>4 DEF Key
  <2>. QED
    BY <1>1, <2>1, NextPlaceFacts
<1>6. WithinHit(l.at, place[s])
  BY <1>4, <1>5 DEF WithinHit
<1>. QED
  BY <1>1, <1>5, <1>6

LEMMA LoseLineWhole ==
  ASSUME Domains, NEW s \in Sources, WriterInv(s), WholeInv(s), LoseLine(s)
  PROVE  WholeInv(s)'
<1>1. Advance(s) /\ lines' = lines /\ ~ Intact(s)' /\ readout' = readout
  BY DEF LoseLine, Intact, Advance
<1>2. \A p : Readout(s, p)' = Readout(s, p)
  BY <1>1 DEF Readout
<1>3. ASSUME NEW k \in 1 .. Len(lines[s]), lines[s][k].at.part = "hit",
             \/ WithinHit(lines[s][k].at, place'[s])
             \/ place'[s] = NextHitPlace(Readout(s, lines[s][k].at), lines[s][k].at)
      PROVE  lines[s][k].num + 1 = number'[s]
  <2>. DEFINE l == lines[s][k]
  <2>1. IsLine(s, l) /\ Key(l.at) < Key(place[s])
    BY DEF WriterInv, LinesInv
  <2>2. WithinHit(l.at, place[s]) => l.num + 1 = number[s]
    BY <1>3 DEF WholeInv, CountInv
  <2>3. l.at.part = "hit"
    BY <1>3
  <2>4. WithinHit(l.at, place'[s]) \/ place'[s] = NextHitPlace(Readout(s, l.at), l.at)
    BY <1>3
  <2>. HIDE DEF l
  <2>5. l.num + 1 = number'[s]
    BY <1>1, <2>1, <2>2, <2>3, <2>4, CountKept
  <2>. QED
    BY <2>5 DEF l
<1>4. CountInv(s)'
  BY <1>1, <1>2, <1>3 DEF WholeInv, CountInv
<1>. QED
  BY <1>1, <1>4 DEF WholeInv

LEMMA WriteLineWhole ==
  ASSUME Domains, NEW s \in Sources, WriterInv(s), WholeInv(s), WriteLine(s)
  PROVE  WholeInv(s)'
<1>. DEFINE l == LineFor(s, Current(s), place[s], number[s])
            n == Len(lines[s])
            after(m) == NextHitPlace(Readout(s, m.at), m.at)
<1>1. Advance(s) /\ lines'[s] = Append(lines[s], l) /\ readout' = readout /\ intact' = intact
  BY DEF WriteLine, Advance, Domains
<1>2. /\ number[s] \in Nat /\ IsPlace(Current(s), place[s])
      /\ place'[s] = NextPlace(Current(s), place[s])
      /\ number'[s] = IF place[s].part = "hit" THEN number[s] + 1 ELSE number[s]
  BY <1>1, AdvanceFacts
<1>3. Current(s) = Readout(s, place[s]) /\ \A p : Readout(s, p)' = Readout(s, p)
  BY <1>1 DEF Current, Readout
<1>4. l.at = place[s]
  BY <1>2, LineAtPlace
<1>5. place[s].part = "hit" => l.num = number[s]
  BY DEF LineFor, HitLine
<1>6. /\ Len(lines'[s]) = n + 1 /\ n \in Nat
      /\ \A k \in 1 .. n : lines'[s][k] = lines[s][k]
      /\ lines'[s][n + 1] = l
  BY <1>1, AppendIsSeq, IsSeqFacts DEF WriterInv, LinesInv
<1>7. ASSUME NEW k \in 1 .. n
      PROVE  /\ IsLine(s, lines[s][k]) /\ Key(lines[s][k].at) < Key(place[s])
             /\ Key(lines[s][k].at) \in Nat
  <2>1. IsLine(s, lines[s][k]) /\ Key(lines[s][k].at) < Key(place[s])
    BY DEF WriterInv, LinesInv
  <2>. QED
    BY <2>1, NextPlaceFacts DEF IsLine
<1>. HIDE DEF l, n
<1>8. ASSUME NEW k \in 1 .. n, lines[s][k].at.part = "hit"
      PROVE  WithinHit(lines[s][k].at, place[s]) \/ place[s] = after(lines[s][k]) =>
               lines[s][k].num + 1 = number[s]
  BY <1>8 DEF WholeInv, CountInv, n
<1>9. ASSUME NEW k \in 1 .. n + 1, lines'[s][k].at.part = "hit",
             WithinHit(lines'[s][k].at, place'[s]) \/ place'[s] = after(lines'[s][k])
      PROVE  lines'[s][k].num + 1 = number'[s]
  <2>1. CASE k \in 1 .. n
    <3>. DEFINE m == lines[s][k]
    <3>1. lines'[s][k] = m
      BY <1>6, <2>1
    <3>2. IsLine(s, m) /\ Key(m.at) < Key(place[s]) /\ m.at.part = "hit"
      BY <1>7, <1>9, <2>1, <3>1
    <3>3. WithinHit(m.at, place[s]) => m.num + 1 = number[s]
      BY <1>8, <2>1, <3>2
    <3>4. WithinHit(m.at, place'[s]) \/ place'[s] = NextHitPlace(Readout(s, m.at), m.at)
      BY <1>9, <3>1
    <3>. HIDE DEF m
    <3>5. m.num + 1 = number'[s]
      BY <1>1, <3>2, <3>3, <3>4, CountKept
    <3>. QED
      BY <3>1, <3>5
  <2>2. CASE k = n + 1
    BY <1>2, <1>4, <1>5, <1>6, <1>9, <2>2
  <2>. QED
    BY <1>6, <2>1, <2>2
<1>10. ASSUME NEW j \in 1 .. n + 1, NEW k \in 1 .. n + 1,
              lines'[s][j].at.part = "hit", lines'[s][k].at.part = "hit",
              lines'[s][k].at = after(lines'[s][j])
       PROVE  lines'[s][k].num = lines'[s][j].num + 1
  <2>1. CASE j \in 1 .. n /\ k \in 1 .. n
    BY <1>6, <1>10, <2>1 DEF WholeInv, CountInv, n
  <2>2. CASE j \in 1 .. n /\ k = n + 1
    <3>1. lines'[s][j] = lines[s][j] /\ lines'[s][k] = l
      BY <1>6, <2>2
    <3>2. lines[s][j].num + 1 = number[s] /\ place[s].part = "hit"
      BY <1>4, <1>8, <1>10, <2>2, <3>1
    <3>. QED
      BY <1>5, <3>1, <3>2
  <2>3. CASE j = n + 1
    <3>1. lines'[s][j] = l
      BY <1>6, <2>3
    <3>2. lines'[s][k].at = NextHitPlace(Readout(s, place[s]), place[s]) /\ place[s].part = "hit"
      BY <1>4, <1>10, <3>1
    <3>3. Key(place[s]) \in Nat /\ Key(lines'[s][k].at) \in Nat /\ Key(place[s]) < Key(lines'[s][k].at)
      BY <1>2, <1>3, <3>2, NextHitKey
    <3>4. CASE k \in 1 .. n
      <4>1. Key(lines'[s][k].at) < Key(place[s])
        BY <1>6, <1>7, <3>4
      <4>. QED
        BY <3>3, <4>1
    <3>5. CASE k = n + 1
      <4>1. lines'[s][k].at = place[s]
        BY <1>4, <1>6, <3>5
      <4>. QED
        BY <3>3, <4>1
    <3>. QED
      BY <1>6, <3>4, <3>5
  <2>. QED
    BY <1>6, <2>1, <2>2, <2>3
<1>11. CountInv(s)'
  BY <1>3, <1>6, <1>9, <1>10 DEF CountInv
<1>12. ASSUME Intact(s) PROVE ChainInv(s)'
  <2>1. ChainInv(s)
    BY <1>12 DEF WholeInv
  <2>2. lines'[s][1].at = FirstPlace(1)
    <3>1. CASE n = 0
      BY <1>4, <1>6, <2>1, <3>1 DEF ChainInv, n
    <3>2. CASE n > 0
      BY <1>6, <2>1, <3>2 DEF ChainInv, n
    <3>. QED
      BY <1>6, <3>1, <3>2
  <2>. DEFINE following(p) == NextPlace(Readout(s, p), p)
  <2>3. ASSUME NEW k \in 1 .. n + 1
        PROVE  following(lines'[s][k].at) = IF k < n + 1 THEN lines'[s][k + 1].at ELSE place'[s]
    <3>1. CASE k \in 1 .. n
      <4>1. following(lines[s][k].at) = IF k < n THEN lines[s][k + 1].at ELSE place[s]
        BY <2>1, <3>1 DEF ChainInv, n
      <4>2. lines'[s][k] = lines[s][k] /\ k < n + 1
        BY <1>6, <3>1
      <4>3. lines'[s][k + 1].at = IF k < n THEN lines[s][k + 1].at ELSE place[s]
        BY <1>4, <1>6, <3>1
      <4>. HIDE DEF following
      <4>. QED
        BY <4>1, <4>2, <4>3
    <3>2. CASE k = n + 1
      BY <1>2, <1>3, <1>4, <1>6, <3>2
    <3>. QED
      BY <1>6, <3>1, <3>2
  <2>. QED
    BY <1>3, <1>6, <2>2, <2>3 DEF ChainInv
<1>13. Intact(s)' = Intact(s)
  BY <1>1 DEF Intact
<1>. QED
  BY <1>11, <1>12, <1>13 DEF WholeInv

-----------------------------------------------------------------------------
(***************************************************************************)
(* A whole file passes all the checks of the parsers.                      *)
(***************************************************************************)
LEMMA LinesByPlace ==
  ASSUME FilesInv, NEW s \in Sources, NEW k \in 1 .. Len(lines[s])
  PROVE  LET l == lines[s][k]
             r == readout[s][l.at.of]
         IN  /\ l.at.part = "hit" => l.text = "hit"
             /\ l.at.part = "data" /\ r.type = "CALO" => IsChannelLine(s, l)
             /\ l.at.part = "data" /\ r.type = "TRACKER" => IsTimestampLine(s, l)
             /\ l.at.part = "samples" => l.text = "samples" /\ l.adc = r.ch[l.at.half].adc
<1>. DEFINE l == lines[s][k]
            p == l.at
            r == readout[s][p.of]
<1>1. IsPlace(r, p)
  BY LinesAre
<1>2. PICK n \in Nat : l = LineFor(s, r, p, n)
  BY LinesAre
<1>3. /\ p.part = "hit" => l.text = "hit"
      /\ p.part = "data" /\ r.type = "CALO" => IsChannelLine(s, l)
      /\ p.part = "data" /\ r.type = "TRACKER" => IsTimestampLine(s, l)
      /\ p.part = "samples" => l.text = "samples" /\ l.adc = r.ch[p.half].adc
  <2>. HIDE DEF l, p, r
  <2>1. ASSUME p.part = "hit" PROVE l.text = "hit"
    BY <1>2, <2>1 DEF LineFor, HitLine
  <2>2. ASSUME p.part = "data", r.type = "CALO" PROVE IsChannelLine(s, l)
    <3>1. l = ChannelData(s, r, p)
      BY <1>2, <2>2 DEF LineFor
    <3>2. l.text = "channel" /\ l.version = Config[s].version
      BY <3>1 DEF ChannelData
    <3>. QED
      BY <3>2 DEF IsChannelLine
  <2>3. ASSUME p.part = "data", r.type = "TRACKER" PROVE IsTimestampLine(s, l)
    <3>1. l = TimestampData(s, r, p)
      BY <1>2, <2>3 DEF LineFor
    <3>2. l.text = "timestamp" /\ l.version = Config[s].version
      BY <3>1 DEF TimestampData
    <3>. QED
      BY <3>2 DEF IsTimestampLine
  <2>4. ASSUME p.part = "samples" PROVE l.text = "samples" /\ l.adc = r.ch[p.half].adc
    <3>1. l = SamplesData(r, p)
      BY <1>2, <2>4 DEF LineFor
    <3>. QED
      BY <3>1 DEF SamplesData
  <2>. QED
    BY <2>1, <2>2, <2>3, <2>4
<1>. QED
  BY <1>3, Zenon

(***************************************************************************)
(* What follows a line of a file that is written and whole.                *)
(***************************************************************************)
LEMMA Following ==
  ASSUME FilesInv, NEW s \in Sources, ChainInv(s), Written(s), NEW k \in 1 .. Len(lines[s]), NEW p,
         lines[s][k].at = p
  PROVE  /\ NextPlace(Readout(s, p), p) # FirstPlace(Len(readout[s]) + 1) =>
              k + 1 \in 1 .. Len(lines[s]) /\ lines[s][k + 1].at = NextPlace(Readout(s, p), p)
         /\ NextPlace(Readout(s, p), p) = FirstPlace(Len(readout[s]) + 1) => k = Len(lines[s])
<1>1. place[s] = FirstPlace(Len(readout[s]) + 1) /\ Len(lines[s]) \in Nat
  BY IsSeqFacts DEF FilesInv, WriterInv, PlaceInv, LinesInv
<1>2. NextPlace(Readout(s, p), p) = IF k < Len(lines[s]) THEN lines[s][k + 1].at ELSE place[s]
  BY DEF ChainInv
<1>3. ASSUME k < Len(lines[s])
      PROVE  lines[s][k + 1].at # FirstPlace(Len(readout[s]) + 1)
  <2>1. k + 1 \in 1 .. Len(lines[s])
    BY <1>1, <1>3
  <2>2. lines[s][k + 1].at.of \in 1 .. Len(readout[s]) /\ Len(readout[s]) \in Nat
    BY <2>1, LinesAre, ReadoutFacts DEF FilesInv, Domains
  <2>. QED
    BY <2>2 DEF FirstPlace
<1>. QED
  BY <1>1, <1>2, <1>3

(***************************************************************************)
(* The places of the lines of one hit.                                     *)
(***************************************************************************)
At(n, c, part) == [of |-> n, half |-> c, part |-> part]

LEMMA HitPlaces ==
  ASSUME NEW r, NEW n, NEW c
  PROVE  /\ NextPlace(r, At(n, c, "hit")) = At(n, c, "data")
         /\ HasSamples(r, At(n, c, "data")) => NextPlace(r, At(n, c, "data")) = At(n, c, "samples")
         /\ ~ HasSamples(r, At(n, c, "data")) =>
              NextPlace(r, At(n, c, "data")) = NextHitPlace(r, At(n, c, "hit"))
         /\ NextPlace(r, At(n, c, "samples")) = NextHitPlace(r, At(n, c, "hit"))
  BY DEF At, NextPlace, NextHitPlace

(***************************************************************************)
(* A half of a chip readout in a whole file: its lines, and where the next *)
(* hit begins.                                                             *)
(***************************************************************************)
IsNextAt(s, q, k) ==
  /\ q # FirstPlace(Len(readout[s]) + 1) => k \in 1 .. Len(lines[s]) /\ lines[s][k].at = q
  /\ q = FirstPlace(Len(readout[s]) + 1) => k = Len(lines[s]) + 1

LEMMA NextLine ==
  ASSUME FilesInv, NEW s \in Sources, ChainInv(s), Written(s), NEW k \in 1 .. Len(lines[s]), NEW p,
         lines[s][k].at = p
  PROVE  IsNextAt(s, NextPlace(Readout(s, p), p), k + 1)
  BY Following DEF IsNextAt

LEMMA WithinIsThere ==
  ASSUME NEW s \in Sources, NEW q, NEW k, IsNextAt(s, q, k), q.part # "hit"
  PROVE  k \in 1 .. Len(lines[s]) /\ lines[s][k].at = q
<1>1. q # FirstPlace(Len(readout[s]) + 1)
  BY DEF FirstPlace
<1>. QED
  BY <1>1 DEF IsNextAt

(***************************************************************************)
(* A half of readout n whose HIT line is at k: its other lines follow, and *)
(* then the next HIT line.  AsConfigured: the half was taken with samples  *)
(* if and only if they are read.                                           *)
(***************************************************************************)
AsConfigured(s, r, c) == Config[s].waveforms = (r.ch[c].adc # << >>)

IsHalfAt(s, r, n, c, k) ==
  /\ k + 1 \in 1 .. Len(lines[s]) /\ lines[s][k + 1].at = At(n, c, "data")
  /\ Config[s].waveforms => k + 2 \in 1 .. Len(lines[s]) /\ lines[s][k + 2].at = At(n, c, "samples")
  /\ IsNextAt(s, NextHitPlace(r, At(n, c, "hit")), k + 1 + LinesPerChannel(s))

LEMMA HalfIsThere ==
  ASSUME FilesInv, NEW s \in Sources, ChainInv(s), Written(s), NEW k \in 1 .. Len(lines[s]),
         NEW n, NEW c, NEW r, r = readout[s][n],
         lines[s][k].at = At(n, c, "hit"), r.type = "CALO",
         AsConfigured(s, r, c)
  PROVE  IsHalfAt(s, r, n, c, k)
<1>1. \A part : Readout(s, At(n, c, part)) = r
  BY DEF Readout, At
<1>2. HasSamples(r, At(n, c, "data")) <=> Config[s].waveforms
  BY DEF HasSamples, At, AsConfigured
<1>3. \A part : At(n, c, part).part = part
  BY DEF At
<1>4. k + 1 \in 1 .. Len(lines[s]) /\ lines[s][k + 1].at = At(n, c, "data")
  <2>1. IsNextAt(s, At(n, c, "data"), k + 1)
    BY <1>1, NextLine, HitPlaces
  <2>. QED
    BY <1>3, <2>1, WithinIsThere
<1>5. Len(lines[s]) \in Nat
  BY IsSeqFacts DEF FilesInv, WriterInv, LinesInv
<1>. DEFINE m == k + 1
<1>6. CASE Config[s].waveforms
  <2>1. IsNextAt(s, At(n, c, "samples"), m + 1)
    BY <1>1, <1>2, <1>4, <1>6, NextLine, HitPlaces
  <2>2. m + 1 \in 1 .. Len(lines[s]) /\ lines[s][m + 1].at = At(n, c, "samples")
    BY <1>3, <2>1, WithinIsThere
  <2>3. IsNextAt(s, NextHitPlace(r, At(n, c, "hit")), (m + 1) + 1)
    BY <1>1, <2>2, NextLine, HitPlaces
  <2>4. m + 1 = k + 2 /\ (m + 1) + 1 = k + 1 + LinesPerChannel(s)
    BY <1>6 DEF LinesPerChannel
  <2>. HIDE DEF m
  <2>. QED
    BY <1>4, <2>2, <2>3, <2>4 DEF IsHalfAt
<1>7. CASE ~ Config[s].waveforms
  <2>1. IsNextAt(s, NextHitPlace(r, At(n, c, "hit")), m + 1)
    BY <1>1, <1>2, <1>4, <1>7, NextLine, HitPlaces
  <2>2. m + 1 = k + 1 + LinesPerChannel(s)
    BY <1>7 DEF LinesPerChannel
  <2>. QED
    BY <1>4, <1>7, <2>1, <2>2 DEF IsHalfAt
<1>. QED
  BY <1>6, <1>7

(***************************************************************************)
(* A chip readout in a whole file passes calo_hit_parser.                  *)
(***************************************************************************)
LEMMA ChipLines ==
  ASSUME FilesInv, NEW s \in Sources, ChainInv(s), Written(s), NEW k \in 1 .. Len(lines[s]),
         NEW n \in 1 .. Len(readout[s]), NEW r, r = readout[s][n], r.type = "CALO", Expected(s, r),
         lines[s][k].at = FirstPlace(n)
  PROVE  /\ \A c \in {1, 2} :
              /\ ChannelPlace(s, k, c) \in 1 .. Len(lines[s])
              /\ lines[s][ChannelPlace(s, k, c)].at = At(n, c, "data")
              /\ Config[s].waveforms =>
                   /\ ChannelPlace(s, k, c) + 1 \in 1 .. Len(lines[s])
                   /\ lines[s][ChannelPlace(s, k, c) + 1].at = At(n, c, "samples")
         /\ k + 1 + LinesPerChannel(s) \in 1 .. Len(lines[s])
         /\ lines[s][k + 1 + LinesPerChannel(s)].at = At(n, 2, "hit")
         /\ IsNextAt(s, FirstPlace(n + 1), k + CaloLines(s))
<1>. DEFINE m == k + 1 + LinesPerChannel(s)
<1>1. \A c \in 1 .. 2 : AsConfigured(s, r, c)
  BY DEF Expected, AsConfigured
<1>2. lines[s][k].at = At(n, 1, "hit")
  BY DEF FirstPlace, At
<1>3. /\ NextHitPlace(r, At(n, 1, "hit")) = At(n, 2, "hit")
      /\ NextHitPlace(r, At(n, 2, "hit")) = FirstPlace(n + 1)
  BY DEF NextHitPlace, At
<1>4. IsHalfAt(s, r, n, 1, k)
  BY <1>1, <1>2, HalfIsThere
<1>5. m \in 1 .. Len(lines[s]) /\ lines[s][m].at = At(n, 2, "hit")
  <2>1. At(n, 2, "hit") # FirstPlace(Len(readout[s]) + 1)
    BY DEF At, FirstPlace
  <2>. QED
    BY <1>3, <1>4, <2>1 DEF IsNextAt, IsHalfAt
<1>. HIDE DEF m
<1>6. IsHalfAt(s, r, n, 2, m)
  BY <1>1, <1>5, HalfIsThere
<1>7. /\ ChannelPlace(s, k, 1) = k + 1 /\ ChannelPlace(s, k, 1) + 1 = k + 2
      /\ ChannelPlace(s, k, 2) = m + 1 /\ ChannelPlace(s, k, 2) + 1 = m + 2
      /\ m + 1 + LinesPerChannel(s) = k + CaloLines(s)
  BY DEF ChannelPlace, CaloLines, LinesPerChannel, m
<1>8. IsNextAt(s, FirstPlace(n + 1), k + CaloLines(s))
  BY <1>3, <1>6, <1>7 DEF IsHalfAt
<1>. QED
  BY <1>4, <1>5, <1>6, <1>7, <1>8 DEF m, IsHalfAt

LEMMA ChipFields ==
  ASSUME NEW r \in ChipReadouts
  PROVE  /\ r.type = "CALO" /\ r.trig \in Nat /\ r.fcr \in 0 .. 1023 /\ ~ TdcOverflows(r.tdc)
         /\ Len(r.ch[1].adc) = Len(r.ch[2].adc)
         /\ Len(r.ch[1].adc) <= SAMLONG_MAX_NUMBER_OF_SAMPLES
         /\ \A c \in {1, 2} : r.ch[c].adc \in Seq(0 .. SAMPLE_ADC_MAX)
<1>1. r.ch \in [1 .. 2 -> ChannelReadouts]
  BY DEF ChipReadouts
<1>2. \A c \in {1, 2} : r.ch[c].adc \in Seq(0 .. SAMPLE_ADC_MAX)
  <2>1. \A c \in {1, 2} : r.ch[c] \in ChannelReadouts
    BY <1>1
  <2>. QED
    BY <2>1 DEF ChannelReadouts
<1>. QED
  BY <1>2 DEF ChipReadouts

LEMMA ReadoutKind ==
  ASSUME FilesInv, NEW s \in Sources, NEW n \in 1 .. Len(readout[s])
  PROVE  /\ readout[s][n].type = "CALO" => readout[s][n] \in ChipReadouts
         /\ readout[s][n].type = "TRACKER" => readout[s][n] \in RegisterReadouts
         /\ readout[s][n].type \in {"CALO", "TRACKER"}
<1>. DEFINE r == readout[s][n]
<1>1. r \in ChipReadouts \cup RegisterReadouts
  BY ReadoutFacts DEF FilesInv, Domains
<1>. HIDE DEF r
<1>2. /\ r \in ChipReadouts => r.type = "CALO"
      /\ r \in RegisterReadouts => r.type = "TRACKER"
  BY DEF ChipReadouts, RegisterReadouts
<1>3. /\ r.type = "CALO" => r \in ChipReadouts
      /\ r.type = "TRACKER" => r \in RegisterReadouts
      /\ r.type \in {"CALO", "TRACKER"}
  BY <1>1, <1>2
<1>. QED
  BY <1>3 DEF r

LEMMA SampleNumbers ==
  /\ \A n \in 1 .. SAMLONG_MAX_NUMBER_OF_SAMPLES : n \in Nat
  /\ \A n \in Nat \ {0} :
       n <= SAMLONG_MAX_NUMBER_OF_SAMPLES => n \in 1 .. SAMLONG_MAX_NUMBER_OF_SAMPLES
  BY DEF SAMLONG_MAX_NUMBER_OF_SAMPLES

LEMMA Remainders ==
  ASSUME NEW t \in Nat, NEW f \in 0 .. 1023
  PROVE  t % 31 \in 0 .. 31 /\ f % 1024 \in 0 .. 1023
<1>1. t % 31 \in 0 .. 30
  OBVIOUS
<1>2. f % 1024 \in 0 .. 1023
  OBVIOUS
<1>. QED
  BY <1>1, <1>2

(***************************************************************************)
(* What make() accepts.                                                    *)
(***************************************************************************)
SamplesFit(h) ==
  h.start = 0 /\ h.nsamples \in 1 .. SAMLONG_MAX_NUMBER_OF_SAMPLES /\ Len(h.samples) = h.nsamples

LEMMA MakeAccepts ==
  ASSUME NEW h, h.hit \in Nat, h.trig \in Nat, ~ TdcOverflows(h.tdc),
         h.l2 \in 0 .. 31, h.fcr \in 0 .. 1023, h.waveforms => SamplesFit(h)
  PROVE  ~ MakeCaloThrows(h)
<1>1. ~ (h.hit <= INVALID_NUMBER) /\ ~ (h.trig <= INVALID_NUMBER)
  BY DEF INVALID_NUMBER
<1>2. ~ (h.l2 > 31) /\ ~ (h.fcr > 1023)
  OBVIOUS
<1>3. h.waveforms => ~ (h.start >= SAMLONG_INVALID_SAMPLE)
  BY DEF SAMLONG_INVALID_SAMPLE, SamplesFit
<1>. QED
  BY <1>1, <1>2, <1>3, Zenon DEF MakeCaloThrows, SamplesFit

(***************************************************************************)
(* The line of a place.                                                    *)
(***************************************************************************)
LEMMA PlaceFields ==
  ASSUME NEW n, NEW c, NEW part
  PROVE  At(n, c, part).of = n /\ At(n, c, part).half = c /\ At(n, c, part).part = part
  BY DEF At

LEMMA HitAt ==
  ASSUME FilesInv, NEW s \in Sources, NEW m \in 1 .. Len(lines[s]), NEW n, NEW c,
         lines[s][m].at = At(n, c, "hit")
  PROVE  /\ lines[s][m].text = "hit" /\ lines[s][m].num \in Nat
         /\ lines[s][m].type = readout[s][n].type /\ lines[s][m].trig = readout[s][n].trig
<1>1. lines[s][m].at.part = "hit" /\ lines[s][m].at.of = n
  BY PlaceFields
<1>2. lines[s][m].text = "hit"
  BY <1>1, LinesByPlace
<1>. QED
  BY <1>1, <1>2, HitLineFacts

IsChannelOf(s, l, r, c) ==
  /\ IsChannelLine(s, l)
  /\ l.slot = r.slot /\ l.channel = 2 * r.chip + c - 1
  /\ l.event = r.event /\ l.tdc = r.tdc /\ l.fcr = r.fcr

LEMMA ChannelAt ==
  ASSUME FilesInv, NEW s \in Sources, NEW m \in 1 .. Len(lines[s]), NEW n, NEW c,
         lines[s][m].at = At(n, c, "data"), readout[s][n].type = "CALO"
  PROVE  IsChannelOf(s, lines[s][m], readout[s][n], c)
<1>. DEFINE l == lines[s][m]
            p == l.at
            q == readout[s][p.of]
            r == readout[s][n]
<1>1. p.part = "data" /\ p.of = n /\ p.half = c
  BY PlaceFields
<1>2. q = r
  BY <1>1
<1>3. IsChannelLine(s, l)
  BY <1>1, LinesByPlace
<1>4. l.text = "channel"
  BY <1>3 DEF IsChannelLine
<1>5. /\ p.part = "data" /\ q \in ChipReadouts
      /\ l.slot = q.slot /\ l.channel = 2 * q.chip + p.half - 1
      /\ l.event = q.event /\ l.tdc = q.tdc /\ l.fcr = q.fcr
      /\ l.lto = q.ch[p.half].lto /\ l.ht = q.ch[p.half].ht
      /\ l.charge = q.ch[p.half].charge
  BY <1>4, ChannelLineFacts
<1>6. /\ l.slot = r.slot /\ l.channel = 2 * r.chip + c - 1
      /\ l.event = r.event /\ l.tdc = r.tdc /\ l.fcr = r.fcr
  <2>1. p.half = c
    BY <1>1
  <2>. HIDE DEF l, p, q, r
  <2>. QED
    BY <1>2, <1>5, <2>1
<1>. QED
  BY <1>3, <1>6, Zenon DEF IsChannelOf

IsSamplesOf(l, r, c) == l.text = "samples" /\ l.adc = r.ch[c].adc

LEMMA SamplesAt ==
  ASSUME FilesInv, NEW s \in Sources, NEW m \in 1 .. Len(lines[s]), NEW n, NEW c,
         lines[s][m].at = At(n, c, "samples")
  PROVE  IsSamplesOf(lines[s][m], readout[s][n], c)
<1>1. /\ lines[s][m].at.part = "samples" /\ lines[s][m].at.of = n
      /\ lines[s][m].at.half = c
  BY PlaceFields
<1>. QED
  BY <1>1, LinesByPlace DEF IsSamplesOf

LEMMA TimestampAt ==
  ASSUME FilesInv, NEW s \in Sources, NEW m \in 1 .. Len(lines[s]), NEW n, NEW c,
         lines[s][m].at = At(n, c, "data"), readout[s][n].type = "TRACKER"
  PROVE  LET l == lines[s][m]
             r == readout[s][n]
         IN  /\ IsTimestampLine(s, l) /\ r \in RegisterReadouts
             /\ l.slot = r.slot /\ l.feast = r.feast /\ l.channel = r.channel
             /\ l.category = r.category /\ l.register = r.register /\ l.time = r.time
<1>1. lines[s][m].at.part = "data" /\ lines[s][m].at.of = n
  BY PlaceFields
<1>2. IsTimestampLine(s, lines[s][m])
  BY <1>1, LinesByPlace
<1>3. lines[s][m].text = "timestamp"
  BY <1>2 DEF IsTimestampLine
<1>. QED
  BY <1>1, <1>2, <1>3, TimestampLineFacts

LEMMA LineThere ==
  ASSUME FilesInv, NEW s \in Sources, NEW m \in 1 .. Len(lines[s])
  PROVE  LineAt(s, m) = lines[s][m]
<1>1. Len(lines[s]) \in Nat
  BY IsSeqFacts DEF FilesInv, WriterInv, LinesInv
<1>. QED
  BY <1>1 DEF LineAt

LEMMA AdcKept ==
  ASSUME NEW l, NEW i, l.adc[i] \in 0 .. SAMPLE_ADC_MAX
  PROVE  AdcAt(l, i) = l.adc[i]
  BY SmallNumbers DEF AdcAt

LEMMA CaloHitFields ==
  ASSUME NEW s, NEW k
  PROVE  LET h == CaloHit(s, k)
             a == SamplesLine(s, k, 1).adc
         IN  /\ h.type = "CALO" /\ h.hit = lines[s][k].num /\ h.trig = lines[s][k].trig
             /\ h.tdc = ChannelLine(s, k, 1).tdc
             /\ h.l2 = lines[s][k].trig % 31 /\ h.fcr = ChannelLine(s, k, 1).fcr % 1024
             /\ h.waveforms = Config[s].waveforms
             /\ Config[s].waveforms /\ Len(a) \in Nat =>
                  h.start = 0 /\ h.nsamples = Len(a) /\ Len(h.samples) = Len(a)
             /\ h.samples = LineSamples(SamplesLine(s, k, 1), SamplesLine(s, k, 2),
                                        IF Config[s].waveforms THEN Len(a) ELSE 0)
<1>. DEFINE h == CaloHit(s, k)
            a == SamplesLine(s, k, 1).adc
            n == IF Config[s].waveforms THEN Len(a) ELSE 0
            smp == LineSamples(SamplesLine(s, k, 1), SamplesLine(s, k, 2), n)
<1>1. /\ h.type = "CALO" /\ h.hit = lines[s][k].num /\ h.trig = lines[s][k].trig
      /\ h.tdc = ChannelLine(s, k, 1).tdc
      /\ h.l2 = lines[s][k].trig % 31 /\ h.fcr = ChannelLine(s, k, 1).fcr % 1024
      /\ h.waveforms = Config[s].waveforms
      /\ h.start = IF Config[s].waveforms THEN 0 ELSE SAMLONG_INVALID_SAMPLE
      /\ h.nsamples = n /\ h.samples = smp
  BY DEF CaloHit, LineSamples
<1>2. ASSUME Config[s].waveforms, Len(a) \in Nat
      PROVE  h.start = 0 /\ h.nsamples = Len(a) /\ Len(h.samples) = Len(a)
  <2>1. n = Len(a) /\ h.start = 0
    BY <1>1, <1>2
  <2>2. n \in Nat
    BY <1>2, <2>1
  <2>3. Len(smp) = n
    <3>. HIDE DEF n, a
    <3>. QED
      BY <2>2 DEF LineSamples
  <2>. HIDE DEF n, smp, h, a
  <2>. QED
    BY <1>1, <2>1, <2>3
<1>. QED
  BY <1>1, <1>2, Zenon

LEMMA ChipMakes ==
  ASSUME NEW s, NEW k, NEW r \in ChipReadouts, lines[s][k].num \in Nat, lines[s][k].trig = r.trig,
         ChannelLine(s, k, 1).tdc = r.tdc, ChannelLine(s, k, 1).fcr = r.fcr,
         Config[s].waveforms =>
           Len(SamplesLine(s, k, 1).adc) \in 1 .. SAMLONG_MAX_NUMBER_OF_SAMPLES
  PROVE  ~ MakeCaloThrows(CaloHit(s, k))
<1>. DEFINE h == CaloHit(s, k)
            z == Len(SamplesLine(s, k, 1).adc)
            t == lines[s][k].trig
            f == ChannelLine(s, k, 1).fcr
<1>1. r.trig \in Nat /\ r.fcr \in 0 .. 1023 /\ ~ TdcOverflows(r.tdc)
  BY ChipFields
<1>2. h.hit = lines[s][k].num /\ h.tdc = ChannelLine(s, k, 1).tdc /\ h.waveforms = Config[s].waveforms
  BY CaloHitFields
<1>3. h.hit \in Nat /\ ~ TdcOverflows(h.tdc)
  <2>. HIDE DEF h
  <2>. QED
    BY <1>1, <1>2
<1>4. t \in Nat /\ f \in 0 .. 1023
  BY <1>1
<1>5. h.trig = t /\ h.l2 = t % 31 /\ h.fcr = f % 1024
  BY CaloHitFields
<1>6. z \in 1 .. SAMLONG_MAX_NUMBER_OF_SAMPLES /\ Config[s].waveforms => SamplesFit(h)
  <2>1. ASSUME z \in 1 .. SAMLONG_MAX_NUMBER_OF_SAMPLES, Config[s].waveforms
        PROVE  h.start = 0 /\ h.nsamples = z /\ Len(h.samples) = z
    <3>1. z \in Nat
      <4>1. z \in 1 .. SAMLONG_MAX_NUMBER_OF_SAMPLES
        BY <2>1
      <4>. HIDE DEF z
      <4>. QED
        BY <4>1, SampleNumbers
    <3>. QED
      BY <2>1, <3>1, CaloHitFields
  <2>. HIDE DEF h, z
  <2>. QED
    BY <2>1 DEF SamplesFit
<1>7. h.waveforms => SamplesFit(h)
  <2>1. Config[s].waveforms => z \in 1 .. SAMLONG_MAX_NUMBER_OF_SAMPLES
    OBVIOUS
  <2>. HIDE DEF h, z
  <2>. QED
    BY <1>2, <1>6, <2>1
<1>. HIDE DEF t, f, h
<1>8. t % 31 \in 0 .. 31 /\ f % 1024 \in 0 .. 1023
  BY <1>4, Remainders
<1>9. h.trig \in Nat /\ h.l2 \in 0 .. 31 /\ h.fcr \in 0 .. 1023
  <2>. DEFINE u == t % 31
              v == f % 1024
  <2>1. u \in 0 .. 31 /\ v \in 0 .. 1023 /\ h.l2 = u /\ h.fcr = v
    BY <1>5, <1>8
  <2>. HIDE DEF u, v
  <2>2. h.l2 \in 0 .. 31 /\ h.fcr \in 0 .. 1023
    BY <2>1
  <2>. QED
    BY <1>4, <1>5, <2>2
<1>10. ~ MakeCaloThrows(h)
  BY <1>3, <1>7, <1>9, MakeAccepts
<1>. QED
  BY <1>10 DEF h

LEMMA ChipIsRead ==
  ASSUME FilesInv, NEW s \in Sources, CountInv(s), ChainInv(s), Written(s),
         NEW k \in 1 .. Len(lines[s]), NEW n \in 1 .. Len(readout[s]),
         readout[s][n].type = "CALO", Expected(s, readout[s][n]), lines[s][k].at = FirstPlace(n)
  PROVE  /\ CaloReadAt(s, k, CaloHit(s, k))
         /\ CaloHit(s, k).samples = SamplesOf(readout[s][n])
         /\ lines[s][ChannelPlace(s, k, 2)].at.of = lines[s][k].at.of
         /\ IsNextAt(s, FirstPlace(n + 1), k + CaloLines(s))
<1>. DEFINE r  == readout[s][n]
            m  == k + 1 + LinesPerChannel(s)
            m0 == ChannelPlace(s, k, 1)
            m1 == ChannelPlace(s, k, 2)
            l0 == lines[s][m0]
            l1 == lines[s][m1]
            h  == CaloHit(s, k)
            a  == SamplesLine(s, k, 1)
            b  == SamplesLine(s, k, 2)
<1>1. /\ m0 \in 1 .. Len(lines[s]) /\ m1 \in 1 .. Len(lines[s]) /\ m \in 1 .. Len(lines[s])
      /\ l0.at = At(n, 1, "data") /\ l1.at = At(n, 2, "data") /\ lines[s][m].at = At(n, 2, "hit")
      /\ Config[s].waveforms =>
           /\ m0 + 1 \in 1 .. Len(lines[s]) /\ lines[s][m0 + 1].at = At(n, 1, "samples")
           /\ m1 + 1 \in 1 .. Len(lines[s]) /\ lines[s][m1 + 1].at = At(n, 2, "samples")
      /\ IsNextAt(s, FirstPlace(n + 1), k + CaloLines(s))
  BY ChipLines
<1>2. lines[s][k].at = At(n, 1, "hit")
  BY DEF FirstPlace, At
<1>3. /\ ChannelLine(s, k, 1) = l0 /\ ChannelLine(s, k, 2) = l1 /\ SecondHitLine(s, k) = lines[s][m]
      /\ Config[s].waveforms => a = lines[s][m0 + 1] /\ b = lines[s][m1 + 1]
  <2>1. /\ ChannelLine(s, k, 1) = LineAt(s, m0) /\ ChannelLine(s, k, 2) = LineAt(s, m1)
        /\ SecondHitLine(s, k) = LineAt(s, m)
    BY DEF ChannelLine, ChannelPlace, SecondHitLine
  <2>2. a = LineAt(s, m0 + 1) /\ b = LineAt(s, m1 + 1)
    <3>1. /\ k + 2 + (1 - 1) * (LinesPerChannel(s) + 1) = m0 + 1
          /\ k + 2 + (2 - 1) * (LinesPerChannel(s) + 1) = m1 + 1
      BY DEF ChannelPlace, LinesPerChannel
    <3>. QED
      BY <3>1 DEF SamplesLine
  <2>. HIDE DEF m, m0, m1, a, b
  <2>. QED
    BY <1>1, <2>1, <2>2, LineThere
<1>. HIDE DEF m, m0, m1
<1>4. /\ lines[s][k].text = "hit" /\ lines[s][k].num \in Nat
      /\ lines[s][k].type = r.type /\ lines[s][k].trig = r.trig
  BY <1>2, HitAt
<1>5. /\ lines[s][m].text = "hit"
      /\ lines[s][m].type = r.type /\ lines[s][m].trig = r.trig
  BY <1>1, HitAt
<1>6. lines[s][m].num = lines[s][k].num + 1
  <2>1. lines[s][k].at.part = "hit" /\ lines[s][m].at.part = "hit"
    BY <1>1, <1>2, PlaceFields
  <2>2. lines[s][m].at = NextHitPlace(Readout(s, lines[s][k].at), lines[s][k].at)
    <3>1. Readout(s, At(n, 1, "hit")) = r
      BY DEF Readout, At
    <3>2. NextHitPlace(r, At(n, 1, "hit")) = At(n, 2, "hit")
      BY DEF NextHitPlace, At
    <3>. QED
      BY <1>1, <1>2, <3>1, <3>2
  <2>. QED
    BY <1>1, <2>1, <2>2 DEF CountInv
<1>7. IsChannelOf(s, l0, r, 1) /\ IsChannelOf(s, l1, r, 2)
  BY <1>1, ChannelAt
<1>8. r \in ChipReadouts
  BY ReadoutKind
<1>9. ChannelsPair(l0, l1)
  <2>1. r.chip \in Nat
    BY <1>8 DEF ChipReadouts
  <2>. HIDE DEF l0, l1, r
  <2>2. l0.channel = 2 * r.chip + 1 - 1 /\ l1.channel = 2 * r.chip + 2 - 1
    BY <1>7 DEF IsChannelOf
  <2>3. l1.channel = l0.channel + 1
    BY <2>1, <2>2
  <2>. QED
    BY <1>7, <2>3 DEF ChannelsPair, IsChannelOf
<1>10. HalvesFollow(lines[s][k], SecondHitLine(s, k))
  BY <1>3, <1>4, <1>5, <1>6 DEF HalvesFollow
<1>11. ASSUME Config[s].waveforms
       PROVE  /\ SamplesPair(a, b) /\ Len(a.adc) \in 1 .. SAMLONG_MAX_NUMBER_OF_SAMPLES
              /\ LineSamples(a, b, Len(a.adc)) = SamplesOf(r)
  <2>. DEFINE x == r.ch[1].adc
              y == r.ch[2].adc
  <2>. DEFINE la == lines[s][m0 + 1]
              lb == lines[s][m1 + 1]
  <2>1. IsSamplesOf(la, r, 1) /\ IsSamplesOf(lb, r, 2)
    BY <1>1, <1>11, SamplesAt
  <2>2. la.text = "samples" /\ la.adc = x /\ lb.text = "samples" /\ lb.adc = y
    BY <2>1 DEF IsSamplesOf
  <2>3. a = la /\ b = lb
    BY <1>3, <1>11
  <2>4. /\ x \in Seq(0 .. SAMPLE_ADC_MAX) /\ y \in Seq(0 .. SAMPLE_ADC_MAX)
        /\ Len(x) = Len(y) /\ Len(x) <= SAMLONG_MAX_NUMBER_OF_SAMPLES
    BY <1>8, ChipFields
  <2>5. x # << >>
    <3>1. AsConfigured(s, r, 1)
      BY DEF Expected, AsConfigured
    <3>. QED
      BY <1>11, <3>1 DEF AsConfigured
  <2>. HIDE DEF la, lb
  <2>. HIDE DEF x, y, a, b
  <2>6. IsSamplesLine(a) /\ IsSamplesLine(b)
    <3>1. \A i \in DOMAIN x : x[i] \in 0 .. SAMPLE_ADC_MAX
      BY <2>4, ElementOfSeq, LenProperties
    <3>2. \A i \in DOMAIN y : y[i] \in 0 .. SAMPLE_ADC_MAX
      BY <2>4, ElementOfSeq, LenProperties
    <3>3. /\ \A i \in DOMAIN a.adc : AdcAt(a, i) \in 0 .. SAMPLE_ADC_MAX
          /\ \A i \in DOMAIN b.adc : AdcAt(b, i) \in 0 .. SAMPLE_ADC_MAX
      BY <2>2, <2>3, <3>1, <3>2, AdcKept
    <3>. QED
      BY <2>2, <2>3, <3>3 DEF IsSamplesLine
  <2>7. Len(x) \in Nat /\ Len(x) # 0
    BY <2>4, <2>5, EmptySeq, LenProperties
  <2>8. Len(x) \in 1 .. SAMLONG_MAX_NUMBER_OF_SAMPLES
    <3>1. Len(x) <= SAMLONG_MAX_NUMBER_OF_SAMPLES
      BY <2>4
    <3>. QED
      BY <2>7, <3>1, SampleNumbers
  <2>9. Len(a.adc) = Len(x) /\ Len(b.adc) = Len(y)
    BY <2>2, <2>3
  <2>10. LineSamples(a, b, Len(a.adc)) = SamplesOf(r)
    <3>1. \A i \in 1 .. Len(x) : AdcAt(a, i) = x[i] /\ AdcAt(b, i) = y[i]
      <4>1. \A i \in 1 .. Len(x) : x[i] \in 0 .. SAMPLE_ADC_MAX /\ y[i] \in 0 .. SAMPLE_ADC_MAX
        BY <2>4, ElementOfSeq
      <4>. QED
        BY <2>2, <2>3, <4>1, AdcKept
    <3>2. SamplesOf(r) = [i \in 1 .. Len(x) |-> << x[i], y[i] >>]
      BY DEF SamplesOf, x, y
    <3>. QED
      BY <2>9, <3>1, <3>2 DEF LineSamples
  <2>. QED
    BY <2>4, <2>6, <2>8, <2>9, <2>10 DEF SamplesPair
<1>12. ~ MakeCaloThrows(h)
  <2>1. ChannelLine(s, k, 1).tdc = r.tdc /\ ChannelLine(s, k, 1).fcr = r.fcr
    BY <1>3, <1>7 DEF IsChannelOf
  <2>. QED
    BY <1>4, <1>8, <1>11, <2>1, ChipMakes
<1>13. Config[s].calo
  BY DEF Expected
<1>14. CaloParses(s, k)
  BY <1>3, <1>7, <1>9, <1>10, <1>11, <1>12 DEF CaloParses, IsChannelOf
<1>15. l1.at.of = lines[s][k].at.of
  BY <1>1, <1>2, PlaceFields
<1>16. h.samples = SamplesOf(r)
  <2>1. h.samples = LineSamples(a, b, IF Config[s].waveforms THEN Len(a.adc) ELSE 0)
    BY CaloHitFields
  <2>2. CASE Config[s].waveforms
    BY <1>11, <2>1, <2>2
  <2>3. CASE ~ Config[s].waveforms
    <3>1. r.ch[1].adc = << >>
      <4>1. AsConfigured(s, r, 1)
        BY DEF Expected, AsConfigured
      <4>. QED
        BY <2>3, <4>1 DEF AsConfigured
    <3>. HIDE DEF h, a, b, r
    <3>2. Len(r.ch[1].adc) = 0
      BY <3>1
    <3>3. h.samples = LineSamples(a, b, 0)
      BY <2>1, <2>3
    <3>. QED
      BY <3>2, <3>3 DEF LineSamples, SamplesOf
  <2>. QED
    BY <2>2, <2>3
<1>. QED
  BY <1>1, <1>4, <1>13, <1>14, <1>15, <1>16 DEF CaloReadAt, m1

(***************************************************************************)
(* A register readout in a whole file passes tracker_hit_parser.           *)
(***************************************************************************)
LEMMA RegisterFields ==
  ASSUME NEW r \in RegisterReadouts, NEW g, g = IF r.category = "CA" /\ r.register = "R0" THEN "R5" ELSE r.register
  PROVE  /\ r.trig \in Nat /\ r.feast \in {0, 1}
         /\ r.category # "undef" /\ g # "undef"
         /\ r.category = "AN" => g \in AnodeRegisters
         /\ r.category = "CA" => g \in CathodeRegisters
<1>1. /\ r.trig \in Nat /\ r.feast \in {0, 1}
      /\ \/ r.category = "AN" /\ r.register \in AnodeRegisters
         \/ r.category = "CA" /\ r.register \in CathodeRegisters \cup {"R0"}
  BY DEF RegisterReadouts
<1>. QED
  BY <1>1 DEF AnodeRegisters, CathodeRegisters

LEMMA RegisterLines ==
  ASSUME FilesInv, NEW s \in Sources, ChainInv(s), Written(s), NEW k \in 1 .. Len(lines[s]),
         NEW n \in 1 .. Len(readout[s]), readout[s][n].type = "TRACKER", lines[s][k].at = FirstPlace(n)
  PROVE  /\ k + 1 \in 1 .. Len(lines[s]) /\ lines[s][k + 1].at = At(n, 1, "data")
         /\ IsNextAt(s, FirstPlace(n + 1), k + 2)
<1>. DEFINE r == readout[s][n]
            m == k + 1
<1>1. lines[s][k].at = At(n, 1, "hit")
  BY DEF FirstPlace, At
<1>2. \A part : Readout(s, At(n, 1, part)) = r /\ At(n, 1, part).part = part
  BY DEF Readout, At
<1>3. NextHitPlace(r, At(n, 1, "hit")) = FirstPlace(n + 1) /\ ~ HasSamples(r, At(n, 1, "data"))
  BY DEF NextHitPlace, HasSamples, At
<1>4. m \in 1 .. Len(lines[s]) /\ lines[s][m].at = At(n, 1, "data")
  <2>1. IsNextAt(s, At(n, 1, "data"), m)
    BY <1>1, <1>2, NextLine, HitPlaces
  <2>. QED
    BY <1>2, <2>1, WithinIsThere
<1>5. IsNextAt(s, FirstPlace(n + 1), m + 1)
  <2>1. NextPlace(r, At(n, 1, "data")) = FirstPlace(n + 1)
    BY <1>3, HitPlaces
  <2>. HIDE DEF m
  <2>. QED
    BY <1>2, <1>4, <2>1, NextLine
<1>6. m + 1 = k + 2
  OBVIOUS
<1>. QED
  BY <1>4, <1>5, <1>6

LEMMA RegisterIsRead ==
  ASSUME FilesInv, NEW s \in Sources, ChainInv(s), Written(s), NEW k \in 1 .. Len(lines[s]),
         NEW n \in 1 .. Len(readout[s]), readout[s][n].type = "TRACKER", Expected(s, readout[s][n]),
         lines[s][k].at = FirstPlace(n)
  PROVE  /\ TrackerReadAt(s, k, TrackerHit(s, k))
         /\ Delivers(s, TrackerHit(s, k), readout[s][n])
         /\ IsNextAt(s, FirstPlace(n + 1), k + 2)
<1>. DEFINE r == readout[s][n]
            m == k + 1
            l == lines[s][m]
            h == TrackerHit(s, k)
<1>1. m \in 1 .. Len(lines[s]) /\ l.at = At(n, 1, "data") /\ IsNextAt(s, FirstPlace(n + 1), k + 2)
  BY RegisterLines
<1>2. lines[s][k].at = At(n, 1, "hit")
  BY DEF FirstPlace, At
<1>3. /\ lines[s][k].text = "hit" /\ lines[s][k].num \in Nat
      /\ lines[s][k].type = r.type /\ lines[s][k].trig = r.trig
  BY <1>2, HitAt
<1>4. /\ IsTimestampLine(s, l) /\ r \in RegisterReadouts
      /\ l.slot = r.slot /\ l.feast = r.feast /\ l.channel = r.channel
      /\ l.category = r.category /\ l.register = r.register /\ l.time = r.time
  BY <1>1, TimestampAt
<1>5. LineAt(s, m) = l
  BY <1>1, LineThere
<1>6. /\ h.type = "TRACKER" /\ h.hit = lines[s][k].num /\ h.trig = lines[s][k].trig
      /\ h.crate = Config[s].crate /\ h.board = ToInt16(l.slot) /\ h.chip = ToInt16(l.feast)
      /\ h.channel = ToInt16(l.channel)
      /\ h.category = l.category /\ h.register = RegisterOf(l) /\ h.time = l.time
  BY <1>5 DEF TrackerHit
<1>7. Config[s].crate \in TrackerCrates
  BY WriterAssumption, ReadoutFacts DEF FilesInv, Domains
<1>. HIDE DEF h, l, m
<1>13. h.chip = r.feast
  <2>1. r.feast \in {0, 1}
    BY <1>4, RegisterFields
  <2>. QED
    BY <1>4, <1>6, <2>1, SmallNumbers
<1>8. ~ MakeTrackerThrows(h)
  <2>. HIDE DEF r
  <2>1. h.category = r.category /\ h.chip = r.feast
    BY <1>4, <1>6, <1>13
  <2>2. h.register = IF r.category = "CA" /\ r.register = "R0" THEN "R5" ELSE r.register
    BY <1>4, <1>6 DEF RegisterOf
  <2>3. /\ r.trig \in Nat /\ r.feast \in {0, 1}
        /\ r.category # "undef" /\ h.register # "undef"
        /\ r.category = "AN" => h.register \in AnodeRegisters
        /\ r.category = "CA" => h.register \in CathodeRegisters
    BY <1>4, <2>2, RegisterFields
  <2>4. ~ (h.hit <= INVALID_NUMBER) /\ ~ (h.trig <= INVALID_NUMBER)
    BY <1>3, <1>6, <2>3 DEF INVALID_NUMBER
  <2>5. h.crate \in 0 .. NUMBER_OF_TRACKER_CRATES - 1
    BY <1>6, <1>7 DEF TrackerCrates
  <2>. QED
    BY <2>1, <2>3, <2>4, <2>5, Zenon DEF MakeTrackerThrows
<1>9. TrackerParses(s, k)
  BY <1>4, <1>5, <1>8 DEF TrackerParses, m, h
<1>10. Config[s].tracker
  BY DEF Expected
<1>11. TrackerReadAt(s, k, h)
  BY <1>3, <1>9, <1>10 DEF TrackerReadAt, h
<1>12. Delivers(s, h, r)
  <2>1. DeliversRegister(h, r)
    BY <1>4, <1>6, <1>13 DEF DeliversRegister, NumbersFit, Fits16
  <2>. QED
    BY <1>3, <1>6, <2>1 DEF Delivers
<1>. QED
  BY <1>1, <1>11, <1>12 DEF h

-----------------------------------------------------------------------------
(***************************************************************************)
(* The invariant of a file that is read as it was taken and is whole: each *)
(* hit delivers the next readout, and the reader is where the next one     *)
(* begins.                                                                 *)
(***************************************************************************)
ReadInv(s) ==
  Written(s) /\ AsExpected(s) =>
    /\ reading[s] # "failed"
    /\ Len(hits[s]) <= Len(readout[s])
    /\ \A j \in 1 .. Len(hits[s]) : Delivers(s, hits[s][j], readout[s][j])
    /\ IsNextAt(s, FirstPlace(Len(hits[s]) + 1), pos[s])
    /\ Len(hits[s]) < Len(readout[s]) => reading[s] = "hits"

ReadsCalo(s, n) ==
  /\ CaloIsNext(s) /\ ~ TrackerIsNext(s)
  /\ Delivers(s, CaloHit(s, pos[s]), readout[s][n])
  /\ IsNextAt(s, FirstPlace(n + 1), pos[s] + CaloLines(s))

ReadsTracker(s, n) ==
  /\ TrackerIsNext(s) /\ ~ CaloIsNext(s)
  /\ Delivers(s, TrackerHit(s, pos[s]), readout[s][n])
  /\ IsNextAt(s, FirstPlace(n + 1), pos[s] + 2)

LEMMA FirstPlaces ==
  ASSUME NEW i, NEW j
  PROVE  FirstPlace(i) = FirstPlace(j) => i = j
<1>1. FirstPlace(i).of = i /\ FirstPlace(j).of = j
  BY DEF FirstPlace
<1>. QED
  BY <1>1

LEMMA ChipDelivered ==
  ASSUME NEW s, NEW h, NEW r, h.type = "CALO", IsReadoutOf(s, h, r), h.samples = SamplesOf(r)
  PROVE  Delivers(s, h, r)
<1>1. \A c \in 1 .. 2 : DeliversFeatures(s, h.ch[c], r.ch[c])
  BY DEF IsReadoutOf, SameFeatures, DeliversFeatures, Fits16
<1>2. NumbersFit(r) => h.board = r.slot /\ h.chip = r.chip
  BY DEF IsReadoutOf, NumbersFit, Fits16
<1>3. r.type = "CALO" /\ h.trig = r.trig /\ h.tdc = r.tdc /\ h.fcr = r.fcr
  BY DEF IsReadoutOf
<1>. QED
  BY <1>1, <1>2, <1>3 DEF Delivers, DeliversChip

LEMMA NextIsRead ==
  ASSUME FilesInv, NEW s \in Sources, WholeInv(s), ReadInv(s), Written(s), AsExpected(s)
  PROVE  LET n == Len(hits[s]) IN
         \/ /\ n < Len(readout[s]) /\ HasNextHit(s)
            /\ ReadsCalo(s, n + 1) \/ ReadsTracker(s, n + 1)
         \/ n = Len(readout[s]) /\ ~ HasNextHit(s)
<1>. DEFINE n == Len(hits[s])
            k == pos[s]
            r == readout[s][n + 1]
<1>1. n \in Nat /\ Len(readout[s]) \in Nat /\ Len(lines[s]) \in Nat
  BY IsSeqFacts, ReadoutFacts DEF FilesInv, Domains, HitsInv, WriterInv, LinesInv
<1>2. n <= Len(readout[s]) /\ IsNextAt(s, FirstPlace(n + 1), k)
  BY DEF ReadInv
<1>3. CASE n = Len(readout[s])
  <2>1. k = Len(lines[s]) + 1
    BY <1>2, <1>3 DEF IsNextAt
  <2>. QED
    BY <1>1, <1>3, <2>1 DEF HasNextHit
<1>4. CASE n # Len(readout[s])
  <2>1. n < Len(readout[s]) /\ n + 1 \in 1 .. Len(readout[s])
    BY <1>1, <1>2, <1>4
  <2>2. FirstPlace(n + 1) # FirstPlace(Len(readout[s]) + 1)
    <3>1. n + 1 # Len(readout[s]) + 1
      BY <1>1, <1>4
    <3>. QED
      BY <3>1, FirstPlaces
  <2>3. k \in 1 .. Len(lines[s]) /\ lines[s][k].at = FirstPlace(n + 1)
    BY <1>2, <2>2 DEF IsNextAt
  <2>4. HasNextHit(s)
    BY <1>1, <2>3 DEF HasNextHit
  <2>5. CountInv(s) /\ ChainInv(s) /\ Expected(s, r)
    <3>1. n + 1 \in DOMAIN readout[s]
      BY <2>1, ReadoutFacts DEF FilesInv, Domains
    <3>. QED
      BY <3>1 DEF WholeInv, AsExpected
  <2>. HIDE DEF n, k
  <2>6. CASE r.type = "CALO"
    <3>1. /\ CaloReadAt(s, k, CaloHit(s, k))
          /\ CaloHit(s, k).samples = SamplesOf(r)
          /\ lines[s][ChannelPlace(s, k, 2)].at.of = lines[s][k].at.of
          /\ IsNextAt(s, FirstPlace((n + 1) + 1), k + CaloLines(s))
      BY <2>1, <2>3, <2>5, <2>6, ChipIsRead
    <3>2. IsReadoutOf(s, CaloHit(s, k), readout[s][lines[s][k].at.of])
      BY <2>3, <3>1, HitIsOfReadout
    <3>3. lines[s][k].at.of = n + 1
      BY <2>3 DEF FirstPlace
    <3>4. CaloHit(s, k).type = "CALO"
      BY CaloHitFields
    <3>5. Delivers(s, CaloHit(s, k), r)
      <4>1. IsReadoutOf(s, CaloHit(s, k), r)
        BY <3>2, <3>3
      <4>. QED
        BY <3>1, <3>4, <4>1, ChipDelivered
    <3>6. CaloIsNext(s) /\ ~ TrackerIsNext(s)
      BY <3>1 DEF CaloIsNext, TrackerIsNext, IsHitLine, CaloReadAt, k
    <3>7. ReadsCalo(s, n + 1)
      BY <3>1, <3>5, <3>6 DEF ReadsCalo, k
    <3>. QED
      BY <2>1, <2>4, <3>7 DEF n
  <2>7. CASE r.type = "TRACKER"
    <3>1. /\ TrackerReadAt(s, k, TrackerHit(s, k))
          /\ Delivers(s, TrackerHit(s, k), r)
          /\ IsNextAt(s, FirstPlace((n + 1) + 1), k + 2)
      BY <2>1, <2>3, <2>5, <2>7, RegisterIsRead
    <3>2. TrackerIsNext(s) /\ ~ CaloIsNext(s)
      BY <3>1 DEF CaloIsNext, TrackerIsNext, IsHitLine, TrackerReadAt, k
    <3>3. ReadsTracker(s, n + 1)
      BY <3>1, <3>2 DEF ReadsTracker, k
    <3>. QED
      BY <2>1, <2>4, <3>3 DEF n
  <2>. QED
    BY <2>1, <2>6, <2>7, ReadoutKind
<1>. QED
  BY <1>3, <1>4

LEMMA InitRead ==
  ASSUME Init, NEW s \in Sources
  PROVE  ReadInv(s)
<1>1. /\ readout \in Readouts /\ place[s] = FirstPlace(1) /\ lines[s] = << >>
      /\ pos[s] = 1 /\ reading[s] = "hits" /\ hits[s] = << >>
  BY DEF Init, WriterInit, ReaderInit
<1>2. Len(lines[s]) = 0 /\ Len(hits[s]) = 0 /\ 1 .. Len(hits[s]) = {}
  BY <1>1, EmptyIsSeq
<1>3. ASSUME Written(s) PROVE Len(readout[s]) = 0
  <2>1. place[s].of = 1 /\ Len(readout[s]) \in Nat
    BY <1>1, ReadoutFacts DEF FirstPlace
  <2>. QED
    BY <1>3, <2>1 DEF Written
<1>4. ASSUME Written(s) PROVE IsNextAt(s, FirstPlace(1), 1)
  BY <1>2, <1>3, <1>4 DEF IsNextAt
<1>. QED
  BY <1>1, <1>2, <1>3, <1>4 DEF ReadInv

LEMMA ReadInvFrame ==
  ASSUME NEW s \in Sources, ReadInv(s), readout' = readout, place'[s] = place[s],
         lines'[s] = lines[s], pos'[s] = pos[s], reading'[s] = reading[s], hits'[s] = hits[s],
         Intact(s)' => Intact(s)
  PROVE  ReadInv(s)'
<1>1. Written(s)' = Written(s)
  BY DEF Written
<1>2. AsExpected(s)' => AsExpected(s)
  BY DEF AsExpected, Expected
<1>3. \A q, k : IsNextAt(s, q, k)' = IsNextAt(s, q, k)
  BY DEF IsNextAt
<1>. QED
  BY <1>1, <1>2, <1>3 DEF ReadInv

LEMMA WriterStepRead ==
  ASSUME FilesInv, NEW s \in Sources, WriterStep(s), UNCHANGED << pos, reading, hits >>,
         FilesInv', WholeInv(s)'
  PROVE  ReadInv(s)'
<1>1. pos'[s] = 1 /\ hits'[s] = << >> /\ reading'[s] = "hits"
  BY DEF WriterStep, WriteLine, LoseLine, Advance, FilesInv, HitsInv
<1>2. Len(hits'[s]) = 0 /\ 1 .. Len(hits'[s]) = {}
  BY <1>1, EmptyIsSeq
<1>. SUFFICES ASSUME Written(s)', AsExpected(s)'
              PROVE  ReadInv(s)'
  BY DEF ReadInv
<1>3. ChainInv(s)' /\ WriterInv(s)'
  BY DEF WholeInv, AsExpected, FilesInv
<1>4. place'[s] = FirstPlace(Len(readout'[s]) + 1)
  BY <1>3 DEF WriterInv, PlaceInv
<1>5. readout'[s] = readout[s] /\ Len(readout[s]) \in Nat
  BY ReadoutFacts DEF WriterStep, WriteLine, LoseLine, Advance, FilesInv, Domains
<1>6. Len(lines'[s]) \in Nat
  BY <1>3, IsSeqFacts DEF WriterInv, LinesInv
<1>7. IsNextAt(s, FirstPlace(1), 1)'
  <2>1. CASE Len(lines'[s]) = 0
    <3>1. FirstPlace(1) = FirstPlace(Len(readout'[s]) + 1)
      BY <1>3, <1>4, <2>1 DEF ChainInv
    <3>. QED
      BY <2>1, <3>1 DEF IsNextAt
  <2>2. CASE Len(lines'[s]) > 0
    <3>1. 1 \in 1 .. Len(lines'[s]) /\ lines'[s][1].at = FirstPlace(1)
      BY <1>3, <1>6, <2>2 DEF ChainInv
    <3>2. lines'[s][1].at.of \in 1 .. Len(readout'[s])
      BY <1>3, <3>1 DEF WriterInv, LinesInv, IsLine
    <3>3. FirstPlace(1) # FirstPlace(Len(readout'[s]) + 1)
      <4>1. Len(readout'[s]) # 0
        BY <3>2
      <4>2. 1 # Len(readout'[s]) + 1
        BY <1>5, <4>1
      <4>. QED
        BY <4>2, FirstPlaces
    <3>. QED
      BY <3>1, <3>3 DEF IsNextAt
  <2>. QED
    BY <1>6, <2>1, <2>2
<1>. QED
  BY <1>1, <1>2, <1>5, <1>7 DEF ReadInv

LEMMA ReaderStepRead ==
  ASSUME FilesInv, NEW s \in Sources, WholeInv(s), ReadInv(s), Written(s), ReaderStep(s),
         UNCHANGED writervars
  PROVE  ReadInv(s)'
<1>1. UNCHANGED << lines, readout, place, intact >>
  BY DEF ReaderStep, ReadCalo, ReadTracker, ReadFails, EndOfFile, Deliver, writervars
<1>2. AsExpected(s)' = AsExpected(s)
  BY <1>1 DEF AsExpected, Expected, Intact
<1>. SUFFICES ASSUME AsExpected(s)
              PROVE  ReadInv(s)'
  BY <1>2 DEF ReadInv
<1>. DEFINE n == Len(hits[s])
            N == Len(readout[s])
<1>3. n \in Nat /\ N \in Nat /\ IsSeq(hits[s])
  BY IsSeqFacts, ReadoutFacts DEF FilesInv, Domains, HitsInv
<1>4. ASSUME NEW h, NEW m, n < N, Deliver(s, h, m), reading[s] = "hits",
             Delivers(s, h, readout[s][n + 1]), IsNextAt(s, FirstPlace((n + 1) + 1), pos[s] + m)
      PROVE  ReadInv(s)'
  <2>1. hits'[s] = Append(hits[s], h) /\ pos'[s] = pos[s] + m /\ reading'[s] = "hits"
    BY <1>4 DEF Deliver, FilesInv, Domains
  <2>2. /\ Len(hits'[s]) = n + 1
        /\ \A j \in 1 .. n : hits'[s][j] = hits[s][j]
        /\ hits'[s][n + 1] = h
    BY <1>3, <2>1, AppendIsSeq
  <2>. HIDE DEF n
  <2>3. ASSUME NEW j \in 1 .. n + 1 PROVE Delivers(s, hits'[s][j], readout[s][j])
    <3>1. CASE j \in 1 .. n
      <4>1. Delivers(s, hits[s][j], readout[s][j])
        BY <3>1 DEF ReadInv, n
      <4>. QED
        BY <2>2, <3>1, <4>1
    <3>2. CASE j = n + 1
      BY <1>4, <2>2, <3>2
    <3>. QED
      BY <1>3, <3>1, <3>2
  <2>4. n + 1 <= N
    BY <1>3, <1>4
  <2>5. IsNextAt(s, FirstPlace((n + 1) + 1), pos'[s])
    BY <1>4, <2>1
  <2>6. Len(hits'[s]) <= Len(readout'[s])
    BY <1>1, <2>2, <2>4
  <2>7. \A j \in 1 .. Len(hits'[s]) : Delivers(s, hits'[s][j], readout'[s][j])
    BY <1>1, <2>2, <2>3
  <2>8. IsNextAt(s, FirstPlace(Len(hits[s]) + 1), pos[s])'
    BY <1>1, <2>2, <2>5 DEF IsNextAt
  <2>. QED
    BY <2>1, <2>6, <2>7, <2>8 DEF ReadInv
<1>5. CASE ReadCalo(s)
  <2>1. CaloIsNext(s) /\ HasNextHit(s) /\ reading[s] = "hits"
        /\ Deliver(s, CaloHit(s, pos[s]), CaloLines(s))
    BY <1>5 DEF ReadCalo
  <2>2. n < N /\ ReadsCalo(s, n + 1)
    BY <2>1, NextIsRead DEF ReadsTracker
  <2>. QED
    BY <1>4, <2>1, <2>2 DEF ReadsCalo
<1>6. CASE ReadTracker(s)
  <2>1. TrackerIsNext(s) /\ HasNextHit(s) /\ reading[s] = "hits"
        /\ Deliver(s, TrackerHit(s, pos[s]), 2)
    BY <1>6 DEF ReadTracker
  <2>2. n < N /\ ReadsTracker(s, n + 1)
    BY <2>1, NextIsRead DEF ReadsCalo
  <2>. QED
    BY <1>4, <2>1, <2>2 DEF ReadsTracker
<1>7. CASE ReadFails(s)
  BY <1>7, NextIsRead DEF ReadFails, ReadsCalo, ReadsTracker
<1>8. CASE EndOfFile(s)
  <2>1. /\ reading'[s] = "end" /\ pos' = pos /\ hits' = hits /\ ~ HasNextHit(s)
    BY <1>8 DEF EndOfFile, FilesInv, Domains
  <2>2. n = N
    BY <2>1, NextIsRead
  <2>3. /\ n <= N /\ IsNextAt(s, FirstPlace(n + 1), pos[s])
        /\ \A j \in 1 .. n : Delivers(s, hits[s][j], readout[s][j])
    BY DEF ReadInv
  <2>. HIDE DEF n, N
  <2>4. Len(hits'[s]) = n /\ Len(readout'[s]) = N
    BY <1>1, <2>1 DEF n, N
  <2>5. \A j \in 1 .. Len(hits'[s]) : Delivers(s, hits'[s][j], readout'[s][j])
    BY <1>1, <2>1, <2>3, <2>4
  <2>6. IsNextAt(s, FirstPlace(Len(hits[s]) + 1), pos[s])'
    BY <1>1, <2>1, <2>3, <2>4 DEF IsNextAt
  <2>. QED
    BY <1>3, <2>1, <2>2, <2>4, <2>5, <2>6 DEF ReadInv
<1>. QED
  BY <1>5, <1>6, <1>7, <1>8 DEF ReaderStep

(***************************************************************************)
(* All the invariants of the files.                                        *)
(***************************************************************************)
PathInv == FilesInv /\ \A s \in Sources : WholeInv(s) /\ ReadInv(s)

LEMMA QuietPath ==
  ASSUME PathInv, UNCHANGED << writervars, readervars >>
  PROVE  PathInv'
<1>1. UNCHANGED << lines, pos, reading, hits, readout, place, number, intact >>
  BY DEF writervars, readervars
<1>2. FilesInv'
  BY QuietFiles DEF PathInv
<1>3. ASSUME NEW t \in Sources PROVE WholeInv(t)' /\ ReadInv(t)'
  BY <1>1, WholeFrame, ReadInvFrame DEF PathInv, Intact
<1>. QED
  BY <1>2, <1>3 DEF PathInv

LEMMA WritePath ==
  ASSUME PathInv, NEW s \in Sources, Write(s)
  PROVE  PathInv'
<1>1. FilesInv /\ WholeInv(s) /\ WriterInv(s) /\ Domains
  BY DEF PathInv, FilesInv
<1>2. WriterStep(s) /\ UNCHANGED << pos, reading, hits >> /\ UNCHANGED readout
  BY DEF Write, WriterStep, WriteLine, LoseLine, Advance
<1>3. FilesInv'
  BY <1>1, WriteFiles
<1>4. WholeInv(s)'
  BY <1>1, <1>2, WriteLineWhole, LoseLineWhole DEF WriterStep
<1>5. ReadInv(s)'
  BY <1>1, <1>2, <1>3, <1>4, WriterStepRead
<1>6. ASSUME NEW t \in Sources \ {s} PROVE WholeInv(t)' /\ ReadInv(t)'
  <2>1. t \in Sources /\ WholeInv(t) /\ ReadInv(t)
    BY DEF PathInv
  <2>2. lines'[t] = lines[t] /\ place'[t] = place[t] /\ number'[t] = number[t]
    BY <1>1, <1>2 DEF WriterStep, WriteLine, LoseLine, Advance, Domains
  <2>3. Intact(t)' => Intact(t)
    BY <1>2 DEF WriterStep, WriteLine, LoseLine, Intact
  <2>. QED
    BY <1>2, <2>1, <2>2, <2>3, WholeFrame, ReadInvFrame
<1>. QED
  BY <1>3, <1>4, <1>5, <1>6 DEF PathInv

LEMMA ReadPath ==
  ASSUME PathInv, NEW s \in Sources, Read(s)
  PROVE  PathInv'
<1>1. FilesInv /\ Domains /\ \A t \in Sources : WholeInv(t) /\ ReadInv(t)
  BY DEF PathInv, FilesInv
<1>2. Written(s) /\ ReaderStep(s) /\ UNCHANGED writervars
  BY DEF Read
<1>3. UNCHANGED << lines, readout, place, number, intact >>
  BY <1>2 DEF ReaderStep, ReadCalo, ReadTracker, ReadFails, EndOfFile, Deliver, writervars
<1>4. FilesInv'
  BY <1>1, ReadFiles
<1>5. ASSUME NEW t \in Sources PROVE WholeInv(t)'
  BY <1>1, <1>3, WholeFrame DEF Intact
<1>6. ReadInv(s)'
  BY <1>1, <1>2, ReaderStepRead
<1>7. ASSUME NEW t \in Sources \ {s} PROVE ReadInv(t)'
  <2>1. t \in Sources /\ ReadInv(t)
    BY <1>1
  <2>2. pos'[t] = pos[t] /\ reading'[t] = reading[t] /\ hits'[t] = hits[t]
    BY <1>1, <1>2 DEF ReaderStep, ReadCalo, ReadTracker, ReadFails, EndOfFile, Deliver, Domains
  <2>. QED
    BY <1>3, <2>1, <2>2, ReadInvFrame DEF Intact
<1>. QED
  BY <1>4, <1>5, <1>6, <1>7 DEF PathInv

(***************************************************************************)
(* The invariant of the files, those with all their lines and those that   *)
(* have lost some, holds in every run.                                     *)
(***************************************************************************)
THEOREM PathInvariant == Spec => []PathInv
<1>1. Init => PathInv
  BY InitFiles, InitWhole, InitRead DEF Init, PathInv
<1>2. PathInv /\ [Next]_vars => PathInv'
  BY WritePath, ReadPath, QuietPath, QuietSteps DEF Next
<1>. QED
  BY <1>1, <1>2, PTL DEF Spec

(***************************************************************************)
(* A file that has all its lines, read as it was taken, is read to its     *)
(* end: reading does not fail, and the hits are those of the readouts, in  *)
(* their order.                                                            *)
(***************************************************************************)
THEOREM IntactFilesAreRead == Spec => []IntactIsRead
<1>1. PathInv => IntactIsRead
  <2>. SUFFICES ASSUME PathInv, NEW s \in Sources, AsExpected(s)
                PROVE  /\ reading[s] # "failed"
                       /\ reading[s] = "end" => Len(hits[s]) = Len(readout[s])
                       /\ \A k \in DOMAIN hits[s] : Delivers(s, hits[s][k], readout[s][k])
    BY DEF IntactIsRead
  <2>1. HitsInv(s) /\ ReadInv(s) /\ Len(readout[s]) \in Nat
    BY ReadoutFacts DEF PathInv, FilesInv, Domains
  <2>2. DOMAIN hits[s] = 1 .. Len(hits[s]) /\ Len(hits[s]) \in Nat
    BY <2>1, IsSeqFacts DEF HitsInv
  <2>3. CASE Written(s)
    BY <2>1, <2>2, <2>3 DEF ReadInv
  <2>4. CASE ~ Written(s)
    <3>1. reading[s] = "hits" /\ Len(hits[s]) = 0
      BY <2>1, <2>4, EmptyIsSeq DEF HitsInv
    <3>. QED
      BY <2>2, <3>1
  <2>. QED
    BY <2>3, <2>4
<1>. QED
  BY <1>1, PathInvariant, PTL

-----------------------------------------------------------------------------
(***************************************************************************)
(* More about sequences of anything.                                       *)
(***************************************************************************)
LEMMA SameElements ==
  ASSUME NEW p, NEW q, IsSeq(p), IsSeq(q), Len(p) = Len(q), \A k \in 1 .. Len(p) : p[k] = q[k]
  PROVE  p = q
<1>. DEFINE S == {p[k] : k \in 1 .. Len(p)} \cup {q[k] : k \in 1 .. Len(q)}
<1>1. p \in Seq(S) /\ q \in Seq(S)
  <2>1. /\ {p[k] : k \in 1 .. Len(p)} \subseteq S
        /\ {q[k] : k \in 1 .. Len(q)} \subseteq S
    OBVIOUS
  <2>. HIDE DEF S
  <2>. QED
    BY <2>1, SeqMonotonic DEF IsSeq
<1>. HIDE DEF S
<1>2. p \in [1 .. Len(p) -> S] /\ q \in [1 .. Len(q) -> S]
  BY <1>1, LenProperties
<1>. QED
  BY <1>2

LEMMA ConcatIsSeq ==
  ASSUME NEW p, NEW q, IsSeq(p), IsSeq(q)
  PROVE  /\ IsSeq(p \o q)
         /\ Len(p \o q) = Len(p) + Len(q)
         /\ \A k \in 1 .. Len(p) : (p \o q)[k] = p[k]
         /\ \A k \in 1 .. Len(q) : (p \o q)[Len(p) + k] = q[k]
<1>. DEFINE S == {p[k] : k \in 1 .. Len(p)} \cup {q[k] : k \in 1 .. Len(q)}
<1>1. p \in Seq(S) /\ q \in Seq(S)
  <2>1. /\ {p[k] : k \in 1 .. Len(p)} \subseteq S
        /\ {q[k] : k \in 1 .. Len(q)} \subseteq S
    OBVIOUS
  <2>. HIDE DEF S
  <2>. QED
    BY <2>1, SeqMonotonic DEF IsSeq
<1>. HIDE DEF S
<1>2. /\ p \o q \in Seq(S) /\ Len(p \o q) = Len(p) + Len(q)
      /\ \A i \in 1 .. Len(p) + Len(q) :
           (p \o q)[i] = IF i <= Len(p) THEN p[i] ELSE q[i - Len(p)]
  BY <1>1, ConcatProperties
<1>3. Len(p) \in Nat /\ Len(q) \in Nat
  BY IsSeqFacts
<1>. DEFINE m == Len(p)
            n == Len(q)
            c == p \o q
<1>4. /\ \A k \in 1 .. m : c[k] = p[k]
      /\ \A k \in 1 .. n : c[m + k] = q[k]
  <2>1. \A i \in 1 .. m + n : c[i] = IF i <= m THEN p[i] ELSE q[i - m]
    BY <1>2
  <2>2. m \in Nat /\ n \in Nat
    BY <1>3
  <2>. HIDE DEF m, n, c
  <2>3. ASSUME NEW k \in 1 .. n PROVE c[m + k] = q[k]
    <3>1. m + k \in 1 .. m + n /\ ~ (m + k <= m) /\ (m + k) - m = k
      BY <2>2
    <3>. QED
      BY <2>1, <3>1
  <2>. QED
    BY <2>1, <2>2, <2>3
<1>. QED
  BY <1>2, <1>4, SeqIsSeq

LEMMA SubSeqIsSeq ==
  ASSUME NEW q, NEW m \in Int, NEW n \in Int
  PROVE  /\ IsSeq(SubSeq(q, m, n))
         /\ Len(SubSeq(q, m, n)) = IF m <= n THEN n - m + 1 ELSE 0
         /\ \A i \in 1 .. n - m + 1 : SubSeq(q, m, n)[i] = q[m + i - 1]
<1>. DEFINE S == {q[i] : i \in m .. n}
<1>1. \A i \in m .. n : q[i] \in S
  OBVIOUS
<1>. HIDE DEF S
<1>2. /\ SubSeq(q, m, n) \in Seq(S)
      /\ Len(SubSeq(q, m, n)) = IF m <= n THEN n - m + 1 ELSE 0
      /\ \A i \in 1 .. n - m + 1 : SubSeq(q, m, n)[i] = q[m + i - 1]
  BY <1>1, SubSeqProperties
<1>3. IsSeq(SubSeq(q, m, n))
  BY <1>2, SeqIsSeq
<1>. QED
  BY <1>2, <1>3

LEMMA SingleIsSeq ==
  ASSUME NEW x
  PROVE  IsSeq(<< x >>) /\ Len(<< x >>) = 1 /\ << x >>[1] = x
<1>1. << x >> \in Seq({x})
  OBVIOUS
<1>. QED
  BY <1>1, SeqIsSeq

LEMMA PrefixIs ==
  ASSUME NEW p, NEW q, IsSeq(p), IsSeq(q), Len(p) <= Len(q),
         \A k \in 1 .. Len(p) : q[k] = p[k]
  PROVE  SubSeq(q, 1, Len(p)) = p
<1>. DEFINE n == Len(p)
            c == SubSeq(q, 1, n)
<1>1. n \in Nat
  BY IsSeqFacts
<1>2. /\ IsSeq(c) /\ Len(c) = (IF 1 <= n THEN n - 1 + 1 ELSE 0)
      /\ \A i \in 1 .. n - 1 + 1 : c[i] = q[1 + i - 1]
  BY <1>1, SubSeqIsSeq
<1>. HIDE DEF n, c
<1>3. Len(c) = n /\ \A i \in 1 .. n : c[i] = q[i]
  BY <1>1, <1>2
<1>. QED
  BY <1>2, <1>3, SameElements DEF n, c

LEMMA OverwriteFacts ==
  ASSUME NEW old, NEW new, IsSeq(old), IsSeq(new)
  PROVE  /\ IsSeq(Overwrite(old, new))
         /\ Len(new) <= Len(Overwrite(old, new))
         /\ SubSeq(Overwrite(old, new), 1, Len(new)) = new
         /\ \A k \in 1 .. Len(new) : Overwrite(old, new)[k] = new[k]
         /\ \A k \in 1 .. Len(Overwrite(old, new)) :
              k > Len(new) => k \in 1 .. Len(old) /\ Overwrite(old, new)[k] = old[k]
<1>. DEFINE m == Len(new)
            n == Len(old)
            t == SubSeq(old, m + 1, n)
            c == Overwrite(old, new)
<1>1. m \in Nat /\ n \in Nat
  BY IsSeqFacts
<1>2. /\ IsSeq(t) /\ Len(t) = (IF m + 1 <= n THEN n - (m + 1) + 1 ELSE 0)
      /\ \A i \in 1 .. n - (m + 1) + 1 : t[i] = old[m + 1 + i - 1]
  BY <1>1, SubSeqIsSeq
<1>3. c = new \o t
  BY DEF Overwrite
<1>. HIDE DEF t, c
<1>4. /\ IsSeq(c) /\ Len(c) = m + Len(t)
      /\ \A k \in 1 .. m : c[k] = new[k]
      /\ \A k \in 1 .. Len(t) : c[m + k] = t[k]
  BY <1>2, <1>3, ConcatIsSeq
<1>5. m <= Len(c)
  <2>. HIDE DEF m, n
  <2>. QED
    BY <1>1, <1>2, <1>4
<1>6. SubSeq(c, 1, m) = new
  BY <1>4, <1>5, PrefixIs
<1>7. ASSUME NEW k \in 1 .. Len(c), k > m
      PROVE  k \in 1 .. n /\ c[k] = old[k]
  <2>. HIDE DEF m, n
  <2>1. k - m \in 1 .. Len(t) /\ m + (k - m) = k /\ Len(t) = n - m /\ k \in 1 .. n
    BY <1>1, <1>2, <1>4, <1>7
  <2>2. c[k] = t[k - m]
    BY <1>4, <2>1
  <2>3. t[k - m] = old[m + 1 + (k - m) - 1]
    <3>1. k - m \in 1 .. n - (m + 1) + 1
      BY <1>1, <2>1
    <3>. QED
      BY <1>2, <3>1
  <2>4. m + 1 + (k - m) - 1 = k
    BY <1>1
  <2>. QED
    BY <2>1, <2>2, <2>3, <2>4
<1>. QED
  BY <1>4, <1>5, <1>6, <1>7 DEF c

-----------------------------------------------------------------------------
(***************************************************************************)
(* What rhd2rtd collects: records of hits whose samples, if they have any, *)
(* are as many as they say.                                                *)
(***************************************************************************)
IsRtd(x) ==
  /\ DOMAIN x = {"trig", "calo", "tracker"}
  /\ IsSeq(x.calo) /\ IsSeq(x.tracker)
  /\ \A k \in 1 .. Len(x.calo) : IsSampled(x.calo[k])

RtdsInv ==
  /\ DOMAIN used = Sources /\ \A s \in Sources : used[s] \in Nat
  /\ IsSeq(rtds)
  /\ \A n \in 1 .. Len(rtds) : IsRtd(rtds[n])

LEMMA DeliveredIsSampled ==
  ASSUME FilesInv, NEW s \in Sources, NEW j \in 1 .. Len(hits[s])
  PROVE  hits[s][j].type = "CALO" => IsSampled(hits[s][j])
<1>. DEFINE h == hits[s][j]
<1>1. PICK k \in 1 .. Len(lines[s]) : CaloReadAt(s, k, h) \/ TrackerReadAt(s, k, h)
  BY DEF FilesInv, HitsInv
<1>2. CASE CaloReadAt(s, k, h)
  BY <1>2, CaloHitIsComplete
<1>3. CASE TrackerReadAt(s, k, h)
  BY <1>3, TrackerHitIsComplete
<1>. QED
  BY <1>1, <1>2, <1>3

LEMMA WithHitIsRtd ==
  ASSUME NEW x, NEW h, IsRtd(x), h.type = "CALO" => IsSampled(h)
  PROVE  IsRtd(WithHit(x, h))
<1>. DEFINE y == WithHit(x, h)
<1>1. CASE h.type = "CALO"
  <2>1. y = [x EXCEPT !.calo = Append(x.calo, h)]
    BY <1>1 DEF WithHit
  <2>2. DOMAIN y = DOMAIN x /\ y.calo = Append(x.calo, h) /\ y.tracker = x.tracker
    BY <2>1 DEF IsRtd
  <2>3. /\ IsSeq(y.calo) /\ Len(y.calo) = Len(x.calo) + 1 /\ Len(x.calo) \in Nat
        /\ \A k \in 1 .. Len(x.calo) : y.calo[k] = x.calo[k]
        /\ y.calo[Len(x.calo) + 1] = h
    BY <2>2, AppendIsSeq, IsSeqFacts DEF IsRtd
  <2>. HIDE DEF y
  <2>4. ASSUME NEW k \in 1 .. Len(y.calo) PROVE IsSampled(y.calo[k])
    <3>1. CASE k \in 1 .. Len(x.calo)
      BY <2>3, <3>1 DEF IsRtd
    <3>2. CASE k = Len(x.calo) + 1
      BY <1>1, <2>3, <3>2
    <3>. QED
      BY <2>3, <3>1, <3>2
  <2>. QED
    BY <2>2, <2>3, <2>4 DEF IsRtd, y
<1>2. CASE h.type # "CALO"
  <2>1. y = [x EXCEPT !.tracker = Append(x.tracker, h)]
    BY <1>2 DEF WithHit
  <2>2. DOMAIN y = DOMAIN x /\ y.tracker = Append(x.tracker, h) /\ y.calo = x.calo
    BY <2>1 DEF IsRtd
  <2>3. IsSeq(y.tracker)
    BY <2>2, AppendIsSeq DEF IsRtd
  <2>. HIDE DEF y
  <2>. QED
    BY <2>2, <2>3 DEF IsRtd, y
<1>. QED
  BY <1>1, <1>2

LEMMA NewRtdIsRtd ==
  ASSUME NEW t
  PROVE  IsRtd(NewRtd(t))
<1>1. /\ DOMAIN NewRtd(t) = {"trig", "calo", "tracker"}
      /\ NewRtd(t).calo = << >> /\ NewRtd(t).tracker = << >>
  BY DEF NewRtd
<1>2. IsSeq(<< >>) /\ 1 .. Len(<< >>) = {}
  BY EmptyIsSeq
<1>. QED
  BY <1>1, <1>2 DEF IsRtd

LEMMA CollectRtds ==
  ASSUME FilesInv, RtdsInv, NEW s \in Sources, Collect(s)
  PROVE  RtdsInv'
<1>. DEFINE h == NextHit(s)
            isNew == rtds = << >> \/ Last(rtds).trig # h.trig
            open == IF isNew THEN Append(rtds, NewRtd(h.trig)) ELSE rtds
            x == WithHit(Last(open), h)
<1>1. /\ rtds' = Front(open) \o << x >>
      /\ used' = [used EXCEPT ![s] = @ + 1] /\ Uncollected(s)
  BY DEF Collect, IsOldest
<1>2. h.type = "CALO" => IsSampled(h)
  <2>1. used[s] + 1 \in 1 .. Len(hits[s])
    <3>1. used[s] \in Nat /\ used[s] < Len(hits[s]) /\ Len(hits[s]) \in Nat
      BY <1>1, IsSeqFacts DEF RtdsInv, Uncollected, FilesInv, HitsInv
    <3>. QED
      BY <3>1
  <2>. QED
    BY <2>1, DeliveredIsSampled DEF NextHit
<1>3. Len(open) \in Nat \ {0} /\ \A n \in 1 .. Len(open) : IsRtd(open[n])
  <2>1. /\ IsSeq(rtds) /\ Len(rtds) \in Nat
        /\ \A n \in 1 .. Len(rtds) : IsRtd(rtds[n])
    BY IsSeqFacts DEF RtdsInv
  <2>2. CASE isNew
    <3>. DEFINE q == Append(rtds, NewRtd(h.trig))
    <3>1. /\ Len(q) = Len(rtds) + 1
          /\ \A n \in 1 .. Len(rtds) : q[n] = rtds[n]
          /\ q[Len(rtds) + 1] = NewRtd(h.trig)
      BY <2>1, AppendIsSeq
    <3>2. open = q
      BY <2>2
    <3>. HIDE DEF q, open, h
    <3>3. ASSUME NEW n \in 1 .. Len(q) PROVE IsRtd(q[n])
      <4>1. CASE n \in 1 .. Len(rtds)
        BY <2>1, <3>1, <4>1
      <4>2. CASE n = Len(rtds) + 1
        BY <3>1, <4>2, NewRtdIsRtd
      <4>. QED
        BY <2>1, <3>1, <4>1, <4>2
    <3>. QED
      BY <2>1, <3>1, <3>2, <3>3
  <2>3. CASE ~ isNew
    <3>1. open = rtds /\ rtds # << >>
      BY <2>3
    <3>2. Len(rtds) # 0
      BY <2>1, <3>1, EmptySeq, LenProperties DEF IsSeq
    <3>. HIDE DEF open
    <3>. QED
      BY <2>1, <3>1, <3>2
  <2>. QED
    BY <2>2, <2>3
<1>. HIDE DEF open, h
<1>4. IsRtd(x)
  <2>1. Last(open) = open[Len(open)] /\ Len(open) \in 1 .. Len(open)
    BY <1>3 DEF Last
  <2>. QED
    BY <1>2, <1>3, <2>1, WithHitIsRtd
<1>. HIDE DEF x
<1>5. /\ IsSeq(Front(open)) /\ Len(Front(open)) = Len(open) - 1
      /\ \A n \in 1 .. Len(open) - 1 : Front(open)[n] = open[n]
  <2>. DEFINE l == Len(open)
              f == SubSeq(open, 1, l - 1)
  <2>1. l \in Nat \ {0}
    BY <1>3
  <2>2. /\ IsSeq(f) /\ Len(f) = (IF 1 <= l - 1 THEN (l - 1) - 1 + 1 ELSE 0)
        /\ \A n \in 1 .. (l - 1) - 1 + 1 : f[n] = open[1 + n - 1]
    BY <2>1, SubSeqIsSeq
  <2>3. Front(open) = f
    BY DEF Front
  <2>. HIDE DEF l, f
  <2>4. Len(f) = l - 1 /\ \A n \in 1 .. l - 1 : f[n] = open[n]
    BY <2>1, <2>2
  <2>. QED
    BY <2>2, <2>3, <2>4 DEF l
<1>6. /\ IsSeq(rtds') /\ Len(rtds') = Len(Front(open)) + 1
      /\ \A n \in 1 .. Len(Front(open)) : rtds'[n] = Front(open)[n]
      /\ rtds'[Len(Front(open)) + 1] = x
  <2>1. IsSeq(<< x >>) /\ Len(<< x >>) = 1 /\ << x >>[1] = x
    BY SingleIsSeq
  <2>. QED
    BY <1>1, <1>5, <2>1, ConcatIsSeq
<1>7. ASSUME NEW n \in 1 .. Len(rtds') PROVE IsRtd(rtds'[n])
  <2>1. CASE n \in 1 .. Len(open) - 1
    BY <1>3, <1>5, <1>6, <2>1
  <2>2. CASE n = Len(open)
    BY <1>3, <1>4, <1>5, <1>6, <2>2
  <2>. QED
    BY <1>3, <1>5, <1>6, <2>1, <2>2
<1>8. DOMAIN used' = Sources /\ \A t \in Sources : used'[t] \in Nat
  BY <1>1 DEF RtdsInv
<1>. QED
  BY <1>6, <1>7, <1>8 DEF RtdsInv

-----------------------------------------------------------------------------
(***************************************************************************)
(* What a row has of an RTD.                                               *)
(***************************************************************************)
GoodColumns(c) ==
  /\ IsSeq(c.calo) /\ IsSeq(c.samples) /\ IsSeq(c.tracker)
  /\ \A k \in 1 .. Len(c.samples) : IsSeq(c.samples[k])

FaithfulRow(row, x) ==
  /\ row.trig = x.trig
  /\ row.tracker = x.tracker
  /\ row.calo = [k \in DOMAIN x.calo |-> Entry(x.calo[k])]
  /\ \A k \in DOMAIN x.calo :
       SubSeq(row.samples[k], 1, row.calo[k].nsamples) = x.calo[k].samples

LEMMA FunctionIsSeq ==
  ASSUME NEW n \in Nat, NEW S, NEW q \in [1 .. n -> S]
  PROVE  IsSeq(q) /\ Len(q) = n
<1>1. q \in Seq(S)
  BY SeqDef
<1>2. Len(q) = n
  BY <1>1, LenProperties
<1>. QED
  BY <1>1, <1>2, SeqIsSeq

LEMMA ExportedRow ==
  ASSUME GoodColumns(columns), NEW x, IsRtd(x), ~ ExportThrows(x), NEW c, c = Exported(x)
  PROVE  FaithfulRow(Row(c), x) /\ GoodColumns(c)
<1>. DEFINE n == Len(x.calo)
            entries == [k \in 1 .. n |-> Entry(x.calo[k])]
            smp(k) == Overwrite(OldSamples(k), x.calo[k].samples)
            waves == [k \in 1 .. n |-> smp(k)]
            row == Row(c)
<1>1. /\ n \in Nat /\ DOMAIN x.calo = 1 .. n /\ IsSeq(x.tracker)
      /\ \A k \in 1 .. n : IsSampled(x.calo[k])
  BY IsSeqFacts DEF IsRtd
<1>2. \A k \in 1 .. n : x.calo[k].waveforms
  BY <1>1 DEF ExportThrows
<1>3. /\ c.trig = x.trig /\ c.ncalo = n /\ c.ntracker = Len(x.tracker)
      /\ c.calo = Overwrite(columns.calo, entries)
      /\ c.samples = Overwrite(columns.samples, waves)
      /\ c.tracker = Overwrite(columns.tracker, x.tracker)
  BY <1>1 DEF Exported
<1>4. IsSeq(entries) /\ Len(entries) = n
  <2>. DEFINE S == {Entry(x.calo[k]) : k \in 1 .. n}
  <2>1. entries \in [1 .. n -> S]
    OBVIOUS
  <2>. HIDE DEF S, entries, n
  <2>. QED
    BY <1>1, <2>1, FunctionIsSeq
<1>5. IsSeq(waves) /\ Len(waves) = n
  <2>. DEFINE S == {smp(k) : k \in 1 .. n}
  <2>. HIDE DEF smp
  <2>1. waves \in [1 .. n -> S]
    OBVIOUS
  <2>. HIDE DEF S, waves, n
  <2>. QED
    BY <1>1, <2>1, FunctionIsSeq
<1>6. ASSUME NEW k \in 1 .. n
      PROVE  /\ IsSeq(smp(k))
             /\ SubSeq(smp(k), 1, Len(x.calo[k].samples)) = x.calo[k].samples
             /\ x.calo[k].nsamples = Len(x.calo[k].samples)
  <2>1. IsSeq(OldSamples(k))
    <3>1. CASE k <= Len(columns.samples)
      <4>1. k \in 1 .. Len(columns.samples)
        BY <1>1, <3>1, IsSeqFacts DEF GoodColumns
      <4>. QED
        BY <3>1, <4>1 DEF OldSamples, GoodColumns
    <3>2. CASE ~ (k <= Len(columns.samples))
      BY <3>2, EmptyIsSeq DEF OldSamples
    <3>. QED
      BY <3>1, <3>2
  <2>2. IsSampled(x.calo[k]) /\ x.calo[k].waveforms
    BY <1>1, <1>2
  <2>3. IsSeq(x.calo[k].samples) /\ x.calo[k].nsamples = Len(x.calo[k].samples)
    BY <2>2 DEF IsSampled
  <2>. QED
    BY <2>1, <2>3, OverwriteFacts
<1>. HIDE DEF n, entries, smp
<1>7. \A k \in 1 .. n : waves[k] = smp(k)
  OBVIOUS
<1>. HIDE DEF waves
<1>8. /\ IsSeq(c.calo) /\ SubSeq(c.calo, 1, n) = entries
      /\ IsSeq(c.samples) /\ SubSeq(c.samples, 1, n) = waves
      /\ IsSeq(c.tracker) /\ SubSeq(c.tracker, 1, c.ntracker) = x.tracker
  <2>1. IsSeq(columns.calo) /\ IsSeq(columns.samples) /\ IsSeq(columns.tracker)
    BY DEF GoodColumns
  <2>2. IsSeq(c.calo) /\ SubSeq(c.calo, 1, n) = entries
    BY <1>3, <1>4, <2>1, OverwriteFacts
  <2>3. IsSeq(c.samples) /\ SubSeq(c.samples, 1, n) = waves
    BY <1>3, <1>5, <2>1, OverwriteFacts
  <2>4. IsSeq(c.tracker) /\ SubSeq(c.tracker, 1, c.ntracker) = x.tracker
    BY <1>1, <1>3, <2>1, OverwriteFacts
  <2>. QED
    BY <2>2, <2>3, <2>4
<1>9. ASSUME NEW k \in 1 .. Len(c.samples) PROVE IsSeq(c.samples[k])
  <2>1. /\ \A j \in 1 .. n : c.samples[j] = waves[j]
        /\ k > n => k \in 1 .. Len(columns.samples) /\ c.samples[k] = columns.samples[k]
    BY <1>3, <1>5, OverwriteFacts DEF GoodColumns
  <2>2. CASE k > n
    BY <2>1, <2>2 DEF GoodColumns
  <2>3. CASE ~ (k > n)
    <3>1. k \in 1 .. n
      BY <1>1, <1>8, <2>3, IsSeqFacts
    <3>. QED
      BY <1>6, <1>7, <2>1, <3>1
  <2>. QED
    BY <2>2, <2>3
<1>10. row.trig = x.trig /\ row.calo = entries /\ row.samples = waves /\ row.tracker = x.tracker
  BY <1>3, <1>8 DEF Row
<1>. HIDE DEF row
<1>11. ASSUME NEW k \in 1 .. n
       PROVE  SubSeq(row.samples[k], 1, row.calo[k].nsamples) = x.calo[k].samples
  <2>1. row.samples[k] = smp(k)
    BY <1>7, <1>10
  <2>2. row.calo[k].nsamples = x.calo[k].nsamples
    <3>1. entries[k] = Entry(x.calo[k])
      BY DEF entries
    <3>. QED
      BY <1>10, <3>1 DEF Entry
  <2>3. row.calo[k].nsamples = Len(x.calo[k].samples)
    BY <1>6, <2>2
  <2>. QED
    BY <1>6, <2>1, <2>3
<1>12. FaithfulRow(row, x)
  <2>1. DOMAIN x.calo = 1 .. n
    BY <1>1
  <2>2. row.calo = [k \in DOMAIN x.calo |-> Entry(x.calo[k])]
    BY <1>10, <2>1 DEF entries
  <2>. QED
    BY <1>10, <1>11, <2>1, <2>2 DEF FaithfulRow
<1>. QED
  BY <1>8, <1>9, <1>12 DEF GoodColumns, row

-----------------------------------------------------------------------------
(***************************************************************************)
(* The invariant of the conversion.  Nothing is converted before the last  *)
(* hit is collected, so the RTDs stay as they are from the first row on.   *)
(***************************************************************************)
ConvInv ==
  /\ GoodColumns(columns)
  /\ IsSeq(rows)
  /\ nprocessed \in 0 .. Len(rtds)
  /\ converting \in {"run", "done", "failed"}
  /\ ~ AllCollected => converting = "run" /\ nprocessed = 0
  /\ converting = "run" => Len(rows) = nprocessed /\ (MaxRows > 0 => nprocessed < MaxRows)
  /\ converting = "done" => Len(rows) = Wanted
  /\ converting = "failed" => nprocessed \in 1 .. Wanted /\ ~ Exportable(nprocessed)
  /\ \A n \in 1 .. Len(rows) : n \in 1 .. Len(rtds) /\ FaithfulRow(rows[n], rtds[n])

LEMMA InitConv ==
  ASSUME Init
  PROVE  RtdsInv /\ ConvInv
<1>1. /\ used = [s \in Sources |-> 0] /\ rtds = << >> /\ rows = << >> /\ nprocessed = 0
      /\ columns.calo = << >> /\ columns.samples = << >> /\ columns.tracker = << >>
      /\ converting = "run"
  BY DEF Init, ConverterInit
<1>2. IsSeq(<< >>) /\ Len(<< >>) = 0 /\ 1 .. Len(<< >>) = {}
  BY EmptyIsSeq
<1>3. RtdsInv
  BY <1>1, <1>2 DEF RtdsInv
<1>4. GoodColumns(columns)
  BY <1>1, <1>2 DEF GoodColumns
<1>. QED
  BY <1>1, <1>2, <1>3, <1>4, RowsAssumption DEF ConvInv

LEMMA QuietConv ==
  ASSUME ConvInv, UNCHANGED convertervars, AllCollected => AllCollected'
  PROVE  ConvInv'
<1>1. UNCHANGED << rtds, nprocessed, columns, rows, converting >>
  BY DEF convertervars
<1>2. Wanted' = Wanted /\ \A n : Exportable(n)' = Exportable(n)
  BY <1>1 DEF Wanted, Exportable
<1>3. ~ AllCollected' => ~ AllCollected
  OBVIOUS
<1>. HIDE DEF AllCollected
<1>. QED
  BY <1>1, <1>2, <1>3 DEF ConvInv

LEMMA CollectConv ==
  ASSUME ConvInv, RtdsInv', NEW s \in Sources, Collect(s)
  PROVE  ConvInv'
<1>1. UNCHANGED << nprocessed, columns, rows, converting >> /\ ~ AllCollected
  BY DEF Collect, IsOldest, AllCollected
<1>2. converting = "run" /\ nprocessed = 0 /\ Len(rows) = 0
  BY <1>1 DEF ConvInv
<1>3. Len(rtds') \in Nat
  BY IsSeqFacts DEF RtdsInv
<1>4. GoodColumns(columns') /\ IsSeq(rows') /\ Len(rows') = 0 /\ (MaxRows > 0 => 0 < MaxRows)
  BY <1>1, <1>2 DEF ConvInv
<1>. HIDE DEF AllCollected
<1>. QED
  BY <1>1, <1>2, <1>3, <1>4 DEF ConvInv

LEMMA ConvertConv ==
  ASSUME RtdsInv, ConvInv, Convert
  PROVE  ConvInv'
<1>1. UNCHANGED << rtds, reading, hits, used >> /\ AllCollected /\ converting = "run"
  BY DEF Convert, ConverterStep, ConvertNext, ConvertFails, ConvertEnds, readervars
<1>2. AllCollected'
  BY <1>1 DEF AllCollected, AllRead, Uncollected
<1>3. Wanted' = Wanted /\ \A n : Exportable(n)' = Exportable(n)
  BY <1>1 DEF Wanted, Exportable
<1>. DEFINE n == nprocessed
            N == Len(rtds)
<1>4. /\ N \in Nat /\ n \in 0 .. N /\ Len(rows) = n /\ (MaxRows > 0 => n < MaxRows) /\ IsSeq(rows)
      /\ GoodColumns(columns)
      /\ \A j \in 1 .. n : j \in 1 .. N /\ FaithfulRow(rows[j], rtds[j])
  BY <1>1, IsSeqFacts DEF ConvInv, RtdsInv
<1>5. MaxRows \in Nat /\ Wanted = IF MaxRows > 0 /\ MaxRows < N THEN MaxRows ELSE N
  BY RowsAssumption DEF Wanted
<1>6. CASE ConvertNext
  <2>. DEFINE x == rtds[n + 1]
              row == Row(columns')
  <2>1. /\ n < N /\ ~ ExportThrows(x) /\ nprocessed' = n + 1 /\ columns' = Exported(x)
        /\ rows' = Append(rows, row)
        /\ converting' = IF AtLimit(Len(rows')) THEN "done" ELSE "run"
    BY <1>6 DEF ConvertNext, NextRtd
  <2>2. n + 1 \in 1 .. N
    BY <1>4, <2>1
  <2>3. IsRtd(x)
    BY <2>2 DEF RtdsInv
  <2>4. FaithfulRow(row, x) /\ GoodColumns(columns')
    BY <1>4, <2>1, <2>3, ExportedRow
  <2>. HIDE DEF row
  <2>5. /\ IsSeq(rows') /\ Len(rows') = n + 1
        /\ \A j \in 1 .. n : rows'[j] = rows[j]
        /\ rows'[n + 1] = row
    BY <1>4, <2>1, AppendIsSeq
  <2>6. ASSUME NEW j \in 1 .. n + 1
        PROVE  j \in 1 .. N /\ FaithfulRow(rows'[j], rtds[j])
    <3>1. CASE j \in 1 .. n
      <4>1. rows'[j] = rows[j]
        BY <2>5, <3>1
      <4>. HIDE DEF n, N
      <4>. QED
        BY <1>4, <3>1, <4>1
    <3>2. CASE j = n + 1
      BY <2>2, <2>4, <2>5, <3>2
    <3>. QED
      BY <1>4, <3>1, <3>2
  <2>7. \/ converting' = "done" /\ MaxRows > 0 /\ n + 1 = MaxRows
        \/ converting' = "run" /\ ~ (MaxRows > 0 /\ n + 1 = MaxRows)
    BY <2>1, <2>5 DEF AtLimit
  <2>8. nprocessed' = n + 1
    BY <2>1
  <2>. HIDE DEF n, N, x
  <2>9. n + 1 \in 0 .. N
    BY <1>4, <2>2
  <2>10. converting' = "done" => n + 1 = Wanted
    BY <1>4, <1>5, <2>2, <2>7
  <2>11. converting' = "run" => (MaxRows > 0 => n + 1 < MaxRows)
    BY <1>4, <1>5, <2>7
  <2>12. converting' \in {"run", "done"}
    BY <2>7
  <2>13. \A j \in 1 .. Len(rows') : j \in 1 .. Len(rtds') /\ FaithfulRow(rows'[j], rtds'[j])
    BY <1>1, <2>5, <2>6 DEF N
  <2>14. nprocessed' \in 0 .. Len(rtds')
    BY <1>1, <2>8, <2>9 DEF N
  <2>15. converting' = "run" => Len(rows') = nprocessed' /\ (MaxRows > 0 => nprocessed' < MaxRows)
    BY <2>5, <2>8, <2>11
  <2>16. converting' = "done" => Len(rows') = Wanted'
    BY <1>3, <2>5, <2>10
  <2>17. GoodColumns(columns)' /\ IsSeq(rows')
    BY <2>4, <2>5
  <2>. HIDE DEF AllCollected
  <2>. QED
    BY <1>2, <2>12, <2>13, <2>14, <2>15, <2>16, <2>17 DEF ConvInv
<1>7. CASE ConvertFails
  <2>1. /\ n < N /\ ExportThrows(rtds[n + 1]) /\ nprocessed' = n + 1
        /\ converting' = "failed" /\ columns' = columns /\ rows' = rows
    BY <1>7 DEF ConvertFails, NextRtd
  <2>2. ~ Exportable(n + 1)
    BY <2>1 DEF ExportThrows, Exportable
  <2>. HIDE DEF n, N
  <2>3. n + 1 \in 1 .. Wanted /\ n + 1 \in 0 .. N
    BY <1>4, <1>5, <2>1
  <2>4. nprocessed' \in 1 .. Wanted' /\ ~ Exportable(nprocessed)'
    BY <1>1, <1>3, <2>1, <2>2, <2>3 DEF Exportable
  <2>5. nprocessed' \in 0 .. Len(rtds')
    BY <1>1, <2>1, <2>3 DEF N
  <2>6. \A j \in 1 .. Len(rows') : j \in 1 .. Len(rtds') /\ FaithfulRow(rows'[j], rtds'[j])
    BY <1>1, <1>4, <2>1 DEF N
  <2>7. GoodColumns(columns)' /\ IsSeq(rows')
    BY <1>4, <2>1
  <2>. HIDE DEF AllCollected
  <2>. QED
    BY <1>2, <2>1, <2>4, <2>5, <2>6, <2>7 DEF ConvInv
<1>8. CASE ConvertEnds
  <2>1. /\ n = N /\ converting' = "done"
        /\ nprocessed' = nprocessed /\ columns' = columns /\ rows' = rows
    BY <1>8 DEF ConvertEnds
  <2>. HIDE DEF n, N
  <2>2. Len(rows) = Wanted
    BY <1>4, <1>5, <2>1
  <2>3. Len(rows') = Wanted'
    BY <1>3, <2>1, <2>2
  <2>4. nprocessed' \in 0 .. Len(rtds')
    BY <1>1, <1>4, <2>1 DEF n, N
  <2>5. \A j \in 1 .. Len(rows') : j \in 1 .. Len(rtds') /\ FaithfulRow(rows'[j], rtds'[j])
    BY <1>1, <1>4, <2>1 DEF N
  <2>6. GoodColumns(columns)' /\ IsSeq(rows')
    BY <1>4, <2>1
  <2>. HIDE DEF AllCollected
  <2>. QED
    BY <1>2, <2>1, <2>3, <2>4, <2>5, <2>6 DEF ConvInv
<1>. QED
  BY <1>6, <1>7, <1>8 DEF Convert, ConverterStep

LEMMA RtdsFrame ==
  ASSUME RtdsInv, UNCHANGED << rtds, used >>
  PROVE  RtdsInv'
  BY DEF RtdsInv

LEMMA FilesConv ==
  ASSUME ConvInv, RtdsInv, NEW s \in Sources, Write(s) \/ Read(s)
  PROVE  ConvInv' /\ RtdsInv'
<1>1. UNCHANGED convertervars /\ UNCHANGED << rtds, used >>
  BY DEF Write, Read, convertervars
<1>2. CASE Write(s)
  <2>1. UNCHANGED << reading, hits, used >>
    BY <1>2 DEF Write
  <2>2. AllCollected' = AllCollected
    BY <2>1 DEF AllCollected, AllRead, Uncollected
  <2>. QED
    BY <1>1, <2>2, QuietConv, RtdsFrame
<1>3. CASE Read(s)
  <2>1. reading[s] = "hits"
    BY <1>3 DEF Read, ReaderStep, ReadCalo, ReadTracker, ReadFails, EndOfFile
  <2>2. ~ AllCollected
    BY <2>1 DEF AllCollected, AllRead
  <2>. QED
    BY <1>1, <2>2, QuietConv, RtdsFrame
<1>. QED
  BY <1>2, <1>3

LEMMA StillConv ==
  ASSUME ConvInv, RtdsInv, UNCHANGED vars
  PROVE  ConvInv' /\ RtdsInv'
<1>1. UNCHANGED convertervars /\ UNCHANGED << reading, hits, used, rtds >>
  BY DEF vars, readervars, convertervars
<1>2. AllCollected' = AllCollected
  BY <1>1 DEF AllCollected, AllRead, Uncollected
<1>. QED
  BY <1>1, <1>2, QuietConv, RtdsFrame

(***************************************************************************)
(* The invariant of the conversion holds in every run.                     *)
(***************************************************************************)
THEOREM ConversionInvariant == Spec => [](RtdsInv /\ ConvInv)
<1>. DEFINE Inv == FilesInv /\ RtdsInv /\ ConvInv
<1>1. Init => Inv
  BY InitFiles, InitConv
<1>2. Inv /\ [Next]_vars => Inv'
  <2>. SUFFICES ASSUME Inv, [Next]_vars
                PROVE  Inv'
    OBVIOUS
  <2>1. CASE \E s \in Sources : Write(s) \/ Read(s)
    BY <2>1, WriteFiles, ReadFiles, FilesConv
  <2>2. CASE \E s \in Sources : Collect(s)
    <3>1. FilesInv'
      BY <2>2, QuietFiles, QuietSteps
    <3>2. RtdsInv'
      BY <2>2, CollectRtds
    <3>. QED
      BY <2>2, <3>1, <3>2, CollectConv
  <2>3. CASE Convert
    <3>1. FilesInv'
      BY <2>3, QuietFiles, QuietSteps
    <3>2. UNCHANGED << rtds, used >>
      BY <2>3 DEF Convert, ConverterStep, ConvertNext, ConvertFails, ConvertEnds
    <3>. QED
      BY <2>3, <3>1, <3>2, ConvertConv, RtdsFrame
  <2>4. CASE Ended \/ UNCHANGED vars
    <3>1. FilesInv'
      BY <2>4, QuietFiles, QuietSteps
    <3>2. UNCHANGED vars
      BY <2>4 DEF Ended
    <3>. QED
      BY <3>1, <3>2, StillConv
  <2>. QED
    BY <2>1, <2>2, <2>3, <2>4 DEF Next
<1>3. Spec => []Inv
  BY <1>1, <1>2, PTL DEF Spec
<1>. QED
  BY <1>3, PTL

(***************************************************************************)
(* What a row declares to have is what its RTD has, whatever the earlier   *)
(* rows left in the arrays.                                                *)
(***************************************************************************)
THEOREM RowsAreFaithful == Spec => []RowsFaithful
<1>1. ConvInv => RowsFaithful
  <2>. SUFFICES ASSUME ConvInv, NEW n \in DOMAIN rows
                PROVE  FaithfulRow(rows[n], rtds[n])
    BY DEF RowsFaithful, FaithfulRow
  <2>. QED
    BY IsSeqFacts DEF ConvInv
<1>. QED
  BY <1>1, ConversionInvariant, PTL

(***************************************************************************)
(* The conversion ends with a row for each RTD up to the limit, unless one *)
(* of these has a calorimeter hit without waveforms.                       *)
(***************************************************************************)
THEOREM ConversionEnds == Spec => []ConversionOutcome
<1>1. ConvInv => ConversionOutcome
  BY DEF ConvInv, ConversionOutcome
<1>. QED
  BY <1>1, ConversionInvariant, PTL
=============================================================================
