-------------------------- MODULE ResponseBodyProofs --------------------------
(***************************************************************************)
(* Where the head of a response ends: that the body which the caller gets  *)
(* is the one that the server sent, and that a head which was accepted was *)
(* within the limits, however the stream is cut into chunks.               *)
(***************************************************************************)
EXTENDS ResponseReaderProofs

USE DEF Stages, HeadStages, PollStages, FailStages

-------------------------------------------------------------------------------
(* A line on the wire.                                                     *)

\* Three parts.
LEMMA Regroup ==
  ASSUME NEW a \in Seq(Byte), NEW b \in Seq(Byte), NEW c \in Seq(Byte)
  PROVE  (a \o b) \o c = a \o (b \o c)
BY ConcatAssociative, SMT

\* What follows the first i bytes, and that the sequence s does.
From(w, i) == SubSeq(w, i + 1, Len(w))

Follows(w, i, s) == s = From(w, i)

LEMMA FromIs ==
  ASSUME NEW w \in Seq(Byte), NEW i \in 0 .. Len(w)
  PROVE  /\ From(w, i) \in Seq(Byte)
         /\ Len(From(w, i)) = Len(w) - i
         /\ \A j \in 1 .. Len(w) - i : From(w, i)[j] = w[i + j]
<1>1. i + 1 \in 1 .. Len(w) + 1 /\ Len(w) \in i + 1 - 1 .. Len(w)
  BY LenProperties
<1>2. /\ From(w, i) \in Seq(Byte)
      /\ Len(From(w, i)) = Len(w) - (i + 1) + 1
      /\ \A j \in 1 .. Len(w) - (i + 1) + 1 : From(w, i)[j] = w[(i + 1) + j - 1]
  BY <1>1, Piece DEF From
<1>. QED BY <1>2, LenProperties

\* If what follows has two parts, the second one follows the first.
LEMMA FromParts ==
  ASSUME NEW w \in Seq(Byte), NEW i \in 0 .. Len(w),
         NEW s \in Seq(Byte), NEW t \in Seq(Byte), Follows(w, i, s \o t)
  PROVE  /\ i + Len(s) \in 0 .. Len(w)
         /\ \A j \in 1 .. Len(s) : s[j] = w[i + j]
         /\ Follows(w, i + Len(s), t)
<1>1. Len(s) \in Nat /\ Len(t) \in Nat /\ Len(w) \in Nat
  BY LenProperties
<1>2. /\ Len(s \o t) = Len(s) + Len(t)
      /\ \A j \in 1 .. Len(s) : (s \o t)[j] = s[j]
      /\ \A j \in 1 .. Len(t) : (s \o t)[Len(s) + j] = t[j]
  BY <1>1, ConcatProperties
<1>3. /\ Len(s) + Len(t) = Len(w) - i
      /\ \A j \in 1 .. Len(w) - i : (s \o t)[j] = w[i + j]
  BY <1>2, FromIs DEF Follows
<1>4. i + Len(s) \in 0 .. Len(w)
  BY <1>1, <1>3
<1>5. \A j \in 1 .. Len(s) : s[j] = w[i + j]
  BY <1>1, <1>2, <1>3
<1>6. From(w, i + Len(s)) = t
  <2>1. /\ From(w, i + Len(s)) \in Seq(Byte)
        /\ Len(From(w, i + Len(s))) = Len(w) - (i + Len(s))
        /\ \A j \in 1 .. Len(w) - (i + Len(s)) : From(w, i + Len(s))[j] = w[i + Len(s) + j]
    BY <1>4, FromIs
  <2>2. Len(w) - (i + Len(s)) = Len(t)
    BY <1>1, <1>3
  <2>3. ASSUME NEW j \in 1 .. Len(t) PROVE From(w, i + Len(s))[j] = t[j]
    <3>1. Len(s) + j \in 1 .. Len(w) - i /\ i + (Len(s) + j) = i + Len(s) + j
      BY <1>1, <1>3
    <3>. QED BY <1>2, <1>3, <2>1, <2>2, <3>1
  <2>. QED BY <2>1, <2>2, <2>3, SeqEqual
<1>. QED BY <1>4, <1>5, <1>6 DEF Follows

\* The first break is the first.
LEMMA FirstBreakFirst ==
  ASSUME NEW bytes \in Seq(Byte), Breaks(bytes) # {}
  PROVE  /\ FirstBreak(bytes) \in Breaks(bytes)
         /\ \A j \in Breaks(bytes) : FirstBreak(bytes) <= j
<1>1. Breaks(bytes) \in SUBSET Nat
  BY DEF Breaks
<1>2. \E i \in Breaks(bytes) : \A j \in Breaks(bytes) : i <= j
  BY <1>1, LeastNatural
<1>. QED BY <1>2 DEF FirstBreak

\* The bytes of a line up to its break, and their place on the wire: the break
\* is the first one behind the line's beginning.
Raw(l, bytes) == l \o SubSeq(bytes, 1, FirstBreak(bytes) - 1)

LEMMA LineEnds ==
  ASSUME NEW w \in Seq(Byte), NEW at \in 0 .. Len(w),
         NEW l \in Seq(Byte), NEW bytes \in Seq(Byte), NEW more \in Seq(Byte),
         Follows(w, at, l \o (bytes \o more)),
         Breaks(l) = {}, Breaks(bytes) # {},
         NEW e, e = at + Len(l) + FirstBreak(bytes)
  PROVE  /\ e \in Breaks(w) /\ e > at /\ e \in Nat
         /\ \A i \in Breaks(w) : i > at => i >= e
         /\ Follows(w, e, After(bytes) \o more)
         /\ Raw(l, bytes) \in Seq(Byte)
         /\ Len(Raw(l, bytes)) = e - at - 1
         /\ \A i \in 1 .. e - at - 1 : Raw(l, bytes)[i] = w[at + i]
<1>. DEFINE n == FirstBreak(bytes)
            start == SubSeq(bytes, 1, n)
            rest == After(bytes)
<1>1. Len(l) \in Nat /\ Len(bytes) \in Nat /\ Len(more) \in Nat /\ Len(w) \in Nat
  BY LenProperties
<1>2. n \in 1 .. Len(bytes) /\ bytes[n] = LF /\ \A j \in Breaks(bytes) : n <= j
  BY FirstBreakIs, FirstBreakFirst
<1>. HIDE DEF n
<1>3. /\ start \in Seq(Byte) /\ rest \in Seq(Byte)
      /\ Len(start) = n
      /\ start \o rest = bytes
  <2>1. n \in 0 .. Len(bytes)
    BY <1>1, <1>2
  <2>2. rest = SubSeq(bytes, n + 1, Len(bytes))
    BY DEF After, n
  <2>. QED BY <2>1, <2>2, CutInTwo
<1>4. \A j \in 1 .. n : start[j] = bytes[j]
  BY <1>1, <1>2, Piece
<1>. HIDE DEF start, rest
<1>5. bytes \o more \in Seq(Byte) /\ rest \o more \in Seq(Byte)
  BY <1>3, ConcatProperties
<1>6. /\ at + Len(l) \in 0 .. Len(w)
      /\ \A j \in 1 .. Len(l) : l[j] = w[at + j]
      /\ Follows(w, at + Len(l), bytes \o more)
  <2>. DEFINE tail == bytes \o more
  <2>1. tail \in Seq(Byte) /\ Follows(w, at, l \o tail)
    BY <1>5
  <2>. HIDE DEF tail
  <2>2. /\ at + Len(l) \in 0 .. Len(w)
        /\ \A j \in 1 .. Len(l) : l[j] = w[at + j]
        /\ Follows(w, at + Len(l), tail)
    BY <2>1, FromParts, SMT
  <2>. QED BY <2>2 DEF tail
<1>7. (start \o rest) \o more = start \o (rest \o more)
  BY <1>3, Regroup, Zenon
<1>8. Follows(w, at + Len(l), start \o (rest \o more))
  BY <1>3, <1>6, <1>7
<1>9. /\ at + Len(l) + n \in 0 .. Len(w)
      /\ \A j \in 1 .. n : start[j] = w[at + Len(l) + j]
      /\ Follows(w, at + Len(l) + n, rest \o more)
  <2>. DEFINE tail == rest \o more
              here == at + Len(l)
  <2>1. here \in 0 .. Len(w) /\ start \in Seq(Byte) /\ tail \in Seq(Byte)
    BY <1>3, <1>5, <1>6
  <2>2. Follows(w, here, start \o tail)
    BY <1>8
  <2>. HIDE DEF tail, here
  <2>3. /\ here + Len(start) \in 0 .. Len(w)
        /\ \A j \in 1 .. Len(start) : start[j] = w[here + j]
        /\ Follows(w, here + Len(start), tail)
    BY <2>1, <2>2, FromParts, SMT
  <2>. QED BY <1>3, <2>3 DEF tail, here
<1>10. e = at + Len(l) + n
  BY DEF n
<1>11. e \in Breaks(w) /\ e > at /\ e \in Nat
  <2>1. n \in 1 .. n
    BY <1>1, <1>2
  <2>3. w[e] = LF
    BY <1>2, <1>4, <1>9, <1>10, <2>1
  <2>2. e \in 1 .. Len(w) /\ e > at
    BY <1>1, <1>2, <1>9, <1>10
  <2>. QED BY <2>2, <2>3 DEF Breaks
<1>12. ASSUME NEW i \in Breaks(w), i > at, i < e PROVE FALSE
  <2>1. i \in 1 .. Len(w) /\ w[i] = LF
    BY DEF Breaks
  <2>2. CASE i <= at + Len(l)
    <3>1. i - at \in 1 .. Len(l) /\ at + (i - at) = i
      BY <1>1, <1>12, <2>1, <2>2
    <3>2. l[i - at] = LF
      BY <1>6, <2>1, <3>1
    <3>3. i - at \in Breaks(l)
      BY <3>1, <3>2 DEF Breaks
    <3>. QED BY <3>3
  <2>3. CASE i > at + Len(l)
    <3>. DEFINE j == i - (at + Len(l))
    <3>1. j \in 1 .. n /\ at + Len(l) + j = i /\ j < n
      BY <1>1, <1>2, <1>10, <1>12, <2>1, <2>3
    <3>2. bytes[j] = LF
      BY <1>4, <1>9, <2>1, <3>1
    <3>3. j \in Breaks(bytes)
      BY <1>1, <1>2, <3>1, <3>2 DEF Breaks
    <3>. QED BY <1>2, <3>1, <3>3
  <2>. QED BY <1>1, <2>1, <2>2, <2>3
<1>13. Follows(w, e, After(bytes) \o more)
  BY <1>9, <1>10 DEF rest
<1>14. /\ Raw(l, bytes) \in Seq(Byte)
       /\ Len(Raw(l, bytes)) = e - at - 1
       /\ \A i \in 1 .. e - at - 1 : Raw(l, bytes)[i] = w[at + i]
  <2>. DEFINE short == SubSeq(bytes, 1, n - 1)
  <2>1. /\ short \in Seq(Byte) /\ Len(short) = n - 1
        /\ \A j \in 1 .. n - 1 : short[j] = bytes[j]
    BY <1>1, <1>2, Piece
  <2>. HIDE DEF short
  <2>2. /\ l \o short \in Seq(Byte)
        /\ Len(l \o short) = Len(l) + (n - 1)
        /\ \A i \in 1 .. Len(l) + (n - 1) :
             (l \o short)[i] = IF i <= Len(l) THEN l[i] ELSE short[i - Len(l)]
    <3>1. /\ Len(l \o short) = Len(l) + Len(short)
          /\ \A i \in 1 .. Len(l) + Len(short) :
               (l \o short)[i] = IF i <= Len(l) THEN l[i] ELSE short[i - Len(l)]
      BY <2>1, ConcatProperties
    <3>2. l \o short \in Seq(Byte)
      BY <2>1, ConcatProperties
    <3>. QED BY <2>1, <3>1, <3>2
  <2>3. Len(l) + (n - 1) = e - at - 1
    BY <1>1, <1>2, <1>10
  <2>4. ASSUME NEW i \in 1 .. Len(l) + (n - 1) PROVE (l \o short)[i] = w[at + i]
    <3>1. CASE i <= Len(l)
      BY <1>1, <1>6, <2>2, <3>1
    <3>2. CASE i > Len(l)
      <4>1. i - Len(l) \in 1 .. n - 1 /\ i - Len(l) \in 1 .. n /\ at + Len(l) + (i - Len(l)) = at + i
        BY <1>1, <1>2, <3>2
      <4>2. ~(i <= Len(l))
        BY <1>1, <3>2
      <4>3. (l \o short)[i] = short[i - Len(l)]
        BY <2>2, <4>2
      <4>4. short[i - Len(l)] = start[i - Len(l)]
        BY <1>4, <2>1, <4>1
      <4>. QED BY <1>9, <4>1, <4>3, <4>4
    <3>3. i <= Len(l) \/ i > Len(l)
      BY <1>1, <1>2
    <3>. QED BY <3>1, <3>2, <3>3, Zenon
  <2>5. Raw(l, bytes) = l \o short
    BY DEF Raw, short, n
  <2>. QED BY <2>2, <2>3, <2>4, <2>5
<1>. QED BY <1>1, <1>11, <1>12, <1>13, <1>14 DEF Breaks

\* Without its CR a line is as long, or one byte shorter.
LEMMA StripIs ==
  ASSUME NEW raw \in Seq(Byte)
  PROVE  /\ StripCR(raw) \in Seq(Byte)
         /\ Len(StripCR(raw)) \in Nat
         /\ Len(raw) <= Len(StripCR(raw)) + 1
         /\ StripCR(raw) = <<>> <=> Len(raw) = 0 \/ (Len(raw) = 1 /\ raw[1] = CR)
<1>1. Len(raw) \in Nat /\ (raw = <<>> <=> Len(raw) = 0)
  BY LenProperties, EmptySeq
<1>2. CASE raw # <<>> /\ raw[Len(raw)] = CR
  <2>1. StripCR(raw) = SubSeq(raw, 1, Len(raw) - 1)
    BY <1>2 DEF StripCR
  <2>2. StripCR(raw) \in Seq(Byte) /\ Len(StripCR(raw)) = Len(raw) - 1
    <3>1. Len(raw) - 1 \in 1 - 1 .. Len(raw) /\ 1 \in 1 .. Len(raw) + 1
      BY <1>1, <1>2
    <3>2. /\ SubSeq(raw, 1, Len(raw) - 1) \in Seq(Byte)
          /\ Len(SubSeq(raw, 1, Len(raw) - 1)) = Len(raw) - 1 - 1 + 1
      BY <3>1, Piece
    <3>. QED BY <1>1, <2>1, <3>2
  <2>3. StripCR(raw) = <<>> <=> Len(StripCR(raw)) = 0
    BY <2>2, EmptySeq
  <2>4. StripCR(raw) = <<>> <=> Len(raw) = 1
    BY <1>1, <2>2, <2>3
  <2>. QED BY <1>1, <1>2, <2>2, <2>4
<1>3. CASE ~(raw # <<>> /\ raw[Len(raw)] = CR)
  <2>1. StripCR(raw) = raw
    BY <1>3 DEF StripCR
  <2>. QED BY <1>1, <1>3, <2>1
<1>. QED BY <1>2, <1>3

\* Behind another line, an empty line ends the head: it is the break itself, or
\* a CR and the break.
LEMMA EmptyLineEndsHead ==
  ASSUME NEW w \in Seq(Byte), NEW at \in Breaks(w), NEW e \in Breaks(w), e > at,
         \A i \in Breaks(w) : i > at => i >= e,
         NEW raw \in Seq(Byte), Len(raw) = e - at - 1,
         \A i \in 1 .. e - at - 1 : raw[i] = w[at + i]
  PROVE  StripCR(raw) = <<>> <=> e \in HeadEnds(w)
<1>1. /\ at \in 1 .. Len(w) /\ w[at] = LF
      /\ e \in 1 .. Len(w) /\ w[e] = LF /\ Len(w) \in Nat
  BY DEF Breaks
<1>2. ASSUME NEW i \in 1 .. Len(w), w[i] = LF, i < e PROVE i <= at
  <2>1. i \in Breaks(w)
    BY <1>2 DEF Breaks
  <2>. QED BY <1>1, <1>2, <2>1
<1>3. ASSUME StripCR(raw) = <<>> PROVE e \in HeadEnds(w)
  <2>1. CASE Len(raw) = 0
    <3>1. e - 1 = at
      BY <1>1, <2>1
    <3>2. LineStart(w, e)
      BY <1>1, <3>1 DEF LineStart
    <3>. QED BY <3>2 DEF HeadEnds
  <2>2. CASE Len(raw) = 1 /\ raw[1] = CR
    <3>1. e - 1 = at + 1 /\ e - at - 1 = 1 /\ e - 1 - 1 = at
      <4>1. 1 = e - at - 1
        BY <2>2
      <4>2. e \in Int /\ at \in Int
        BY <1>1
      <4>. QED BY <4>1, <4>2
    <3>2. w[e - 1] = CR
      <4>1. raw[1] = w[at + 1]
        BY <3>1
      <4>. QED BY <2>2, <3>1, <4>1
    <3>3. LineStart(w, e - 1)
      BY <1>1, <3>1 DEF LineStart
    <3>. QED BY <3>2, <3>3 DEF HeadEnds
  <2>. QED BY <1>3, <2>1, <2>2, StripIs
<1>4. ASSUME e \in HeadEnds(w) PROVE StripCR(raw) = <<>>
  <2>1. e > 1
    BY <1>1
  <2>2. CASE LineStart(w, e)
    <3>1. w[e - 1] = LF
      BY <1>1, <2>1, <2>2 DEF LineStart
    <3>2. e - 1 <= at
      BY <1>1, <1>2, <2>1, <3>1
    <3>3. Len(raw) = 0
      BY <1>1, <3>2
    <3>. QED BY <3>3, StripIs
  <2>3. CASE w[e - 1] = CR /\ LineStart(w, e - 1)
    <3>1. e - 1 # at
      BY <1>1, <2>3, ByteAssumption
    <3>2. e - 1 # 1 /\ w[e - 2] = LF
      BY <1>1, <2>3, <3>1 DEF LineStart
    <3>3. e - 2 <= at
      <4>1. e - 2 \in 1 .. Len(w) /\ e - 2 < e
        BY <1>1, <2>1, <3>2
      <4>. QED BY <1>2, <3>2, <4>1
    <3>4. Len(raw) = 1 /\ at + 1 = e - 1 /\ 1 \in 1 .. e - at - 1
      BY <1>1, <3>1, <3>3
    <3>5. raw[1] = CR
      BY <2>3, <3>4
    <3>. QED BY <3>4, <3>5, StripIs
  <2>. QED BY <1>4, <2>2, <2>3 DEF HeadEnds
<1>. QED BY <1>3, <1>4

\* The least of the ends is the end.
LEMMA HeadEndIs ==
  ASSUME NEW w \in Seq(Byte), NEW e \in HeadEnds(w), \A i \in HeadEnds(w) : i >= e
  PROVE  HeadEnd(w) = e
<1>1. HeadEnds(w) \subseteq Nat
  BY DEF HeadEnds, Breaks
<1>2. \A j \in HeadEnds(w) : e <= j
  BY <1>1
<1>. DEFINE h == CHOOSE i \in HeadEnds(w) : \A j \in HeadEnds(w) : i <= j
<1>3. h \in HeadEnds(w) /\ \A j \in HeadEnds(w) : h <= j
  BY <1>2
<1>4. HeadEnd(w) = h
  BY DEF HeadEnd
<1>. HIDE DEF h
<1>5. h <= e /\ h >= e /\ h \in Nat /\ e \in Nat
  BY <1>1, <1>3
<1>. QED BY <1>4, <1>5

-------------------------------------------------------------------------------
(* The place of the reader in the head.                                    *)

\* The line that is being read begins behind the byte `at': at the beginning,
\* behind a break, or where the stream has ended; no empty line was passed.
Here(at) ==
  /\ Breaks(line) = {}
  /\ stage = "status" => at = 0
  /\ stage = "headers" => at = Len(wire) \/ at \in Breaks(wire)
  /\ \A i \in HeadEnds(wire) : i > at

\* What the lines so far have cost.
Within(at) ==
  /\ cap = None <=> MaxHeaders = None
  /\ stage = "status" => cap = MaxHeaders
  /\ OverflowChecks /\ stage = "headers" /\ Breaks(wire) # {} =>
       /\ MaxStatusLine # None => FirstBreak(wire) <= MaxStatusLine
       /\ MaxHeaders # None => at - FirstBreak(wire) + cap <= MaxHeaders

\* The bytes that are not behind the reader follow that place.
Place ==
  stage \in HeadStages =>
    \E at \in 0 .. Len(wire) :
      /\ Follows(wire, at, line \o (trailing \o unread))
      /\ Here(at)
      /\ Within(at)

\* The head is complete: what is left is the body, and the limits were kept.
Opened == Follows(wire, HeadEnd(wire), trailing \o unread) /\ LimitsHold

\* The line l that began at `at' ends at e.
LineTo(at, e, l) ==
  /\ e = Len(wire) \/ e \in Breaks(wire)
  /\ e - at <= Len(l) + 2
  /\ stage = "headers" /\ l = <<>> => HeadEnd(wire) = e /\ (cap # None => e - at <= cap)
  /\ ~(stage = "headers" /\ l = <<>>) => \A i \in HeadEnds(wire) : i > e
  /\ stage = "status" /\ Breaks(wire) # {} =>
       FirstBreak(wire) = e /\ (MaxStatusLine # None => e <= MaxStatusLine)

\* The next line begins where the last one ends.
LEMMA NextPlace ==
  ASSUME NEW e \in 0 .. Len(wire), NEW rest \in Seq(Byte), NEW more \in Seq(Byte),
         Follows(wire, e, rest \o more), e = Len(wire) \/ e \in Breaks(wire),
         \A i \in HeadEnds(wire) : i > e,
         stage' = "headers", wire' = wire, line' = <<>>, trailing' = rest, unread' = more,
         Within(e)'
  PROVE  Place'
<1>1. Breaks(<<>>) = {}
  BY DEF Breaks
<1>2. Here(e)'
  BY <1>1 DEF Here
<1>3. <<>> \o (rest \o more) = rest \o more
  <2>. DEFINE tail == rest \o more
  <2>1. tail \in Seq(Byte)
    BY ConcatProperties
  <2>. HIDE DEF tail
  <2>2. <<>> \o tail = tail
    BY <2>1, ConcatEmptySeq
  <2>. QED BY <2>2 DEF tail
<1>4. Follows(wire, e, <<>> \o (rest \o more))
  BY <1>3
<1>5. Follows(wire', e, line' \o (trailing' \o unread'))
  BY <1>4
<1>6. (Follows(wire, e, line \o (trailing \o unread)))'
  BY <1>5 DEF Follows, From
<1>. QED BY <1>2, <1>6 DEF Place

\* One line of the head.
LEMMA HeadLinePlace ==
  ASSUME TypeOK, stage \in HeadStages,
         NEW at \in 0 .. Len(wire), NEW e \in 0 .. Len(wire),
         NEW l \in Seq(Byte), NEW rest \in Seq(Byte), NEW more \in Seq(Byte),
         Within(at), LineTo(at, e, l), Follows(wire, e, rest \o more),
         HeadLine(l, rest), unread' = more
  PROVE  /\ Place'
         /\ stage' = "stream" => Opened'
         /\ wire' = wire
<1>0. /\ Len(wire) \in Nat /\ Len(l) \in Nat
      /\ cap \in Nat \cup {None} /\ None \notin Nat
  BY MeaningAssumption DEF TypeOK, Values
<1>1. CASE \E error \in FailStages : Fail(error)
  BY <1>1 DEF Fail, Place
<1>2. CASE stage = "status" /\ StatusLine(rest)
  <2>1. /\ stage' = "headers" /\ line' = <<>> /\ trailing' = rest /\ wire' = wire
        /\ cap' = cap
    BY <1>2 DEF StatusLine, head
  <2>2. \A i \in HeadEnds(wire) : i > e
    BY <1>2 DEF LineTo
  <2>3. Within(e)'
    <3>1. cap = MaxHeaders
      BY <1>2 DEF Within
    <3>2. Breaks(wire) # {} =>
            FirstBreak(wire) = e /\ (MaxStatusLine # None => e <= MaxStatusLine)
      BY <1>2 DEF LineTo
    <3>3. cap # None => e - e + cap <= MaxHeaders
      BY <1>0, <3>1
    <3>4. Breaks(wire') = Breaks(wire) /\ FirstBreak(wire') = FirstBreak(wire)
      BY <2>1
    <3>. QED BY <2>1, <3>1, <3>2, <3>3, <3>4 DEF Within
  <2>. QED BY <2>1, <2>2, <2>3, NextPlace DEF LineTo
<1>3. CASE stage = "headers" /\ l = <<>> /\ Lengths \subseteq Nat /\ Frame(rest)
  <2>1. stage' = "stream" /\ trailing' = rest /\ wire' = wire
    BY <1>3 DEF Frame, Fail
  <2>2. HeadEnd(wire) = e /\ (cap # None => e - at <= cap)
    BY <1>3 DEF LineTo
  <2>3. Place'
    BY <2>1 DEF Place
  <2>4. (Follows(wire, HeadEnd(wire), trailing \o unread))'
    BY <2>1, <2>2 DEF Follows, From
  <2>5. LimitsHold'
    <3>. SUFFICES ASSUME OverflowChecks, Breaks(wire) # {}
                  PROVE  /\ MaxStatusLine # None => FirstBreak(wire) <= MaxStatusLine
                         /\ MaxHeaders # None => HeadEnd(wire) - FirstBreak(wire) <= MaxHeaders
      BY <2>1 DEF LimitsHold
    <3>1. /\ MaxStatusLine # None => FirstBreak(wire) <= MaxStatusLine
          /\ MaxHeaders # None => at - FirstBreak(wire) + cap <= MaxHeaders
          /\ MaxHeaders # None => cap # None
      BY <1>3 DEF Within
    <3>2. FirstBreak(wire) \in Nat
      BY FirstBreakIs DEF TypeOK
    <3>3. ASSUME MaxHeaders # None PROVE HeadEnd(wire) - FirstBreak(wire) <= MaxHeaders
      <4>1. MaxHeaders \in Nat /\ cap \in Nat
        BY <1>0, <3>1, <3>3, LimitAssumption
      <4>2. e - FirstBreak(wire) <= MaxHeaders
        BY <1>0, <2>2, <3>1, <3>2, <3>3, <4>1
      <4>. QED BY <2>2, <4>2
    <3>. QED BY <3>1, <3>3
  <2>. QED BY <2>1, <2>3, <2>4, <2>5 DEF Opened
<1>4. CASE /\ stage = "headers" /\ l # <<>> /\ HeaderLine(l, rest)
           /\ ~(OverflowChecks /\ Underflows(cap, Len(l) + 2))
  <2>1. /\ stage' = "headers" /\ line' = <<>> /\ trailing' = rest /\ wire' = wire
        /\ cap' = Minus(cap, Len(l) + 2)
    BY <1>4 DEF HeaderLine
  <2>2. \A i \in HeadEnds(wire) : i > e
    BY <1>4 DEF LineTo
  <2>3. Within(e)'
    <3>1. cap' = None <=> cap = None
      <4>1. cap = None => cap' = None
        BY <2>1 DEF Minus
      <4>2. Len(l) + 2 \in Nat
        BY <1>0
      <4>3. cap \in Nat => cap' \in Nat
        BY <2>1, <4>2, MinusType
      <4>. QED BY <1>0, <4>1, <4>3
    <3>2. cap = None <=> MaxHeaders = None
      BY DEF Within
    <3>3. ASSUME OverflowChecks, Breaks(wire) # {}
          PROVE  /\ MaxStatusLine # None => FirstBreak(wire) <= MaxStatusLine
                 /\ MaxHeaders # None => e - FirstBreak(wire) + cap' <= MaxHeaders
      <4>1. /\ MaxStatusLine # None => FirstBreak(wire) <= MaxStatusLine
            /\ MaxHeaders # None => at - FirstBreak(wire) + cap <= MaxHeaders
        BY <1>4, <3>3 DEF Within
      <4>2. FirstBreak(wire) \in Nat
        BY <3>3, FirstBreakIs DEF TypeOK
      <4>3. ASSUME MaxHeaders # None PROVE e - FirstBreak(wire) + cap' <= MaxHeaders
        <5>1. MaxHeaders \in Nat /\ cap \in Nat /\ cap # None
          BY <1>0, <3>2, <4>3, LimitAssumption
        <5>2. cap' = cap - (Len(l) + 2)
          BY <1>0, <1>4, <2>1, <3>3, <5>1 DEF Underflows, Minus
        <5>3. e - at <= Len(l) + 2
          BY DEF LineTo
        <5>. QED BY <1>0, <4>1, <4>2, <4>3, <5>1, <5>2, <5>3
      <4>. QED BY <4>1, <4>3
    <3>4. Breaks(wire') = Breaks(wire) /\ FirstBreak(wire') = FirstBreak(wire)
      BY <2>1
    <3>. QED BY <2>1, <3>1, <3>2, <3>3, <3>4 DEF Within
  <2>. QED BY <2>1, <2>2, <2>3, NextPlace DEF LineTo
<1>. QED BY <1>1, <1>2, <1>3, <1>4 DEF HeadLine, Frame, HeaderLine


\* The bytes that complete a line, and where the line ends.
LEMMA CompleteLineTo ==
  ASSUME TypeOK, stage \in HeadStages, NEW at \in 0 .. Len(wire), Here(at),
         NEW bytes \in Seq(Byte), NEW more \in Seq(Byte),
         Follows(wire, at, line \o (bytes \o more)),
         Breaks(bytes) # {}, ~Overflows(bytes)
  PROVE  \E e \in 0 .. Len(wire) :
           /\ LineTo(at, e, Complete(bytes))
           /\ Follows(wire, e, After(bytes) \o more)
<1>. DEFINE e == at + Len(line) + FirstBreak(bytes)
            raw == Raw(line, bytes)
<1>0. wire \in Seq(Byte) /\ line \in Seq(Byte) /\ Breaks(line) = {}
  BY DEF TypeOK, Here
<1>1. /\ e \in Breaks(wire) /\ e > at /\ e \in Nat
      /\ \A i \in Breaks(wire) : i > at => i >= e
      /\ Follows(wire, e, After(bytes) \o more)
      /\ raw \in Seq(Byte)
      /\ Len(raw) = e - at - 1
      /\ \A i \in 1 .. e - at - 1 : raw[i] = wire[at + i]
  BY <1>0, LineEnds
<1>2. Complete(bytes) = StripCR(raw)
  BY DEF Complete, Raw
<1>3. Limit # None => e - at <= Limit
  <2>1. FirstBreak(bytes) \in Nat /\ Len(line) \in Nat /\ Limit \in Nat \cup {None}
    BY <1>0, FirstBreakIs, LimitAssumption DEF TypeOK, Limit
  <2>2. Limit # None => Len(line) + FirstBreak(bytes) <= Limit
    BY <2>1 DEF Overflows, Used
  <2>. QED BY <2>1, <2>2
<1>. HIDE DEF e, raw
<1>4. Len(wire) \in Nat /\ e \in 0 .. Len(wire)
  BY <1>0, <1>1 DEF Breaks
<1>5. e - at <= Len(Complete(bytes)) + 2
  <2>1. Len(raw) <= Len(StripCR(raw)) + 1 /\ Len(StripCR(raw)) \in Nat
    BY <1>1, StripIs
  <2>. QED BY <1>1, <1>2, <1>4, <2>1
<1>6. \A i \in HeadEnds(wire) : i >= e
  BY <1>1 DEF Here, HeadEnds
<1>7. \A i \in HeadEnds(wire) : i \in Nat
  BY DEF HeadEnds, Breaks
<1>8. ASSUME e \notin HeadEnds(wire), NEW i \in HeadEnds(wire) PROVE i > e
  <2>1. i >= e /\ i # e /\ i \in Nat
    BY <1>6, <1>7, <1>8
  <2>. QED BY <1>1, <2>1
<1>9. ASSUME stage = "headers"
      PROVE  /\ Complete(bytes) = <<>> =>
                  HeadEnd(wire) = e /\ (cap # None => e - at <= cap)
             /\ Complete(bytes) # <<>> => \A i \in HeadEnds(wire) : i > e
  <2>1. at \in Breaks(wire)
    BY <1>1, <1>4, <1>9 DEF Here
  <2>2. Complete(bytes) = <<>> <=> e \in HeadEnds(wire)
    BY <1>0, <1>1, <1>2, <2>1, EmptyLineEndsHead
  <2>3. cap # None => e - at <= cap
    BY <1>3, <1>9 DEF Limit
  <2>4. e \in HeadEnds(wire) => HeadEnd(wire) = e
    BY <1>0, <1>6, HeadEndIs
  <2>5. e \notin HeadEnds(wire) => \A i \in HeadEnds(wire) : i > e
    BY <1>8
  <2>. QED BY <2>2, <2>3, <2>4, <2>5
<1>10. ASSUME stage = "status"
      PROVE  /\ \A i \in HeadEnds(wire) : i > e
             /\ FirstBreak(wire) = e
             /\ MaxStatusLine # None => e <= MaxStatusLine
  <2>1. at = 0
    BY <1>10 DEF Here
  <2>2. \A i \in Breaks(wire) : i \in Nat /\ i > 0
    BY DEF Breaks
  <2>3. \A i \in Breaks(wire) : i >= e
    BY <1>1, <2>1, <2>2
  <2>4. e \notin HeadEnds(wire)
    BY <1>1, <2>2, <2>3 DEF HeadEnds
  <2>5. \A i \in HeadEnds(wire) : i > e
    BY <1>8, <2>4
  <2>6. FirstBreak(wire) = e
    <3>1. /\ FirstBreak(wire) \in Breaks(wire)
          /\ \A j \in Breaks(wire) : FirstBreak(wire) <= j
      BY <1>0, <1>1, FirstBreakFirst
    <3>2. FirstBreak(wire) <= e /\ FirstBreak(wire) >= e /\ FirstBreak(wire) \in Nat
      BY <1>1, <2>2, <2>3, <3>1
    <3>. QED BY <1>1, <3>2
  <2>7. MaxStatusLine # None => e <= MaxStatusLine
    BY <1>1, <1>3, <1>10, <2>1 DEF Limit
  <2>. QED BY <2>5, <2>6, <2>7
<1>11. LineTo(at, e, Complete(bytes))
  BY <1>1, <1>5, <1>9, <1>10 DEF LineTo
<1>. QED BY <1>1, <1>4, <1>11

\* The end of the stream completes a line, too.
LEMMA ClosedLineTo ==
  ASSUME TypeOK, stage \in HeadStages, NEW at \in 0 .. Len(wire), Here(at),
         Follows(wire, at, line \o (trailing \o unread)),
         trailing = <<>>, unread = <<>>
  PROVE  /\ LineTo(at, Len(wire), line)
         /\ Follows(wire, Len(wire), <<>> \o <<>>)
<1>0. wire \in Seq(Byte) /\ line \in Seq(Byte) /\ Len(wire) \in Nat /\ Len(line) \in Nat
  BY DEF TypeOK
<1>1. <<>> \in Seq(Byte) /\ Follows(wire, at, line \o <<>>)
  BY DEF TypeOK
<1>2. /\ at + Len(line) \in 0 .. Len(wire)
      /\ \A j \in 1 .. Len(line) : line[j] = wire[at + j]
      /\ Follows(wire, at + Len(line), <<>>)
  <2>. DEFINE tail == <<>>
  <2>1. tail \in Seq(Byte) /\ Follows(wire, at, line \o tail)
    BY <1>1
  <2>. HIDE DEF tail
  <2>2. /\ at + Len(line) \in 0 .. Len(wire)
        /\ \A j \in 1 .. Len(line) : line[j] = wire[at + j]
        /\ Follows(wire, at + Len(line), tail)
    BY <1>0, <2>1, FromParts, SMT
  <2>. QED BY <2>2 DEF tail
<1>3. at + Len(line) = Len(wire)
  <2>1. Len(From(wire, at + Len(line))) = Len(wire) - (at + Len(line))
    BY <1>0, <1>2, FromIs
  <2>2. From(wire, at + Len(line)) = <<>>
    BY <1>2 DEF Follows
  <2>. QED BY <1>0, <2>1, <2>2
<1>4. ASSUME NEW i \in Breaks(wire) PROVE i <= at
  <2>1. i \in 1 .. Len(wire) /\ wire[i] = LF
    BY DEF Breaks
  <2>2. ASSUME i > at PROVE FALSE
    <3>1. i - at \in 1 .. Len(line) /\ at + (i - at) = i
      BY <1>0, <1>3, <2>1, <2>2
    <3>2. i - at \in Breaks(line)
      BY <1>2, <2>1, <3>1 DEF Breaks
    <3>. QED BY <3>2 DEF Here
  <2>. QED BY <2>1, <2>2
<1>5. HeadEnds(wire) = {}
  <2>1. ASSUME NEW i \in HeadEnds(wire) PROVE FALSE
    <3>1. i \in Breaks(wire) /\ i > at /\ i \in Nat
      BY <2>1 DEF Here, HeadEnds, Breaks
    <3>. QED BY <1>4, <3>1
  <2>. QED BY <2>1
<1>6. stage = "status" => Breaks(wire) = {}
  <2>1. ASSUME stage = "status", NEW i \in Breaks(wire) PROVE FALSE
    <3>1. i <= 0 /\ i \in Nat /\ i > 0
      BY <1>4, <2>1 DEF Here, Breaks
    <3>. QED BY <3>1
  <2>. QED BY <2>1
<1>7. line = <<>> => Len(wire) - at <= 0
  BY <1>0, <1>3
<1>8. LineTo(at, Len(wire), line)
  <2>1. Len(wire) - at <= Len(line) + 2
    BY <1>0, <1>3
  <2>2. line = <<>> /\ cap # None => Len(wire) - at <= cap
    BY <1>0, <1>7 DEF TypeOK
  <2>3. HeadEnd(wire) = Len(wire)
    BY <1>5 DEF HeadEnd
  <2>. QED BY <1>5, <1>6, <2>1, <2>2, <2>3 DEF LineTo
<1>9. Follows(wire, Len(wire), <<>> \o <<>>)
  <2>1. <<>> \o <<>> = <<>>
    BY ConcatEmptySeq
  <2>. QED BY <1>2, <1>3, <2>1
<1>. QED BY <1>8, <1>9


\* One turn of read_line_async's loop.
LEMMA HeadBytesPlace ==
  ASSUME TypeOK, stage \in HeadStages, NEW at \in 0 .. Len(wire), Here(at), Within(at),
         NEW bytes \in Seq(Byte), NEW more \in Seq(Byte),
         Follows(wire, at, line \o (bytes \o more)),
         HeadBytes(bytes), unread' = more
  PROVE  /\ Place'
         /\ stage' = "stream" => Opened'
         /\ wire' = wire
<1>0. wire \in Seq(Byte) /\ line \in Seq(Byte)
  BY DEF TypeOK
<1>1. CASE Overflows(bytes)
  BY <1>1 DEF HeadBytes, Fail, Place
<1>2. CASE ~Overflows(bytes) /\ Breaks(bytes) = {}
  <2>1. /\ line' = line \o bytes /\ trailing' = <<>>
        /\ wire' = wire /\ stage' = stage /\ cap' = cap
    BY <1>2 DEF HeadBytes, Gather, head
  <2>2. Breaks(line \o bytes) = {}
    <3>1. ASSUME NEW i \in Breaks(line \o bytes) PROVE FALSE
      <4>1. /\ i \in 1 .. Len(line) + Len(bytes)
            /\ (line \o bytes)[i] = LF
        BY <1>0, ConcatProperties DEF Breaks
      <4>2. Len(line) \in Nat /\ Len(bytes) \in Nat
        BY <1>0, LenProperties
      <4>3. CASE i <= Len(line)
        <5>1. line[i] = LF
          BY <1>0, <4>1, <4>3, ConcatProperties
        <5>. QED BY <4>1, <4>2, <4>3, <5>1 DEF Here, Breaks
      <4>4. CASE i > Len(line)
        <5>1. bytes[i - Len(line)] = LF /\ i - Len(line) \in 1 .. Len(bytes)
          BY <1>0, <4>1, <4>2, <4>4, ConcatProperties
        <5>. QED BY <1>2, <5>1 DEF Breaks
      <4>. QED BY <4>1, <4>2, <4>3, <4>4
    <3>. QED BY <3>1
  <2>3. Here(at)'
    BY <2>1, <2>2 DEF Here
  <2>4. Within(at)'
    BY <2>1 DEF Within
  <2>5. (line \o bytes) \o (<<>> \o more) = line \o (bytes \o more)
    <3>1. <<>> \o more = more
      BY ConcatEmptySeq
    <3>2. (line \o bytes) \o more = line \o (bytes \o more)
      BY <1>0, Regroup, Zenon
    <3>. QED BY <3>1, <3>2, Zenon
  <2>6. Follows(wire, at, (line \o bytes) \o (<<>> \o more))
    BY <2>5
  <2>7. (Follows(wire, at, line \o (trailing \o unread)))'
    BY <2>1, <2>6 DEF Follows, From
  <2>. QED BY <2>1, <2>3, <2>4, <2>7 DEF Place
<1>3. CASE ~Overflows(bytes) /\ Breaks(bytes) # {}
  <2>1. PICK e \in 0 .. Len(wire) :
          /\ LineTo(at, e, Complete(bytes))
          /\ Follows(wire, e, After(bytes) \o more)
    BY <1>3, CompleteLineTo
  <2>2. HeadLine(Complete(bytes), After(bytes))
    BY <1>3 DEF HeadBytes
  <2>3. Complete(bytes) \in Seq(Byte) /\ After(bytes) \in Seq(Byte)
    BY <1>0, <1>3, LineType
  <2>. QED BY <2>1, <2>2, <2>3, HeadLinePlace
<1>. QED BY <1>1, <1>2, <1>3

\* Every step in the head keeps the place.
LEMMA HeadStepPlace ==
  ASSUME TypeOK, Place, HeadPrefix \/ HeadChunk \/ HeadClosed
  PROVE  /\ Place'
         /\ stage' = "stream" => Opened'
         /\ wire' = wire
<1>0. stage \in HeadStages
  BY DEF HeadPrefix, HeadChunk, HeadClosed
<1>1. PICK at \in 0 .. Len(wire) :
        /\ Follows(wire, at, line \o (trailing \o unread))
        /\ Here(at)
        /\ Within(at)
  BY <1>0 DEF Place
<1>2. unread \in Seq(Byte) /\ trailing \in Seq(Byte) /\ line \in Seq(Byte)
  BY DEF TypeOK
<1>3. CASE HeadPrefix
  <2>1. HeadBytes(trailing) /\ unread' = unread
    BY <1>3 DEF HeadPrefix, Unasked
  <2>. QED BY <1>0, <1>1, <1>2, <2>1, HeadBytesPlace
<1>4. CASE HeadChunk
  <2>1. PICK n \in 1 .. Len(unread) : HeadBytes(Chunk(n)) /\ Drop(n)
    BY <1>4 DEF HeadChunk
  <2>. DEFINE more == SubSeq(unread, n + 1, Len(unread))
  <2>2. Chunk(n) \in Seq(Byte) /\ more \in Seq(Byte) /\ unread' = more
    BY <1>2, <2>1, ChunkType DEF Drop
  <2>3. Chunk(n) \o more = unread
    <3>1. n \in 0 .. Len(unread)
      BY <1>2
    <3>. QED BY <1>2, <3>1, CutInTwo DEF Chunk
  <2>4. trailing \o unread = unread
    BY <1>2, <1>4, ConcatEmptySeq DEF HeadChunk
  <2>. HIDE DEF more
  <2>5. line \o (trailing \o unread) = line \o (Chunk(n) \o more)
    BY <2>3, <2>4
  <2>6. Follows(wire, at, line \o (Chunk(n) \o more))
    BY <1>1, <2>5
  <2>. QED BY <1>0, <1>1, <2>1, <2>2, <2>6, HeadBytesPlace
<1>5. CASE HeadClosed
  <2>1. /\ trailing = <<>> /\ unread = <<>> /\ unread' = <<>>
        /\ HeadLine(line, <<>>) /\ <<>> \in Seq(Byte)
    BY <1>5 DEF HeadClosed, Closed
  <2>2. LineTo(at, Len(wire), line) /\ Follows(wire, Len(wire), <<>> \o <<>>)
    BY <1>0, <1>1, <2>1, ClosedLineTo
  <2>3. Len(wire) \in 0 .. Len(wire)
    BY LenProperties DEF TypeOK
  <2>. QED BY <1>0, <1>1, <1>2, <2>1, <2>2, <2>3, HeadLinePlace
<1>. QED BY <1>3, <1>4, <1>5


-------------------------------------------------------------------------------
(* The bytes of the body.                                                  *)

\* What the reader has before it, and that a step reads the first bytes of it.
Ahead == trailing \o unread

Reads(bytes, more) == Ahead = bytes \o more /\ unread' = more

LEMMA ReadsPrefix ==
  ASSUME unread' = unread
  PROVE  Reads(trailing, unread)
BY DEF Reads, Ahead

LEMMA ReadsChunk ==
  ASSUME TypeOK, trailing = <<>>, NEW n \in 1 .. Len(unread), Drop(n)
  PROVE  /\ Chunk(n) \in Seq(Byte)
         /\ SubSeq(unread, n + 1, Len(unread)) \in Seq(Byte)
         /\ Len(Chunk(n)) = n
         /\ Reads(Chunk(n), SubSeq(unread, n + 1, Len(unread)))
<1>1. unread \in Seq(Byte) /\ n \in 0 .. Len(unread)
  BY DEF TypeOK
<1>2. Chunk(n) \o SubSeq(unread, n + 1, Len(unread)) = unread
  BY <1>1, CutInTwo DEF Chunk
<1>3. trailing \o unread = unread
  BY <1>1, ConcatEmptySeq
<1>4. Ahead = Chunk(n) \o SubSeq(unread, n + 1, Len(unread))
  BY <1>2, <1>3 DEF Ahead
<1>. QED BY <1>1, <1>4, ChunkType DEF Reads, Drop

\* A sequence follows nothing of itself.
LEMMA FollowsNothing ==
  ASSUME NEW s \in Seq(Byte)
  PROVE  Follows(s, 0, s)
<1>1. From(s, 0) = SubSeq(s, 1, Len(s))
  BY DEF From
<1>. QED BY <1>1, SubSeqFull DEF Follows

\* Two parts, seen from the whole.
LEMMA FollowsPart ==
  ASSUME NEW s \in Seq(Byte), NEW t \in Seq(Byte)
  PROVE  /\ s \o t \in Seq(Byte)
         /\ Len(s) \in 0 .. Len(s \o t)
         /\ Follows(s \o t, Len(s), t)
         /\ SubSeq(s \o t, 1, Len(s)) = s
<1>. DEFINE w == s \o t
<1>1. w \in Seq(Byte) /\ Len(w) = Len(s) + Len(t) /\ Len(s) \in Nat /\ Len(t) \in Nat
  BY ConcatProperties, LenProperties
<1>2. Follows(w, 0, s \o t)
  <2>1. s \o t \in Seq(Byte)
    BY ConcatProperties
  <2>. QED BY <2>1, FollowsNothing
<1>3. SubSeq(s \o t, 1, Len(s)) = s
  <2>1. 0 \in 0 .. Len(t) /\ Len(s) + 0 = Len(s)
    BY <1>1
  <2>2. SubSeq(s \o t, 1, Len(s) + 0) = s \o SubSeq(t, 1, 0)
    BY <2>1, CutBehind
  <2>3. s \o SubSeq(t, 1, 0) = s
    <3>1. SubSeq(t, 1, 0) = <<>>
      BY SubSeqEmpty
    <3>2. s \o <<>> = s
      BY ConcatEmptySeq
    <3>. QED BY <3>1, <3>2
  <2>. QED BY <2>1, <2>2, <2>3
<1>4. Len(s) \in 0 .. Len(w)
  BY <1>1
<1>. HIDE DEF w
<1>5. Follows(w, 0 + Len(s), t)
  <2>1. 0 \in 0 .. Len(w)
    BY <1>1
  <2>. QED BY <1>1, <1>2, <2>1, FromParts, SMT
<1>6. 0 + Len(s) = Len(s)
  BY <1>1
<1>7. Follows(w, Len(s), t)
  BY <1>5, <1>6
<1>. QED BY <1>1, <1>3, <1>4, <1>7 DEF w

\* The bytes are handed out.
LEMMA ItemMoves ==
  ASSUME TypeOK, NEW bytes \in Seq(Byte), NEW more \in Seq(Byte),
         Reads(bytes, more), Item(bytes)
  PROVE  /\ Len(bytes) \in 0 .. Len(Ahead)
         /\ Follows(Ahead, Len(bytes), Ahead')
         /\ out' = out \o SubSeq(Ahead, 1, Len(bytes))
         /\ out' \o Ahead' = out \o Ahead
<1>1. out' = out \o bytes /\ trailing' = <<>> /\ unread' = more /\ Ahead = bytes \o more
  BY DEF Item, Reads
<1>2. Ahead' = more
  <2>1. <<>> \o more = more
    BY ConcatEmptySeq
  <2>. QED BY <1>1, <2>1 DEF Ahead
<1>3. /\ Len(bytes) \in 0 .. Len(Ahead)
      /\ Follows(Ahead, Len(bytes), more)
      /\ SubSeq(Ahead, 1, Len(bytes)) = bytes
  BY <1>1, FollowsPart
<1>4. (out \o bytes) \o more = out \o (bytes \o more)
  <2>1. out \in Seq(Byte)
    BY DEF TypeOK
  <2>. QED BY <2>1, Regroup, Zenon
<1>5. out' \o Ahead' = out \o Ahead
  BY <1>1, <1>2, <1>4
<1>. QED BY <1>1, <1>2, <1>3, <1>5

\* What is behind the first line break follows in the bytes and what comes later.
LEMMA BreakIsThere ==
  ASSUME NEW bytes \in Seq(Byte), NEW more \in Seq(Byte), Breaks(bytes) # {}
  PROVE  \E e \in 0 .. Len(bytes \o more) : Follows(bytes \o more, e, After(bytes) \o more)
<1>. DEFINE w == bytes \o more
            l == <<>>
<1>1. w \in Seq(Byte) /\ Len(w) \in Nat
  BY ConcatProperties, LenProperties
<1>2. l \in Seq(Byte) /\ Breaks(l) = {}
  BY DEF Breaks
<1>3. l \o w = w
  <2>. HIDE DEF w
  <2>. QED BY <1>1, ConcatEmptySeq
<1>4. Follows(w, 0, l \o (bytes \o more))
  BY <1>1, <1>3, FollowsNothing
<1>5. PICK at \in 0 .. Len(w) : Follows(w, at, l \o (bytes \o more))
  BY <1>1, <1>4
<1>. DEFINE e == at + Len(l) + FirstBreak(bytes)
<1>. HIDE DEF w, l
<1>6. /\ e \in Breaks(w) /\ e > at /\ e \in Nat
      /\ \A i \in Breaks(w) : i > at => i >= e
      /\ Follows(w, e, After(bytes) \o more)
      /\ Raw(l, bytes) \in Seq(Byte)
      /\ Len(Raw(l, bytes)) = e - at - 1
  BY <1>1, <1>2, <1>5, LineEnds
<1>. HIDE DEF e
<1>7. e \in 0 .. Len(w)
  BY <1>1, <1>6 DEF Breaks
<1>. QED BY <1>6, <1>7, Zenon DEF w

\* The bytes are left out: all of them, or up to a line break.
LEMMA BytesSkipped ==
  ASSUME NEW bytes \in Seq(Byte), NEW more \in Seq(Byte), Reads(bytes, more),
         trailing' = <<>> \/ (Breaks(bytes) # {} /\ trailing' = After(bytes))
  PROVE  \E k \in 0 .. Len(Ahead) : Follows(Ahead, k, Ahead')
<1>1. unread' = more /\ Ahead = bytes \o more
  BY DEF Reads
<1>2. CASE trailing' = <<>>
  <2>1. Ahead' = more
    <3>1. <<>> \o more = more
      BY ConcatEmptySeq
    <3>. QED BY <1>1, <1>2, <3>1 DEF Ahead
  <2>2. Len(bytes) \in 0 .. Len(Ahead) /\ Follows(Ahead, Len(bytes), more)
    BY <1>1, FollowsPart
  <2>. QED BY <2>1, <2>2
<1>3. CASE Breaks(bytes) # {} /\ trailing' = After(bytes)
  <2>1. PICK e \in 0 .. Len(bytes \o more) :
          Follows(bytes \o more, e, After(bytes) \o more)
    BY <1>3, BreakIsThere, Zenon
  <2>2. Ahead' = After(bytes) \o more
    BY <1>1, <1>3, Zenon DEF Ahead
  <2>. QED BY <1>1, <2>1, <2>2, Zenon
<1>. QED BY <1>2, <1>3


-------------------------------------------------------------------------------
(* The invariant.                                                          *)

HeadStep == HeadPrefix \/ HeadChunk \/ HeadClosed

\* What has been handed out and what is ahead are the body.
Exact ==
  Polled /\ mode # "Chunked" => Follows(wire, HeadEnd(wire), out \o Ahead)

\* While a poll waits for a chunk, nothing is left from the line before.
Quiet == stage \in {"length", "data"} => trailing = <<>>

\* A step outside of the head.
LEMMA BodyStep ==
  ASSUME Phase, [Next]_vars, ~HeadStep
  PROVE  /\ wire' = wire /\ mode' = mode
         /\ stage' \in HeadStages => UNCHANGED vars
<1>1. CASE PollUntilClosed \/ PollContentLength
  BY <1>1 DEF PollUntilClosed, PollContentLength, Item, Take, End, Fail, framing
<1>2. CASE PollChunked
  BY <1>2 DEF PollChunked, LengthLine, ReadLength, ReadData, ReadTrailers, End, Fail, framing
<1>3. CASE LengthChunk \/ LengthClosed
  BY <1>3 DEF LengthChunk, LengthClosed, PollLine, LengthLine, ReadData, ReadTrailers,
              Gather, Fail, framing
<1>4. CASE DataChunk \/ DataClosed
  BY <1>4 DEF DataChunk, DataClosed, Item, End, framing
<1>5. CASE TrailerPrefix \/ TrailerChunk \/ TrailerClosed
  BY <1>5 DEF TrailerPrefix, TrailerChunk, TrailerClosed, PollLine, TrailerLine, LastChunk,
              Trailer, Gather, Fail, framing
<1>6. CASE Pending \/ StreamFails
  BY <1>6 DEF Pending, StreamFails, Fail, framing
<1>7. CASE UNCHANGED vars
  BY <1>7 DEF vars
<1>. QED
  BY <1>1, <1>2, <1>3, <1>4, <1>5, <1>6, <1>7 DEF Next, Reader, Stream, Failed, HeadStep

\* A step inside of it.
LEMMA HeadStepIs ==
  ASSUME HeadStep
  PROVE  /\ stage \in HeadStages
         /\ out' = out /\ finished' = finished
         /\ stage' \in HeadStages \cup {"stream"} \cup FailStages
         /\ stage' # "stream" => mode' = mode
<1>1. stage \in HeadStages
  BY DEF HeadStep, HeadPrefix, HeadChunk, HeadClosed
<1>2. ASSUME NEW l, NEW rest, HeadLine(l, rest)
      PROVE  /\ out' = out /\ finished' = finished
             /\ stage' \in HeadStages \cup {"stream"} \cup FailStages
             /\ stage' # "stream" => mode' = mode
  BY <1>1, <1>2 DEF HeadLine, StatusLine, HeaderLine, Frame, Fail, framing, handed
<1>3. ASSUME NEW bytes, HeadBytes(bytes)
      PROVE  /\ out' = out /\ finished' = finished
             /\ stage' \in HeadStages \cup {"stream"} \cup FailStages
             /\ stage' # "stream" => mode' = mode
  BY <1>1, <1>2, <1>3 DEF HeadBytes, Gather, Fail, framing, handed
<1>. QED BY <1>1, <1>2, <1>3 DEF HeadStep, HeadPrefix, HeadChunk, HeadClosed

LEMMA PlaceStep ==
  ASSUME TypeOK, Phase, Place, [Next]_vars
  PROVE  Place' /\ (HeadStep /\ stage' = "stream" => Opened')
<1>1. CASE HeadStep
  BY <1>1, HeadStepPlace DEF HeadStep
<1>2. CASE ~HeadStep
  <2>1. CASE UNCHANGED vars
    BY <1>2, <2>1 DEF vars, Place, Here, Within, Follows, From
  <2>2. CASE stage' \notin HeadStages
    BY <1>2, <2>2 DEF Place
  <2>. QED BY <1>2, <2>1, <2>2, BodyStep
<1>. QED BY <1>1, <1>2

LEMMA LimitsStep ==
  ASSUME TypeOK, Phase, Place, LimitsHold, [Next]_vars
  PROVE  LimitsHold'
<1>1. CASE wire' = wire /\ mode' = mode
  BY <1>1 DEF LimitsHold
<1>2. CASE HeadStep
  <2>1. CASE stage' = "stream"
    BY <1>2, <2>1, PlaceStep DEF Opened
  <2>2. CASE stage' # "stream"
    <3>1. mode' = mode
      BY <1>2, <2>2, HeadStepIs
    <3>2. wire' = wire
      BY <1>2, HeadStepPlace DEF HeadStep
    <3>. QED BY <1>1, <3>1, <3>2
  <2>. QED BY <2>1, <2>2
<1>. QED BY <1>1, <1>2, BodyStep

LEMMA QuietStep ==
  ASSUME Phase, Quiet, [Next]_vars
  PROVE  Quiet'
<1>1. CASE HeadStep
  BY <1>1, HeadStepIs DEF Quiet
<1>2. CASE PollUntilClosed \/ PollContentLength
  BY <1>2 DEF PollUntilClosed, PollContentLength, Item, Take, End, Fail, Quiet
<1>3. CASE PollChunked
  BY <1>3 DEF PollChunked, LengthLine, ReadLength, ReadData, ReadTrailers, End, Fail, Quiet
<1>4. CASE LengthChunk \/ LengthClosed
  BY <1>4 DEF LengthChunk, LengthClosed, PollLine, LengthLine, ReadData, ReadTrailers,
              Gather, Fail, Quiet
<1>5. CASE DataChunk \/ DataClosed
  BY <1>5 DEF DataChunk, DataClosed, Item, End, Quiet
<1>6. CASE TrailerPrefix \/ TrailerChunk \/ TrailerClosed
  BY <1>6 DEF TrailerPrefix, TrailerChunk, TrailerClosed, PollLine, TrailerLine, LastChunk,
              Trailer, Gather, Fail, Quiet
<1>7. CASE Pending \/ StreamFails
  BY <1>7 DEF Pending, StreamFails, Fail, Quiet
<1>8. CASE UNCHANGED vars
  BY <1>8 DEF vars, Quiet
<1>. QED
  BY <1>1, <1>2, <1>3, <1>4, <1>5, <1>6, <1>7, <1>8
     DEF Next, Reader, Stream, Failed, HeadStep

\* What a poll of a plain body does: it hands out what it reads, or it ends.
LEMMA PlainPoll ==
  ASSUME TypeOK, PollUntilClosed \/ PollContentLength
  PROVE  \/ \E bytes \in Seq(Byte) : \E more \in Seq(Byte) :
              /\ bytes # <<>>
              /\ Reads(bytes, more)
              /\ Item(bytes)
         \/ End /\ trailing = <<>> /\ unread' = unread
         \/ Fail("panic")
<1>1. trailing \in Seq(Byte) /\ unread \in Seq(Byte)
  BY DEF TypeOK
<1>2. ASSUME trailing # <<>>, Item(trailing), Unasked
      PROVE  \E bytes \in Seq(Byte) : \E more \in Seq(Byte) :
               bytes # <<>> /\ Reads(bytes, more) /\ Item(bytes)
  BY <1>1, <1>2, ReadsPrefix DEF Unasked
<1>3. ASSUME trailing = <<>>, NEW n \in 1 .. Len(unread), Item(Chunk(n)), Drop(n)
      PROVE  \E bytes \in Seq(Byte) : \E more \in Seq(Byte) :
               bytes # <<>> /\ Reads(bytes, more) /\ Item(bytes)
  <2>1. /\ Chunk(n) \in Seq(Byte) /\ Len(Chunk(n)) = n
        /\ SubSeq(unread, n + 1, Len(unread)) \in Seq(Byte)
        /\ Reads(Chunk(n), SubSeq(unread, n + 1, Len(unread)))
    BY <1>3, ReadsChunk
  <2>2. Chunk(n) # <<>>
    <3>1. n # 0 /\ Len(<<>>) = 0
      BY <1>1
    <3>. QED BY <2>1, <3>1
  <2>. QED BY <1>3, <2>1, <2>2
<1>4. CASE PollUntilClosed
  BY <1>2, <1>3, <1>4 DEF PollUntilClosed, Closed
<1>5. CASE PollContentLength
  <2>1. ASSUME NEW bytes, Take(bytes) PROVE Item(bytes) \/ Fail("panic")
    BY <2>1 DEF Take
  <2>. QED BY <1>2, <1>3, <1>5, <2>1 DEF PollContentLength, Closed, Unasked
<1>. QED BY <1>4, <1>5

LEMMA ExactStep ==
  ASSUME TypeOK, Phase, Place, Exact, [Next]_vars
  PROVE  Exact'
<1>. SUFFICES ASSUME Polled', mode' # "Chunked" PROVE Exact'
  BY DEF Exact
<1>0. ASSUME Polled, mode # "Chunked", wire' = wire, out' \o Ahead' = out \o Ahead
      PROVE  Exact'
  <2>1. Follows(wire, HeadEnd(wire), out \o Ahead)
    BY <1>0 DEF Exact
  <2>2. Follows(wire, HeadEnd(wire), out' \o Ahead')
    BY <1>0, <2>1
  <2>3. (Follows(wire, HeadEnd(wire), out \o Ahead))'
    BY <1>0, <2>2 DEF Follows, From, HeadEnd, HeadEnds, Breaks, LineStart
  <2>. QED BY <2>3 DEF Exact
<1>1. CASE HeadStep
  <2>1. stage' = "stream"
    BY <1>1, HeadStepIs DEF Polled
  <2>2. out' = <<>>
    BY <1>1, HeadStepIs DEF Phase
  <2>3. Opened'
    BY <1>1, <2>1, PlaceStep
  <2>4. Ahead' \in Seq(Byte)
    <3>1. trailing' \in Seq(Byte) /\ unread' \in Seq(Byte)
      BY <1>1, ReaderStepTyped DEF TypeOK
    <3>. QED BY <3>1, ConcatProperties DEF Ahead
  <2>5. <<>> \o Ahead' = Ahead'
    BY <2>4, ConcatEmptySeq
  <2>6. out' \o Ahead' = Ahead'
    BY <2>2, <2>5
  <2>7. (Follows(wire, HeadEnd(wire), Ahead))'
    BY <2>3 DEF Opened, Ahead
  <2>. QED BY <2>6, <2>7 DEF Exact, Follows
<1>2. CASE PollUntilClosed \/ PollContentLength
  <2>1. Polled /\ mode # "Chunked"
    BY <1>2 DEF PollUntilClosed, PollContentLength
  <2>2. wire' = wire
    BY <1>2 DEF PollUntilClosed, PollContentLength, Take, End, Fail
  <2>3. CASE Fail("panic")
    BY <2>3 DEF Fail, Polled
  <2>4. CASE End /\ trailing = <<>> /\ unread' = unread
    <3>1. out' = out /\ trailing' = trailing
      BY <2>4 DEF End
    <3>. QED BY <1>0, <2>1, <2>2, <2>4, <3>1 DEF Ahead
  <2>5. ASSUME NEW bytes \in Seq(Byte), NEW more \in Seq(Byte), Reads(bytes, more), Item(bytes)
        PROVE  Exact'
    BY <1>0, <2>1, <2>2, <2>5, ItemMoves
  <2>. QED BY <1>2, <2>3, <2>4, <2>5, PlainPoll
<1>3. CASE UNCHANGED vars
  <2>1. Polled /\ mode # "Chunked" /\ wire' = wire
    BY <1>3 DEF vars, Polled
  <2>2. out' \o Ahead' = out \o Ahead
    BY <1>3 DEF vars, Ahead
  <2>. QED BY <1>0, <2>1, <2>2
<1>4. CASE /\ ~HeadStep /\ ~(PollUntilClosed \/ PollContentLength) /\ ~UNCHANGED vars
  <2>1. mode # "Chunked" /\ stage \notin PollStages
    BY <1>4, BodyStep DEF Phase
  <2>2. StreamFails
    BY <1>4, <2>1
       DEF Next, Reader, Stream, Failed, HeadStep, PollChunked, LengthChunk, LengthClosed, DataChunk,
           DataClosed, TrailerPrefix, TrailerChunk, TrailerClosed, Pending
  <2>. QED BY <2>2 DEF StreamFails, Fail, Polled
<1>. QED BY <1>1, <1>2, <1>3, <1>4


\* The head's place, the limits, the bytes, and that nothing is left over.
BodyInv == TypeOK /\ Phase /\ Place /\ LimitsHold /\ Exact /\ Quiet /\ Spent

LEMMA InitPlace ==
  ASSUME Init
  PROVE  Place
<1>1. /\ wire \in Seq(Byte) /\ unread = wire /\ line = <<>> /\ trailing = <<>>
      /\ stage = "status" /\ cap = MaxHeaders
  BY ByteAssumption DEF Init
<1>2. 0 \in 0 .. Len(wire)
  BY <1>1, LenProperties
<1>3. Follows(wire, 0, <<>> \o (<<>> \o wire))
  <2>1. <<>> \o wire = wire
    BY <1>1, ConcatEmptySeq
  <2>. QED BY <1>1, <2>1, FollowsNothing
<1>4. Follows(wire, 0, line \o (trailing \o unread))
  BY <1>1, <1>3
<1>5. Here(0)
  <2>1. Breaks(<<>>) = {}
    BY DEF Breaks
  <2>2. \A i \in HeadEnds(wire) : i > 0
    <3>1. \A i \in HeadEnds(wire) : i \in 1 .. Len(wire)
      BY DEF HeadEnds, Breaks
    <3>. QED BY <1>1, <3>1
  <2>. QED BY <1>1, <2>1, <2>2 DEF Here
<1>6. Within(0)
  BY <1>1 DEF Within
<1>. QED BY <1>2, <1>4, <1>5, <1>6 DEF Place

\* Wherever the stream is cut, the reader knows its place.
THEOREM BodyInvariance == Spec => []BodyInv
<1>. DEFINE Inv == Place /\ LimitsHold /\ Exact /\ Quiet /\ Spent
<1>1. Init => Inv
  <2>1. Init => LimitsHold
    BY DEF Init, LimitsHold
  <2>2. Init => Exact
    BY DEF Init, Exact, Polled
  <2>3. Init => Quiet /\ Spent
    BY DEF Init, Quiet, Spent
  <2>. QED BY <2>1, <2>2, <2>3, InitPlace
<1>2. TypeOK /\ Phase /\ Inv /\ [Next]_vars => Inv'
  BY PlaceStep, LimitsStep, ExactStep, QuietStep, SpentStep
<1>3. TypeOK /\ Phase /\ Inv => BodyInv
  BY DEF BodyInv
<1>. HIDE DEF Inv
<1>. QED BY <1>1, <1>2, <1>3, ReaderTyping, PhaseInvariant, PTL DEF Spec

\* However the network cuts the message and wherever the empty line falls, a
\* body that is not chunked is handed out byte by byte as the server sent it:
\* read_line_async neither keeps nor loses a byte at the end of the head.
THEOREM BodyIsByteExact == Spec => []BodyByteExact
<1>1. BodyInv => BodyByteExact
  <2>. SUFFICES ASSUME BodyInv, Polled, mode # "Chunked"
                PROVE  out \o trailing \o unread = BodyOf(wire)
    BY DEF BodyByteExact
  <2>1. Follows(wire, HeadEnd(wire), out \o Ahead)
    BY DEF BodyInv, Exact
  <2>2. BodyOf(wire) = From(wire, HeadEnd(wire))
    BY DEF BodyOf, From
  <2>3. (out \o trailing) \o unread = out \o (trailing \o unread)
    <3>1. out \in Seq(Byte) /\ trailing \in Seq(Byte) /\ unread \in Seq(Byte)
      BY DEF BodyInv, TypeOK
    <3>. QED BY <3>1, Regroup, Zenon
  <2>4. out \o Ahead = BodyOf(wire)
    BY <2>1, <2>2 DEF Follows
  <2>. QED BY <2>3, <2>4 DEF Ahead
<1>. QED BY <1>1, BodyInvariance, PTL

\* In a build with overflow checks, no head is accepted that breaks a limit as
\* the server sent it, its line endings counted, whatever chunks it came in.
THEOREM LimitsAreKept == Spec => []LimitsHold
<1>1. BodyInv => LimitsHold
  BY DEF BodyInv
<1>. QED BY <1>1, BodyInvariance, PTL

===============================================================================
