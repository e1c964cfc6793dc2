--------------------------- MODULE ProxyTunnelProofs --------------------------
(***************************************************************************)
(* What ProxyTunnel guarantees for all settings, all answers of a proxy,   *)
(* all lengths of the buffer and all ways in which the answer arrives.     *)
(***************************************************************************)
EXTENDS ProxyTunnel, SequenceFacts

USE DEF Failures, Stages

-------------------------------------------------------------------------------
(* Looking for a symbol.                                                   *)

\* Where a single symbol occurs.
LEMMA OccursOne ==
  ASSUME NEW S, NEW t \in Seq(S), NEW c
  PROVE  Occurs(t, <<c>>) = {i \in 1 .. Len(t) : t[i] = c}
<1>1. Len(t) \in Nat /\ Len(<<c>>) = 1
  BY LenProperties
<1>2. ASSUME NEW i \in 1 .. Len(t)
      PROVE  SubSeq(t, i, i + Len(<<c>>) - 1) = <<c>> <=> t[i] = c
  <2>1. i + Len(<<c>>) - 1 = i
    BY <1>1
  <2>2. /\ SubSeq(t, i, i) \in Seq(S)
        /\ Len(SubSeq(t, i, i)) = 1
        /\ SubSeq(t, i, i)[1] = t[i]
    <3>1. /\ SubSeq(t, i, i) \in Seq(S)
          /\ Len(SubSeq(t, i, i)) = i - i + 1
          /\ \A j \in 1 .. i - i + 1 : SubSeq(t, i, i)[j] = t[i + j - 1]
      <4>1. i \in 1 .. Len(t) + 1 /\ i \in i - 1 .. Len(t)
        BY <1>1
      <4>. QED BY <4>1, Piece
    <3>2. i - i + 1 = 1 /\ i + 1 - 1 = i /\ 1 \in 1 .. 1
      BY <1>1
    <3>. QED BY <3>1, <3>2
  <2>3. ASSUME t[i] = c PROVE SubSeq(t, i, i) = <<c>>
    <3>1. <<c>> \in Seq(S) /\ Len(<<c>>) = 1 /\ <<c>>[1] = c
      BY <2>3, ElementOfSeq
    <3>2. \A j \in 1 .. Len(SubSeq(t, i, i)) : SubSeq(t, i, i)[j] = <<c>>[j]
      BY <2>2, <2>3, <3>1
    <3>. QED BY <2>2, <3>1, <3>2, SeqEqual
  <2>4. ASSUME SubSeq(t, i, i) = <<c>> PROVE t[i] = c
    <3>1. <<c>>[1] = c
      OBVIOUS
    <3>. QED BY <2>2, <2>4, <3>1
  <2>. QED BY <2>1, <2>3, <2>4
<1>3. 1 .. Len(t) - Len(<<c>>) + 1 = 1 .. Len(t)
  BY <1>1
<1>. QED BY <1>2, <1>3 DEF Occurs

\* The first and the last place, and that no other place is either.
LEMMA FirstIs ==
  ASSUME NEW S, NEW t \in Seq(S), NEW c, NEW f \in 1 .. Len(t), t[f] = c,
         \A i \in 1 .. f - 1 : t[i] # c
  PROVE  Occurs(t, <<c>>) # {} /\ First(t, <<c>>) = f
<1>. DEFINE O == Occurs(t, <<c>>)
<1>1. O = {i \in 1 .. Len(t) : t[i] = c} /\ Len(t) \in Nat
  BY OccursOne, LenProperties
<1>. HIDE DEF O
<1>2. f \in O /\ \A j \in O : f <= j
  BY <1>1
<1>3. (CHOOSE i \in O : \A j \in O : i <= j) = f
  <2>1. \A g \in O : (\A j \in O : g <= j) => g = f
    <3>1. O \subseteq Nat
      BY <1>1
    <3>. QED BY <1>2, <3>1
  <2>. QED BY <1>2, <2>1
<1>. QED BY <1>2, <1>3 DEF First, O

LEMMA LastIs ==
  ASSUME NEW S, NEW t \in Seq(S), NEW c, NEW f \in 1 .. Len(t), t[f] = c,
         \A i \in f + 1 .. Len(t) : t[i] # c
  PROVE  Occurs(t, <<c>>) # {} /\ Last(t, <<c>>) = f
<1>. DEFINE O == Occurs(t, <<c>>)
<1>1. O = {i \in 1 .. Len(t) : t[i] = c} /\ Len(t) \in Nat
  BY OccursOne, LenProperties
<1>. HIDE DEF O
<1>2. f \in O /\ \A j \in O : f >= j
  BY <1>1
<1>3. (CHOOSE i \in O : \A j \in O : i >= j) = f
  <2>1. \A g \in O : (\A j \in O : g >= j) => g = f
    <3>1. O \subseteq Nat
      BY <1>1
    <3>. QED BY <1>2, <3>1
  <2>. QED BY <1>2, <2>1
<1>. QED BY <1>2, <1>3 DEF Last, O

LEMMA OccursNot ==
  ASSUME NEW S, NEW t \in Seq(S), NEW c, \A i \in 1 .. Len(t) : t[i] # c
  PROVE  Occurs(t, <<c>>) = {}
BY OccursOne

\* One of the two: no place, or a first one.
LEMMA FirstOrNone ==
  ASSUME NEW S, NEW t \in Seq(S), NEW c
  PROVE  \/ Occurs(t, <<c>>) = {} /\ \A i \in 1 .. Len(t) : t[i] # c
         \/ \E f \in 1 .. Len(t) :
              /\ t[f] = c
              /\ \A i \in 1 .. f - 1 : t[i] # c
              /\ Occurs(t, <<c>>) # {}
              /\ First(t, <<c>>) = f
<1>1. Occurs(t, <<c>>) = {i \in 1 .. Len(t) : t[i] = c} /\ Len(t) \in Nat
  BY OccursOne, LenProperties
<1>2. CASE Occurs(t, <<c>>) = {}
  BY <1>1, <1>2
<1>3. CASE Occurs(t, <<c>>) # {}
  <2>. DEFINE O == {i \in 1 .. Len(t) : t[i] = c}
  <2>1. O \in SUBSET Nat /\ O # {}
    BY <1>1, <1>3
  <2>. HIDE DEF O
  <2>2. PICK f \in O : \A j \in O : f <= j
    BY <2>1, LeastNatural
  <2>3. f \in 1 .. Len(t) /\ t[f] = c
    BY DEF O
  <2>4. \A i \in 1 .. f - 1 : t[i] # c
    BY <1>1, <2>2, <2>3 DEF O
  <2>5. First(t, <<c>>) = f
    BY <2>3, <2>4, FirstIs
  <2>. QED BY <1>3, <2>3, <2>4, <2>5
<1>. QED BY <1>2, <1>3

-------------------------------------------------------------------------------
(* The second word.                                                        *)

\* Every word has an end.
LEMMA WordEndExists ==
  ASSUME NEW l \in Seq(Octet), NEW i \in WordStarts(l)
  PROVE  \E k \in i .. Len(l) : /\ k = Len(l) \/ l[k + 1] \in Space
                                /\ \A j \in i .. k : l[j] \notin Space
<1>1. i \in 1 .. Len(l) /\ l[i] \notin Space /\ Len(l) \in Nat
  BY LenProperties DEF WordStarts
<1>. DEFINE T == {k \in i .. Len(l) : k = Len(l) \/ l[k + 1] \in Space}
<1>2. T \in SUBSET Nat /\ T # {}
  <2>1. Len(l) \in T
    BY <1>1
  <2>2. T \subseteq Nat
    BY <1>1
  <2>. QED BY <2>1, <2>2
<1>. HIDE DEF T
<1>3. PICK k \in T : \A j \in T : k <= j
  BY <1>2, LeastNatural
<1>4. k \in i .. Len(l) /\ (k = Len(l) \/ l[k + 1] \in Space)
  BY DEF T
<1>5. ASSUME NEW j \in i .. k, l[j] \in Space PROVE FALSE
  <2>1. j # i
    BY <1>1, <1>5
  <2>2. j - 1 \in i .. Len(l) /\ (j - 1) + 1 = j
    BY <1>1, <1>4, <2>1
  <2>3. j - 1 \in T
    BY <1>5, <2>2 DEF T
  <2>. QED BY <1>1, <1>3, <1>4, <2>3
<1>. QED BY <1>4, <1>5

\* And only one.
LEMMA WordEndIs ==
  ASSUME NEW l \in Seq(Octet), NEW i \in 1 .. Len(l), NEW e \in i .. Len(l),
         e = Len(l) \/ l[e + 1] \in Space,
         \A j \in i .. e : l[j] \notin Space
  PROVE  WordEnd(l, i) = e
<1>1. Len(l) \in Nat
  BY LenProperties
<1>. DEFINE P(k) == /\ k = Len(l) \/ l[k + 1] \in Space
                    /\ \A j \in i .. k : l[j] \notin Space
<1>2. ASSUME NEW k \in i .. Len(l), P(k) PROVE k = e
  <2>1. CASE k < e
    <3>1. k + 1 \in i .. e /\ k # Len(l)
      BY <1>1, <2>1
    <3>. QED BY <1>2, <3>1
  <2>2. CASE e < k
    <3>1. e + 1 \in i .. k /\ e # Len(l)
      BY <1>1, <2>2
    <3>. QED BY <1>2, <3>1
  <2>. QED BY <1>1, <2>1, <2>2
<1>3. P(e)
  OBVIOUS
<1>4. WordEnd(l, i) = CHOOSE k \in i .. Len(l) : P(k)
  BY DEF WordEnd
<1>. HIDE DEF P
<1>. QED BY <1>2, <1>3, <1>4

\* There is one second word at most.
LEMMA SecondsOne ==
  ASSUME NEW l \in Seq(Octet), NEW i \in Seconds(l), NEW m \in Seconds(l)
  PROVE  i = m
<1>1. WordStarts(l) \subseteq Nat
  BY DEF WordStarts
<1>2. /\ i \in WordStarts(l)
      /\ \E j \in WordStarts(l) : j < i /\ \A k \in WordStarts(l) : k = j \/ k >= i
  BY DEF Seconds
<1>3. /\ m \in WordStarts(l)
      /\ \E j \in WordStarts(l) : j < m /\ \A k \in WordStarts(l) : k = j \/ k >= m
  BY DEF Seconds
<1>. QED BY <1>1, <1>2, <1>3

LEMMA SecondIs ==
  ASSUME NEW l \in Seq(Octet), NEW i \in Seconds(l)
  PROVE  Second(l) = SubSeq(l, i, WordEnd(l, i))
<1>1. (CHOOSE m \in Seconds(l) : TRUE) = i
  BY SecondsOne
<1>. QED BY <1>1 DEF Second


\* A line that is a part of t up to n, and zero bytes from there on: if its
\* second word has no zero byte, it is that of t.
LEMMA SecondAgrees ==
  ASSUME NEW l \in Seq(Octet), NEW t \in Seq(Octet), NEW n \in 0 .. Len(t), n < Len(l),
         \A i \in 1 .. n : l[i] = t[i],
         \A i \in n + 1 .. Len(l) : l[i] = "NUL",
         NEW word \in Seq(Octet), \A i \in 1 .. Len(word) : word[i] # "NUL",
         Second(l) = word
  PROVE  Second(t) = word
<1>0. Len(l) \in Nat /\ Len(t) \in Nat /\ "NUL" \notin Space
  BY LenProperties DEF Space
<1>1. Seconds(l) # {}
  BY TunnelAssumption DEF Second
<1>2. PICK i \in Seconds(l) : TRUE
  BY <1>1
<1>3. i \in WordStarts(l) /\ i \in 1 .. Len(l)
  BY <1>2 DEF Seconds, WordStarts
<1>4. PICK e \in i .. Len(l) : /\ e = Len(l) \/ l[e + 1] \in Space
                               /\ \A j \in i .. e : l[j] \notin Space
  BY <1>3, WordEndExists
<1>5. word = SubSeq(l, i, e)
  <2>1. WordEnd(l, i) = e
    BY <1>3, <1>4, WordEndIs
  <2>. QED BY <1>2, <2>1, SecondIs
<1>6. Len(word) = e - i + 1 /\ \A j \in 1 .. e - i + 1 : word[j] = l[i + j - 1]
  <2>1. i \in 1 .. Len(l) + 1 /\ e \in i - 1 .. Len(l)
    BY <1>0, <1>3, <1>4
  <2>. QED BY <1>5, <2>1, Piece
<1>7. l[e] # "NUL"
  <2>1. e - i + 1 \in 1 .. e - i + 1 /\ i + (e - i + 1) - 1 = e
    BY <1>0, <1>3, <1>4
  <2>2. word[e - i + 1] = l[e]
    BY <1>6, <2>1
  <2>3. word[e - i + 1] # "NUL"
    BY <1>6, <2>1
  <2>. QED BY <2>2, <2>3
<1>8. e <= n
  BY <1>0, <1>3, <1>4, <1>7
<1>9. l[e + 1] \in Space /\ e + 1 <= n
  <2>1. e # Len(l)
    BY <1>0, <1>8
  <2>2. l[e + 1] \in Space
    BY <1>4, <2>1
  <2>3. e + 1 \in 1 .. Len(l) /\ l[e + 1] # "NUL"
    BY <1>0, <1>3, <1>4, <2>1, <2>2
  <2>. QED BY <1>0, <2>2, <2>3
<1>10. i \in 1 .. n /\ e \in 1 .. n /\ e + 1 \in 1 .. n
  BY <1>0, <1>3, <1>4, <1>8, <1>9
<1>11. ASSUME NEW k \in 1 .. n PROVE k \in WordStarts(t) <=> k \in WordStarts(l)
  <2>1. k \in 1 .. Len(t) /\ k \in 1 .. Len(l) /\ l[k] = t[k]
    BY <1>0
  <2>2. k # 1 => l[k - 1] = t[k - 1]
    BY <1>0
  <2>. QED BY <2>1, <2>2 DEF WordStarts
<1>12. i \in Seconds(t)
  <2>1. PICK j \in WordStarts(l) : j < i /\ \A k \in WordStarts(l) : k = j \/ k >= i
    BY <1>2 DEF Seconds
  <2>2. j \in 1 .. n
    BY <1>0, <1>10, <2>1 DEF WordStarts
  <2>3. i \in WordStarts(t) /\ j \in WordStarts(t)
    BY <1>3, <1>10, <1>11, <2>2
  <2>4. ASSUME NEW k \in WordStarts(t), ~(k >= i) PROVE k = j
    <3>1. k \in 1 .. n
      BY <1>0, <1>10, <2>4 DEF WordStarts
    <3>2. k \in WordStarts(l)
      BY <1>11, <2>4, <3>1
    <3>. QED BY <2>1, <2>4, <3>2
  <2>. QED BY <2>1, <2>3, <2>4 DEF Seconds
<1>13. WordEnd(t, i) = e
  <2>1. i \in 1 .. Len(t) /\ e \in i .. Len(t)
    BY <1>0, <1>4, <1>10
  <2>2. t[e + 1] \in Space
    BY <1>9, <1>10
  <2>3. \A j \in i .. e : t[j] \notin Space
    BY <1>0, <1>4, <1>10
  <2>. QED BY <2>1, <2>2, <2>3, WordEndIs
<1>14. SubSeq(t, i, e) = word
  <2>1. /\ SubSeq(t, i, e) \in Seq(Octet)
        /\ Len(SubSeq(t, i, e)) = e - i + 1
        /\ \A j \in 1 .. e - i + 1 : SubSeq(t, i, e)[j] = t[i + j - 1]
    <3>1. i \in 1 .. Len(t) + 1 /\ e \in i - 1 .. Len(t)
      BY <1>0, <1>4, <1>10
    <3>. QED BY <3>1, Piece
  <2>2. ASSUME NEW j \in 1 .. e - i + 1 PROVE t[i + j - 1] = l[i + j - 1]
    <3>1. i + j - 1 \in 1 .. n
      BY <1>0, <1>4, <1>10
    <3>. QED BY <3>1
  <2>3. \A j \in 1 .. Len(word) : SubSeq(t, i, e)[j] = word[j]
    BY <1>6, <2>1, <2>2
  <2>. QED BY <1>6, <2>1, <2>3, SeqEqual
<1>. QED BY <1>12, <1>13, <1>14, SecondIs

-------------------------------------------------------------------------------
(* The top line.                                                           *)

\* The line ends before the first LF, or with the answer.
LEMMA TopLineIs ==
  ASSUME NEW r \in Seq(Octet)
  PROVE  \/ /\ \A i \in 1 .. Len(r) : r[i] # "LF"
            /\ TopLine(r) = r
         \/ \E f \in 1 .. Len(r) :
              /\ r[f] = "LF"
              /\ \A i \in 1 .. f - 1 : r[i] # "LF"
              /\ TopLine(r) = SubSeq(r, 1, f - 1)
BY FirstOrNone DEF TopLine, Before

\* The beginning of an answer, filled up with zero bytes, names the status of
\* the answer if it names one without zero bytes.
LEMMA PaddedStatus ==
  ASSUME NEW r \in Seq(Octet), NEW a \in Seq(Octet), NEW n \in 0 .. Len(a), n < Len(r),
         \A i \in 1 .. n : r[i] = a[i],
         \A i \in n + 1 .. Len(r) : r[i] = "NUL",
         NEW word \in Seq(Octet), \A i \in 1 .. Len(word) : word[i] # "NUL",
         Second(TopLine(r)) = word
  PROVE  Second(TopLine(a)) = word
<1>0. Len(r) \in Nat /\ Len(a) \in Nat
  BY LenProperties
<1>1. CASE \A i \in 1 .. Len(r) : r[i] # "LF"
  <2>1. TopLine(r) = r
    BY <1>0, <1>1, TopLineIs
  <2>2. \A i \in 1 .. n : a[i] # "LF"
    BY <1>0, <1>1
  <2>3. PICK m \in n .. Len(a) : TopLine(a) = SubSeq(a, 1, m)
    <3>1. CASE TopLine(a) = a
      <4>1. a = SubSeq(a, 1, Len(a)) /\ Len(a) \in n .. Len(a)
        BY <1>0, SubSeqFull
      <4>. QED BY <3>1, <4>1
    <3>2. CASE \E f \in 1 .. Len(a) : a[f] = "LF" /\ TopLine(a) = SubSeq(a, 1, f - 1)
      <4>1. PICK f \in 1 .. Len(a) : a[f] = "LF" /\ TopLine(a) = SubSeq(a, 1, f - 1)
        BY <3>2
      <4>2. f - 1 \in n .. Len(a)
        BY <1>0, <2>2, <4>1
      <4>. QED BY <4>1, <4>2
    <3>. QED BY <3>1, <3>2, TopLineIs
  <2>. DEFINE t == SubSeq(a, 1, m)
  <2>4. t \in Seq(Octet) /\ Len(t) = m /\ \A i \in 1 .. m : t[i] = a[i]
    <3>1. m \in 0 .. Len(a)
      BY <1>0
    <3>. QED BY <1>0, <3>1, Piece
  <2>. HIDE DEF t
  <2>5. n \in 0 .. Len(t) /\ \A i \in 1 .. n : r[i] = t[i]
    BY <1>0, <2>4
  <2>6. Second(r) = word
    BY <2>1
  <2>7. Second(t) = word
    BY <2>4, <2>5, <2>6, SecondAgrees
  <2>. QED BY <2>3, <2>7 DEF t
<1>2. CASE \E i \in 1 .. Len(r) : r[i] = "LF"
  <2>1. PICK f \in 1 .. Len(r) :
          /\ r[f] = "LF"
          /\ \A i \in 1 .. f - 1 : r[i] # "LF"
          /\ TopLine(r) = SubSeq(r, 1, f - 1)
    BY <1>2, TopLineIs
  <2>2. f <= n
    <3>1. ASSUME f > n PROVE FALSE
      <4>1. f \in n + 1 .. Len(r)
        BY <1>0, <3>1
      <4>. QED BY <2>1, <4>1
    <3>. QED BY <1>0, <3>1
  <2>3. f \in 1 .. Len(a) /\ a[f] = "LF" /\ \A i \in 1 .. f - 1 : a[i] = r[i]
    BY <1>0, <2>1, <2>2
  <2>4. TopLine(a) = SubSeq(a, 1, f - 1)
    <3>0. \A i \in 1 .. f - 1 : a[i] # "LF"
      BY <2>1, <2>3
    <3>1. Occurs(a, <<"LF">>) # {} /\ First(a, <<"LF">>) = f
      BY <2>3, <3>0, FirstIs
    <3>. QED BY <3>1 DEF TopLine, Before
  <2>5. SubSeq(a, 1, f - 1) = SubSeq(r, 1, f - 1)
    <3>1. /\ SubSeq(a, 1, f - 1) \in Seq(Octet)
          /\ Len(SubSeq(a, 1, f - 1)) = f - 1
          /\ \A i \in 1 .. f - 1 : SubSeq(a, 1, f - 1)[i] = a[i]
      <4>1. f - 1 \in 0 .. Len(a)
        BY <1>0, <2>3
      <4>. QED BY <1>0, <4>1, Piece
    <3>2. /\ SubSeq(r, 1, f - 1) \in Seq(Octet)
          /\ Len(SubSeq(r, 1, f - 1)) = f - 1
          /\ \A i \in 1 .. f - 1 : SubSeq(r, 1, f - 1)[i] = r[i]
      <4>1. f - 1 \in 0 .. Len(r)
        BY <1>0
      <4>. QED BY <1>0, <4>1, Piece
    <3>3. \A i \in 1 .. f - 1 : SubSeq(a, 1, f - 1)[i] = SubSeq(r, 1, f - 1)[i]
      BY <2>3, <3>1, <3>2
    <3>. QED BY <3>1, <3>2, <3>3, SeqEqual
  <2>. QED BY <2>1, <2>4, <2>5
<1>. QED BY <1>1, <1>2

-------------------------------------------------------------------------------
(* What Proxy::new returns has its type.                                   *)

\* Where a pattern occurs, it occurs first and last, and inside of the text.
LEMMA Found ==
  ASSUME NEW S, NEW t \in Seq(S), NEW p \in Seq(S), Occurs(t, p) # {}
  PROVE  /\ First(t, p) \in Occurs(t, p)
         /\ \A j \in Occurs(t, p) : First(t, p) <= j
         /\ Last(t, p) \in Occurs(t, p)
         /\ Occurs(t, p) \subseteq 1 .. Len(t) - Len(p) + 1
<1>0. Len(t) \in Nat /\ Len(p) \in Nat
  BY LenProperties
<1>. DEFINE O == Occurs(t, p)
<1>1. O \subseteq 1 .. Len(t) - Len(p) + 1 /\ O # {}
  BY DEF Occurs
<1>2. First(t, p) = CHOOSE i \in O : \A j \in O : i <= j
  BY DEF First
<1>3. Last(t, p) = CHOOSE i \in O : \A j \in O : i >= j
  BY DEF Last
<1>. HIDE DEF O
<1>4. O \in SUBSET Nat /\ O \in SUBSET (0 .. Len(t) + 1)
  BY <1>0, <1>1
<1>5. \E i \in O : \A j \in O : i <= j
  BY <1>1, <1>4, LeastNatural
<1>6. \E i \in O : \A j \in O : i >= j
  <2>1. Len(t) + 1 \in Nat
    BY <1>0
  <2>. QED BY <1>1, <1>4, <2>1, GreatestNatural
<1>7. First(t, p) \in O /\ \A j \in O : First(t, p) <= j
  BY <1>2, <1>5
<1>8. Last(t, p) \in O
  BY <1>3, <1>6
<1>. QED BY <1>1, <1>7, <1>8 DEF O

\* What stands before a place and behind it are texts.
LEMMA Sides ==
  ASSUME NEW S, NEW t \in Seq(S), NEW p \in Seq(S), NEW i \in Occurs(t, p)
  PROVE  Before(t, i) \in Seq(S) /\ Behind(t, i, p) \in Seq(S)
<1>1. Len(t) \in Nat /\ Len(p) \in Nat /\ i \in 1 .. Len(t) - Len(p) + 1
  BY LenProperties DEF Occurs
<1>2. SubSeq(t, 1, i - 1) \in Seq(S)
  <2>1. 1 \in 1 .. Len(t) + 1 /\ i - 1 \in 1 - 1 .. Len(t)
    BY <1>1
  <2>. QED BY <2>1, Piece
<1>3. SubSeq(t, i + Len(p), Len(t)) \in Seq(S)
  <2>1. i + Len(p) \in 1 .. Len(t) + 1 /\ Len(t) \in i + Len(p) - 1 .. Len(t)
    BY <1>1
  <2>. QED BY <2>1, Piece
<1>. QED BY <1>2, <1>3 DEF Before, Behind

LEMMA Separators ==
  /\ ProtocolEnd \in Seq(Symbol)
  /\ <<":">> \in Seq(Symbol)
  /\ <<"@">> \in Seq(Symbol)
<1>1. ":" \in Symbol /\ "/" \in Symbol /\ "@" \in Symbol
  BY TunnelAssumption
<1>. QED BY <1>1 DEF ProtocolEnd

LEMMA TextTyped ==
  ASSUME NEW s \in Setting
  PROVE  Text(s) \in Seq(Symbol)
<1>1. /\ s.scheme \in Seq(Symbol) /\ s.host \in Seq(Symbol)
      /\ s.creds \in {None} \cup Seq(Symbol) /\ s.port \in {None} \cup Symbol
  BY DEF Setting
<1>. DEFINE c == IF s.creds = None THEN <<>> ELSE s.creds \o <<"@">>
            e == IF s.port = None THEN <<>> ELSE <<":", s.port>>
<1>2. c \in Seq(Symbol)
  BY <1>1, Separators, ConcatProperties
<1>3. e \in Seq(Symbol)
  <2>1. ":" \in Symbol
    BY TunnelAssumption
  <2>. QED BY <1>1, <2>1
<1>4. Text(s) = ((s.scheme \o c) \o s.host) \o e
  BY DEF Text
<1>. HIDE DEF c, e
<1>5. s.scheme \o c \in Seq(Symbol)
  BY <1>1, <1>2, ConcatProperties
<1>6. (s.scheme \o c) \o s.host \in Seq(Symbol)
  BY <1>1, <1>5, ConcatProperties
<1>. QED BY <1>3, <1>4, <1>6, ConcatProperties

LEMMA ParsedTyped ==
  ASSUME NEW s \in Setting
  PROVE  Parsed(s) \in {None} \cup Proxies
<1>. DEFINE t == Text(s)
            a == Authority(t)
            h == HostPort(a)
            u == UserInfo(a)
<1>1. t \in Seq(Symbol)
  BY TextTyped
<1>2. Parsed(s) = IF BadProtocol(t) \/ Port(h) = None THEN None
                  ELSE [server |-> Server(h), port |-> Port(h), user |-> User(u),
                        password |-> Password(u)]
  BY DEF Parsed
<1>. HIDE DEF t
<1>3. a \in Seq(Symbol)
  BY <1>1, Separators, Found, Sides DEF Authority
<1>. HIDE DEF a
<1>4. h \in Seq(Symbol)
  BY <1>3, Separators, Found, Sides DEF HostPort
<1>5. u \in {None} \cup Seq(Symbol)
  BY <1>3, Separators, Found, Sides DEF UserInfo
<1>. HIDE DEF h, u
<1>6. Server(h) \in Seq(Symbol)
  BY <1>4, Separators, Found, Sides DEF Server
<1>7. User(u) \in {None} \cup Seq(Symbol) /\ Password(u) \in {None} \cup Seq(Symbol)
  BY <1>5, Separators, Found, Sides DEF User, Password
<1>8. Port(h) \in {None} \cup Nat
  <2>1. \A p \in Seq(Symbol) : ParsePort(p) \in {None} \cup Nat
    BY TunnelAssumption, ElementOfSeq DEF ParsePort
  <2>2. CASE Occurs(h, <<":">>) = {}
    BY <2>2 DEF Port
  <2>3. CASE Occurs(h, <<":">>) # {}
    <3>1. Behind(h, First(h, <<":">>), <<":">>) \in Seq(Symbol)
      BY <1>4, <2>3, Separators, Found, Sides
    <3>. QED BY <2>1, <2>3, <3>1 DEF Port
  <2>. QED BY <2>2, <2>3
<1>. QED BY <1>2, <1>6, <1>7, <1>8 DEF Proxies

-------------------------------------------------------------------------------
(* Types.                                                                  *)

\* What the proxy was told is known as soon as it answers, and the proxy as
\* soon as it is dialled.
Told ==
  /\ stage = "payload" => proxy # None
  /\ stage \in {"read", "verify", "tunnel"} => payload # None

LEMMA EnvironmentTyped ==
  ASSUME case \in Cases
  PROVE  case.env[Variable] \in {None} \cup Setting /\ case.own \in {None} \cup Setting
<1>1. Variable \in Var
  BY DEF Variable, Var
<1>. QED BY <1>1, TunnelAssumption

\* Zero bytes fill a buffer up.
LEMMA ZerosTyped ==
  ASSUME NEW n \in Nat
  PROVE  Zeros(n) \in Seq(Octet) /\ Len(Zeros(n)) = n /\ \A i \in 1 .. n : Zeros(n)[i] = "NUL"
<1>1. "NUL" \in Octet
  BY TunnelAssumption
<1>. QED BY <1>1 DEF Zeros

\* A read appends one buffer, and takes what is in it from the stream.
LEMMA BufferRead ==
  ASSUME socket \in Seq(Octet), response \in Seq(Octet), NEW total \in Nat,
         total = Smaller(BufLen, Len(socket))
  PROVE  LET r == response \o SubSeq(socket, 1, total) \o Zeros(BufLen - total)
             s == SubSeq(socket, total + 1, Len(socket)) IN
         /\ total <= BufLen /\ total <= Len(socket)
         /\ r \in Seq(Octet)
         /\ Len(r) = Len(response) + BufLen
         /\ \A i \in 1 .. Len(response) : r[i] = response[i]
         /\ \A i \in 1 .. total : r[Len(response) + i] = socket[i]
         /\ \A i \in Len(response) + total + 1 .. Len(r) : r[i] = "NUL"
         /\ s \in Seq(Octet)
         /\ Len(s) = Len(socket) - total
         /\ \A i \in 1 .. Len(s) : s[i] = socket[total + i]
<1>0. Len(socket) \in Nat /\ Len(response) \in Nat /\ BufLen \in Nat
  BY LenProperties, TunnelAssumption
<1>1. total <= BufLen /\ total <= Len(socket)
  BY <1>0 DEF Smaller
<1>. DEFINE p == SubSeq(socket, 1, total)
            z == Zeros(BufLen - total)
            s == SubSeq(socket, total + 1, Len(socket))
            q == response \o p
            r == q \o z
<1>2. p \in Seq(Octet) /\ Len(p) = total /\ \A i \in 1 .. total : p[i] = socket[i]
  <2>1. 1 \in 1 .. Len(socket) + 1 /\ total \in 1 - 1 .. Len(socket) /\ total - 1 + 1 = total
    BY <1>0, <1>1
  <2>2. \A i \in 1 .. total : 1 + i - 1 = i
    OBVIOUS
  <2>. QED BY <2>1, <2>2, Piece
<1>3. z \in Seq(Octet) /\ Len(z) = BufLen - total /\ \A i \in 1 .. BufLen - total : z[i] = "NUL"
  <2>1. BufLen - total \in Nat
    BY <1>0, <1>1
  <2>. QED BY <2>1, ZerosTyped
<1>4. /\ s \in Seq(Octet)
      /\ Len(s) = Len(socket) - total
      /\ \A i \in 1 .. Len(s) : s[i] = socket[total + i]
  <2>1. total + 1 \in 1 .. Len(socket) + 1 /\ Len(socket) \in total + 1 - 1 .. Len(socket)
    BY <1>0, <1>1
  <2>2. /\ s \in Seq(Octet)
        /\ Len(s) = Len(socket) - (total + 1) + 1
        /\ \A i \in 1 .. Len(socket) - (total + 1) + 1 : s[i] = socket[(total + 1) + i - 1]
    BY <2>1, Piece
  <2>3. /\ Len(socket) - (total + 1) + 1 = Len(socket) - total
        /\ \A i \in Int : (total + 1) + i - 1 = total + i
    BY <1>0
  <2>. HIDE DEF s
  <2>4. ASSUME NEW i \in 1 .. Len(s) PROVE s[i] = socket[total + i]
    <3>1. i \in 1 .. Len(socket) - (total + 1) + 1
      BY <2>2
    <3>2. (total + 1) + i - 1 = total + i
      BY <2>2, <2>3, <1>0
    <3>. QED BY <2>2, <3>1, <3>2
  <2>. QED BY <2>2, <2>3, <2>4
<1>. HIDE DEF p, z, s
<1>5. /\ q \in Seq(Octet) /\ Len(q) = Len(response) + total
      /\ \A i \in 1 .. Len(response) : q[i] = response[i]
      /\ \A i \in 1 .. total : q[Len(response) + i] = socket[i]
  <2>1. q \in Seq(Octet) /\ Len(q) = Len(response) + total
    BY <1>2, ConcatProperties
  <2>2. \A i \in 1 .. Len(q) :
          q[i] = IF i <= Len(response) THEN response[i] ELSE p[i - Len(response)]
    BY <1>2, ConcatProperties
  <2>. HIDE DEF q
  <2>3. \A i \in 1 .. Len(response) : q[i] = response[i]
    BY <1>0, <2>1, <2>2
  <2>4. ASSUME NEW i \in 1 .. total PROVE q[Len(response) + i] = socket[i]
    <3>1. /\ Len(response) + i \in 1 .. Len(q) /\ ~(Len(response) + i <= Len(response))
          /\ (Len(response) + i) - Len(response) = i
      BY <1>0, <2>1
    <3>. QED BY <1>2, <2>2, <3>1
  <2>. QED BY <2>1, <2>3, <2>4 DEF q
<1>. HIDE DEF q
<1>6. r \in Seq(Octet) /\ Len(r) = Len(response) + BufLen
  <2>1. r \in Seq(Octet) /\ Len(r) = Len(q) + Len(z)
    BY <1>3, <1>5, ConcatProperties
  <2>2. Len(q) + Len(z) = Len(response) + BufLen
    BY <1>0, <1>3, <1>5
  <2>. QED BY <2>1, <2>2
<1>7. \A i \in 1 .. Len(r) : r[i] = IF i <= Len(q) THEN q[i] ELSE z[i - Len(q)]
  BY <1>3, <1>5, ConcatProperties
<1>. HIDE DEF r
<1>8. \A i \in 1 .. Len(response) : r[i] = response[i]
  BY <1>0, <1>1, <1>5, <1>6, <1>7
<1>9. ASSUME NEW i \in 1 .. total PROVE r[Len(response) + i] = socket[i]
  <2>1. Len(response) + i \in 1 .. Len(r) /\ Len(response) + i <= Len(q)
    BY <1>0, <1>1, <1>5, <1>6
  <2>. QED BY <1>5, <1>7, <2>1
<1>10. ASSUME NEW i \in Len(response) + total + 1 .. Len(r) PROVE r[i] = "NUL"
  <2>1. i \in 1 .. Len(r) /\ ~(i <= Len(q)) /\ i - Len(q) \in 1 .. BufLen - total
    BY <1>0, <1>1, <1>5, <1>6
  <2>. QED BY <1>3, <1>7, <2>1
<1>. QED BY <1>1, <1>4, <1>6, <1>8, <1>9, <1>10 DEF r, q, p, z, s

\* And a piece of the answer arrives behind what is there.
LEMMA PieceArrives ==
  ASSUME socket \in Seq(Octet), coming \in Seq(Octet), NEW n \in 1 .. Len(coming)
  PROVE  LET s == socket \o SubSeq(coming, 1, n)
             c == SubSeq(coming, n + 1, Len(coming)) IN
         /\ s \in Seq(Octet) /\ Len(s) = Len(socket) + n
         /\ \A i \in 1 .. Len(socket) : s[i] = socket[i]
         /\ \A i \in 1 .. n : s[Len(socket) + i] = coming[i]
         /\ c \in Seq(Octet) /\ Len(c) = Len(coming) - n
         /\ \A i \in 1 .. Len(c) : c[i] = coming[n + i]
<1>0. Len(socket) \in Nat /\ Len(coming) \in Nat
  BY LenProperties
<1>. DEFINE p == SubSeq(coming, 1, n)
            c == SubSeq(coming, n + 1, Len(coming))
            s == socket \o p
<1>1. p \in Seq(Octet) /\ Len(p) = n /\ \A i \in 1 .. n : p[i] = coming[i]
  <2>1. 1 \in 1 .. Len(coming) + 1 /\ n \in 1 - 1 .. Len(coming) /\ n - 1 + 1 = n
    BY <1>0
  <2>2. \A i \in 1 .. n : 1 + i - 1 = i
    OBVIOUS
  <2>. QED BY <2>1, <2>2, Piece
<1>2. /\ c \in Seq(Octet)
      /\ Len(c) = Len(coming) - n
      /\ \A i \in 1 .. Len(c) : c[i] = coming[n + i]
  <2>1. n + 1 \in 1 .. Len(coming) + 1 /\ Len(coming) \in n + 1 - 1 .. Len(coming)
    BY <1>0
  <2>2. /\ c \in Seq(Octet)
        /\ Len(c) = Len(coming) - (n + 1) + 1
        /\ \A i \in 1 .. Len(coming) - (n + 1) + 1 : c[i] = coming[(n + 1) + i - 1]
    BY <2>1, Piece
  <2>3. /\ Len(coming) - (n + 1) + 1 = Len(coming) - n
        /\ \A i \in Int : (n + 1) + i - 1 = n + i
    BY <1>0
  <2>. HIDE DEF c
  <2>. QED BY <2>2, <2>3
<1>. HIDE DEF p, c
<1>3. s \in Seq(Octet) /\ Len(s) = Len(socket) + n
  BY <1>1, ConcatProperties
<1>4. \A i \in 1 .. Len(s) : s[i] = IF i <= Len(socket) THEN socket[i] ELSE p[i - Len(socket)]
  BY <1>1, ConcatProperties
<1>. HIDE DEF s
<1>5. \A i \in 1 .. Len(socket) : s[i] = socket[i]
  BY <1>0, <1>3, <1>4
<1>6. ASSUME NEW i \in 1 .. n PROVE s[Len(socket) + i] = coming[i]
  <2>1. /\ Len(socket) + i \in 1 .. Len(s) /\ ~(Len(socket) + i <= Len(socket))
        /\ (Len(socket) + i) - Len(socket) = i
    BY <1>0, <1>3
  <2>. QED BY <1>1, <1>4, <2>1
<1>. QED BY <1>2, <1>3, <1>5, <1>6 DEF s, p, c

\* A step keeps types, and what Told says.
LEMMA TunnelStepTyped ==
  ASSUME TypeOK, Told, [Next]_vars
  PROVE  TypeOK' /\ Told'
<1>. USE DEF TypeOK, Told
<1>0. /\ case.answer \in Seq(Octet) /\ BufLen \in Nat /\ BufLen > 0
      /\ Len(case.answer) \in Nat /\ Len(socket) \in Nat /\ Len(coming) \in Nat
      /\ Len(response) \in Nat
  BY TunnelAssumption, LenProperties
<1>1. CASE NewProxy
  <2>1. proxy' \in {None} \cup Proxies
    BY <1>1, EnvironmentTyped, ParsedTyped DEF NewProxy
  <2>. QED BY <1>1, <2>1 DEF NewProxy, given, network
<1>2. CASE NewParsedRequest
  <2>1. FromEnvironment \in {None} \cup Proxies
    BY EnvironmentTyped, ParsedTyped DEF FromEnvironment
  <2>. QED BY <1>2, <2>1 DEF NewParsedRequest, given, network
<1>3. CASE ConnectDirect
  BY <1>3 DEF ConnectDirect, given, network
<1>4. CASE ConnectProxy
  BY <1>4 DEF ConnectProxy, given, network
<1>5. CASE WriteConnect
  <2>1. proxy \in Proxies
    BY <1>5 DEF WriteConnect
  <2>2. Authorization \in {None} \cup [basic : Seq(Symbol)]
    <3>1. /\ proxy.user \in {None} \cup Seq(Symbol)
          /\ proxy.password \in {None} \cup Seq(Symbol)
      BY <2>1 DEF Proxies
    <3>2. CASE proxy.user # None /\ proxy.password # None
      <4>1. proxy.user \o <<":">> \in Seq(Symbol)
        BY <3>1, <3>2, Separators, ConcatProperties
      <4>2. (proxy.user \o <<":">>) \o proxy.password \in Seq(Symbol)
        BY <3>1, <3>2, <4>1, ConcatProperties
      <4>. QED BY <3>2, <4>2 DEF Authorization
    <3>. QED BY <3>1, <3>2 DEF Authorization
  <2>3. payload' \in Payloads
    BY <1>5, <2>2 DEF WriteConnect, Payloads
  <2>4. payload' # None
    BY <2>3, TunnelAssumption
  <2>. QED BY <1>5, <2>3, <2>4 DEF WriteConnect, given, network
<1>6. CASE ReadAnswer
  <2>. DEFINE total == Smaller(BufLen, Len(socket))
  <2>1. total \in Nat
    BY <1>0 DEF Smaller
  <2>2. /\ stage = "read" /\ stage' \in {"verify", "read"}
        /\ response' = response \o SubSeq(socket, 1, total) \o Zeros(BufLen - total)
        /\ socket' = SubSeq(socket, total + 1, Len(socket))
        /\ UNCHANGED <<given, proxy, dialled, payload, coming>>
    BY <1>6 DEF ReadAnswer
  <2>3. /\ total <= Len(socket)
        /\ response' \in Seq(Octet) /\ Len(response') = Len(response) + BufLen
        /\ socket' \in Seq(Octet) /\ Len(socket') = Len(socket) - total
    BY <2>1, <2>2, BufferRead
  <2>. HIDE DEF total
  <2>4. Len(response') % BufLen = 0
    <3>1. (Len(response) + BufLen) % BufLen = 0
      BY <1>0, OneMore
    <3>. QED BY <2>3, <3>1
  <2>5. Len(coming') + Len(socket') <= Len(case'.answer)
    BY <1>0, <2>1, <2>2, <2>3 DEF given
  <2>. QED BY <2>2, <2>3, <2>4, <2>5 DEF given
<1>7. CASE VerifyResponse
  <2>1. Verify(response) \in Stages \ {"payload", "read", "verify"}
    BY DEF Verify
  <2>. QED BY <1>7, <2>1 DEF VerifyResponse, given, network
<1>8. CASE Arrive
  <2>1. PICK n \in 1 .. Len(coming) :
          /\ socket' = socket \o SubSeq(coming, 1, n)
          /\ coming' = SubSeq(coming, n + 1, Len(coming))
    BY <1>8 DEF Arrive
  <2>2. /\ socket' \in Seq(Octet) /\ Len(socket') = Len(socket) + n
        /\ coming' \in Seq(Octet) /\ Len(coming') = Len(coming) - n
    BY <2>1, PieceArrives
  <2>3. UNCHANGED <<given, proxy, stage, dialled, payload, response>>
    BY <1>8 DEF Arrive
  <2>4. Len(coming') + Len(socket') <= Len(case'.answer)
    BY <1>0, <2>2, <2>3 DEF given
  <2>. QED BY <2>2, <2>3, <2>4 DEF given
<1>9. CASE Breaks
  BY <1>9 DEF Breaks, given, network
<1>10. CASE NextHop
  <2>1. Len(<<>>) = 0 /\ 0 % BufLen = 0 /\ Len(case.answer) + 0 <= Len(case.answer)
    BY <1>0
  <2>2. <<>> \in Seq(Octet)
    OBVIOUS
  <2>. QED BY <1>0, <1>10, <2>1, <2>2 DEF NextHop
<1>11. CASE Terminated \/ UNCHANGED vars
  BY <1>11 DEF Terminated, vars
<1>. QED
  BY <1>1, <1>2, <1>3, <1>4, <1>5, <1>6, <1>7, <1>8, <1>9, <1>10, <1>11 DEF Next, Client

\* Every variable keeps its type, buffers are kept whole, and no byte of the
\* answer is in two places, whatever the settings and the answer are.
THEOREM TunnelTyping == Spec => [](TypeOK /\ Told)
<1>1. Init => TypeOK /\ Told
  <2>. SUFFICES ASSUME Init PROVE TypeOK /\ Told
    OBVIOUS
  <2>1. case.answer \in Seq(Octet) /\ BufLen \in Nat /\ BufLen > 0 /\ Len(case.answer) \in Nat
    BY TunnelAssumption, LenProperties DEF Init
  <2>2. Len(<<>>) = 0 /\ 0 % BufLen = 0 /\ Len(case.answer) + 0 <= Len(case.answer)
    BY <2>1
  <2>. QED BY <2>1, <2>2 DEF Init, TypeOK, Told
<1>2. TypeOK /\ Told /\ [Next]_vars => (TypeOK /\ Told)'
  BY TunnelStepTyped
<1>. QED BY <1>1, <1>2, PTL DEF Spec

-------------------------------------------------------------------------------
(* The answer of the proxy.                                                *)

\* How far an answer has come: what was read, what has arrived and what is
\* still under way are the answer, one behind the other.
Part(s, n) == \A i \in 1 .. Len(s) : s[i] = case.answer[n + i]

Underway ==
  stage \in {"new", "config", "connect", "payload", "read"} =>
    /\ Len(response) + Len(socket) + Len(coming) = Len(case.answer)
    /\ Part(response, 0)
    /\ Part(socket, Len(response))
    /\ Part(coming, Len(response) + Len(socket))

\* Behind the loop, a beginning of the answer was read, and zero bytes follow.
FilledUp(n) ==
  /\ n < Len(response)
  /\ \A i \in 1 .. n : response[i] = case.answer[i]
  /\ \A i \in n + 1 .. Len(response) : response[i] = "NUL"

Filled == stage = "verify" => \E n \in 0 .. Len(case.answer) : FilledUp(n)

Emptied == stage \in {"verify", "tunnel"} => socket = <<>>

AnswerInv == Underway /\ Filled /\ Emptied /\ TunnelMeans200

\* The loop: what it reads goes from the stream to the end of the response, and
\* the first buffer that is not full is the last one.
LEMMA ReadKeepsAnswer ==
  ASSUME TypeOK, AnswerInv, ReadAnswer
  PROVE  AnswerInv'
<1>. DEFINE total == Smaller(BufLen, Len(socket))
<1>0. /\ case.answer \in Seq(Octet) /\ BufLen \in Nat /\ BufLen > 0
      /\ Len(case.answer) \in Nat /\ Len(socket) \in Nat /\ Len(coming) \in Nat
      /\ Len(response) \in Nat
      /\ socket \in Seq(Octet) /\ coming \in Seq(Octet) /\ response \in Seq(Octet)
  BY TunnelAssumption, LenProperties DEF TypeOK
<1>1. total \in Nat
  BY <1>0 DEF Smaller
<1>2. /\ stage = "read"
      /\ response' = response \o SubSeq(socket, 1, total) \o Zeros(BufLen - total)
      /\ socket' = SubSeq(socket, total + 1, Len(socket))
      /\ stage' = IF total < BufLen THEN "verify" ELSE "read"
      /\ case' = case /\ coming' = coming
  BY DEF ReadAnswer, LastRead, given
<1>3. /\ total <= BufLen /\ total <= Len(socket)
      /\ response' \in Seq(Octet)
      /\ Len(response') = Len(response) + BufLen
      /\ \A i \in 1 .. Len(response) : response'[i] = response[i]
      /\ \A i \in 1 .. total : response'[Len(response) + i] = socket[i]
      /\ \A i \in Len(response) + total + 1 .. Len(response') : response'[i] = "NUL"
      /\ socket' \in Seq(Octet)
      /\ Len(socket') = Len(socket) - total
      /\ \A i \in 1 .. Len(socket') : socket'[i] = socket[total + i]
  BY <1>0, <1>1, <1>2, BufferRead
<1>4. total < BufLen => total = Len(socket)
  BY <1>0 DEF Smaller
<1>5. /\ Len(response) + Len(socket) + Len(coming) = Len(case.answer)
      /\ \A i \in 1 .. Len(response) : response[i] = case.answer[i]
      /\ \A i \in 1 .. Len(socket) : socket[i] = case.answer[Len(response) + i]
      /\ \A i \in 1 .. Len(coming) :
           coming[i] = case.answer[Len(response) + Len(socket) + i]
  BY <1>0, <1>2 DEF AnswerInv, Underway, Part
<1>. HIDE DEF total
<1>6. ASSUME NEW i \in 1 .. Len(response) + total PROVE response'[i] = case.answer[i]
  <2>1. CASE i <= Len(response)
    BY <1>0, <1>3, <1>5, <2>1
  <2>2. CASE ~(i <= Len(response))
    <3>1. PICK j \in 1 .. total : i = Len(response) + j
      <4>1. i - Len(response) \in 1 .. total /\ i = Len(response) + (i - Len(response))
        BY <1>0, <1>1, <2>2
      <4>. QED BY <4>1
    <3>2. j \in 1 .. Len(socket)
      BY <1>0, <1>1, <1>3
    <3>. QED BY <1>3, <1>5, <3>1, <3>2
  <2>. QED BY <2>1, <2>2
<1>7. CASE total < BufLen
  <2>1. socket' = <<>>
    <3>1. Len(socket') = 0
      BY <1>0, <1>3, <1>4, <1>7
    <3>. QED BY <1>3, <3>1, EmptySeq
  <2>2. PICK n \in Nat : n = Len(response) + total
    BY <1>0, <1>1
  <2>3. n \in 0 .. Len(case.answer) /\ n < Len(response')
    BY <1>0, <1>1, <1>3, <1>4, <1>5, <1>7, <2>2
  <2>4. \E m \in 0 .. Len(case'.answer) : FilledUp(m)'
    <3>1. FilledUp(n)'
      BY <1>2, <1>3, <1>6, <2>2, <2>3 DEF FilledUp
    <3>. QED BY <1>2, <2>3, <3>1
  <2>5. Filled'
    BY <2>4 DEF Filled
  <2>. QED BY <1>2, <1>7, <2>1, <2>5
          DEF AnswerInv, Underway, Emptied, TunnelMeans200
<1>8. CASE ~(total < BufLen)
  <2>1. total = BufLen
    BY <1>0, <1>1, <1>3, <1>8
  <2>2. Len(response') + Len(socket') + Len(coming') = Len(case'.answer)
    <3>1. Len(response') + Len(socket') = Len(response) + Len(socket)
      BY <1>0, <1>1, <1>3, <2>1
    <3>. QED BY <1>2, <1>5, <3>1
  <2>3. Part(response, 0)'
    <3>1. ASSUME NEW i \in 1 .. Len(response') PROVE response'[i] = case'.answer[0 + i]
      <4>1. i \in 1 .. Len(response) + total /\ 0 + i = i
        BY <1>3, <2>1
      <4>. QED BY <1>2, <1>6, <4>1
    <3>. QED BY <3>1 DEF Part
  <2>4. Part(socket, Len(response))'
    <3>1. ASSUME NEW i \in 1 .. Len(socket')
          PROVE  socket'[i] = case'.answer[Len(response') + i]
      <4>1. /\ total + i \in 1 .. Len(socket)
            /\ Len(response) + (total + i) = Len(response') + i
        BY <1>0, <1>1, <1>3, <2>1
      <4>2. socket'[i] = socket[total + i]
        BY <1>3
      <4>3. socket[total + i] = case.answer[Len(response) + (total + i)]
        BY <1>5, <4>1
      <4>. QED BY <1>2, <4>1, <4>2, <4>3
    <3>. QED BY <3>1 DEF Part
  <2>5. Part(coming, Len(response) + Len(socket))'
    <3>1. Len(response') + Len(socket') = Len(response) + Len(socket)
      BY <1>0, <1>1, <1>3, <2>1
    <3>. QED BY <1>2, <1>5, <3>1 DEF Part
  <2>. QED BY <1>2, <1>8, <2>2, <2>3, <2>4, <2>5
          DEF AnswerInv, Underway, Filled, Emptied, TunnelMeans200
<1>. QED BY <1>7, <1>8

\* The network: a piece moves from what is under way to the stream.
LEMMA ArriveKeepsAnswer ==
  ASSUME TypeOK, AnswerInv, Arrive
  PROVE  AnswerInv'
<1>0. /\ Len(case.answer) \in Nat /\ Len(socket) \in Nat /\ Len(coming) \in Nat
      /\ Len(response) \in Nat /\ socket \in Seq(Octet) /\ coming \in Seq(Octet)
  BY TunnelAssumption, LenProperties DEF TypeOK
<1>1. PICK n \in 1 .. Len(coming) :
        /\ socket' = socket \o SubSeq(coming, 1, n)
        /\ coming' = SubSeq(coming, n + 1, Len(coming))
  BY DEF Arrive
<1>2. stage = "read" /\ stage' = stage /\ case' = case /\ response' = response
  BY DEF Arrive, given
<1>3. /\ Len(socket') = Len(socket) + n
      /\ \A i \in 1 .. Len(socket) : socket'[i] = socket[i]
      /\ \A i \in 1 .. n : socket'[Len(socket) + i] = coming[i]
      /\ Len(coming') = Len(coming) - n
      /\ \A i \in 1 .. Len(coming') : coming'[i] = coming[n + i]
  BY <1>0, <1>1, PieceArrives
<1>4. /\ Len(response) + Len(socket) + Len(coming) = Len(case.answer)
      /\ Part(response, 0)
      /\ \A i \in 1 .. Len(socket) : socket[i] = case.answer[Len(response) + i]
      /\ \A i \in 1 .. Len(coming) :
           coming[i] = case.answer[Len(response) + Len(socket) + i]
  BY <1>0, <1>2 DEF AnswerInv, Underway, Part
<1>5. Len(response') + Len(socket') + Len(coming') = Len(case'.answer)
  <2>1. Len(socket') + Len(coming') = Len(socket) + Len(coming)
    BY <1>0, <1>3
  <2>2. Len(socket') \in Nat /\ Len(coming') \in Nat
    BY <1>0, <1>3
  <2>3. Len(response) + Len(socket') + Len(coming') = Len(case.answer)
    <3>1. Len(response) + Len(socket) + Len(coming) = Len(case.answer)
      BY <1>4
    <3>2. Len(response) \in Nat /\ Len(socket) \in Nat /\ Len(coming) \in Nat
      BY <1>0
    <3>. QED BY <2>1, <2>2, <3>1, <3>2
  <2>. QED BY <1>2, <2>3
<1>6. Part(response, 0)'
  BY <1>2, <1>4 DEF Part
<1>7. Part(socket, Len(response))'
  <2>1. ASSUME NEW i \in 1 .. Len(socket') PROVE socket'[i] = case.answer[Len(response) + i]
    <3>1. CASE i <= Len(socket)
      BY <1>0, <1>3, <1>4, <3>1
    <3>2. CASE ~(i <= Len(socket))
      <4>1. PICK j \in 1 .. n : i = Len(socket) + j
        <5>1. i - Len(socket) \in 1 .. n /\ i = Len(socket) + (i - Len(socket))
          BY <1>0, <1>3, <3>2
        <5>. QED BY <5>1
      <4>2. /\ j \in 1 .. Len(coming)
            /\ Len(response) + Len(socket) + j = Len(response) + (Len(socket) + j)
        BY <1>0
      <4>3. socket'[i] = coming[j]
        BY <1>3, <4>1
      <4>4. coming[j] = case.answer[Len(response) + Len(socket) + j]
        BY <1>4, <4>2
      <4>. QED BY <4>1, <4>2, <4>3, <4>4
    <3>. QED BY <3>1, <3>2
  <2>. QED BY <1>2, <2>1 DEF Part
<1>8. Part(coming, Len(response) + Len(socket))'
  <2>1. ASSUME NEW i \in 1 .. Len(coming')
        PROVE  coming'[i] = case.answer[Len(response) + Len(socket') + i]
    <3>1. /\ n + i \in 1 .. Len(coming)
          /\ Len(response) + Len(socket) + (n + i) = Len(response) + Len(socket') + i
      BY <1>0, <1>3
    <3>2. coming'[i] = coming[n + i]
      BY <1>3
    <3>3. coming[n + i] = case.answer[Len(response) + Len(socket) + (n + i)]
      BY <1>4, <3>1
    <3>. QED BY <3>1, <3>2, <3>3
  <2>. QED BY <1>2, <2>1 DEF Part
<1>. QED
  BY <1>2, <1>5, <1>6, <1>7, <1>8 DEF AnswerInv, Underway, Filled, Emptied, TunnelMeans200

\* The codes that verify_response looks for have no zero byte in them.
LEMMA CodesAreWords ==
  ASSUME NEW word \in {<<"2", "0", "0">>, <<"4", "0", "1">>, <<"4", "0", "7">>}
  PROVE  word \in Seq(Octet) /\ \A i \in 1 .. Len(word) : word[i] # "NUL"
<1>1. {"0", "1", "2", "4", "7"} \subseteq Octet
  BY TunnelAssumption
<1>2. /\ <<"2", "0", "0">> \in Seq(Octet)
      /\ <<"4", "0", "1">> \in Seq(Octet)
      /\ <<"4", "0", "7">> \in Seq(Octet)
  BY <1>1
<1>3. CASE word = <<"2", "0", "0">>
  BY <1>2, <1>3
<1>4. CASE word = <<"4", "0", "1">>
  BY <1>2, <1>4
<1>5. CASE word = <<"4", "0", "7">>
  BY <1>2, <1>5
<1>. QED BY <1>3, <1>4, <1>5

\* A verdict that is not BadProxy is one on the answer itself.
LEMMA VerifyIsRight ==
  ASSUME TypeOK, Filled, stage = "verify",
         NEW word \in {<<"2", "0", "0">>, <<"4", "0", "1">>, <<"4", "0", "7">>},
         Second(TopLine(response)) = word
  PROVE  Status = word
<1>1. PICK n \in 0 .. Len(case.answer) : FilledUp(n)
  BY DEF Filled
<1>2. /\ n < Len(response)
      /\ \A i \in 1 .. n : response[i] = case.answer[i]
      /\ \A i \in n + 1 .. Len(response) : response[i] = "NUL"
  BY <1>1 DEF FilledUp
<1>3. response \in Seq(Octet) /\ case.answer \in Seq(Octet)
  BY TunnelAssumption DEF TypeOK
<1>4. word \in Seq(Octet) /\ \A i \in 1 .. Len(word) : word[i] # "NUL"
  BY CodesAreWords
<1>5. Second(TopLine(case.answer)) = word
  BY <1>2, <1>3, <1>4, PaddedStatus
<1>. QED BY <1>5 DEF Status

LEMMA VerifyKeepsAnswer ==
  ASSUME TypeOK, AnswerInv, VerifyResponse
  PROVE  AnswerInv'
<1>1. /\ stage = "verify" /\ stage' = Verify(response)
      /\ case' = case /\ socket' = socket /\ Status' = Status
  BY DEF VerifyResponse, given, network, Status
<1>2. Filled /\ socket = <<>>
  BY <1>1 DEF AnswerInv, Emptied
<1>3. stage' = "tunnel" => Status = <<"2", "0", "0">>
  BY <1>1, <1>2, VerifyIsRight DEF Verify
<1>4. stage' = "InvalidProxyCreds" => Status \in {<<"4", "0", "1">>, <<"4", "0", "7">>}
  BY <1>1, <1>2, VerifyIsRight DEF Verify
<1>5. stage' \in {"tunnel", "InvalidProxyCreds", "BadProxy"}
  BY <1>1 DEF Verify
<1>. QED
  BY <1>1, <1>2, <1>3, <1>4, <1>5 DEF AnswerInv, Underway, Filled, Emptied, TunnelMeans200

LEMMA AnswerStep ==
  ASSUME TypeOK, AnswerInv, [Next]_vars
  PROVE  AnswerInv'
<1>. USE DEF AnswerInv
<1>1. ASSUME stage' \in {"config", "connect", "payload", "read"},
             stage \in {"new", "config", "connect", "payload"},
             UNCHANGED <<case, coming, socket, response>>
      PROVE  AnswerInv'
  BY <1>1 DEF Underway, Part, Filled, Emptied, TunnelMeans200
<1>2. ASSUME stage' \in {"direct", "BadProxy", "IoError"}
      PROVE  AnswerInv'
  BY <1>2 DEF Underway, Filled, Emptied, TunnelMeans200
<1>3. CASE NewProxy
  BY <1>1, <1>2, <1>3 DEF NewProxy, given, network
<1>4. CASE NewParsedRequest
  BY <1>1, <1>4 DEF NewParsedRequest, given, network
<1>5. CASE ConnectDirect
  BY <1>2, <1>5 DEF ConnectDirect
<1>6. CASE ConnectProxy
  BY <1>1, <1>6 DEF ConnectProxy, given, network
<1>7. CASE WriteConnect
  BY <1>1, <1>7 DEF WriteConnect, given, network
<1>8. CASE Breaks
  BY <1>2, <1>8 DEF Breaks
<1>9. CASE NextHop
  <2>1. /\ stage' = "connect" /\ coming' = case.answer /\ socket' = <<>>
        /\ response' = <<>> /\ case' = case
    BY <1>9 DEF NextHop
  <2>2. case.answer \in Seq(Octet) /\ Len(case.answer) \in Nat
    BY TunnelAssumption, LenProperties DEF TypeOK
  <2>3. Len(<<>>) = 0 /\ \A i \in 1 .. Len(<<>>) : FALSE
    OBVIOUS
  <2>4. Len(response') + Len(socket') + Len(coming') = Len(case'.answer)
    BY <2>1, <2>2
  <2>5. Part(response, 0)' /\ Part(socket, Len(response))'
    BY <2>1, <2>3 DEF Part
  <2>6. Part(coming, Len(response) + Len(socket))'
    <3>1. \A i \in 1 .. Len(case.answer) : (0 + 0) + i = i
      BY <2>2
    <3>. QED BY <2>1, <2>3, <3>1 DEF Part
  <2>. QED BY <2>1, <2>4, <2>5, <2>6 DEF Underway, Filled, Emptied, TunnelMeans200
<1>10. CASE Terminated \/ UNCHANGED vars
  BY <1>10 DEF Terminated, vars, Underway, Part, Filled, FilledUp, Emptied,
               TunnelMeans200, Status
<1>. QED
  BY <1>3, <1>4, <1>5, <1>6, <1>7, <1>8, <1>9, <1>10, ReadKeepsAnswer, ArriveKeepsAnswer,
     VerifyKeepsAnswer
  DEF Next, Client

LEMMA AnswerInvariance == Spec => []AnswerInv
<1>1. Init => AnswerInv
  <2>. SUFFICES ASSUME Init PROVE AnswerInv
    OBVIOUS
  <2>1. /\ stage = "new" /\ coming = case.answer /\ socket = <<>> /\ response = <<>>
        /\ case.answer \in Seq(Octet) /\ Len(case.answer) \in Nat
    BY TunnelAssumption, LenProperties DEF Init
  <2>2. Len(<<>>) = 0 /\ \A i \in 1 .. Len(<<>>) : FALSE
    OBVIOUS
  <2>3. Len(response) + Len(socket) + Len(coming) = Len(case.answer)
    BY <2>1
  <2>4. Part(response, 0) /\ Part(socket, Len(response))
    BY <2>1, <2>2 DEF Part
  <2>5. Part(coming, Len(response) + Len(socket))
    <3>1. \A i \in 1 .. Len(case.answer) : (0 + 0) + i = i
      BY <2>1
    <3>. QED BY <2>1, <2>2, <3>1 DEF Part
  <2>. QED BY <2>1, <2>3, <2>4, <2>5 DEF AnswerInv, Underway, Filled, Emptied, TunnelMeans200
<1>2. TypeOK /\ AnswerInv /\ [Next]_vars => AnswerInv'
  BY AnswerStep
<1>. QED BY <1>1, <1>2, TunnelTyping, PTL DEF Spec

\* However the network cuts the answer, and whatever the length of the buffer
\* is, verify_response calls a tunnel only what the proxy's own status line
\* calls one, and refused credentials only what it calls so.
THEOREM TunnelIsGranted == Spec => []TunnelMeans200
<1>1. AnswerInv => TunnelMeans200
  BY DEF AnswerInv
<1>. QED BY <1>1, AnswerInvariance, PTL

\* The loop of connect ends with an empty stream: of an answer that has
\* arrived, nothing is left for the reader of the response.
THEOREM TunnelStartsClean == Spec => []CleanStart
<1>1. AnswerInv => CleanStart
  BY DEF AnswerInv, Emptied, CleanStart
<1>. QED BY <1>1, AnswerInvariance, PTL

-------------------------------------------------------------------------------
(* Settings of the documented format.                                      *)

LEMMA Regrouped ==
  ASSUME NEW x \in Seq(Symbol), NEW y \in Seq(Symbol), NEW z \in Seq(Symbol)
  PROVE  (x \o y) \o z = x \o (y \o z)
BY ConcatAssociative, SMT

LEMMA PairIs ==
  ASSUME NEW a \in Symbol, NEW b \in Symbol
  PROVE  <<a>> \o <<b>> = <<a, b>>
<1>. DEFINE x == <<a>>
            y == <<b>>
            z == <<a, b>>
<1>1. x \in Seq(Symbol) /\ Len(x) = 1 /\ x[1] = a
  OBVIOUS
<1>2. y \in Seq(Symbol) /\ Len(y) = 1 /\ y[1] = b
  OBVIOUS
<1>3. z \in Seq(Symbol) /\ Len(z) = 2 /\ z[1] = a /\ z[2] = b
  OBVIOUS
<1>. HIDE DEF x, y, z
<1>4. /\ x \o y \in Seq(Symbol) /\ Len(x \o y) = Len(x) + Len(y)
      /\ \A i \in 1 .. Len(x) + Len(y) :
           (x \o y)[i] = IF i <= Len(x) THEN x[i] ELSE y[i - Len(x)]
  BY <1>1, <1>2, ConcatProperties
<1>5. Len(x \o y) = 2 /\ (x \o y)[1] = a /\ (x \o y)[2] = b
  BY <1>1, <1>2, <1>4
<1>6. \A i \in 1 .. Len(x \o y) : (x \o y)[i] = z[i]
  BY <1>3, <1>5
<1>7. x \o y = z
  BY <1>3, <1>4, <1>5, <1>6, SeqEqual
<1>. QED BY <1>7 DEF x, y, z

\* A separator between two texts: where it is, and what is on its sides.
LEMMA SeparatorAt ==
  ASSUME NEW x \in Seq(Symbol), NEW z \in Seq(Symbol), NEW c \in Symbol
  PROVE  LET t == (x \o <<c>>) \o z IN
         /\ t \in Seq(Symbol)
         /\ Len(t) = Len(x) + 1 + Len(z)
         /\ \A i \in 1 .. Len(x) : t[i] = x[i]
         /\ t[Len(x) + 1] = c
         /\ \A i \in 1 .. Len(z) : t[Len(x) + 1 + i] = z[i]
         /\ Before(t, Len(x) + 1) = x
         /\ Behind(t, Len(x) + 1, <<c>>) = z
<1>. DEFINE y == x \o <<c>>
            t == y \o z
<1>0. Len(x) \in Nat /\ Len(z) \in Nat
  BY LenProperties
<1>1. <<c>> \in Seq(Symbol) /\ Len(<<c>>) = 1 /\ <<c>>[1] = c
  OBVIOUS
<1>2. y \in Seq(Symbol) /\ Len(y) = Len(x) + 1
  BY <1>1, ConcatProperties
<1>3. \A i \in 1 .. Len(x) + 1 : y[i] = IF i <= Len(x) THEN x[i] ELSE <<c>>[i - Len(x)]
  BY <1>1, ConcatProperties
<1>. HIDE DEF y
<1>4. t \in Seq(Symbol) /\ Len(t) = Len(y) + Len(z)
  BY <1>2, ConcatProperties
<1>5. \A i \in 1 .. Len(y) + Len(z) : t[i] = IF i <= Len(y) THEN y[i] ELSE z[i - Len(y)]
  BY <1>2, ConcatProperties
<1>. HIDE DEF t
<1>6. Len(t) = Len(x) + 1 + Len(z)
  BY <1>2, <1>4
<1>7. \A i \in 1 .. Len(x) : t[i] = x[i]
  BY <1>0, <1>2, <1>3, <1>5
<1>8. t[Len(x) + 1] = c
  <2>1. /\ Len(x) + 1 \in 1 .. Len(y) + Len(z) /\ Len(x) + 1 <= Len(y)
        /\ ~(Len(x) + 1 <= Len(x)) /\ Len(x) + 1 - Len(x) = 1
        /\ Len(x) + 1 \in 1 .. Len(x) + 1
    BY <1>0, <1>2
  <2>. QED BY <1>1, <1>3, <1>5, <2>1
<1>9. ASSUME NEW i \in 1 .. Len(z) PROVE t[Len(x) + 1 + i] = z[i]
  <2>1. /\ Len(x) + 1 + i \in 1 .. Len(y) + Len(z) /\ ~(Len(x) + 1 + i <= Len(y))
        /\ Len(x) + 1 + i - Len(y) = i
    BY <1>0, <1>2
  <2>. QED BY <1>5, <2>1
<1>10. SubSeq(t, 1, Len(x) + 1 - 1) = x
  <2>1. 1 \in 1 .. Len(t) + 1 /\ Len(x) \in 1 - 1 .. Len(t) /\ Len(x) + 1 - 1 = Len(x)
    BY <1>0, <1>6
  <2>2. /\ SubSeq(t, 1, Len(x)) \in Seq(Symbol)
        /\ Len(SubSeq(t, 1, Len(x))) = Len(x) - 1 + 1
        /\ \A i \in 1 .. Len(x) - 1 + 1 : SubSeq(t, 1, Len(x))[i] = t[1 + i - 1]
    BY <1>4, <2>1, Piece
  <2>3. Len(x) - 1 + 1 = Len(x) /\ \A i \in 1 .. Len(x) : 1 + i - 1 = i
    BY <1>0
  <2>4. \A i \in 1 .. Len(x) : SubSeq(t, 1, Len(x))[i] = x[i]
    BY <1>7, <2>2, <2>3
  <2>5. SubSeq(t, 1, Len(x)) = x
    BY <2>2, <2>3, <2>4, SeqEqual
  <2>. QED BY <2>1, <2>5
<1>11. SubSeq(t, Len(x) + 1 + 1, Len(t)) = z
  <2>. DEFINE m == Len(x) + 1 + 1
  <2>1. m \in 1 .. Len(t) + 1 /\ Len(t) \in m - 1 .. Len(t)
    BY <1>0, <1>6
  <2>2. /\ SubSeq(t, m, Len(t)) \in Seq(Symbol)
        /\ Len(SubSeq(t, m, Len(t))) = Len(t) - m + 1
        /\ \A i \in 1 .. Len(t) - m + 1 : SubSeq(t, m, Len(t))[i] = t[m + i - 1]
    BY <1>4, <2>1, Piece
  <2>3. Len(t) - m + 1 = Len(z) /\ \A i \in 1 .. Len(z) : m + i - 1 = Len(x) + 1 + i
    BY <1>0, <1>6
  <2>. HIDE DEF m
  <2>4. \A i \in 1 .. Len(z) : SubSeq(t, m, Len(t))[i] = z[i]
    BY <1>9, <2>2, <2>3
  <2>5. SubSeq(t, m, Len(t)) = z
    BY <2>2, <2>3, <2>4, SeqEqual
  <2>. QED BY <2>5 DEF m
<1>12. Before(t, Len(x) + 1) = x /\ Behind(t, Len(x) + 1, <<c>>) = z
  BY <1>1, <1>10, <1>11 DEF Before, Behind
<1>. QED BY <1>4, <1>6, <1>7, <1>8, <1>9, <1>12 DEF t, y

\* What stands on the sides of a separator, put together again.
LEMMA Rejoined ==
  ASSUME NEW t \in Seq(Symbol), NEW c \in Symbol, NEW f \in 1 .. Len(t), t[f] = c
  PROVE  (Before(t, f) \o <<c>>) \o Behind(t, f, <<c>>) = t
<1>. DEFINE x == SubSeq(t, 1, f - 1)
            z == SubSeq(t, f + 1, Len(t))
            w == (x \o <<c>>) \o z
<1>0. Len(t) \in Nat /\ Len(<<c>>) = 1
  BY LenProperties
<1>1. x \in Seq(Symbol) /\ Len(x) = f - 1 /\ \A i \in 1 .. f - 1 : x[i] = t[i]
  <2>1. 1 \in 1 .. Len(t) + 1 /\ f - 1 \in 1 - 1 .. Len(t)
    BY <1>0
  <2>2. /\ x \in Seq(Symbol) /\ Len(x) = f - 1 - 1 + 1
        /\ \A i \in 1 .. f - 1 - 1 + 1 : x[i] = t[1 + i - 1]
    BY <2>1, Piece
  <2>3. f - 1 - 1 + 1 = f - 1 /\ \A i \in 1 .. f - 1 : 1 + i - 1 = i
    BY <1>0
  <2>. HIDE DEF x
  <2>. QED BY <2>2, <2>3
<1>2. z \in Seq(Symbol) /\ Len(z) = Len(t) - f /\ \A i \in 1 .. Len(t) - f : z[i] = t[f + i]
  <2>1. f + 1 \in 1 .. Len(t) + 1 /\ Len(t) \in f + 1 - 1 .. Len(t)
    BY <1>0
  <2>2. /\ z \in Seq(Symbol) /\ Len(z) = Len(t) - (f + 1) + 1
        /\ \A i \in 1 .. Len(t) - (f + 1) + 1 : z[i] = t[f + 1 + i - 1]
    BY <2>1, Piece
  <2>3. Len(t) - (f + 1) + 1 = Len(t) - f /\ \A i \in 1 .. Len(t) - f : f + 1 + i - 1 = f + i
    BY <1>0
  <2>. HIDE DEF z
  <2>. QED BY <2>2, <2>3
<1>. HIDE DEF x, z
<1>3. /\ w \in Seq(Symbol)
      /\ Len(w) = Len(x) + 1 + Len(z)
      /\ \A i \in 1 .. Len(x) : w[i] = x[i]
      /\ w[Len(x) + 1] = c
      /\ \A i \in 1 .. Len(z) : w[Len(x) + 1 + i] = z[i]
  BY <1>1, <1>2, SeparatorAt
<1>. HIDE DEF w
<1>4. Len(w) = Len(t)
  BY <1>0, <1>1, <1>2, <1>3
<1>5. ASSUME NEW i \in 1 .. Len(t) PROVE w[i] = t[i]
  <2>1. CASE i < f
    BY <1>0, <1>1, <1>3, <2>1
  <2>2. CASE i = f
    <3>1. Len(x) + 1 = f
      BY <1>0, <1>1
    <3>. QED BY <1>3, <2>2, <3>1
  <2>3. CASE i > f
    <3>1. PICK j \in 1 .. Len(t) - f : i = f + j
      <4>1. i - f \in 1 .. Len(t) - f /\ i = f + (i - f)
        BY <1>0, <2>3
      <4>. QED BY <4>1
    <3>2. Len(x) + 1 + j = i
      BY <1>0, <1>1, <3>1
    <3>. QED BY <1>2, <1>3, <3>1, <3>2
  <2>. QED BY <1>0, <2>1, <2>2, <2>3
<1>6. w = t
  BY <1>3, <1>4, <1>5, SeqEqual
<1>7. Before(t, f) = x /\ Behind(t, f, <<c>>) = z
  BY <1>0 DEF Before, Behind, x, z
<1>. QED BY <1>6, <1>7 DEF w

\* The parts of a text behind the scheme.
CredsText(s) == IF s.creds = None THEN <<>> ELSE s.creds \o <<"@">>
PortText(s) == IF s.port = None THEN <<>> ELSE <<":", s.port>>
HostText(s) == s.host \o PortText(s)

LEMMA PartsTyped ==
  ASSUME NEW s \in Setting
  PROVE  /\ s.scheme \in Seq(Symbol) /\ s.host \in Seq(Symbol)
         /\ s.creds \in {None} \cup Seq(Symbol) /\ s.port \in {None} \cup Symbol
         /\ CredsText(s) \in Seq(Symbol)
         /\ PortText(s) \in Seq(Symbol)
         /\ HostText(s) \in Seq(Symbol)
         /\ CredsText(s) \o HostText(s) \in Seq(Symbol)
         /\ Text(s) = s.scheme \o (CredsText(s) \o HostText(s))
<1>1. /\ s.scheme \in Seq(Symbol) /\ s.host \in Seq(Symbol)
      /\ s.creds \in {None} \cup Seq(Symbol) /\ s.port \in {None} \cup Symbol
  BY DEF Setting
<1>2. CredsText(s) \in Seq(Symbol)
  BY <1>1, Separators, ConcatProperties DEF CredsText
<1>3. PortText(s) \in Seq(Symbol)
  <2>1. ":" \in Symbol
    BY TunnelAssumption
  <2>. QED BY <1>1, <2>1 DEF PortText
<1>4. HostText(s) \in Seq(Symbol)
  BY <1>1, <1>3, ConcatProperties DEF HostText
<1>5. CredsText(s) \o HostText(s) \in Seq(Symbol)
  BY <1>2, <1>4, ConcatProperties
<1>6. Text(s) = s.scheme \o (CredsText(s) \o HostText(s))
  <2>. DEFINE a == s.scheme
              c == CredsText(s)
              h == s.host
              e == PortText(s)
  <2>1. Text(s) = ((a \o c) \o h) \o e
    BY DEF Text, CredsText, PortText
  <2>2. a \in Seq(Symbol) /\ c \in Seq(Symbol) /\ h \in Seq(Symbol) /\ e \in Seq(Symbol)
    BY <1>1, <1>2, <1>3
  <2>3. a \o c \in Seq(Symbol) /\ h \o e \in Seq(Symbol)
    BY <2>2, ConcatProperties
  <2>. HIDE DEF a, c, h, e
  <2>4. ((a \o c) \o h) \o e = (a \o c) \o (h \o e)
    BY <2>2, <2>3, Regrouped, Zenon
  <2>5. (a \o c) \o (h \o e) = a \o (c \o (h \o e))
    BY <2>2, <2>3, Regrouped, Zenon
  <2>. QED BY <2>1, <2>4, <2>5, Zenon DEF a, c, h, e, HostText
<1>. QED BY <1>1, <1>2, <1>3, <1>4, <1>5, <1>6

\* Behind http://, everything is the authority, whatever is in it.
LEMMA HttpAuthority ==
  ASSUME NEW x \in Seq(Symbol)
  PROVE  LET t == <<"http", ":", "/", "/">> \o x IN
         /\ Occurs(t, ProtocolEnd) # {}
         /\ First(t, ProtocolEnd) = 2
         /\ Before(t, 2) = <<"http">>
         /\ Behind(t, 2, ProtocolEnd) = x
<1>. DEFINE a == <<"http", ":", "/", "/">>
            t == a \o x
<1>0. Len(x) \in Nat
  BY LenProperties
<1>2. /\ ProtocolEnd \in Seq(Symbol) /\ Len(ProtocolEnd) = 3
      /\ ProtocolEnd[1] = ":" /\ ProtocolEnd[2] = "/" /\ ProtocolEnd[3] = "/"
  BY Separators DEF ProtocolEnd
<1>1. /\ a \in Seq(Symbol) /\ Len(a) = 4
      /\ a[1] = "http" /\ a[2] = ":" /\ a[3] = "/" /\ a[4] = "/"
  <2>1. "http" \in Symbol /\ ":" \in Symbol /\ "/" \in Symbol
    BY TunnelAssumption
  <2>. QED BY <2>1
<1>. HIDE DEF a
<1>3. t \in Seq(Symbol) /\ Len(t) = 4 + Len(x)
  <2>1. t \in Seq(Symbol) /\ Len(t) = Len(a) + Len(x)
    BY <1>1, ConcatProperties
  <2>. QED BY <1>1, <2>1
<1>4. t[1] = "http" /\ t[2] = ":" /\ t[3] = "/" /\ t[4] = "/"
  <2>1. \A i \in 1 .. Len(a) + Len(x) : t[i] = IF i <= Len(a) THEN a[i] ELSE x[i - Len(a)]
    BY <1>1, ConcatProperties
  <2>. HIDE DEF t
  <2>. QED BY <1>0, <1>1, <2>1
<1>5. SubSeq(t, 5, Len(t)) = x
  <2>1. SubSeq(t, Len(a) + 0 + 1, Len(t)) = SubSeq(x, 0 + 1, Len(x))
    <3>1. 0 \in 0 .. Len(x) /\ a \in Seq(Symbol)
      BY <1>0, <1>1
    <3>. QED BY <3>1, CutBefore
  <2>2. Len(a) + 0 + 1 = 5 /\ 0 + 1 = 1
    BY <1>1
  <2>3. SubSeq(x, 1, Len(x)) = x
    BY SubSeqFull
  <2>. QED BY <2>1, <2>2, <2>3
<1>. HIDE DEF t
<1>6. /\ SubSeq(t, 1, 1) \in Seq(Symbol) /\ Len(SubSeq(t, 1, 1)) = 1
      /\ SubSeq(t, 1, 1)[1] = "http"
  <2>1. 1 \in 1 .. Len(t) + 1 /\ 1 \in 1 - 1 .. Len(t)
    BY <1>0, <1>3
  <2>. QED BY <1>3, <1>4, <2>1, Piece
<1>7. /\ SubSeq(t, 1, 3) \in Seq(Symbol) /\ SubSeq(t, 1, 3)[1] = "http"
  <2>1. 1 \in 1 .. Len(t) + 1 /\ 3 \in 1 - 1 .. Len(t)
    BY <1>0, <1>3
  <2>. QED BY <1>3, <1>4, <2>1, Piece
<1>8. SubSeq(t, 2, 4) = ProtocolEnd
  <2>1. 2 \in 1 .. Len(t) + 1 /\ 4 \in 2 - 1 .. Len(t)
    BY <1>0, <1>3
  <2>2. /\ SubSeq(t, 2, 4) \in Seq(Symbol) /\ Len(SubSeq(t, 2, 4)) = 4 - 2 + 1
        /\ \A i \in 1 .. 4 - 2 + 1 : SubSeq(t, 2, 4)[i] = t[2 + i - 1]
    BY <1>3, <2>1, Piece
  <2>3. /\ Len(SubSeq(t, 2, 4)) = 3
        /\ SubSeq(t, 2, 4)[1] = t[2]
        /\ SubSeq(t, 2, 4)[2] = t[3]
        /\ SubSeq(t, 2, 4)[3] = t[4]
    BY <2>2
  <2>4. \A i \in 1 .. 3 : SubSeq(t, 2, 4)[i] = ProtocolEnd[i]
    BY <1>2, <1>4, <2>3
  <2>. QED BY <1>2, <2>2, <2>3, <2>4, SeqEqual
<1>9. 2 \in Occurs(t, ProtocolEnd) /\ 1 \notin Occurs(t, ProtocolEnd)
  <2>1. 2 \in 1 .. Len(t) - Len(ProtocolEnd) + 1 /\ 2 + Len(ProtocolEnd) - 1 = 4
    BY <1>0, <1>2, <1>3
  <2>2. 1 + Len(ProtocolEnd) - 1 = 3
    BY <1>2
  <2>3. SubSeq(t, 1, 3) # ProtocolEnd
    BY <1>2, <1>7
  <2>. QED BY <1>8, <2>1, <2>2, <2>3 DEF Occurs
<1>10. First(t, ProtocolEnd) = 2
  <2>1. /\ First(t, ProtocolEnd) \in Occurs(t, ProtocolEnd)
        /\ First(t, ProtocolEnd) <= 2
        /\ Occurs(t, ProtocolEnd) \subseteq 1 .. Len(t) - Len(ProtocolEnd) + 1
    BY <1>2, <1>3, <1>9, Found
  <2>2. First(t, ProtocolEnd) # 1 /\ First(t, ProtocolEnd) \in Nat
        /\ First(t, ProtocolEnd) >= 1
    BY <1>0, <1>2, <1>3, <1>9, <2>1
  <2>. QED BY <2>1, <2>2
<1>11. Before(t, 2) = <<"http">>
  <2>1. "http" \in Symbol
    BY TunnelAssumption
  <2>2. <<"http">> \in Seq(Symbol) /\ Len(<<"http">>) = 1 /\ <<"http">>[1] = "http"
    BY <2>1
  <2>3. \A i \in 1 .. 1 : SubSeq(t, 1, 1)[i] = <<"http">>[i]
    BY <1>6, <2>2
  <2>4. SubSeq(t, 1, 1) = <<"http">>
    BY <1>6, <2>2, <2>3, SeqEqual
  <2>. QED BY <2>4 DEF Before
<1>12. Behind(t, 2, ProtocolEnd) = x
  BY <1>2, <1>5 DEF Behind
<1>. QED BY <1>9, <1>10, <1>11, <1>12 DEF t, a

LEMMA AuthorityIs ==
  ASSUME NEW s \in Setting, Regular(s)
  PROVE  /\ ~BadProtocol(Text(s))
         /\ Authority(Text(s)) = CredsText(s) \o HostText(s)
<1>. DEFINE x == CredsText(s) \o HostText(s)
<1>1. x \in Seq(Symbol) /\ Text(s) = s.scheme \o x
  BY PartsTyped
<1>. HIDE DEF x
<1>2. CASE s.scheme = <<"http", ":", "/", "/">>
  <2>. DEFINE t == <<"http", ":", "/", "/">> \o x
  <2>1. /\ Occurs(t, ProtocolEnd) # {}
        /\ First(t, ProtocolEnd) = 2
        /\ Before(t, 2) = <<"http">>
        /\ Behind(t, 2, ProtocolEnd) = x
    BY <1>1, HttpAuthority
  <2>2. Text(s) = t
    BY <1>1, <1>2
  <2>. HIDE DEF t
  <2>. QED BY <2>1, <2>2 DEF BadProtocol, Authority, x
<1>3. CASE s.scheme = <<>> /\ Occurs(Text(s), ProtocolEnd) = {}
  <2>1. Text(s) = x
    <3>1. <<>> \o x = x
      BY <1>1, ConcatEmptySeq
    <3>. QED BY <1>1, <1>3, <3>1
  <2>. QED BY <1>3, <2>1 DEF BadProtocol, Authority, x
<1>4. \/ s.scheme = <<"http", ":", "/", "/">>
      \/ s.scheme = <<>> /\ Occurs(Text(s), ProtocolEnd) = {}
  BY DEF Regular
<1>. QED BY <1>2, <1>3, <1>4

\* Neither the host nor the port of a regular setting looks like a separator.
LEMMA HostTextIs ==
  ASSUME NEW s \in Setting, Regular(s)
  PROVE  /\ \A i \in 1 .. Len(HostText(s)) : HostText(s)[i] # "@"
         /\ Server(HostText(s)) = s.host
         /\ Port(HostText(s)) = IF s.port = None THEN 8080 ELSE PortOf[s.port]
<1>. DEFINE h == s.host
            t == HostText(s)
<1>0. h \in Seq(Symbol) /\ Len(h) \in Nat /\ t \in Seq(Symbol)
  BY PartsTyped, LenProperties
<1>1. \A i \in 1 .. Len(h) : h[i] # ":" /\ h[i] # "@"
  BY <1>0, LenProperties DEF Regular
<1>2. CASE s.port = None
  <2>1. t = h
    <3>1. h \o <<>> = h
      BY <1>0, ConcatEmptySeq
    <3>. QED BY <1>2, <3>1 DEF HostText, PortText
  <2>. HIDE DEF h, t
  <2>2. Occurs(t, <<":">>) = {}
    BY <1>0, <1>1, <2>1, OccursNot
  <2>3. Server(t) = h /\ Port(t) = 8080
    BY <2>1, <2>2 DEF Server, Port
  <2>. QED BY <1>1, <1>2, <2>1, <2>3 DEF h, t
<1>3. CASE s.port # None
  <2>. DEFINE w == s.port
              z == <<w>>
              y == (h \o <<":">>) \o z
  <2>1. w \in Symbol /\ PortOf[w] # None
    <3>1. w \in Symbol
      BY <1>3, PartsTyped
    <3>2. PortOf[w] \in Nat
      BY <1>3 DEF Regular
    <3>. QED BY <3>1, <3>2, TunnelAssumption
  <2>2. w # ":" /\ w # "@"
    BY <2>1, TunnelAssumption
  <2>3. ":" \in Symbol
    BY TunnelAssumption
  <2>4. z \in Seq(Symbol) /\ Len(z) = 1 /\ z[1] = w
    BY <2>1
  <2>5. t = y
    <3>1. y = h \o (<<":">> \o z)
      <4>1. <<":">> \in Seq(Symbol)
        BY Separators
      <4>. HIDE DEF h, z
      <4>. QED BY <1>0, <2>4, <4>1, Regrouped, Zenon
    <3>2. <<":">> \o z = <<":", w>>
      BY <2>1, <2>3, PairIs
    <3>3. t = h \o <<":", w>>
      BY <1>3 DEF HostText, PortText
    <3>. QED BY <3>1, <3>2, <3>3, Zenon
  <2>. HIDE DEF h, z
  <2>6. /\ y \in Seq(Symbol)
        /\ Len(y) = Len(h) + 1 + Len(z)
        /\ \A i \in 1 .. Len(h) : y[i] = h[i]
        /\ y[Len(h) + 1] = ":"
        /\ \A i \in 1 .. Len(z) : y[Len(h) + 1 + i] = z[i]
        /\ Before(y, Len(h) + 1) = h
        /\ Behind(y, Len(h) + 1, <<":">>) = z
    BY <1>0, <2>3, <2>4, SeparatorAt
  <2>. HIDE DEF y, t, w
  <2>7. Occurs(y, <<":">>) # {} /\ First(y, <<":">>) = Len(h) + 1
    <3>1. Len(h) + 1 \in 1 .. Len(y)
      BY <1>0, <2>4, <2>6
    <3>2. \A i \in 1 .. (Len(h) + 1) - 1 : y[i] # ":"
      BY <1>0, <1>1, <2>6
    <3>. QED BY <2>6, <3>1, <3>2, FirstIs
  <2>8. ASSUME NEW i \in 1 .. Len(y) PROVE y[i] # "@"
    <3>1. CASE i <= Len(h)
      BY <1>0, <1>1, <2>6, <3>1
    <3>2. CASE i = Len(h) + 1
      BY <2>6, <3>2
    <3>3. CASE i > Len(h) + 1
      <4>1. i = Len(h) + 1 + 1 /\ 1 \in 1 .. Len(z)
        BY <1>0, <2>4, <2>6, <3>3
      <4>. QED BY <2>2, <2>4, <2>6, <4>1
    <3>. QED BY <1>0, <3>1, <3>2, <3>3
  <2>9. Server(y) = h
    BY <2>6, <2>7 DEF Server
  <2>10. Port(y) = PortOf[w]
    <3>1. Port(y) = ParsePort(z)
      BY <2>6, <2>7 DEF Port
    <3>. QED BY <2>4, <3>1 DEF ParsePort
  <2>. QED BY <1>3, <2>5, <2>8, <2>9, <2>10 DEF h, t, w
<1>. QED BY <1>2, <1>3

\* The last @ is the one that ends the credentials, whatever is in them.
LEMMA CredsTextIs ==
  ASSUME NEW s \in Setting, Regular(s)
  PROVE  LET a == CredsText(s) \o HostText(s) IN
         UserInfo(a) = s.creds /\ HostPort(a) = HostText(s)
<1>. DEFINE h == HostText(s)
            a == CredsText(s) \o h
<1>0. h \in Seq(Symbol) /\ Len(h) \in Nat
  BY PartsTyped, LenProperties
<1>1. \A i \in 1 .. Len(h) : h[i] # "@"
  BY HostTextIs
<1>. HIDE DEF h
<1>2. CASE s.creds = None
  <2>1. a = h
    <3>1. <<>> \o h = h
      BY <1>0, ConcatEmptySeq
    <3>. QED BY <1>2, <3>1 DEF CredsText
  <2>. HIDE DEF a
  <2>2. Occurs(a, <<"@">>) = {}
    BY <1>0, <1>1, <2>1, OccursNot
  <2>3. UserInfo(a) = s.creds /\ HostPort(a) = h
    BY <1>2, <2>1, <2>2 DEF UserInfo, HostPort
  <2>. QED BY <2>3 DEF a, h
<1>3. CASE s.creds # None
  <2>. DEFINE c == s.creds
              y == (c \o <<"@">>) \o h
  <2>1. a = y
    BY <1>3 DEF CredsText
  <2>2. c \in Seq(Symbol) /\ "@" \in Symbol /\ Len(c) \in Nat
    BY <1>3, PartsTyped, TunnelAssumption, LenProperties
  <2>. HIDE DEF c, a
  <2>3. /\ y \in Seq(Symbol)
        /\ Len(y) = Len(c) + 1 + Len(h)
        /\ y[Len(c) + 1] = "@"
        /\ \A i \in 1 .. Len(h) : y[Len(c) + 1 + i] = h[i]
        /\ Before(y, Len(c) + 1) = c
        /\ Behind(y, Len(c) + 1, <<"@">>) = h
    BY <1>0, <2>2, SeparatorAt
  <2>. HIDE DEF y
  <2>4. ASSUME NEW i \in (Len(c) + 1) + 1 .. Len(y) PROVE y[i] # "@"
    <3>1. PICK j \in 1 .. Len(h) : i = Len(c) + 1 + j
      <4>1. i - (Len(c) + 1) \in 1 .. Len(h) /\ i = Len(c) + 1 + (i - (Len(c) + 1))
        BY <1>0, <2>2, <2>3
      <4>. QED BY <4>1
    <3>. QED BY <1>1, <2>3, <3>1
  <2>5. Occurs(y, <<"@">>) # {} /\ Last(y, <<"@">>) = Len(c) + 1
    <3>1. Len(c) + 1 \in 1 .. Len(y)
      BY <1>0, <2>2, <2>3
    <3>. QED BY <2>3, <2>4, <3>1, LastIs
  <2>6. UserInfo(y) = c /\ HostPort(y) = h
    BY <2>3, <2>5 DEF UserInfo, HostPort
  <2>7. UserInfo(a) = s.creds /\ HostPort(a) = h
    BY <2>1, <2>6 DEF c
  <2>. QED BY <2>7 DEF a, h
<1>. QED BY <1>2, <1>3

\* User and password make up the credentials again.
Basic(user, password) ==
  IF user = None THEN None
  ELSE IF password = None THEN [basic |-> user]
  ELSE [basic |-> user \o <<":">> \o password]

LEMMA BasicIs ==
  ASSUME NEW c \in Seq(Symbol)
  PROVE  Basic(User(c), Password(c)) = [basic |-> c]
<1>1. c # None
  BY TunnelAssumption
<1>2. CASE Occurs(c, <<":">>) = {}
  BY <1>1, <1>2 DEF User, Password, Basic
<1>3. CASE Occurs(c, <<":">>) # {}
  <2>1. PICK f \in 1 .. Len(c) : c[f] = ":" /\ First(c, <<":">>) = f /\ f \in Occurs(c, <<":">>)
    <3>1. PICK f \in 1 .. Len(c) : c[f] = ":" /\ First(c, <<":">>) = f
      BY <1>3, FirstOrNone
    <3>2. f \in Occurs(c, <<":">>)
      BY <3>1, OccursOne
    <3>. QED BY <3>1, <3>2
  <2>. DEFINE x == Before(c, f)
              z == Behind(c, f, <<":">>)
  <2>2. User(c) = x /\ Password(c) = z
    BY <1>1, <1>3, <2>1 DEF User, Password
  <2>3. x \in Seq(Symbol) /\ z \in Seq(Symbol)
    BY <2>1, Separators, Sides
  <2>4. (x \o <<":">>) \o z = c
    <3>1. ":" \in Symbol
      BY TunnelAssumption
    <3>. QED BY <2>1, <3>1, Rejoined
  <2>. HIDE DEF x, z
  <2>5. x # None /\ z # None
    BY <2>3, TunnelAssumption
  <2>6. Basic(x, z) = [basic |-> (x \o <<":">>) \o z]
    BY <2>5 DEF Basic
  <2>. QED BY <2>2, <2>4, <2>6, Zenon
<1>. QED BY <1>2, <1>3

\* What Proxy::new makes of a regular setting.
LEMMA RegularParsed ==
  ASSUME NEW s \in Setting, Regular(s)
  PROVE  /\ Parsed(s) # None
         /\ Parsed(s).server = s.host
         /\ Parsed(s).port = IF s.port = None THEN 8080 ELSE PortOf[s.port]
         /\ Parsed(s).port % 65536 = Parsed(s).port
         /\ Basic(Parsed(s).user, Parsed(s).password) =
              IF s.creds = None THEN None ELSE [basic |-> s.creds]
<1>. DEFINE a == Authority(Text(s))
            h == HostText(s)
            n == IF s.port = None THEN 8080 ELSE PortOf[s.port]
<1>1. ~BadProtocol(Text(s)) /\ UserInfo(a) = s.creds /\ HostPort(a) = h
  BY AuthorityIs, CredsTextIs
<1>2. Server(h) = s.host /\ Port(h) = n
  BY HostTextIs
<1>3. n \in Nat /\ n < 65536
  BY DEF Regular
<1>4. n # None
  BY <1>3, TunnelAssumption
<1>5. Parsed(s) = IF BadProtocol(Text(s)) \/ Port(HostPort(a)) = None THEN None
                  ELSE [server |-> Server(HostPort(a)), port |-> Port(HostPort(a)),
                        user |-> User(UserInfo(a)), password |-> Password(UserInfo(a))]
  BY DEF Parsed
<1>. HIDE DEF a, h, n
<1>6. Parsed(s) = [server |-> s.host, port |-> n,
                   user |-> User(s.creds), password |-> Password(s.creds)]
  BY <1>1, <1>2, <1>4, <1>5
<1>7. Parsed(s) # None
  <2>1. Parsed(s) \in Proxies
    <3>1. Parsed(s) \in {None} \cup Proxies
      BY ParsedTyped
    <3>2. User(s.creds) \in {None} \cup Seq(Symbol) /\ Password(s.creds) \in {None} \cup Seq(Symbol)
      BY PartsTyped, Separators, Found, Sides DEF User, Password
    <3>3. s.host \in Seq(Symbol)
      BY PartsTyped
    <3>. QED BY <1>3, <1>6, <3>2, <3>3 DEF Proxies
  <2>. QED BY <2>1, TunnelAssumption
<1>8. Basic(User(s.creds), Password(s.creds)) =
        IF s.creds = None THEN None ELSE [basic |-> s.creds]
  <2>1. CASE s.creds = None
    BY <2>1 DEF Basic, User
  <2>2. CASE s.creds # None
    BY <2>2, PartsTyped, BasicIs
  <2>. QED BY <2>1, <2>2
<1>9. n % 65536 = n
  BY <1>3
<1>. QED BY <1>6, <1>7, <1>8, <1>9 DEF n

-------------------------------------------------------------------------------
(* From the settings to the wire.                                          *)

\* The proxy that the settings ask for.
Chosen == IF InForce = None THEN None ELSE Parsed(InForce)

ChosenKept ==
  /\ stage = "new" => proxy = None
  /\ stage = "config" =>
       IF case.own = None THEN proxy = None ELSE proxy = Parsed(case.own) /\ proxy # None
  /\ stage \notin {"new", "config", "BadProxy"} => proxy = Chosen
  /\ stage = "direct" => proxy = None
  /\ stage = "BadProxy" => payload # None \/ Chosen = None

Dialled == dialled = [host |-> proxy.server, port |-> proxy.port % 65536]

AskedFor ==
  /\ stage \in {"new", "config", "connect", "payload", "direct"} => payload = None
  /\ stage = "payload" => proxy # None /\ Dialled
  /\ stage \in {"read", "verify"} => payload # None
  /\ payload # None =>
       /\ proxy = Chosen /\ proxy # None
       /\ Dialled
       /\ payload.connect = target
       /\ payload.authorization = Authorization

SettingInv == ChosenKept /\ AskedFor

LEMMA SettingStep ==
  ASSUME TypeOK, Told, SettingInv, [Next]_vars
  PROVE  SettingInv'
<1>. USE DEF SettingInv
<1>0. ASSUME case' = case PROVE Chosen' = Chosen
  BY <1>0 DEF Chosen, InForce, Variable
<1>1. CASE NewProxy
  <2>1. /\ stage = "new" /\ proxy = None /\ payload = None
        /\ payload' = payload /\ case' = case /\ dialled' = dialled
    BY <1>1 DEF NewProxy, given, ChosenKept, AskedFor
  <2>2. AskedFor'
    BY <1>1, <2>1 DEF NewProxy, AskedFor
  <2>3. CASE case.own = None
    BY <1>0, <1>1, <2>1, <2>2, <2>3 DEF NewProxy, ChosenKept
  <2>4. CASE case.own # None
    <3>1. Chosen = Parsed(case.own)
      BY <2>4 DEF Chosen, InForce
    <3>2. proxy' = Parsed(case.own) /\ stage' = IF proxy' = None THEN "BadProxy" ELSE "config"
      BY <1>1, <2>4 DEF NewProxy
    <3>3. Chosen' = Chosen
      BY <1>0, <2>1
    <3>. QED BY <2>1, <2>2, <2>4, <3>1, <3>2, <3>3 DEF ChosenKept
  <2>. QED BY <2>3, <2>4
<1>2. CASE NewParsedRequest
  <2>1. /\ stage = "config" /\ stage' = "connect" /\ payload' = payload /\ case' = case
        /\ proxy' = IF proxy = None THEN FromEnvironment ELSE proxy
    BY <1>2 DEF NewParsedRequest, given
  <2>2. proxy' = Chosen
    BY <2>1 DEF ChosenKept, Chosen, InForce, FromEnvironment
  <2>3. payload = None
    BY <2>1 DEF AskedFor
  <2>4. Chosen' = Chosen
    BY <1>0, <2>1
  <2>. QED BY <2>1, <2>2, <2>3, <2>4 DEF ChosenKept, AskedFor
<1>3. CASE ConnectDirect
  <2>1. /\ stage = "connect" /\ stage' = "direct" /\ payload' = payload /\ case' = case
        /\ proxy = None /\ proxy' = proxy
    BY <1>3 DEF ConnectDirect, given
  <2>2. payload = None /\ proxy = Chosen
    BY <2>1 DEF AskedFor, ChosenKept
  <2>3. Chosen' = Chosen
    BY <1>0, <2>1
  <2>. QED BY <2>1, <2>2, <2>3 DEF ChosenKept, AskedFor
<1>4. CASE ConnectProxy
  <2>1. /\ stage = "connect" /\ stage' = "payload" /\ payload' = payload /\ case' = case
        /\ proxy # None /\ proxy' = proxy
        /\ dialled' = [host |-> proxy.server, port |-> proxy.port % 65536]
    BY <1>4 DEF ConnectProxy, given
  <2>2. payload = None /\ proxy = Chosen
    BY <2>1 DEF AskedFor, ChosenKept
  <2>3. Chosen' = Chosen
    BY <1>0, <2>1
  <2>4. Dialled'
    BY <2>1 DEF Dialled
  <2>. QED BY <2>1, <2>2, <2>3, <2>4 DEF ChosenKept, AskedFor
<1>5. CASE WriteConnect
  <2>1. /\ stage = "payload" /\ stage' = "read" /\ case' = case /\ proxy' = proxy
        /\ dialled' = dialled /\ target' = target
        /\ payload' = [connect |-> target, authorization |-> Authorization]
    BY <1>5 DEF WriteConnect, given
  <2>2. proxy = Chosen /\ proxy # None /\ Dialled
    BY <2>1 DEF AskedFor, ChosenKept
  <2>3. Chosen' = Chosen
    BY <1>0, <2>1
  <2>4. Dialled' /\ Authorization' = Authorization
    BY <2>1, <2>2 DEF Dialled, Authorization
  <2>5. payload' # None
    BY <2>1, TunnelStepTyped DEF Told
  <2>. QED BY <2>1, <2>2, <2>3, <2>4, <2>5 DEF ChosenKept, AskedFor
<1>6. ASSUME UNCHANGED <<case, target, proxy, dialled, payload>>,
             \/ stage \in {"read", "verify"}
                  /\ stage' \in {"read", "verify", "tunnel", "BadProxy", "InvalidProxyCreds"}
             \/ stage \notin {"new", "config", "BadProxy"} /\ stage' = "IoError"
             \/ stage' = stage
      PROVE  SettingInv'
  <2>1. Chosen' = Chosen /\ Dialled' = Dialled /\ Authorization' = Authorization
    BY <1>0, <1>6 DEF Dialled, Authorization
  <2>. QED BY <1>6, <2>1 DEF ChosenKept, AskedFor
<1>7. CASE ReadAnswer
  BY <1>6, <1>7 DEF ReadAnswer, given
<1>8. CASE VerifyResponse
  <2>1. Verify(response) \in {"tunnel", "BadProxy", "InvalidProxyCreds"}
    BY DEF Verify
  <2>. QED BY <1>6, <1>8, <2>1 DEF VerifyResponse, given
<1>9. CASE Arrive
  BY <1>6, <1>9 DEF Arrive, given
<1>10. CASE Breaks
  BY <1>6, <1>10 DEF Breaks, given
<1>11. CASE NextHop
  <2>1. /\ stage \in {"tunnel", "direct"} /\ stage' = "connect" /\ payload' = None
        /\ case' = case /\ proxy' = proxy
    BY <1>11 DEF NextHop
  <2>2. proxy = Chosen /\ Chosen' = Chosen
    BY <1>0, <2>1 DEF ChosenKept
  <2>. QED BY <2>1, <2>2 DEF ChosenKept, AskedFor
<1>12. CASE Terminated \/ UNCHANGED vars
  BY <1>6, <1>12 DEF Terminated, vars
<1>. QED
  BY <1>1, <1>2, <1>3, <1>4, <1>5, <1>7, <1>8, <1>9, <1>10, <1>11, <1>12 DEF Next, Client

\* A setting of the documented format, whatever its credentials contain, is
\* followed to the letter on every hop: its server and port are dialled, its
\* credentials are sent as they were written, and the tunnel is one to the
\* host of the hop.
THEOREM SettingIsUnderstood == Spec => []SettingUnderstood
<1>1. Init => SettingInv
  BY DEF Init, SettingInv, ChosenKept, AskedFor
<1>2. TypeOK /\ Told /\ SettingInv /\ [Next]_vars => SettingInv'
  BY SettingStep
<1>3. TypeOK /\ SettingInv => SettingUnderstood
  <2>. SUFFICES ASSUME TypeOK, SettingInv, InForce # None, Regular(InForce)
                PROVE  /\ stage # "direct"
                       /\ stage = "BadProxy" => payload # None
                       /\ payload # None =>
                            /\ payload.connect = target
                            /\ dialled.host = InForce.host
                            /\ dialled.port =
                                 IF InForce.port = None THEN 8080 ELSE PortOf[InForce.port]
                            /\ payload.authorization =
                                 IF InForce.creds = None THEN None
                                 ELSE [basic |-> InForce.creds]
    BY DEF SettingUnderstood
  <2>1. InForce \in Setting /\ Chosen = Parsed(InForce)
    BY EnvironmentTyped DEF TypeOK, InForce, Chosen
  <2>2. /\ Chosen # None
        /\ Chosen.server = InForce.host
        /\ Chosen.port = IF InForce.port = None THEN 8080 ELSE PortOf[InForce.port]
        /\ Chosen.port % 65536 = Chosen.port
        /\ Basic(Chosen.user, Chosen.password) =
             IF InForce.creds = None THEN None ELSE [basic |-> InForce.creds]
    BY <2>1, RegularParsed
  <2>3. stage # "direct"
    BY <2>2 DEF SettingInv, ChosenKept
  <2>4. stage = "BadProxy" => payload # None
    BY <2>2 DEF SettingInv, ChosenKept
  <2>5. ASSUME payload # None
        PROVE  /\ payload.connect = target
               /\ dialled.host = Chosen.server
               /\ dialled.port = Chosen.port % 65536
               /\ payload.authorization = Basic(Chosen.user, Chosen.password)
    <3>1. /\ proxy = Chosen
          /\ dialled = [host |-> proxy.server, port |-> proxy.port % 65536]
          /\ payload.connect = target
          /\ payload.authorization = Authorization
      BY <2>5 DEF SettingInv, AskedFor, Dialled
    <3>2. Authorization = Basic(Chosen.user, Chosen.password)
      BY <3>1 DEF Authorization, Basic
    <3>. QED BY <3>1, <3>2
  <2>. QED BY <2>2, <2>3, <2>4, <2>5
<1>. QED BY <1>1, <1>2, <1>3, TunnelTyping, PTL DEF Spec

===============================================================================
