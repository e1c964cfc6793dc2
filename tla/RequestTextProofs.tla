-------------------------- MODULE RequestTextProofs ---------------------------
(***************************************************************************)
(* What RequestText guarantees for all callers, bodies, URLs and chains of *)
(* redirections.                                                           *)
(***************************************************************************)
EXTENDS RequestText, SequenceFacts

USE DEF Failures

-------------------------------------------------------------------------------
(* Lengths.                                                                *)

\* A body and its length are set together, and no other name of a length is
\* used but by the caller.
LengthsKept ==
  /\ headers = [k \in Names |-> headers[k]]
  /\ body \in {None} \cup Bodies
  /\ ~hand =>
       /\ headers["content-length"] = None /\ headers["Transfer-Encoding"] = None
       /\ headers["Content-Length"] = IF body = None THEN None ELSE Len(body)

\* What with_body and with_json do to the map.
LEMMA BodyKeepsLengths ==
  ASSUME LengthsKept, NEW b \in Bodies, NEW others,
         others = [k \in Names |-> others[k]],
         \A k \in LengthNames : others[k] = headers[k],
         SetBody(b, others), hand' = hand
  PROVE  LengthsKept'
<1>1. "Content-Length" \in Names /\ LengthNames \subseteq Names
  BY DEF Names, LengthNames
<1>2. headers' = [k \in Names |-> IF k = "Content-Length" THEN Len(b) ELSE others[k]]
  BY <1>1 DEF SetBody
<1>3. /\ headers'["Content-Length"] = Len(b)
      /\ headers'["content-length"] = headers["content-length"]
      /\ headers'["Transfer-Encoding"] = headers["Transfer-Encoding"]
  BY <1>1, <1>2 DEF LengthNames
<1>4. headers' = [k \in Names |-> headers'[k]]
  BY <1>2
<1>5. body' = b /\ b # None
  BY TextAssumption DEF SetBody
<1>. QED BY <1>3, <1>4, <1>5 DEF LengthsKept

LEMMA LengthsStep ==
  ASSUME LengthsKept, [Next]_vars
  PROVE  LengthsKept'
<1>. USE DEF LengthsKept
<1>0. /\ LengthNames \subseteq Names /\ HandKeys \subseteq Names /\ "Content-Type" \in Names
      /\ "Content-Type" \notin LengthNames
  BY DEF Names, LengthNames
<1>1. ASSUME UNCHANGED <<headers, body, hand>> PROVE LengthsKept'
  BY <1>1
<1>2. CASE WithHeader
  <2>1. PICK k \in HandKeys : /\ headers' = [headers EXCEPT ![k] = HandLength]
                              /\ hand' = (hand \/ k \in LengthNames)
    BY <1>2 DEF WithHeader
  <2>2. headers' = [j \in Names |-> IF j = k THEN HandLength ELSE headers[j]]
    BY <1>0, <2>1
  <2>3. headers' = [j \in Names |-> headers'[j]]
    BY <2>2
  <2>4. ASSUME ~hand' PROVE ~hand /\ \A j \in LengthNames : headers'[j] = headers[j]
    BY <1>0, <2>1, <2>2, <2>4
  <2>5. body' = body
    BY <1>2 DEF WithHeader
  <2>. QED BY <2>3, <2>4, <2>5 DEF LengthNames
<1>3. CASE WithBody
  BY <1>3, BodyKeepsLengths DEF WithBody
<1>4. CASE WithJson
  <2>. DEFINE others == [headers EXCEPT !["Content-Type"] = "json"]
  <2>1. others = [k \in Names |-> IF k = "Content-Type" THEN "json" ELSE headers[k]]
    BY <1>0
  <2>. HIDE DEF others
  <2>2. others = [k \in Names |-> others[k]] /\ \A k \in LengthNames : others[k] = headers[k]
    BY <1>0, <2>1
  <2>3. \/ \E b \in Bodies : SetBody(b, others)
        \/ UNCHANGED <<body, headers>>
    BY <1>4 DEF WithJson, others
  <2>4. hand' = hand
    BY <1>4 DEF WithJson
  <2>. QED BY <1>1, <2>2, <2>3, <2>4, BodyKeepsLengths
<1>5. CASE WithParam
  BY <1>1, <1>5 DEF WithParam
<1>6. CASE NewParsedRequest
  BY <1>1, <1>6 DEF NewParsedRequest, request
<1>7. CASE WriteRequest
  BY <1>1, <1>7 DEF WriteRequest, request
<1>8. CASE RedirectTo
  BY <1>1, <1>8 DEF RedirectTo, request
<1>9. CASE Destination
  BY <1>1, <1>9 DEF Destination, request
<1>10. CASE Terminated \/ UNCHANGED vars
  BY <1>1, <1>10 DEF Terminated, vars
<1>. QED
  BY <1>2, <1>3, <1>4, <1>5, <1>6, <1>7, <1>8, <1>9, <1>10 DEF Next

\* The head that as_bytes writes.
LEMMA HeadIsHonest ==
  ASSUME LengthsKept, ~hand,
         NEW h, h.method = method, h.headers = headers, h.own = OwnLength, h.body = body
  PROVE  Lengths(h) = IF h.body # None THEN {Len(h.body)}
                      ELSE IF h.method \in Writes THEN {0} ELSE {}
<1>1. {headers[k] : k \in LengthNames} = {headers["Content-Length"], None}
  BY DEF LengthsKept, LengthNames
<1>2. CASE body = None
  <2>1. \A k \in LengthNames : headers[k] = None
    BY <1>2 DEF LengthsKept, LengthNames
  <2>2. {headers[k] : k \in LengthNames} \ {None} = {}
    BY <2>1
  <2>3. OwnLength = IF method \in Writes THEN {0} ELSE {}
    BY <2>1 DEF OwnLength
  <2>. QED BY <1>2, <2>2, <2>3 DEF Lengths
<1>3. CASE body # None
  <2>1. headers["Content-Length"] = Len(body) /\ Len(body) # None
    BY <1>3, UrlAssumption, TextAssumption DEF LengthsKept
  <2>2. {headers[k] : k \in LengthNames} \ {None} = {Len(body)}
    BY <1>1, <2>1
  <2>3. OwnLength = {}
    BY <2>1 DEF OwnLength, LengthNames
  <2>. QED BY <1>3, <2>2, <2>3 DEF Lengths
<1>. QED BY <1>2, <1>3

\* Whatever calls built a request, if none of them set a length by hand, every
\* hop of its chain announces exactly the body that follows; without a
\* body, a method that writes announces length zero and any other nothing.
THEOREM LengthsAreHonest == Spec => []LengthHonest
<1>1. Init => LengthsKept /\ LengthHonest
  <2>. SUFFICES ASSUME Init PROVE LengthsKept /\ LengthHonest
    OBVIOUS
  <2>1. LengthNames \subseteq Names
    BY DEF Names
  <2>. QED BY <2>1 DEF Init, LengthsKept, LengthHonest, LengthNames
<1>2. LengthsKept /\ LengthHonest /\ [Next]_vars => (LengthsKept /\ LengthHonest)'
  <2>. SUFFICES ASSUME LengthsKept, LengthHonest, [Next]_vars
                PROVE  LengthsKept' /\ LengthHonest'
    OBVIOUS
  <2>1. LengthsKept'
    BY LengthsStep
  <2>2. CASE WriteRequest
    <3>1. /\ head'.method = method /\ head'.headers = headers /\ head'.own = OwnLength
          /\ head'.body = body
      BY <2>2 DEF WriteRequest
    <3>2. hand' = hand
      BY <2>2 DEF WriteRequest, request
    <3>3. ASSUME ~hand
          PROVE  Lengths(head') = IF head'.body # None THEN {Len(head'.body)}
                                  ELSE IF head'.method \in Writes THEN {0} ELSE {}
      BY <3>1, <3>3, HeadIsHonest
    <3>. QED BY <2>1, <3>2, <3>3 DEF LengthHonest, Lengths
  <2>3. CASE stage' # "sent"
    BY <2>1, <2>3 DEF LengthHonest
  <2>4. CASE UNCHANGED vars
    BY <2>1, <2>4 DEF LengthHonest, Lengths, vars
  <2>5. ASSUME ~WriteRequest, Next PROVE stage' # "sent" \/ UNCHANGED vars
    BY <2>5 DEF Next, WithHeader, WithBody, WithJson, WithParam, Building, NewParsedRequest,
                RedirectTo, Destination, Terminated
  <2>. QED BY <2>2, <2>3, <2>4, <2>5
<1>. QED BY <1>1, <1>2, PTL DEF Spec

-------------------------------------------------------------------------------
(* The loop of HttpUrl::parse.                                             *)

\* What one more turn makes of the turns up to n.
OneTurn(x, m, g) ==
  [n \in 0 .. m |-> IF n = 0 THEN Start ELSE Push(g[n - 1], x[n], encode)]

\* The loop comes to its end: there are as many turns as symbols.
LEMMA TurnsExist ==
  ASSUME NEW x, NEW m \in Nat
  PROVE  \E g : g = OneTurn(x, m, g)
<1>. DEFINE T == {n \in 0 .. m : \E g : g = OneTurn(x, n, g)}
<1>1. 0 \in T
  <2>. DEFINE g == [n \in 0 .. 0 |-> Start]
  <2>1. g = OneTurn(x, 0, g)
    BY DEF OneTurn
  <2>. HIDE DEF g
  <2>. QED BY <2>1
<1>2. ASSUME NEW n \in 0 .. m - 1, n \in T PROVE n + 1 \in T
  <2>1. PICK g : g = OneTurn(x, n, g)
    BY <1>2
  <2>. DEFINE h == [i \in 0 .. n + 1 |-> IF i = n + 1 THEN Push(g[n], x[n + 1], encode) ELSE g[i]]
  <2>2. ASSUME NEW i \in 0 .. n + 1
        PROVE  h[i] = IF i = 0 THEN Start ELSE Push(h[i - 1], x[i], encode)
    <3>1. CASE i = n + 1
      <4>1. i # 0 /\ i - 1 = n /\ n \in 0 .. n + 1 /\ n # n + 1
        BY <3>1
      <4>. QED BY <3>1, <4>1
    <3>2. CASE i # n + 1
      <4>1. i \in 0 .. n
        BY <3>2
      <4>2. g[i] = IF i = 0 THEN Start ELSE Push(g[i - 1], x[i], encode)
        BY <2>1, <4>1 DEF OneTurn
      <4>3. i # 0 => i - 1 \in 0 .. n + 1 /\ i - 1 # n + 1
        BY <4>1
      <4>. QED BY <3>2, <4>2, <4>3
    <3>. QED BY <3>1, <3>2
  <2>3. h = [i \in 0 .. n + 1 |-> h[i]]
    OBVIOUS
  <2>. HIDE DEF h
  <2>4. h = OneTurn(x, n + 1, h)
    BY <2>2, <2>3 DEF OneTurn
  <2>5. n + 1 \in 0 .. m
    OBVIOUS
  <2>. QED BY <2>4, <2>5
<1>. HIDE DEF T
<1>3. m \in T
  BY <1>1, <1>2, Induction
<1>. QED BY <1>3 DEF T

LEMMA TurnsAre ==
  ASSUME NEW x \in Seq(Symbol)
  PROVE  /\ Turns(x, encode)[0] = Start
         /\ \A n \in 1 .. Len(x) :
              Turns(x, encode)[n] = Push(Turns(x, encode)[n - 1], x[n], encode)
<1>0. Len(x) \in Nat
  BY LenProperties
<1>. DEFINE g == Turns(x, encode)
<1>1. g = CHOOSE h : h = OneTurn(x, Len(x), h)
  BY DEF Turns, OneTurn
<1>2. \E h : h = OneTurn(x, Len(x), h)
  BY <1>0, TurnsExist
<1>. HIDE DEF g
<1>3. g = OneTurn(x, Len(x), g)
  BY <1>1, <1>2
<1>4. \A n \in 0 .. Len(x) : g[n] = IF n = 0 THEN Start ELSE Push(g[n - 1], x[n], encode)
  BY <1>3 DEF OneTurn
<1>5. g[0] = Start
  BY <1>0, <1>4
<1>6. \A n \in 1 .. Len(x) : g[n] = Push(g[n - 1], x[n], encode)
  BY <1>0, <1>4
<1>. QED BY <1>5, <1>6 DEF g

-------------------------------------------------------------------------------
(* Escapes.                                                                *)

\* What a symbol becomes in this build.
Escaped(c) == IF encode THEN Escape[c] ELSE <<c>>

LEMMA EscapedTyped ==
  ASSUME NEW c \in Symbol
  PROVE  Escaped(c) \in Seq(Symbol)
BY UrlAssumption DEF Escaped

\* FlattenSeq, and what it makes of one more sequence.
Joined(s, m, g) == [i \in 1 .. m |-> IF i = 1 THEN s[i] ELSE g[i - 1] \o s[i]]

LEMMA JoinedExists ==
  ASSUME NEW s, NEW m \in Nat
  PROVE  \E g : g = Joined(s, m, g)
<1>. DEFINE T == {n \in 0 .. m : \E g : g = Joined(s, n, g)}
<1>1. 0 \in T
  <2>. DEFINE g == [n \in 1 .. 0 |-> s]
  <2>1. g = Joined(s, 0, g)
    BY DEF Joined
  <2>. HIDE DEF g
  <2>. QED BY <2>1
<1>2. ASSUME NEW n \in 0 .. m - 1, n \in T PROVE n + 1 \in T
  <2>1. PICK g : g = Joined(s, n, g)
    BY <1>2
  <2>. DEFINE last == IF n + 1 = 1 THEN s[n + 1] ELSE g[n] \o s[n + 1]
              h == [i \in 1 .. n + 1 |-> IF i = n + 1 THEN last ELSE g[i]]
  <2>2. ASSUME NEW i \in 1 .. n + 1
        PROVE  h[i] = IF i = 1 THEN s[i] ELSE h[i - 1] \o s[i]
    <3>1. CASE i = n + 1
      <4>1. i # 1 => i - 1 = n /\ n \in 1 .. n + 1 /\ n # n + 1
        BY <3>1
      <4>2. h[i] = last
        BY <3>1
      <4>. QED BY <3>1, <4>1, <4>2
    <3>2. CASE i # n + 1
      <4>1. i \in 1 .. n
        BY <3>2
      <4>2. g[i] = IF i = 1 THEN s[i] ELSE g[i - 1] \o s[i]
        BY <2>1, <4>1 DEF Joined
      <4>3. i # 1 => i - 1 \in 1 .. n + 1 /\ i - 1 # n + 1
        BY <4>1
      <4>. QED BY <3>2, <4>2, <4>3
    <3>. QED BY <3>1, <3>2
  <2>3. h = [i \in 1 .. n + 1 |-> h[i]]
    OBVIOUS
  <2>. HIDE DEF h
  <2>4. h = Joined(s, n + 1, h)
    BY <2>2, <2>3 DEF Joined
  <2>5. n + 1 \in 0 .. m
    OBVIOUS
  <2>. QED BY <2>4, <2>5
<1>. HIDE DEF T
<1>3. m \in T
  BY <1>1, <1>2, Induction
<1>. QED BY <1>3 DEF T

LEMMA FlattenIs ==
  ASSUME NEW s, Len(s) \in Nat, Len(s) # 0
  PROVE  \E g : g = Joined(s, Len(s), g) /\ FlattenSeq(s) = g[Len(s)]
<1>. DEFINE g == CHOOSE h : h = Joined(s, Len(s), h)
<1>1. FlattenSeq(s) = g[Len(s)]
  BY DEF FlattenSeq, Joined
<1>2. g = Joined(s, Len(s), g)
  <2>1. \E h : h = Joined(s, Len(s), h)
    BY JoinedExists
  <2>. QED BY <2>1
<1>. HIDE DEF g
<1>. QED BY <1>1, <1>2

LEMMA FlattenMore ==
  ASSUME NEW s, NEW r, Len(s) \in Nat, Len(s) # 0, Len(r) = Len(s) + 1,
         \A i \in 1 .. Len(s) : r[i] = s[i]
  PROVE  FlattenSeq(r) = FlattenSeq(s) \o r[Len(s) + 1]
<1>. DEFINE m == Len(s)
<1>1. PICK g : g = Joined(s, m, g) /\ FlattenSeq(s) = g[m]
  BY FlattenIs
<1>2. Len(r) \in Nat /\ Len(r) # 0
  OBVIOUS
<1>3. PICK h : h = Joined(r, m + 1, h) /\ FlattenSeq(r) = h[m + 1]
  BY <1>2, FlattenIs
<1>4. \A i \in 1 .. m : g[i] = IF i = 1 THEN s[i] ELSE g[i - 1] \o s[i]
  BY <1>1 DEF Joined
<1>5. \A i \in 1 .. m + 1 : h[i] = IF i = 1 THEN r[i] ELSE h[i - 1] \o r[i]
  BY <1>3 DEF Joined
<1>. DEFINE T == {n \in 0 .. m : n # 0 => h[n] = g[n]}
<1>6. 0 \in T
  OBVIOUS
<1>7. ASSUME NEW n \in 0 .. m - 1, n \in T PROVE n + 1 \in T
  <2>1. n + 1 \in 1 .. m /\ n + 1 \in 1 .. m + 1 /\ (n + 1) - 1 = n /\ r[n + 1] = s[n + 1]
    OBVIOUS
  <2>2. h[n + 1] = g[n + 1]
    <3>1. CASE n = 0
      BY <1>4, <1>5, <2>1, <3>1
    <3>2. CASE n # 0
      <4>1. h[n] = g[n] /\ n + 1 # 1
        BY <1>7, <3>2
      <4>. QED BY <1>4, <1>5, <2>1, <4>1
    <3>. QED BY <3>1, <3>2
  <2>3. n + 1 \in 0 .. m
    OBVIOUS
  <2>. QED BY <2>2, <2>3
<1>. HIDE DEF T
<1>8. m \in T
  <2>1. m \in Nat /\ m \in 0 .. m
    OBVIOUS
  <2>2. \A n \in 0 .. m - 1 : n \in T => n + 1 \in T
    BY <1>7
  <2>. HIDE DEF m
  <2>3. \A n \in 0 .. m : n \in T
    BY <1>6, <2>1, <2>2, Induction
  <2>. QED BY <2>1, <2>3
<1>9. h[m] = g[m]
  BY <1>8 DEF T
<1>10. h[m + 1] = h[m] \o r[m + 1]
  <2>1. m + 1 \in 1 .. m + 1 /\ m + 1 # 1 /\ (m + 1) - 1 = m
    OBVIOUS
  <2>. QED BY <1>5, <2>1
<1>. QED BY <1>1, <1>3, <1>9, <1>10

\* Escaping nothing, and one more symbol.
LEMMA EscapeNothing == EscapeAll(<<>>) = <<>>
<1>. DEFINE s == [i \in DOMAIN <<>> |-> IF encode THEN Escape[<<>>[i]] ELSE <<(<<>>[i])>>]
<1>1. s = <<>>
  OBVIOUS
<1>2. FlattenSeq(<<>>) = <<>>
  BY DEF FlattenSeq
<1>. QED BY <1>1, <1>2 DEF EscapeAll

LEMMA EscapeMore ==
  ASSUME NEW t \in Seq(Symbol), NEW c \in Symbol
  PROVE  EscapeAll(Append(t, c)) = EscapeAll(t) \o Escaped(c)
<1>. DEFINE u == Append(t, c)
            s == [i \in DOMAIN t |-> IF encode THEN Escape[t[i]] ELSE <<t[i]>>]
            r == [i \in DOMAIN u |-> IF encode THEN Escape[u[i]] ELSE <<u[i]>>]
<1>0. Len(t) \in Nat /\ DOMAIN t = 1 .. Len(t)
  BY LenProperties
<1>1. /\ u \in Seq(Symbol) /\ Len(u) = Len(t) + 1 /\ DOMAIN u = 1 .. Len(t) + 1
      /\ \A i \in 1 .. Len(t) : u[i] = t[i]
      /\ u[Len(t) + 1] = c
  BY <1>0, AppendProperties
<1>2. EscapeAll(u) = FlattenSeq(r) /\ EscapeAll(t) = FlattenSeq(s)
  BY DEF EscapeAll
<1>. HIDE DEF u
<1>3. /\ s \in Seq(Seq(Symbol)) /\ Len(s) = Len(t)
      /\ \A i \in 1 .. Len(t) : s[i] = Escaped(t[i])
  <2>1. \A i \in 1 .. Len(t) : t[i] \in Symbol /\ s[i] = Escaped(t[i])
    BY <1>0, ElementOfSeq DEF Escaped
  <2>2. s = [i \in 1 .. Len(t) |-> s[i]] /\ \A i \in 1 .. Len(t) : s[i] \in Seq(Symbol)
    BY <1>0, <2>1, EscapedTyped
  <2>. HIDE DEF s
  <2>. QED BY <1>0, <2>1, <2>2
<1>4. /\ r \in Seq(Seq(Symbol)) /\ Len(r) = Len(t) + 1
      /\ \A i \in 1 .. Len(t) + 1 : r[i] = Escaped(u[i])
  <2>1. \A i \in 1 .. Len(t) + 1 : u[i] \in Symbol /\ r[i] = Escaped(u[i])
    BY <1>1, ElementOfSeq DEF Escaped
  <2>2. r = [i \in 1 .. Len(t) + 1 |-> r[i]] /\ \A i \in 1 .. Len(t) + 1 : r[i] \in Seq(Symbol)
    BY <1>1, <2>1, EscapedTyped
  <2>. HIDE DEF r
  <2>. QED BY <1>0, <2>1, <2>2
<1>. HIDE DEF s, r
<1>5. /\ \A i \in 1 .. Len(s) : r[i] = s[i]
      /\ r[Len(s) + 1] = Escaped(c)
  BY <1>0, <1>1, <1>3, <1>4
<1>6. CASE Len(t) # 0
  <2>1. FlattenSeq(r) = FlattenSeq(s) \o r[Len(s) + 1]
    BY <1>0, <1>3, <1>4, <1>5, <1>6, FlattenMore
  <2>. QED BY <1>2, <1>5, <2>1 DEF u
<1>7. CASE Len(t) = 0
  <2>1. t = <<>>
    BY <1>7, EmptySeq
  <2>2. PICK g : g = Joined(r, Len(r), g) /\ FlattenSeq(r) = g[Len(r)]
    <3>1. Len(r) \in Nat /\ Len(r) # 0
      BY <1>4, <1>7
    <3>. QED BY <3>1, FlattenIs
  <2>3. Len(r) = 1 /\ r[1] = Escaped(c)
    BY <1>3, <1>4, <1>5, <1>7
  <2>4. g[1] = r[1]
    BY <2>2, <2>3 DEF Joined
  <2>5. FlattenSeq(r) = Escaped(c)
    BY <2>2, <2>3, <2>4
  <2>6. <<>> \o Escaped(c) = Escaped(c)
    BY EscapedTyped, ConcatEmptySeq
  <2>7. EscapeAll(t) = <<>>
    BY <2>1, EscapeNothing
  <2>. QED BY <1>2, <2>5, <2>6, <2>7 DEF u
<1>. QED BY <1>6, <1>7

-------------------------------------------------------------------------------
(* What the loop computes: the parts of the text between its separators.   *)

\* A text ends before the first stop, or has none.
LEMMA UptoIs ==
  ASSUME NEW t \in Seq(Symbol), NEW stops
  PROVE  \E k \in 0 .. Len(t) :
           /\ Upto(t, stops) = SubSeq(t, 1, k)
           /\ From(t, stops) = SubSeq(t, k + 1, Len(t))
           /\ \A i \in 1 .. k : t[i] \notin stops
           /\ k = Len(t) \/ t[k + 1] \in stops
<1>0. Len(t) \in Nat /\ DOMAIN t = 1 .. Len(t)
  BY LenProperties
<1>. DEFINE E == Ends(t, stops)
<1>1. E = {i \in 1 .. Len(t) : t[i] \in stops}
  BY <1>0 DEF Ends
<1>2. CASE E = {}
  <2>1. Upto(t, stops) = t /\ t = SubSeq(t, 1, Len(t))
    BY <1>2, SubSeqFull DEF Upto
  <2>2. From(t, stops) = SubSeq(t, Len(t) + 1, Len(t))
    BY <2>1 DEF From
  <2>3. \A i \in 1 .. Len(t) : t[i] \notin stops
    BY <1>1, <1>2
  <2>4. Len(t) \in 0 .. Len(t)
    BY <1>0
  <2>. QED BY <2>1, <2>2, <2>3, <2>4
<1>3. CASE E # {}
  <2>1. PICK f \in E : \A j \in E : f <= j
    <3>1. E \in SUBSET Nat
      BY <1>1
    <3>. HIDE DEF E
    <3>. QED BY <1>3, <3>1, LeastNatural
  <2>2. f \in 1 .. Len(t) /\ t[f] \in stops /\ \A i \in 1 .. f - 1 : t[i] \notin stops
    BY <1>0, <1>1, <2>1
  <2>3. (CHOOSE i \in E : \A j \in E : i <= j) = f
    <3>1. \A g \in E : (\A j \in E : g <= j) => g = f
      BY <1>1, <2>1
    <3>. HIDE DEF E
    <3>. QED BY <2>1, <3>1
  <2>4. Upto(t, stops) = SubSeq(t, 1, f - 1)
    BY <1>3, <2>3 DEF Upto
  <2>5. f - 1 \in 0 .. Len(t) /\ (f - 1) + 1 = f
    BY <1>0, <2>2
  <2>6. Len(SubSeq(t, 1, f - 1)) = f - 1
    BY <2>5, CutInTwo
  <2>7. From(t, stops) = SubSeq(t, (f - 1) + 1, Len(t))
    BY <2>4, <2>6 DEF From
  <2>. QED BY <2>2, <2>4, <2>5, <2>7
<1>. QED BY <1>2, <1>3

\* Where the host ends (j), the authority (k), and the path (q).
Marks(x, j, k, q) ==
  /\ j \in 0 .. k /\ k \in 0 .. q /\ q \in 0 .. Len(x)
  /\ \A i \in 1 .. j : x[i] # ":"
  /\ j = k \/ x[j + 1] = ":"
  /\ \A i \in 1 .. k : x[i] \notin {"/", "?"}
  /\ k = Len(x) \/ (x[k + 1] \in {"/", "?"} /\ k < q)
  /\ \A i \in k + 1 .. q : x[i] # "#"
  /\ q = Len(x) \/ x[q + 1] = "#"

\* The record of the loop.
State(status, host, port, resource, path) ==
  [status |-> status, host |-> host, port |-> port, resource |-> resource, path |-> path]

\* The states of the loop: in the host, the port, the path and the fragment.
InHost(x, n) == State("Host", SubSeq(x, 1, n), <<>>, <<>>, None)
InPort(x, j, n) == State("Port", SubSeq(x, 1, j), SubSeq(x, j + 2, n), <<>>, None)
PortOfMarks(x, j, k) == IF j = k THEN <<>> ELSE SubSeq(x, j + 2, k)
InPath(x, j, k, n) ==
  State("PathAndQuery", SubSeq(x, 1, j), PortOfMarks(x, j, k),
        EscapeAll(SubSeq(x, k + 1, n)), None)
InFragment(x, j, k, q, n) ==
  State("Fragment", SubSeq(x, 1, j), PortOfMarks(x, j, k),
        EscapeAll(SubSeq(x, q + 2, n)), EscapeAll(SubSeq(x, k + 1, q)))

AfterTurn(x, j, k, q, n) ==
  IF n <= j THEN InHost(x, n)
  ELSE IF n <= k THEN InPort(x, j, n)
  ELSE IF n <= q THEN InPath(x, j, k, n)
  ELSE InFragment(x, j, k, q, n)

\* The arms of the match.
LEMMA PushHost ==
  ASSUME NEW h, NEW p, NEW r, NEW o, NEW c, c \notin {"/", "?", ":"}
  PROVE  Push(State("Host", h, p, r, o), c, encode) = State("Host", Append(h, c), p, r, o)
BY DEF Push, State, Enter, PushResource, Escaped

LEMMA PushColon ==
  ASSUME NEW h, NEW p, NEW r, NEW o, NEW c, c = ":"
  PROVE  Push(State("Host", h, p, r, o), c, encode) = State("Port", h, p, r, o)
BY DEF Push, State, Enter, PushResource, Escaped

LEMMA PushSlash ==
  ASSUME NEW h, NEW p, NEW r, NEW o, NEW c, c \in {"/", "?"}, NEW s \in {"Host", "Port"}
  PROVE  Push(State(s, h, p, r, o), c, encode) = State("PathAndQuery", h, p, r \o <<c>>, o)
BY DEF Push, State, Enter, PushResource, Escaped

LEMMA PushPort ==
  ASSUME NEW h, NEW p, NEW r, NEW o, NEW c, c \notin {"/", "?"}
  PROVE  Push(State("Port", h, p, r, o), c, encode) = State("Port", h, Append(p, c), r, o)
BY DEF Push, State, Enter, PushResource, Escaped

LEMMA PushHash ==
  ASSUME NEW h, NEW p, NEW r, NEW o, NEW c, c = "#"
  PROVE  Push(State("PathAndQuery", h, p, r, o), c, encode) = State("Fragment", h, p, <<>>, r)
BY DEF Push, State, Enter, PushResource, Escaped

LEMMA PushPath ==
  ASSUME NEW h, NEW p, NEW r, NEW o, NEW c, c # "#"
  PROVE  Push(State("PathAndQuery", h, p, r, o), c, encode) = State("PathAndQuery", h, p, r \o Escaped(c), o)
BY DEF Push, State, Enter, PushResource, Escaped

LEMMA PushFragment ==
  ASSUME NEW h, NEW p, NEW r, NEW o, NEW c
  PROVE  Push(State("Fragment", h, p, r, o), c, encode) = State("Fragment", h, p, r \o Escaped(c), o)
BY DEF Push, State, Enter, PushResource, Escaped

\* A piece that grows by a symbol, and one that is empty.
LEMMA PieceGrows ==
  ASSUME NEW x \in Seq(Symbol), NEW a \in 1 .. Len(x) + 1, NEW n \in a .. Len(x)
  PROVE  SubSeq(x, a, n) = Append(SubSeq(x, a, n - 1), x[n]) /\ x[n] \in Symbol
<1>0. Len(x) \in Nat /\ x[n] \in Symbol
  BY LenProperties, ElementOfSeq
<1>. DEFINE s == SubSeq(x, a, n - 1)
            t == SubSeq(x, a, n)
            u == Append(s, x[n])
<1>1. s \in Seq(Symbol) /\ Len(s) = n - a /\ \A i \in 1 .. n - a : s[i] = x[a + i - 1]
  <2>1. n - 1 \in a - 1 .. Len(x) /\ (n - 1) - a + 1 = n - a
    BY <1>0
  <2>. QED BY <2>1, Piece
<1>2. /\ t \in Seq(Symbol) /\ Len(t) = n - a + 1
      /\ \A i \in 1 .. n - a + 1 : t[i] = x[a + i - 1]
  <2>1. n \in a - 1 .. Len(x)
    BY <1>0
  <2>. QED BY <2>1, Piece
<1>. HIDE DEF s, t
<1>3. /\ u \in Seq(Symbol) /\ Len(u) = n - a + 1 /\ u[n - a + 1] = x[n]
      /\ \A i \in 1 .. n - a : u[i] = s[i]
  BY <1>0, <1>1, AppendProperties
<1>. HIDE DEF u
<1>4. ASSUME NEW i \in 1 .. n - a + 1 PROVE t[i] = u[i]
  <2>1. CASE i = n - a + 1
    <3>1. a + i - 1 = n
      BY <1>0, <2>1
    <3>. QED BY <1>2, <1>3, <2>1, <3>1
  <2>2. CASE i # n - a + 1
    <3>1. i \in 1 .. n - a
      BY <1>0, <2>2
    <3>. QED BY <1>1, <1>2, <1>3, <3>1
  <2>. QED BY <2>1, <2>2
<1>5. t = u
  BY <1>2, <1>3, <1>4, SeqEqual
<1>. QED BY <1>0, <1>5 DEF s, t, u

LEMMA PieceEmpty ==
  ASSUME NEW x \in Seq(Symbol), NEW n \in 0 .. Len(x)
  PROVE  SubSeq(x, n + 1, n) = <<>>
<1>1. Len(x) \in Nat /\ n + 1 \in 1 .. Len(x) + 1 /\ n \in (n + 1) - 1 .. Len(x)
      /\ n - (n + 1) + 1 = 0
  BY LenProperties
<1>2. SubSeq(x, n + 1, n) \in Seq(Symbol) /\ Len(SubSeq(x, n + 1, n)) = 0
  BY <1>1, Piece
<1>. QED BY <1>2, EmptySeq

\* What is escaped grows with the piece.
LEMMA EscapeGrows ==
  ASSUME NEW x \in Seq(Symbol), NEW a \in 1 .. Len(x) + 1, NEW n \in a .. Len(x)
  PROVE  EscapeAll(SubSeq(x, a, n)) = EscapeAll(SubSeq(x, a, n - 1)) \o Escaped(x[n])
<1>1. SubSeq(x, a, n) = Append(SubSeq(x, a, n - 1), x[n]) /\ x[n] \in Symbol
  BY PieceGrows
<1>2. SubSeq(x, a, n - 1) \in Seq(Symbol)
  <2>1. n - 1 \in a - 1 .. Len(x)
    BY LenProperties
  <2>. QED BY <2>1, Piece
<1>. QED BY <1>1, <1>2, EscapeMore

\* One turn of the loop, by where it is in the text.
LEMMA TurnStep ==
  ASSUME NEW x \in Seq(Symbol), NEW j \in Nat, NEW k \in Nat, NEW q \in Nat,
         Marks(x, j, k, q), NEW n \in 1 .. Len(x)
  PROVE  Push(AfterTurn(x, j, k, q, n - 1), x[n], encode) = AfterTurn(x, j, k, q, n)
<1>0. /\ Len(x) \in Nat /\ j <= k /\ k <= q /\ q <= Len(x)
      /\ x[n] \in Symbol /\ n - 1 \in Nat
  BY LenProperties, ElementOfSeq DEF Marks
<1>1. CASE n <= j
  <2>1. x[n] \notin {"/", "?", ":"}
    BY <1>0, <1>1 DEF Marks
  <2>2. SubSeq(x, 1, n) = Append(SubSeq(x, 1, n - 1), x[n])
    BY <1>0, PieceGrows
  <2>3. AfterTurn(x, j, k, q, n - 1) = InHost(x, n - 1) /\ AfterTurn(x, j, k, q, n) = InHost(x, n)
    BY <1>0, <1>1 DEF AfterTurn
  <2>4. Push(InHost(x, n - 1), x[n], encode) =
          State("Host", Append(SubSeq(x, 1, n - 1), x[n]), <<>>, <<>>, None)
    <3>. DEFINE h == SubSeq(x, 1, n - 1)
                c == x[n]
    <3>1. c \notin {"/", "?", ":"}
      BY <2>1
    <3>. HIDE DEF h, c
    <3>2. Push(State("Host", h, <<>>, <<>>, None), c, encode) = State("Host", Append(h, c), <<>>, <<>>, None)
      BY <3>1, PushHost
    <3>. QED BY <3>2 DEF h, c, InHost
  <2>. QED BY <2>2, <2>3, <2>4, Zenon DEF InHost
<1>2. CASE n = j + 1 /\ n <= k
  <2>1. x[n] = ":"
    BY <1>0, <1>2 DEF Marks
  <2>2. n - 1 = j /\ SubSeq(x, j + 2, n) = <<>>
    <3>1. n - 1 = j /\ n \in 0 .. Len(x) /\ n + 1 = j + 2
      BY <1>0, <1>2
    <3>2. SubSeq(x, n + 1, n) = <<>>
      BY <3>1, PieceEmpty
    <3>. QED BY <3>1, <3>2
  <2>3. AfterTurn(x, j, k, q, n - 1) = InHost(x, j) /\ AfterTurn(x, j, k, q, n) = InPort(x, j, n)
    BY <1>0, <1>2, <2>2 DEF AfterTurn
  <2>4. Push(InHost(x, j), x[n], encode) =
          State("Port", SubSeq(x, 1, j), <<>>, <<>>, None)
    BY <2>1, PushColon, Zenon DEF InHost
  <2>. QED BY <2>2, <2>3, <2>4, Zenon DEF InPort
<1>3. CASE n > j + 1 /\ n <= k
  <2>1. x[n] \notin {"/", "?"}
    BY <1>0, <1>3 DEF Marks
  <2>2. SubSeq(x, j + 2, n) = Append(SubSeq(x, j + 2, n - 1), x[n])
    <3>1. j + 2 \in 1 .. Len(x) + 1 /\ n \in j + 2 .. Len(x)
      BY <1>0, <1>3
    <3>. QED BY <3>1, PieceGrows
  <2>3. /\ AfterTurn(x, j, k, q, n - 1) = InPort(x, j, n - 1)
        /\ AfterTurn(x, j, k, q, n) = InPort(x, j, n)
    BY <1>0, <1>3 DEF AfterTurn
  <2>4. Push(InPort(x, j, n - 1), x[n], encode) =
          State("Port", SubSeq(x, 1, j), Append(SubSeq(x, j + 2, n - 1), x[n]), <<>>, None)
    <3>. DEFINE h == SubSeq(x, 1, j)
                p == SubSeq(x, j + 2, n - 1)
                c == x[n]
    <3>1. c \notin {"/", "?"}
      BY <2>1
    <3>. HIDE DEF h, p, c
    <3>2. Push(State("Port", h, p, <<>>, None), c, encode) = State("Port", h, Append(p, c), <<>>, None)
      BY <3>1, PushPort
    <3>. QED BY <3>2 DEF h, p, c, InPort
  <2>. QED BY <2>2, <2>3, <2>4, Zenon DEF InPort
<1>4. CASE n = k + 1
  <2>1. x[n] \in {"/", "?"} /\ k < q
    BY <1>0, <1>4 DEF Marks
  <2>2. <<>> \o <<x[n]>> = EscapeAll(SubSeq(x, k + 1, n))
    <3>1. n - 1 = k /\ k + 1 \in 1 .. Len(x) + 1 /\ n \in k + 1 .. Len(x) /\ k \in 0 .. Len(x)
      BY <1>0, <1>4
    <3>2. EscapeAll(SubSeq(x, k + 1, n)) = EscapeAll(SubSeq(x, k + 1, k)) \o Escaped(x[n])
      BY <3>1, EscapeGrows
    <3>3. EscapeAll(SubSeq(x, k + 1, k)) = <<>>
      BY <3>1, PieceEmpty, EscapeNothing
    <3>4. Escaped(x[n]) = <<x[n]>>
      BY <2>1, UrlAssumption DEF Escaped
    <3>. QED BY <3>2, <3>3, <3>4
  <2>3. AfterTurn(x, j, k, q, n) = InPath(x, j, k, n)
    BY <1>0, <1>4, <2>1 DEF AfterTurn
  <2>4. CASE j = k
    <3>1. AfterTurn(x, j, k, q, n - 1) = InHost(x, j) /\ PortOfMarks(x, j, k) = <<>>
      BY <1>0, <1>4, <2>4 DEF AfterTurn, PortOfMarks
    <3>2. Push(InHost(x, j), x[n], encode) =
            State("PathAndQuery", SubSeq(x, 1, j), <<>>, <<>> \o <<x[n]>>, None)
      <4>. DEFINE h == SubSeq(x, 1, j)
                  r == <<>>
                  c == x[n]
      <4>1. c \in {"/", "?"}
        BY <2>1
      <4>. HIDE DEF h, r, c
      <4>2. Push(State("Host", h, r, r, None), c, encode) =
              State("PathAndQuery", h, r, r \o <<c>>, None)
        BY <4>1, PushSlash
      <4>. QED BY <4>2 DEF h, r, c, InHost
    <3>. QED BY <2>2, <2>3, <3>1, <3>2, Zenon DEF InPath
  <2>5. CASE j # k
    <3>1. AfterTurn(x, j, k, q, n - 1) = InPort(x, j, k)
          /\ PortOfMarks(x, j, k) = SubSeq(x, j + 2, k)
      BY <1>0, <1>4, <2>5 DEF AfterTurn, PortOfMarks
    <3>2. Push(InPort(x, j, k), x[n], encode) =
            State("PathAndQuery", SubSeq(x, 1, j), SubSeq(x, j + 2, k), <<>> \o <<x[n]>>, None)
      <4>. DEFINE h == SubSeq(x, 1, j)
                  p == SubSeq(x, j + 2, k)
                  r == <<>>
                  c == x[n]
      <4>1. c \in {"/", "?"}
        BY <2>1
      <4>. HIDE DEF h, p, r, c
      <4>2. Push(State("Port", h, p, r, None), c, encode) =
              State("PathAndQuery", h, p, r \o <<c>>, None)
        BY <4>1, PushSlash
      <4>. QED BY <4>2 DEF h, p, r, c, InPort
    <3>. QED BY <2>2, <2>3, <3>1, <3>2, Zenon DEF InPath
  <2>. QED BY <2>4, <2>5
<1>5. CASE n > k + 1 /\ n <= q
  <2>1. x[n] # "#"
    BY <1>0, <1>5 DEF Marks
  <2>2. EscapeAll(SubSeq(x, k + 1, n)) = EscapeAll(SubSeq(x, k + 1, n - 1)) \o Escaped(x[n])
    <3>1. k + 1 \in 1 .. Len(x) + 1 /\ n \in k + 1 .. Len(x)
      BY <1>0, <1>5
    <3>. QED BY <3>1, EscapeGrows
  <2>3. /\ AfterTurn(x, j, k, q, n - 1) = InPath(x, j, k, n - 1)
        /\ AfterTurn(x, j, k, q, n) = InPath(x, j, k, n)
    BY <1>0, <1>5 DEF AfterTurn
  <2>4. Push(InPath(x, j, k, n - 1), x[n], encode) =
          State("PathAndQuery", SubSeq(x, 1, j), PortOfMarks(x, j, k),
                EscapeAll(SubSeq(x, k + 1, n - 1)) \o Escaped(x[n]), None)
    <3>. DEFINE h == SubSeq(x, 1, j)
                p == PortOfMarks(x, j, k)
                r == EscapeAll(SubSeq(x, k + 1, n - 1))
                c == x[n]
    <3>1. c # "#"
      BY <2>1
    <3>. HIDE DEF h, p, r, c
    <3>2. Push(State("PathAndQuery", h, p, r, None), c, encode) = State("PathAndQuery", h, p, r \o Escaped(c), None)
      BY <3>1, PushPath
    <3>. QED BY <3>2 DEF h, p, r, c, InPath
  <2>. QED BY <2>2, <2>3, <2>4, Zenon DEF InPath
<1>6. CASE n = q + 1 /\ n > k + 1
  <2>1. x[n] = "#"
    BY <1>0, <1>6 DEF Marks
  <2>2. n - 1 = q /\ EscapeAll(SubSeq(x, q + 2, n)) = <<>>
    <3>1. n - 1 = q /\ n \in 0 .. Len(x) /\ n + 1 = q + 2
      BY <1>0, <1>6
    <3>2. SubSeq(x, n + 1, n) = <<>>
      BY <3>1, PieceEmpty
    <3>. QED BY <3>1, <3>2, EscapeNothing
  <2>3. /\ AfterTurn(x, j, k, q, n - 1) = InPath(x, j, k, q)
        /\ AfterTurn(x, j, k, q, n) = InFragment(x, j, k, q, n)
    BY <1>0, <1>6, <2>2 DEF AfterTurn
  <2>4. Push(InPath(x, j, k, q), x[n], encode) =
          State("Fragment", SubSeq(x, 1, j), PortOfMarks(x, j, k), <<>>,
                EscapeAll(SubSeq(x, k + 1, q)))
    BY <2>1, PushHash, Zenon DEF InPath
  <2>. QED BY <2>2, <2>3, <2>4, Zenon DEF InFragment
<1>7. CASE n > q + 1
  <2>1. EscapeAll(SubSeq(x, q + 2, n)) = EscapeAll(SubSeq(x, q + 2, n - 1)) \o Escaped(x[n])
    <3>1. q + 2 \in 1 .. Len(x) + 1 /\ n \in q + 2 .. Len(x)
      BY <1>0, <1>7
    <3>. QED BY <3>1, EscapeGrows
  <2>2. /\ AfterTurn(x, j, k, q, n - 1) = InFragment(x, j, k, q, n - 1)
        /\ AfterTurn(x, j, k, q, n) = InFragment(x, j, k, q, n)
    BY <1>0, <1>7 DEF AfterTurn
  <2>3. Push(InFragment(x, j, k, q, n - 1), x[n], encode) =
          State("Fragment", SubSeq(x, 1, j), PortOfMarks(x, j, k),
                EscapeAll(SubSeq(x, q + 2, n - 1)) \o Escaped(x[n]),
                EscapeAll(SubSeq(x, k + 1, q)))
    <3>. DEFINE h == SubSeq(x, 1, j)
                p == PortOfMarks(x, j, k)
                r == EscapeAll(SubSeq(x, q + 2, n - 1))
                o == EscapeAll(SubSeq(x, k + 1, q))
                c == x[n]
    <3>. HIDE DEF h, p, r, o, c
    <3>2. Push(State("Fragment", h, p, r, o), c, encode) = State("Fragment", h, p, r \o Escaped(c), o)
      BY PushFragment
    <3>. QED BY <3>2 DEF h, p, r, o, c, InFragment
  <2>. QED BY <2>1, <2>2, <2>3, Zenon DEF InFragment
<1>8. n = q + 1 => n > k + 1 \/ n = k + 1
  BY <1>0
<1>. QED BY <1>0, <1>1, <1>2, <1>3, <1>4, <1>5, <1>6, <1>7, <1>8

\* The loop takes a text apart at its marks.
LEMMA LoopIs ==
  ASSUME NEW x \in Seq(Symbol), NEW j \in Nat, NEW k \in Nat, NEW q \in Nat,
         Marks(x, j, k, q)
  PROVE  Turns(x, encode)[Len(x)] = AfterTurn(x, j, k, q, Len(x))
<1>0. Len(x) \in Nat
  BY LenProperties
<1>. DEFINE g == Turns(x, encode)
            T == {n \in 0 .. Len(x) : g[n] = AfterTurn(x, j, k, q, n)}
<1>1. g[0] = Start /\ \A n \in 1 .. Len(x) : g[n] = Push(g[n - 1], x[n], encode)
  BY TurnsAre
<1>. HIDE DEF g
<1>2. 0 \in T
  <2>1. AfterTurn(x, j, k, q, 0) = InHost(x, 0)
    BY DEF AfterTurn
  <2>2. SubSeq(x, 0 + 1, 0) = <<>>
    BY <1>0, PieceEmpty
  <2>3. InHost(x, 0) = Start
    BY <2>2 DEF InHost, State, Start
  <2>. QED BY <1>0, <1>1, <2>1, <2>3
<1>3. ASSUME NEW n \in 0 .. Len(x) - 1, n \in T PROVE n + 1 \in T
  <2>1. n + 1 \in 1 .. Len(x) /\ (n + 1) - 1 = n /\ n + 1 \in 0 .. Len(x)
    BY <1>0
  <2>2. g[n + 1] = Push(g[n], x[n + 1], encode)
    BY <1>1, <2>1
  <2>3. Push(AfterTurn(x, j, k, q, n), x[n + 1], encode) = AfterTurn(x, j, k, q, n + 1)
    <3>1. Push(AfterTurn(x, j, k, q, (n + 1) - 1), x[n + 1], encode)
            = AfterTurn(x, j, k, q, n + 1)
      BY <2>1, TurnStep
    <3>. QED BY <2>1, <3>1
  <2>. QED BY <1>3, <2>1, <2>2, <2>3
<1>. HIDE DEF T
<1>4. \A n \in 0 .. Len(x) : n \in T
  BY <1>0, <1>2, <1>3, Induction
<1>5. Len(x) \in T
  BY <1>0, <1>4
<1>. QED BY <1>5 DEF T, g

\* A piece of a piece is a piece.
LEMMA PieceOfPiece ==
  ASSUME NEW x \in Seq(Symbol), NEW a \in 1 .. Len(x) + 1, NEW b \in a - 1 .. Len(x),
         NEW m \in 1 .. b - a + 2, NEW n \in m - 1 .. b - a + 1
  PROVE  SubSeq(SubSeq(x, a, b), m, n) = SubSeq(x, a + m - 1, a + n - 1)
<1>0. Len(x) \in Nat
  BY LenProperties
<1>. DEFINE s == SubSeq(x, a, b)
            t == SubSeq(s, m, n)
            c == a + m - 1
            d == a + n - 1
            u == SubSeq(x, c, d)
<1>1. s \in Seq(Symbol) /\ Len(s) = b - a + 1 /\ \A i \in 1 .. b - a + 1 : s[i] = x[a + i - 1]
  BY Piece
<1>. HIDE DEF s
<1>2. t \in Seq(Symbol) /\ Len(t) = n - m + 1 /\ \A i \in 1 .. n - m + 1 : t[i] = s[m + i - 1]
  <2>1. m \in 1 .. Len(s) + 1 /\ n \in m - 1 .. Len(s)
    BY <1>0, <1>1
  <2>. QED BY <1>1, <2>1, Piece
<1>3. u \in Seq(Symbol) /\ Len(u) = d - c + 1 /\ \A i \in 1 .. d - c + 1 : u[i] = x[c + i - 1]
  <2>1. c \in 1 .. Len(x) + 1 /\ d \in c - 1 .. Len(x)
    BY <1>0
  <2>. HIDE DEF c, d
  <2>. QED BY <2>1, Piece
<1>4. d - c + 1 = n - m + 1
  BY <1>0
<1>5. ASSUME NEW i \in 1 .. n - m + 1 PROVE t[i] = u[i]
  <2>1. m + i - 1 \in 1 .. b - a + 1 /\ a + (m + i - 1) - 1 = c + i - 1
    BY <1>0
  <2>2. t[i] = s[m + i - 1]
    BY <1>2
  <2>3. s[m + i - 1] = x[a + (m + i - 1) - 1]
    BY <1>1, <2>1
  <2>4. u[i] = x[c + i - 1]
    BY <1>3, <1>4
  <2>. HIDE DEF t, u, c
  <2>. QED BY <2>1, <2>2, <2>3, <2>4
<1>. HIDE DEF t, u, c, d
<1>6. t = u
  BY <1>2, <1>3, <1>4, <1>5, SeqEqual
<1>. QED BY <1>6 DEF s, t, u, c, d

\* A URL has its scheme in front.
LEMMA ProtocolIs ==
  ASSUME NEW t \in Seq(Symbol), HasProtocol(t)
  PROVE  /\ Len(t) \in Nat /\ Len(t) >= 4
         /\ IsPrefix(Https, t) = (t[1] = "https")
         /\ SubSeq(t, 5, Len(t)) \in Seq(Symbol)
<1>0. Len(t) \in Nat
  BY LenProperties
<1>1. /\ Http \in Seq(Symbol) /\ Len(Http) = 4 /\ Http[1] = "http"
      /\ Https \in Seq(Symbol) /\ Len(Https) = 4 /\ Https[1] = "https"
  <2>1. "http" \in Symbol /\ "https" \in Symbol /\ ":" \in Symbol /\ "/" \in Symbol
    BY UrlAssumption
  <2>. QED BY <2>1 DEF Http, Https
<1>2. ASSUME NEW s \in Seq(Symbol), Len(s) = 4, IsPrefix(s, t)
      PROVE  Len(t) >= 4 /\ s[1] = t[1]
  <2>1. 4 <= Len(t) /\ SubSeq(s, 1, 4) = SubSeq(t, 1, 4)
    BY <1>2 DEF IsPrefix
  <2>2. SubSeq(s, 1, 4)[1] = s[1]
    <3>1. /\ 1 \in 1 .. Len(s) + 1 /\ 4 \in 1 - 1 .. Len(s)
          /\ 1 \in 1 .. 4 - 1 + 1 /\ 1 + 1 - 1 = 1
      BY <1>2
    <3>2. SubSeq(s, 1, 4)[1] = s[1 + 1 - 1]
      BY <3>1, Piece
    <3>. QED BY <3>1, <3>2
  <2>3. SubSeq(t, 1, 4)[1] = t[1]
    <3>1. /\ 1 \in 1 .. Len(t) + 1 /\ 4 \in 1 - 1 .. Len(t)
          /\ 1 \in 1 .. 4 - 1 + 1 /\ 1 + 1 - 1 = 1
      BY <1>0, <2>1
    <3>2. SubSeq(t, 1, 4)[1] = t[1 + 1 - 1]
      BY <3>1, Piece
    <3>. QED BY <3>1, <3>2
  <2>. QED BY <1>0, <2>1, <2>2, <2>3
<1>3. /\ IsPrefix(Https, t) => Len(t) >= 4 /\ t[1] = "https"
      /\ IsPrefix(Http, t) => Len(t) >= 4 /\ t[1] = "http"
  BY <1>1, <1>2
<1>4. IsPrefix(Https, t) \/ IsPrefix(Http, t)
  BY DEF HasProtocol
<1>5. Len(t) >= 4 /\ (IsPrefix(Https, t) <=> t[1] = "https")
  BY <1>3, <1>4
<1>6. IsPrefix(Https, t) \in BOOLEAN
  BY DEF IsPrefix
<1>7. SubSeq(t, 5, Len(t)) \in Seq(Symbol)
  <2>1. 5 \in 1 .. Len(t) + 1 /\ Len(t) \in 5 - 1 .. Len(t)
    BY <1>0, <1>5
  <2>. QED BY <2>1, Piece
<1>. QED BY <1>0, <1>5, <1>6, <1>7

\* Where a text has its marks, and what the grammar calls its parts.
LEMMA MarksExist ==
  ASSUME NEW x \in Seq(Symbol)
  PROVE  \E j \in Nat, k \in Nat, q \in Nat :
           /\ Marks(x, j, k, q)
           /\ Upto(x, {"/", "?"}) = SubSeq(x, 1, k)
           /\ From(x, {"/", "?"}) = SubSeq(x, k + 1, Len(x))
           /\ Upto(SubSeq(x, 1, k), {":"}) = SubSeq(x, 1, j)
           /\ From(SubSeq(x, 1, k), {":"}) = SubSeq(x, j + 1, k)
           /\ Upto(SubSeq(x, k + 1, Len(x)), {"#"}) = SubSeq(x, k + 1, q)
           /\ From(SubSeq(x, k + 1, Len(x)), {"#"}) = SubSeq(x, q + 1, Len(x))
<1>0. Len(x) \in Nat
  BY LenProperties
<1>1. PICK k \in 0 .. Len(x) :
        /\ Upto(x, {"/", "?"}) = SubSeq(x, 1, k)
        /\ From(x, {"/", "?"}) = SubSeq(x, k + 1, Len(x))
        /\ \A i \in 1 .. k : x[i] \notin {"/", "?"}
        /\ k = Len(x) \/ x[k + 1] \in {"/", "?"}
  BY UptoIs
<1>. DEFINE a == SubSeq(x, 1, k)
            r == SubSeq(x, k + 1, Len(x))
<1>2. a \in Seq(Symbol) /\ Len(a) = k /\ \A i \in 1 .. k : a[i] = x[i]
  <2>1. 1 \in 1 .. Len(x) + 1 /\ k \in 1 - 1 .. Len(x) /\ k - 1 + 1 = k
    BY <1>0
  <2>2. a \in Seq(Symbol) /\ Len(a) = k - 1 + 1 /\ \A i \in 1 .. k - 1 + 1 : a[i] = x[1 + i - 1]
    BY <2>1, Piece
  <2>. HIDE DEF a
  <2>. QED BY <2>1, <2>2
<1>3. /\ r \in Seq(Symbol) /\ Len(r) = Len(x) - k
      /\ \A i \in 1 .. Len(x) - k : r[i] = x[k + i]
  <2>1. k + 1 \in 1 .. Len(x) + 1 /\ Len(x) \in k + 1 - 1 .. Len(x)
    BY <1>0
  <2>2. /\ r \in Seq(Symbol) /\ Len(r) = Len(x) - (k + 1) + 1
        /\ \A i \in 1 .. Len(x) - (k + 1) + 1 : r[i] = x[k + 1 + i - 1]
    BY <2>1, Piece
  <2>. HIDE DEF r
  <2>3. Len(x) - (k + 1) + 1 = Len(x) - k /\ \A i \in 1 .. Len(x) - k : k + 1 + i - 1 = k + i
    BY <1>0
  <2>. QED BY <2>2, <2>3
<1>4. PICK j \in 0 .. Len(a) :
        /\ Upto(a, {":"}) = SubSeq(a, 1, j)
        /\ From(a, {":"}) = SubSeq(a, j + 1, Len(a))
        /\ \A i \in 1 .. j : a[i] \notin {":"}
        /\ j = Len(a) \/ a[j + 1] \in {":"}
  <2>. HIDE DEF a
  <2>. QED BY <1>2, UptoIs
<1>5. PICK p \in 0 .. Len(r) :
        /\ Upto(r, {"#"}) = SubSeq(r, 1, p)
        /\ From(r, {"#"}) = SubSeq(r, p + 1, Len(r))
        /\ \A i \in 1 .. p : r[i] \notin {"#"}
        /\ p = Len(r) \/ r[p + 1] \in {"#"}
  <2>. HIDE DEF r
  <2>. QED BY <1>3, UptoIs
<1>. DEFINE q == k + p
<1>6. j \in 0 .. k /\ p \in 0 .. Len(x) - k /\ q \in Nat /\ j \in Nat
  BY <1>0, <1>2, <1>3
<1>7. Marks(x, j, k, q)
  <2>. HIDE DEF a, r
  <2>1. j \in 0 .. k /\ k \in 0 .. q /\ q \in 0 .. Len(x)
    BY <1>0, <1>6
  <2>2. \A i \in 1 .. j : x[i] # ":"
    BY <1>0, <1>2, <1>4, <1>6
  <2>3. j = k \/ x[j + 1] = ":"
    BY <1>0, <1>2, <1>4, <1>6
  <2>4. ASSUME NEW i \in k + 1 .. q PROVE x[i] # "#"
    <3>1. i - k \in 1 .. p /\ i - k \in 1 .. Len(x) - k /\ k + (i - k) = i
      BY <1>0, <1>6
    <3>. QED BY <1>3, <1>5, <3>1
  <2>5. q = Len(x) \/ x[q + 1] = "#"
    <3>1. CASE p = Len(r)
      BY <1>0, <1>3, <3>1
    <3>2. CASE p # Len(r)
      <4>0. p # Len(x) - k
        BY <1>3, <3>2
      <4>1. p + 1 \in 1 .. Len(x) - k
        BY <1>0, <1>6, <4>0
      <4>3. k + (p + 1) = q + 1
        BY <1>0, <1>6
      <4>2. r[p + 1] = "#"
        BY <1>5, <3>2
      <4>. QED BY <1>3, <4>1, <4>2, <4>3
    <3>. QED BY <3>1, <3>2
  <2>6. k = Len(x) \/ (x[k + 1] \in {"/", "?"} /\ k < q)
    <3>1. CASE k = Len(x)
      BY <3>1
    <3>2. CASE k # Len(x)
      <4>1. x[k + 1] \in {"/", "?"}
        BY <1>1, <3>2
      <4>2. k # q
        <5>1. ASSUME k = q PROVE FALSE
          <6>1. x[k + 1] = "#"
            BY <2>5, <3>2, <5>1
          <6>. QED BY <4>1, <6>1
        <5>. QED BY <5>1
      <4>3. k < q
        BY <1>6, <4>2
      <4>. QED BY <4>1, <4>3
    <3>. QED BY <3>1, <3>2
  <2>. HIDE DEF q
  <2>. QED BY <1>1, <2>1, <2>2, <2>3, <2>4, <2>5, <2>6 DEF Marks
<1>8. SubSeq(a, 1, j) = SubSeq(x, 1, j)
  <2>1. 1 \in 1 .. Len(x) + 1 /\ k \in 1 - 1 .. Len(x) /\ 1 \in 1 .. k - 1 + 2
        /\ j \in 1 - 1 .. k - 1 + 1 /\ 1 + 1 - 1 = 1 /\ 1 + j - 1 = j
    BY <1>0, <1>6
  <2>2. SubSeq(a, 1, j) = SubSeq(x, 1 + 1 - 1, 1 + j - 1)
    BY <2>1, PieceOfPiece
  <2>. QED BY <2>1, <2>2
<1>9. SubSeq(a, j + 1, k) = SubSeq(x, j + 1, k)
  <2>1. 1 \in 1 .. Len(x) + 1 /\ k \in 1 - 1 .. Len(x) /\ j + 1 \in 1 .. k - 1 + 2
        /\ k \in (j + 1) - 1 .. k - 1 + 1 /\ 1 + (j + 1) - 1 = j + 1 /\ 1 + k - 1 = k
    BY <1>0, <1>6
  <2>2. SubSeq(a, j + 1, k) = SubSeq(x, 1 + (j + 1) - 1, 1 + k - 1)
    BY <2>1, PieceOfPiece
  <2>. QED BY <2>1, <2>2
<1>10. SubSeq(r, 1, p) = SubSeq(x, k + 1, q)
  <2>1. k + 1 \in 1 .. Len(x) + 1 /\ Len(x) \in (k + 1) - 1 .. Len(x)
        /\ 1 \in 1 .. Len(x) - (k + 1) + 2 /\ p \in 1 - 1 .. Len(x) - (k + 1) + 1
        /\ (k + 1) + 1 - 1 = k + 1 /\ (k + 1) + p - 1 = q
    BY <1>0, <1>6
  <2>2. SubSeq(r, 1, p) = SubSeq(x, (k + 1) + 1 - 1, (k + 1) + p - 1)
    BY <2>1, PieceOfPiece
  <2>. QED BY <2>1, <2>2
<1>11. SubSeq(r, p + 1, Len(x) - k) = SubSeq(x, q + 1, Len(x))
  <2>1. k + 1 \in 1 .. Len(x) + 1 /\ Len(x) \in (k + 1) - 1 .. Len(x)
        /\ p + 1 \in 1 .. Len(x) - (k + 1) + 2
        /\ Len(x) - k \in (p + 1) - 1 .. Len(x) - (k + 1) + 1
        /\ (k + 1) + (p + 1) - 1 = q + 1 /\ (k + 1) + (Len(x) - k) - 1 = Len(x)
    BY <1>0, <1>6
  <2>2. SubSeq(r, p + 1, Len(x) - k) =
          SubSeq(x, (k + 1) + (p + 1) - 1, (k + 1) + (Len(x) - k) - 1)
    BY <2>1, PieceOfPiece
  <2>. QED BY <2>1, <2>2
<1>12. /\ Upto(a, {":"}) = SubSeq(x, 1, j) /\ From(a, {":"}) = SubSeq(x, j + 1, k)
       /\ Upto(r, {"#"}) = SubSeq(x, k + 1, q) /\ From(r, {"#"}) = SubSeq(x, q + 1, Len(x))
  <2>. HIDE DEF a, r, q
  <2>. QED BY <1>2, <1>3, <1>4, <1>5, <1>8, <1>9, <1>10, <1>11
<1>13. k \in Nat
  BY <1>0
<1>. HIDE DEF q
<1>. QED BY <1>1, <1>6, <1>7, <1>12, <1>13

\* If no fragment follows the authority at once, the loop and the grammar end
\* the authority at the same place.
LEMMA SameAuthority ==
  ASSUME NEW t, NEW x \in Seq(Symbol), x = SubSeq(t, 5, Len(t)), PathFirst(t),
         NEW k \in 0 .. Len(x),
         \A i \in 1 .. k : x[i] \notin {"/", "?"},
         k = Len(x) \/ x[k + 1] \in {"/", "?"}
  PROVE  /\ Upto(x, {"/", "?", "#"}) = SubSeq(x, 1, k)
         /\ From(x, {"/", "?", "#"}) = SubSeq(x, k + 1, Len(x))
<1>0. Len(x) \in Nat
  BY LenProperties
<1>1. PICK m \in 0 .. Len(x) :
        /\ Upto(x, {"/", "?", "#"}) = SubSeq(x, 1, m)
        /\ From(x, {"/", "?", "#"}) = SubSeq(x, m + 1, Len(x))
        /\ \A i \in 1 .. m : x[i] \notin {"/", "?", "#"}
        /\ m = Len(x) \/ x[m + 1] \in {"/", "?", "#"}
  BY UptoIs
<1>. DEFINE r == SubSeq(x, m + 1, Len(x))
<1>2. r = <<>> \/ r[1] # "#"
  BY <1>1 DEF PathFirst
<1>3. ASSUME m # Len(x) PROVE r # <<>> /\ r[1] = x[m + 1]
  <2>1. /\ m + 1 \in 1 .. Len(x) + 1 /\ Len(x) \in (m + 1) - 1 .. Len(x)
        /\ Len(x) - (m + 1) + 1 # 0 /\ 1 \in 1 .. Len(x) - (m + 1) + 1
        /\ (m + 1) + 1 - 1 = m + 1
    BY <1>0, <1>3
  <2>2. /\ r \in Seq(Symbol) /\ Len(r) = Len(x) - (m + 1) + 1
        /\ \A i \in 1 .. Len(x) - (m + 1) + 1 : r[i] = x[(m + 1) + i - 1]
    <3>. DEFINE a == m + 1
    <3>. HIDE DEF a
    <3>1. a = m + 1
      BY DEF a
    <3>2. a \in 1 .. Len(x) + 1 /\ Len(x) \in a - 1 .. Len(x)
      BY <2>1, <3>1
    <3>3. /\ SubSeq(x, a, Len(x)) \in Seq(Symbol) /\ Len(SubSeq(x, a, Len(x))) = Len(x) - a + 1
          /\ \A i \in 1 .. Len(x) - a + 1 : SubSeq(x, a, Len(x))[i] = x[a + i - 1]
      BY <3>2, Piece
    <3>. QED BY <3>1, <3>3
  <2>. HIDE DEF r
  <2>3. r[1] = x[(m + 1) + 1 - 1]
    BY <2>1, <2>2
  <2>4. r # <<>>
    BY <2>1, <2>2, EmptySeq
  <2>. QED BY <2>1, <2>3, <2>4
<1>. HIDE DEF r
<1>4. m = Len(x) \/ x[m + 1] \in {"/", "?"}
  BY <1>1, <1>2, <1>3
<1>5. ~(m < k)
  <2>1. ASSUME m < k PROVE FALSE
    <3>1. m + 1 \in 1 .. k /\ m # Len(x)
      BY <1>0, <2>1
    <3>. QED BY <1>4, <3>1
  <2>. QED BY <2>1
<1>6. ~(k < m)
  <2>1. ASSUME k < m PROVE FALSE
    <3>1. k + 1 \in 1 .. m /\ k # Len(x)
      BY <1>0, <2>1
    <3>2. x[k + 1] \in {"/", "?"}
      BY <3>1
    <3>. QED BY <1>1, <3>1, <3>2
  <2>. QED BY <2>1
<1>7. m = k
  BY <1>0, <1>5, <1>6
<1>. QED BY <1>1, <1>7

-------------------------------------------------------------------------------
(* What escaping does to a piece of a text.                                *)

Hashless(s) == \A i \in 1 .. Len(s) : s[i] # "#"

\* Escaping it would not change it, or it holds an escape already.
Settled(s) ==
  (\E i \in 1 .. Len(s) : s[i] = "%") \/ \A i \in 1 .. Len(s) : Escape[s[i]] = <<s[i]>>

StartsWith(s, c) == Len(s) \in Nat /\ Len(s) # 0 /\ s[1] = c

LEMMA NothingHashless == <<>> \in Seq(Symbol) /\ Hashless(<<>>) /\ Settled(<<>>)
BY DEF Hashless, Settled

LEMMA JoinKeeps ==
  ASSUME NEW s \in Seq(Symbol), NEW t \in Seq(Symbol)
  PROVE  /\ s \o t \in Seq(Symbol)
         /\ Hashless(s) /\ Hashless(t) => Hashless(s \o t)
         /\ Settled(s) /\ Settled(t) => Settled(s \o t)
         /\ \A c : StartsWith(s, c) => StartsWith(s \o t, c)
<1>. DEFINE u == s \o t
<1>1. /\ u \in Seq(Symbol) /\ Len(u) = Len(s) + Len(t)
      /\ \A i \in 1 .. Len(s) + Len(t) : u[i] = IF i <= Len(s) THEN s[i] ELSE t[i - Len(s)]
  BY ConcatProperties
<1>2. Len(s) \in Nat /\ Len(t) \in Nat
  BY LenProperties
<1>. HIDE DEF u
<1>3. ASSUME Hashless(s), Hashless(t) PROVE Hashless(u)
  <2>1. ASSUME NEW i \in 1 .. Len(u) PROVE u[i] # "#"
    <3>1. i \in 1 .. Len(s) + Len(t)
      BY <1>1, <2>1
    <3>2. CASE i <= Len(s)
      <4>1. i \in 1 .. Len(s)
        BY <1>2, <3>1, <3>2
      <4>. QED BY <1>1, <1>3, <3>1, <3>2, <4>1 DEF Hashless
    <3>3. CASE ~(i <= Len(s))
      <4>1. i - Len(s) \in 1 .. Len(t)
        BY <1>2, <3>1, <3>3
      <4>. QED BY <1>1, <1>3, <3>1, <3>3, <4>1 DEF Hashless
    <3>. QED BY <3>2, <3>3
  <2>. QED BY <2>1 DEF Hashless
<1>4. ASSUME NEW c, StartsWith(s, c) PROVE StartsWith(u, c)
  <2>1. 1 \in 1 .. Len(s) + Len(t) /\ 1 <= Len(s) /\ Len(u) \in Nat /\ Len(u) # 0
    BY <1>1, <1>2, <1>4 DEF StartsWith
  <2>2. u[1] = s[1]
    BY <1>1, <2>1
  <2>. QED BY <1>4, <2>1, <2>2 DEF StartsWith
<1>5. ASSUME Settled(s), Settled(t) PROVE Settled(u)
  <2>1. ASSUME NEW i \in 1 .. Len(s), s[i] = "%" PROVE Settled(u)
    <3>1. i \in 1 .. Len(s) + Len(t) /\ i <= Len(s)
      BY <1>2, <2>1
    <3>2. u[i] = "%"
      BY <1>1, <2>1, <3>1
    <3>. QED BY <1>1, <3>1, <3>2 DEF Settled
  <2>2. ASSUME NEW i \in 1 .. Len(t), t[i] = "%" PROVE Settled(u)
    <3>1. Len(s) + i \in 1 .. Len(s) + Len(t) /\ ~(Len(s) + i <= Len(s)) /\ (Len(s) + i) - Len(s) = i
      BY <1>2, <2>2
    <3>2. u[Len(s) + i] = "%"
      BY <1>1, <2>2, <3>1
    <3>. QED BY <1>1, <3>1, <3>2 DEF Settled
  <2>3. ASSUME \A i \in 1 .. Len(s) : Escape[s[i]] = <<s[i]>>,
               \A i \in 1 .. Len(t) : Escape[t[i]] = <<t[i]>>
        PROVE  Settled(u)
    <3>1. ASSUME NEW i \in 1 .. Len(u) PROVE Escape[u[i]] = <<u[i]>>
      <4>1. i \in 1 .. Len(s) + Len(t)
        BY <1>1, <3>1
      <4>2. CASE i <= Len(s)
        <5>1. i \in 1 .. Len(s) /\ u[i] = s[i]
          BY <1>1, <1>2, <4>1, <4>2
        <5>. QED BY <2>3, <5>1
      <4>3. CASE ~(i <= Len(s))
        <5>1. i - Len(s) \in 1 .. Len(t)
          BY <1>2, <4>1, <4>3
        <5>2. u[i] = t[i - Len(s)]
          BY <1>1, <4>1, <4>3
        <5>. QED BY <2>3, <5>1, <5>2
      <4>. QED BY <4>2, <4>3
    <3>. QED BY <3>1 DEF Settled
  <2>. QED BY <1>5, <2>1, <2>2, <2>3 DEF Settled
<1>. QED BY <1>1, <1>3, <1>4, <1>5 DEF u

LEMMA EscapedKeeps ==
  ASSUME NEW c \in Symbol
  PROVE  /\ Escaped(c) \in Seq(Symbol)
         /\ encode => Settled(Escaped(c))
         /\ c # "#" => Hashless(Escaped(c))
         /\ c \in {"/", "?", "#"} => StartsWith(Escaped(c), c)
<1>1. Escaped(c) \in Seq(Symbol)
  BY EscapedTyped
<1>2. ASSUME c # "#" PROVE Hashless(Escaped(c))
  <2>1. CASE encode
    <3>1. "#" \notin ToSet(Escape[c]) /\ Escape[c] \in Seq(Symbol)
      BY <1>2, UrlAssumption
    <3>2. ToSet(Escape[c]) = {Escape[c][i] : i \in 1 .. Len(Escape[c])}
      BY <3>1, LenProperties DEF ToSet
    <3>. QED BY <2>1, <3>1, <3>2 DEF Hashless, Escaped
  <2>2. CASE ~encode
    BY <1>2, <2>2 DEF Hashless, Escaped
  <2>. QED BY <2>1, <2>2
<1>3. ASSUME c \in {"/", "?", "#"} PROVE StartsWith(Escaped(c), c)
  <2>1. Escaped(c) = <<c>>
    BY <1>3, UrlAssumption DEF Escaped
  <2>. QED BY <2>1 DEF StartsWith
<1>4. ASSUME encode PROVE Settled(Escaped(c))
  <2>. DEFINE e == Escape[c]
  <2>1. e \in Seq(Symbol) /\ (e = <<c>> \/ "%" \in ToSet(e)) /\ Escaped(c) = e
    BY <1>4, UrlAssumption DEF Escaped
  <2>2. CASE e = <<c>>
    <3>1. Len(e) = 1 /\ e[1] = c /\ Escape[c] = <<c>>
      BY <2>2
    <3>2. \A i \in 1 .. Len(e) : e[i] = c
      <4>. HIDE DEF e
      <4>. QED BY <3>1
    <3>. HIDE DEF e
    <3>3. \A i \in 1 .. Len(e) : Escape[e[i]] = <<e[i]>>
      BY <3>1, <3>2
    <3>. QED BY <2>1, <3>3 DEF Settled
  <2>3. CASE "%" \in ToSet(e)
    <3>. HIDE DEF e
    <3>1. ToSet(e) = {e[i] : i \in 1 .. Len(e)}
      BY <2>1, LenProperties DEF ToSet
    <3>. QED BY <2>1, <2>3, <3>1 DEF Settled
  <2>. QED BY <2>1, <2>2, <2>3
<1>. QED BY <1>1, <1>2, <1>3, <1>4

\* It stays a text, is settled, gets no # of its own, and a separator in front
\* stays there.
LEMMA EscapedPiece ==
  ASSUME NEW x \in Seq(Symbol), NEW a \in 1 .. Len(x) + 1, NEW n \in a - 1 .. Len(x)
  PROVE  /\ EscapeAll(SubSeq(x, a, n)) \in Seq(Symbol)
         /\ encode => Settled(EscapeAll(SubSeq(x, a, n)))
         /\ (\A i \in a .. n : x[i] # "#") => Hashless(EscapeAll(SubSeq(x, a, n)))
         /\ a <= n /\ x[a] \in {"/", "?", "#"} => StartsWith(EscapeAll(SubSeq(x, a, n)), x[a])
<1>. DEFINE e(k) == EscapeAll(SubSeq(x, a, k))
            Ok(k) == /\ e(k) \in Seq(Symbol)
                     /\ encode => Settled(e(k))
                     /\ (\A i \in a .. k : x[i] # "#") => Hashless(e(k))
                     /\ a <= k /\ x[a] \in {"/", "?", "#"} => StartsWith(e(k), x[a])
            T == {k \in 0 .. n - a + 1 : Ok(a - 1 + k)}
<1>0. Len(x) \in Nat /\ a \in Nat /\ a >= 1 /\ n \in Nat /\ n - a + 1 \in Nat /\ a - 1 \in 0 .. Len(x)
  BY LenProperties
<1>1. 0 \in T
  <2>1. SubSeq(x, (a - 1) + 1, a - 1) = <<>>
    BY <1>0, PieceEmpty
  <2>2. (a - 1) + 1 = a /\ a - 1 + 0 = a - 1 /\ ~(a <= a - 1) /\ 0 \in 0 .. n - a + 1
    BY <1>0
  <2>3. e(a - 1) = <<>>
    BY <2>1, <2>2, EscapeNothing
  <2>4. e(a - 1) \in Seq(Symbol) /\ Hashless(e(a - 1)) /\ Settled(e(a - 1))
    <3>. HIDE DEF e
    <3>. QED BY <2>3, NothingHashless
  <2>. HIDE DEF e
  <2>. QED BY <2>2, <2>4
<1>2. ASSUME NEW k \in 0 .. n - a + 1 - 1, k \in T PROVE k + 1 \in T
  <2>. DEFINE m == a - 1 + k
              c == x[m + 1]
  <2>1. /\ m + 1 \in a .. Len(x) /\ (m + 1) - 1 = m /\ a - 1 + (k + 1) = m + 1 /\ m + 1 \in 1 .. Len(x)
        /\ k + 1 \in 0 .. n - a + 1 /\ m \in Nat
    BY <1>0
  <2>2. Ok(m)
    BY <1>2
  <2>3. c \in Symbol
    BY <2>1, ElementOfSeq
  <2>4. e(m + 1) = e(m) \o Escaped(c)
    BY <2>1, EscapeGrows
  <2>. HIDE DEF e, c
  <2>5. /\ Escaped(c) \in Seq(Symbol)
        /\ encode => Settled(Escaped(c))
        /\ c # "#" => Hashless(Escaped(c))
        /\ c \in {"/", "?", "#"} => StartsWith(Escaped(c), c)
    BY <2>3, EscapedKeeps
  <2>6. e(m + 1) \in Seq(Symbol)
    BY <2>2, <2>4, <2>5, JoinKeeps
  <2>7. ASSUME \A i \in a .. m + 1 : x[i] # "#" PROVE Hashless(e(m + 1))
    <3>1. /\ \A i \in a .. m : i \in a .. m + 1
          /\ m + 1 \in a .. m + 1
      BY <1>0, <2>1
    <3>2. Hashless(e(m)) /\ c # "#"
      BY <2>2, <2>7, <3>1 DEF c
    <3>. QED BY <2>2, <2>4, <2>5, <3>2, JoinKeeps
  <2>8. ASSUME x[a] \in {"/", "?", "#"} PROVE StartsWith(e(m + 1), x[a])
    <3>1. CASE a <= m
      <4>1. StartsWith(e(m), x[a])
        BY <2>2, <2>8, <3>1
      <4>. QED BY <2>2, <2>4, <2>5, <4>1, JoinKeeps
    <3>2. CASE ~(a <= m)
      <4>1. m = a - 1 /\ m + 1 = a
        BY <1>0, <2>1, <3>2
      <4>2. SubSeq(x, (a - 1) + 1, a - 1) = <<>>
        BY <1>0, PieceEmpty
      <4>3. e(m) = <<>>
        BY <1>0, <4>1, <4>2, EscapeNothing DEF e
      <4>4. e(m + 1) = Escaped(c)
        BY <2>4, <2>5, <4>3
      <4>5. c = x[a]
        BY <4>1 DEF c
      <4>. QED BY <2>5, <2>8, <4>4, <4>5
    <3>. QED BY <3>1, <3>2
  <2>9. encode => Settled(e(m + 1))
    BY <2>2, <2>4, <2>5, JoinKeeps
  <2>. HIDE DEF m
  <2>. QED BY <2>1, <2>6, <2>7, <2>8, <2>9
<1>. HIDE DEF T
<1>3. \A k \in 0 .. (n - a + 1) - 1 : k \in T => k + 1 \in T
  BY <1>2
<1>4. n - a + 1 \in T
  <2>. DEFINE m == n - a + 1
  <2>1. m \in Nat /\ \A k \in 0 .. m - 1 : k \in T => k + 1 \in T
    BY <1>0, <1>3
  <2>. HIDE DEF m
  <2>2. m \in 0 .. m
    BY <2>1
  <2>3. m \in T
    BY <1>1, <2>1, <2>2, Induction
  <2>. QED BY <2>3 DEF m
<1>5. a - 1 + (n - a + 1) = n
  BY <1>0
<1>6. Ok(n)
  BY <1>4, <1>5 DEF T
<1>. QED BY <1>6
-------------------------------------------------------------------------------
(* HttpUrl::parse.                                                         *)

\* The URL by the marks of the text behind the protocol.
ByMarks(x, https, j, k, q, from) ==
  [https |-> https,
   host |-> SubSeq(x, 1, j),
   port |-> IF k = j + 2 THEN PortOf[x[j + 2]] ELSE None,
   path_and_query |-> IF k = Len(x) THEN <<"/">> ELSE EscapeAll(SubSeq(x, k + 1, q)),
   fragment |-> IF q = Len(x) THEN Inherited(from) ELSE EscapeAll(SubSeq(x, q + 2, Len(x)))]

\* The port between its marks.
LEMMA PortIs ==
  ASSUME NEW x \in Seq(Symbol), NEW j \in Nat, NEW k \in Nat, NEW q \in Nat,
         Marks(x, j, k, q)
  PROVE  ParsePort(PortOfMarks(x, j, k)) = IF k = j + 2 THEN PortOf[x[j + 2]] ELSE None
<1>0. j <= k /\ k <= Len(x) /\ Len(x) \in Nat
  BY LenProperties DEF Marks
<1>1. CASE j = k
  <2>1. PortOfMarks(x, j, k) = <<>> /\ k # j + 2
    BY <1>1 DEF PortOfMarks
  <2>. QED BY <2>1 DEF ParsePort
<1>2. CASE j # k
  <2>. DEFINE p == SubSeq(x, j + 2, k)
  <2>1. /\ j + 2 \in 1 .. Len(x) + 1 /\ k \in (j + 2) - 1 .. Len(x)
        /\ k - (j + 2) + 1 = k - j - 1 /\ (j + 2) + 1 - 1 = j + 2
    BY <1>0, <1>2
  <2>2. Len(p) = k - (j + 2) + 1 /\ \A i \in 1 .. k - (j + 2) + 1 : p[i] = x[(j + 2) + i - 1]
    BY <2>1, Piece
  <2>3. PortOfMarks(x, j, k) = p
    BY <1>2 DEF PortOfMarks
  <2>. HIDE DEF p
  <2>4. Len(p) = 1 <=> k = j + 2
    BY <1>0, <2>1, <2>2
  <2>5. ASSUME k = j + 2 PROVE p[1] = x[j + 2]
    <3>1. 1 \in 1 .. k - (j + 2) + 1
      BY <1>0, <2>5
    <3>. QED BY <2>1, <2>2, <3>1
  <2>. QED BY <2>3, <2>4, <2>5 DEF ParsePort
<1>. QED BY <1>1, <1>2

\* A path is never empty once it has begun.
LEMMA PathIs ==
  ASSUME NEW x \in Seq(Symbol), NEW j \in Nat, NEW k \in Nat, NEW q \in Nat,
         Marks(x, j, k, q), k # Len(x)
  PROVE  /\ EscapeAll(SubSeq(x, k + 1, q)) \in Seq(Symbol)
         /\ Hashless(EscapeAll(SubSeq(x, k + 1, q)))
         /\ x[k + 1] \in {"/", "?"}
         /\ StartsWith(EscapeAll(SubSeq(x, k + 1, q)), x[k + 1])
         /\ EscapeAll(SubSeq(x, k + 1, q)) # <<>>
         /\ EscapeAll(SubSeq(x, k + 1, q)) # None
<1>1. /\ k + 1 \in 1 .. Len(x) + 1 /\ q \in (k + 1) - 1 .. Len(x) /\ k + 1 <= q
      /\ x[k + 1] \in {"/", "?"} /\ \A i \in k + 1 .. q : x[i] # "#"
  BY LenProperties DEF Marks
<1>. DEFINE e == EscapeAll(SubSeq(x, k + 1, q))
<1>2. e \in Seq(Symbol) /\ Hashless(e) /\ StartsWith(e, x[k + 1])
  BY <1>1, EscapedPiece
<1>. HIDE DEF e
<1>3. e # <<>> /\ e # None
  BY <1>2, UrlAssumption DEF StartsWith
<1>. QED BY <1>1, <1>2, <1>3 DEF e

ParsedBy(t, from, x, j, k, q) ==
  ParseUrl(t, from, encode) = ByMarks(x, t[1] = "https", j, k, q, from)

LEMMA ParseIs ==
  ASSUME NEW t \in Seq(Symbol), HasProtocol(t), NEW from, NEW x, x = SubSeq(t, 5, Len(t)),
         NEW j \in Nat, NEW k \in Nat, NEW q \in Nat, Marks(x, j, k, q)
  PROVE  ParsedBy(t, from, x, j, k, q)
<1>0. x \in Seq(Symbol) /\ IsPrefix(Https, t) = (t[1] = "https")
  BY ProtocolIs
<1>1. Len(x) \in Nat /\ j <= k /\ k <= q /\ q <= Len(x) /\ (k = Len(x) \/ k < q)
  BY <1>0, LenProperties DEF Marks
<1>. DEFINE s == Turns(x, encode)[Len(x)]
            u == [https |-> IsPrefix(Https, t),
                  host |-> s.host,
                  port |-> ParsePort(s.port),
                  path_and_query |-> OrSlash(IF s.path = None THEN s.resource ELSE s.path),
                  fragment |-> IF s.path = None THEN Inherited(from) ELSE s.resource]
<1>2. ParseUrl(t, from, encode) = u
  BY DEF ParseUrl
<1>3. s = AfterTurn(x, j, k, q, Len(x))
  BY <1>0, LoopIs
<1>4. ParsePort(PortOfMarks(x, j, k)) = IF k = j + 2 THEN PortOf[x[j + 2]] ELSE None
  BY <1>0, PortIs
<1>. DEFINE path == EscapeAll(SubSeq(x, k + 1, q))
<1>5. k # Len(x) => path # <<>> /\ path # None
  BY <1>0, PathIs
<1>. HIDE DEF s
<1>6. s.host = SubSeq(x, 1, j) /\ s.port = PortOfMarks(x, j, k)
  <2>1. CASE Len(x) <= j
    <3>1. j = Len(x) /\ j = k
      BY <1>1, <2>1
    <3>. QED BY <1>3, <2>1, <3>1 DEF AfterTurn, InHost, State, PortOfMarks
  <2>2. CASE ~(Len(x) <= j) /\ Len(x) <= k
    <3>1. k = Len(x) /\ j # k
      BY <1>1, <2>2
    <3>. QED BY <1>3, <2>2, <3>1 DEF AfterTurn, InPort, State, PortOfMarks
  <2>3. CASE ~(Len(x) <= j) /\ ~(Len(x) <= k)
    BY <1>3, <2>3 DEF AfterTurn, InPath, InFragment, State
  <2>. QED BY <2>1, <2>2, <2>3
<1>7. q = Len(x) => s.path = None
  BY <1>1, <1>3 DEF AfterTurn, InHost, InPort, InPath, State
<1>8. /\ k = Len(x) => s.resource = <<>> /\ q = Len(x)
      /\ k # Len(x) /\ q = Len(x) => s.resource = path
      /\ q # Len(x) => s.path = path /\ s.resource = EscapeAll(SubSeq(x, q + 2, Len(x)))
  <2>1. CASE k = Len(x)
    BY <1>1, <1>3, <2>1 DEF AfterTurn, InHost, InPort, State
  <2>2. CASE k # Len(x)
    <3>1. ~(Len(x) <= j) /\ ~(Len(x) <= k) /\ (q # Len(x) => ~(Len(x) <= q))
      BY <1>1, <2>2
    <3>2. ASSUME q = Len(x) PROVE s.resource = path
      <4>1. Len(x) <= q
        BY <1>1, <3>2
      <4>2. s = InPath(x, j, k, q)
        BY <1>3, <3>1, <3>2, <4>1 DEF AfterTurn
      <4>. QED BY <4>2 DEF InPath, State
    <3>3. ASSUME q # Len(x) PROVE s.path = path /\ s.resource = EscapeAll(SubSeq(x, q + 2, Len(x)))
      <4>1. s = InFragment(x, j, k, q, Len(x))
        BY <1>3, <3>1, <3>3 DEF AfterTurn
      <4>. QED BY <4>1 DEF InFragment, State
    <3>. QED BY <2>2, <3>2, <3>3
  <2>. QED BY <2>1, <2>2
<1>. HIDE DEF path
<1>9. OrSlash(IF s.path = None THEN s.resource ELSE s.path)
        = IF k = Len(x) THEN <<"/">> ELSE path
  BY <1>5, <1>7, <1>8 DEF OrSlash
<1>10. (IF s.path = None THEN Inherited(from) ELSE s.resource)
        = IF q = Len(x) THEN Inherited(from) ELSE EscapeAll(SubSeq(x, q + 2, Len(x)))
  BY <1>1, <1>5, <1>7, <1>8
<1>11. ParseUrl(t, from, encode) = ByMarks(x, t[1] = "https", j, k, q, from)
  BY <1>0, <1>2, <1>4, <1>6, <1>9, <1>10 DEF ByMarks, path
<1>. QED BY <1>11 DEF ParsedBy

\* The loop of HttpUrl::parse computes what the documented grammar says, for
\* every text in which no fragment follows the authority at once.
THEOREM ParsesGrammar ==
  ASSUME NEW t \in Seq(Symbol), HasProtocol(t), PathFirst(t), NEW from
  PROVE  ParseUrl(t, from, encode) = Grammar(t, from)
<1>. DEFINE x == SubSeq(t, 5, Len(t))
<1>0. x \in Seq(Symbol)
  BY ProtocolIs
<1>1. Len(x) \in Nat
  BY <1>0, LenProperties
<1>2. \E j \in Nat, k \in Nat, q \in Nat :
        /\ Marks(x, j, k, q)
        /\ Upto(x, {"/", "?"}) = SubSeq(x, 1, k)
        /\ From(x, {"/", "?"}) = SubSeq(x, k + 1, Len(x))
        /\ Upto(SubSeq(x, 1, k), {":"}) = SubSeq(x, 1, j)
        /\ From(SubSeq(x, 1, k), {":"}) = SubSeq(x, j + 1, k)
        /\ Upto(SubSeq(x, k + 1, Len(x)), {"#"}) = SubSeq(x, k + 1, q)
        /\ From(SubSeq(x, k + 1, Len(x)), {"#"}) = SubSeq(x, q + 1, Len(x))
  <2>. HIDE DEF x
  <2>. QED BY <1>0, MarksExist
<1>3. PICK j \in Nat, k \in Nat, q \in Nat :
        /\ Marks(x, j, k, q)
        /\ Upto(x, {"/", "?"}) = SubSeq(x, 1, k)
        /\ From(x, {"/", "?"}) = SubSeq(x, k + 1, Len(x))
        /\ Upto(SubSeq(x, 1, k), {":"}) = SubSeq(x, 1, j)
        /\ From(SubSeq(x, 1, k), {":"}) = SubSeq(x, j + 1, k)
        /\ Upto(SubSeq(x, k + 1, Len(x)), {"#"}) = SubSeq(x, k + 1, q)
        /\ From(SubSeq(x, k + 1, Len(x)), {"#"}) = SubSeq(x, q + 1, Len(x))
  <2>. HIDE DEF x
  <2>. QED BY <1>2
<1>4. j <= k /\ k <= q /\ q <= Len(x) /\ (k = Len(x) \/ k < q)
  <2>. HIDE DEF x
  <2>. QED BY <1>1, <1>3 DEF Marks
<1>41. /\ Upto(x, {"/", "?", "#"}) = SubSeq(x, 1, k)
       /\ From(x, {"/", "?", "#"}) = SubSeq(x, k + 1, Len(x))
  <2>1. /\ k \in 0 .. Len(x) /\ (\A i \in 1 .. k : x[i] \notin {"/", "?"})
        /\ (k = Len(x) \/ x[k + 1] \in {"/", "?"})
    <3>. HIDE DEF x
    <3>. QED BY <1>1, <1>3, <1>4 DEF Marks
  <2>2. x = SubSeq(t, 5, Len(t))
    OBVIOUS
  <2>. HIDE DEF x
  <2>. QED BY <1>0, <2>1, <2>2, SameAuthority
<1>. DEFINE port == SubSeq(x, j + 1, k)
            path == SubSeq(x, k + 1, q)
            fragment == SubSeq(x, q + 1, Len(x))
<1>5. Grammar(t, from)
        = [https |-> t[1] = "https",
           host |-> SubSeq(x, 1, j),
           port |-> IF Len(port) = 2 THEN PortOf[port[2]] ELSE None,
           path_and_query |-> IF path = <<>> THEN <<"/">> ELSE EscapeAll(path),
           fragment |-> IF fragment # <<>> THEN EscapeAll(Tail(fragment)) ELSE Inherited(from)]
  BY <1>3, <1>41 DEF Grammar, Inherited
<1>6. ParseUrl(t, from, encode) = ByMarks(x, t[1] = "https", j, k, q, from)
  <2>1. Marks(x, j, k, q) /\ x = SubSeq(t, 5, Len(t))
    <3>1. Marks(x, j, k, q)
      <4>. HIDE DEF x
      <4>. QED BY <1>3
    <3>. QED BY <3>1
  <2>. HIDE DEF x
  <2>2. ParsedBy(t, from, x, j, k, q)
    BY <2>1, ParseIs, Zenon
  <2>. QED BY <2>2, Zenon DEF ParsedBy
<1>. HIDE DEF x
<1>7. (IF Len(port) = 2 THEN PortOf[port[2]] ELSE None)
        = IF k = j + 2 THEN PortOf[x[j + 2]] ELSE None
  <2>1. /\ j + 1 \in 1 .. Len(x) + 1 /\ k \in (j + 1) - 1 .. Len(x)
        /\ k - (j + 1) + 1 = k - j /\ (j + 1) + 2 - 1 = j + 2
    BY <1>1, <1>4
  <2>2. Len(port) = k - (j + 1) + 1 /\ \A i \in 1 .. k - (j + 1) + 1 : port[i] = x[(j + 1) + i - 1]
    BY <1>0, <2>1, Piece
  <2>. HIDE DEF port
  <2>3. Len(port) = 2 <=> k = j + 2
    BY <2>1, <2>2
  <2>4. ASSUME k = j + 2 PROVE port[2] = x[j + 2]
    <3>1. 2 \in 1 .. k - (j + 1) + 1
      BY <2>4
    <3>. QED BY <2>1, <2>2, <3>1
  <2>. QED BY <2>3, <2>4
<1>8. path = <<>> <=> k = Len(x)
  <2>1. k + 1 \in 1 .. Len(x) + 1 /\ q \in (k + 1) - 1 .. Len(x) /\ q - (k + 1) + 1 = q - k
    BY <1>1, <1>4
  <2>2. Len(path) = q - k /\ path \in Seq(Symbol)
    BY <1>0, <2>1, Piece
  <2>. HIDE DEF path
  <2>3. path = <<>> <=> Len(path) = 0
    BY <2>2, EmptySeq
  <2>. QED BY <1>1, <1>4, <2>2, <2>3
<1>9. /\ fragment # <<>> <=> q # Len(x)
      /\ q # Len(x) => Tail(fragment) = SubSeq(x, q + 2, Len(x))
  <2>1. /\ q + 1 \in 1 .. Len(x) + 1 /\ Len(x) \in (q + 1) - 1 .. Len(x)
        /\ Len(x) - (q + 1) + 1 = Len(x) - q
    BY <1>1, <1>4
  <2>2. Len(fragment) = Len(x) - q /\ fragment \in Seq(Symbol)
    BY <1>0, <2>1, Piece
  <2>3. fragment = <<>> <=> Len(fragment) = 0
    <3>. HIDE DEF fragment
    <3>. QED BY <2>2, EmptySeq
  <2>4. ASSUME q # Len(x) PROVE Tail(fragment) = SubSeq(x, q + 2, Len(x))
    <3>1. /\ q + 1 \in 1 .. Len(x) /\ Len(x) \in 1 .. Len(x) /\ q + 1 <= Len(x)
          /\ (q + 1) + 1 = q + 2
      BY <1>1, <1>4, <2>4
    <3>2. Tail(fragment) = SubSeq(x, (q + 1) + 1, Len(x))
      BY <1>0, <3>1, HeadTailOfSubSeq
    <3>. QED BY <3>1, <3>2
  <2>. HIDE DEF fragment
  <2>5. Len(fragment) = 0 <=> q = Len(x)
    BY <1>1, <1>4, <2>2
  <2>. QED BY <2>3, <2>4, <2>5
<1>10. (IF path = <<>> THEN <<"/">> ELSE EscapeAll(path))
         = IF k = Len(x) THEN <<"/">> ELSE EscapeAll(SubSeq(x, k + 1, q))
  BY <1>8
<1>11. (IF fragment # <<>> THEN EscapeAll(Tail(fragment)) ELSE Inherited(from))
         = IF q = Len(x) THEN Inherited(from) ELSE EscapeAll(SubSeq(x, q + 2, Len(x)))
  <2>. HIDE DEF fragment
  <2>. QED BY <1>9
<1>. HIDE DEF port, path, fragment
<1>. QED BY <1>5, <1>6, <1>7, <1>10, <1>11 DEF ByMarks
-------------------------------------------------------------------------------
(* Every URL of a chain is well-formed and made of the text that was asked *)
(* for.                                                                    *)

WellFormed(u) ==
  /\ u \in HttpUrl
  /\ \A i \in 1 .. Len(u.host) : u.host[i] \notin {"/", "?", ":"}
  /\ \E c \in {"/", "?"} : StartsWith(u.path_and_query, c)

\* Nothing in it has to be escaped once more, and its path has a # only from
\* with_param.
Fit(u) ==
  /\ encode => Settled(u.path_and_query) /\ (u.fragment # None => Settled(u.fragment))
  /\ Hashless(params) => Hashless(u.path_and_query)

LEMMA SlashIs ==
  /\ <<"/">> \in Seq(Symbol) /\ StartsWith(<<"/">>, "/") /\ Hashless(<<"/">>)
  /\ Settled(<<"/">>)
<1>1. "/" \in Symbol /\ Escape["/"] = <<"/">>
  BY UrlAssumption
<1>. DEFINE s == <<"/">>
<1>2. s \in Seq(Symbol) /\ Len(s) = 1 /\ s[1] = "/"
  BY <1>1
<1>3. Escape["/"] = s
  BY <1>1
<1>. HIDE DEF s
<1>4. \A i \in 1 .. Len(s) : s[i] = "/"
  BY <1>2
<1>5. StartsWith(s, "/") /\ Hashless(s)
  BY <1>2, <1>4 DEF StartsWith, Hashless
<1>6. Settled(s)
  BY <1>1, <1>4 DEF Settled
<1>. QED BY <1>2, <1>5, <1>6 DEF s

LEMMA ParsedWell ==
  ASSUME NEW t \in Seq(Symbol), HasProtocol(t), NEW from,
         from = None \/ (from \in HttpUrl /\ Fit(from))
  PROVE  WellFormed(ParseUrl(t, from, encode)) /\ Fit(ParseUrl(t, from, encode))
<1>. DEFINE x == SubSeq(t, 5, Len(t))
            u == ParseUrl(t, from, encode)
<1>1. x \in Seq(Symbol)
  BY ProtocolIs
<1>2. PICK j \in Nat, k \in Nat, q \in Nat : Marks(x, j, k, q)
  <2>. HIDE DEF x
  <2>. QED BY <1>1, MarksExist
<1>3. u = ByMarks(x, t[1] = "https", j, k, q, from)
  <2>1. x = SubSeq(t, 5, Len(t))
    OBVIOUS
  <2>. HIDE DEF x
  <2>2. ParsedBy(t, from, x, j, k, q)
    BY <1>2, <2>1, ParseIs, Zenon
  <2>. QED BY <2>2, Zenon DEF ParsedBy
<1>. DEFINE h == SubSeq(x, 1, j)
            p == IF k = Len(x) THEN <<"/">> ELSE EscapeAll(SubSeq(x, k + 1, q))
            f == IF q = Len(x) THEN Inherited(from) ELSE EscapeAll(SubSeq(x, q + 2, Len(x)))
            n == IF k = j + 2 THEN PortOf[x[j + 2]] ELSE None
<1>4. u = [https |-> (t[1] = "https"), host |-> h, port |-> n, path_and_query |-> p, fragment |-> f]
  BY <1>3 DEF ByMarks
<1>. HIDE DEF x, u
<1>5. /\ Len(x) \in Nat /\ j <= k /\ k <= q /\ q <= Len(x)
      /\ \A i \in 1 .. j : x[i] # ":"
      /\ \A i \in 1 .. k : x[i] \notin {"/", "?"}
  BY <1>1, <1>2, LenProperties DEF Marks
<1>6. h \in Seq(Symbol) /\ \A i \in 1 .. Len(h) : h[i] \notin {"/", "?", ":"}
  <2>1. 1 \in 1 .. Len(x) + 1 /\ j \in 1 - 1 .. Len(x) /\ j - 1 + 1 = j /\ \A i \in 1 .. j : 1 + i - 1 = i /\ i \in 1 .. k
    BY <1>5
  <2>2. h \in Seq(Symbol) /\ Len(h) = j - 1 + 1 /\ \A i \in 1 .. j - 1 + 1 : h[i] = x[1 + i - 1]
    BY <1>1, <2>1, Piece
  <2>. HIDE DEF h
  <2>3. Len(h) = j /\ \A i \in 1 .. j : h[i] = x[i]
    BY <2>1, <2>2
  <2>. QED BY <1>5, <2>1, <2>2, <2>3
<1>7. n \in {None} \cup {PortOf[w] : w \in Symbol}
  <2>1. CASE k = j + 2
    <3>1. j + 2 \in 1 .. Len(x)
      BY <1>5, <2>1
    <3>2. x[j + 2] \in Symbol
      BY <1>1, <3>1, ElementOfSeq
    <3>. QED BY <2>1, <3>2
  <2>2. CASE k # j + 2
    BY <2>2
  <2>. QED BY <2>1, <2>2
<1>8. /\ p \in Seq(Symbol) /\ Hashless(p) /\ (encode => Settled(p))
      /\ \E c \in {"/", "?"} : StartsWith(p, c)
  <2>1. CASE k = Len(x)
    BY <2>1, SlashIs
  <2>2. CASE k # Len(x)
    <3>1. k + 1 \in 1 .. Len(x) + 1 /\ q \in (k + 1) - 1 .. Len(x)
      BY <1>5
    <3>2. encode => Settled(EscapeAll(SubSeq(x, k + 1, q)))
      BY <1>1, <3>1, EscapedPiece
    <3>. QED BY <1>1, <1>2, <2>2, <3>2, PathIs
  <2>. QED BY <2>1, <2>2
<1>9. f \in {None} \cup Seq(Symbol) /\ (encode /\ f # None => Settled(f))
  <2>1. CASE q = Len(x)
    <3>1. f = IF from = None THEN None ELSE from.fragment
      BY <2>1 DEF Inherited
    <3>2. from \in HttpUrl => from.fragment \in {None} \cup Seq(Symbol)
      BY DEF HttpUrl
    <3>. QED BY <3>1, <3>2 DEF Fit
  <2>2. CASE q # Len(x)
    <3>1. q + 2 \in 1 .. Len(x) + 1 /\ Len(x) \in (q + 2) - 1 .. Len(x)
      BY <1>5, <2>2
    <3>. QED BY <1>1, <2>2, <3>1, EscapedPiece
  <2>. QED BY <2>1, <2>2
<1>. HIDE DEF h, p, f, n
<1>10. u \in HttpUrl
  BY <1>4, <1>6, <1>7, <1>8, <1>9 DEF HttpUrl
<1>11. u.host = h /\ u.path_and_query = p /\ u.fragment = f
  BY <1>4
<1>12. WellFormed(u)
  BY <1>6, <1>8, <1>10, <1>11 DEF WellFormed
<1>13. Fit(u)
  BY <1>8, <1>9, <1>11 DEF Fit
<1>. QED BY <1>12, <1>13 DEF u

\* The parameters go behind the path.
LEMMA QueryWell ==
  ASSUME NEW u, WellFormed(u), Fit(u), params \in Seq(Symbol), encode => Settled(params)
  PROVE  WellFormed(WithQuery(u)) /\ Fit(WithQuery(u))
<1>1. CASE params = <<>>
  BY <1>1 DEF WithQuery
<1>2. CASE params # <<>>
  <2>. DEFINE s == IF "?" \in ToSet(u.path_and_query) THEN <<"&">> ELSE <<"?">>
              p == (u.path_and_query \o s) \o params
              v == WithQuery(u)
  <2>1. \A c \in {"&", "?"} : <<c>> \in Seq(Symbol) /\ Hashless(<<c>>) /\ Settled(<<c>>)
    <3>. SUFFICES ASSUME NEW c \in {"&", "?"}
                  PROVE  <<c>> \in Seq(Symbol) /\ Hashless(<<c>>) /\ Settled(<<c>>)
      OBVIOUS
    <3>. DEFINE r == <<c>>
    <3>1. c \in Symbol /\ Escape[c] = r /\ c # "#"
      BY UrlAssumption
    <3>2. r \in Seq(Symbol) /\ Len(r) = 1 /\ r[1] = c
      BY <3>1
    <3>3. <<c>> = r
      OBVIOUS
    <3>. HIDE DEF r
    <3>4. \A i \in 1 .. Len(r) : r[i] = c
      BY <3>2
    <3>. QED BY <3>1, <3>2, <3>3, <3>4 DEF Hashless, Settled
  <2>2. s \in Seq(Symbol) /\ Hashless(s) /\ Settled(s)
    BY <2>1
  <2>3. v = [u EXCEPT !.path_and_query = p]
    BY <1>2 DEF WithQuery
  <2>. HIDE DEF s, v
  <2>4. u.path_and_query \in Seq(Symbol) /\ u.path_and_query \o s \in Seq(Symbol)
    BY <2>2, JoinKeeps DEF WellFormed, HttpUrl
  <2>5. p \in Seq(Symbol) /\ \E c \in {"/", "?"} : StartsWith(p, c)
    BY <2>2, <2>4, JoinKeeps DEF WellFormed
  <2>6. encode => Settled(p)
    BY <2>2, <2>4, JoinKeeps DEF Fit
  <2>7. Hashless(params) => Hashless(p)
    BY <2>2, <2>4, JoinKeeps DEF Fit
  <2>. HIDE DEF p
  <2>8. v \in HttpUrl /\ v.path_and_query = p /\ v.host = u.host /\ v.fragment = u.fragment
    BY <2>3, <2>5 DEF WellFormed, HttpUrl
  <2>9. WellFormed(v)
    BY <2>5, <2>8 DEF WellFormed
  <2>10. Fit(v)
    BY <2>6, <2>7, <2>8 DEF Fit
  <2>. QED BY <2>9, <2>10 DEF v
<1>. QED BY <1>1, <1>2

\* The grammar of the next state is that of this one: the build stays.
LEMMA GrammarNext ==
  ASSUME NEW t, NEW from, asked' = t, redirects' # <<>>, Last(redirects') = from,
         PathFirst(t) => url' = Grammar(t, from), encode' = encode, params' = params
  PROVE  UrlGrammar'
<1>1. PathFirst(asked)' <=> PathFirst(t)
  BY DEF PathFirst
<1>2. Grammar(asked, Last(redirects))' = Grammar(t, from)
  BY DEF Grammar, EscapeAll
<1>3. PathFirst(t) => AsDocumented'
  BY <1>2 DEF AsDocumented
<1>. QED BY <1>1, <1>3, Zenon DEF UrlGrammar

LEMMA GrammarFirst ==
  ASSUME NEW t, asked' = t, redirects' = <<>>,
         PathFirst(t) => url' = WithQuery(Grammar(t, None)), encode' = encode, params' = params
  PROVE  UrlGrammar'
<1>1. PathFirst(asked)' <=> PathFirst(t)
  BY DEF PathFirst
<1>2. Grammar(asked, None)' = Grammar(t, None)
  BY DEF Grammar, EscapeAll
<1>3. WithQuery(Grammar(asked, None))' = WithQuery(Grammar(t, None))
  BY <1>2 DEF WithQuery
<1>4. PathFirst(t) => AsDocumented'
  BY <1>3 DEF AsDocumented
<1>. QED BY <1>1, <1>4, Zenon DEF UrlGrammar

LEMMA GrammarUnchanged ==
  ASSUME UrlGrammar, UNCHANGED <<url, redirects, asked, params, encode>>
  PROVE  UrlGrammar'
<1>1. CASE url = None
  BY <1>1 DEF UrlGrammar
<1>2. CASE url # None /\ redirects = <<>>
  <2>1. PathFirst(asked) => url' = WithQuery(Grammar(asked, None))
    BY <1>2 DEF UrlGrammar, AsDocumented
  <2>. QED BY <1>2, <2>1, GrammarFirst
<1>3. CASE url # None /\ redirects # <<>>
  <2>1. PathFirst(asked) => url' = Grammar(asked, Last(redirects))
    BY <1>3 DEF UrlGrammar, AsDocumented
  <2>. QED BY <1>3, <2>1, GrammarNext
<1>. QED BY <1>1, <1>2, <1>3

\* What with_param appends.
LEMMA ParamKeeps ==
  ASSUME params \in Seq(Symbol), encode => Settled(params), NEW k \in Words, NEW v \in Words,
         NEW p, p = params \o (IF params = <<>> THEN <<>> ELSE <<"&">>)
                      \o Encoded(k) \o <<"=">> \o Encoded(v)
  PROVE  p \in Seq(Symbol) /\ (encode => Settled(p))
<1>1. \A w \in Words : Encoded(w) \in Seq(Symbol) /\ (encode => Settled(Encoded(w)))
  <2>. SUFFICES ASSUME NEW w \in Words
                PROVE  Encoded(w) \in Seq(Symbol) /\ (encode => Settled(Encoded(w)))
    OBVIOUS
  <2>1. Encoded(w) \in Seq(Symbol)
    BY TextAssumption DEF Encoded
  <2>2. ASSUME encode PROVE Settled(Encoded(w))
    <3>. DEFINE e == Encoded(w)
    <3>1. e = ParamEscape[w]
      BY <2>2 DEF Encoded
    <3>. HIDE DEF e
    <3>2. CASE "%" \in ToSet(e)
      <4>1. ToSet(e) = {e[i] : i \in 1 .. Len(e)}
        BY <2>1, LenProperties DEF ToSet, e
      <4>2. Settled(e)
        BY <3>2, <4>1 DEF Settled
      <4>. QED BY <4>2 DEF e
    <3>3. CASE e = <<w>> /\ Escape[w] = <<w>>
      <4>1. Len(e) = 1 /\ e[1] = w
        BY <3>3
      <4>2. \A i \in 1 .. Len(e) : e[i] = w
        BY <4>1
      <4>3. Settled(e)
        BY <3>3, <4>2 DEF Settled
      <4>. QED BY <4>3 DEF e
    <3>. QED BY <3>1, <3>2, <3>3, TextAssumption
  <2>. QED BY <2>1, <2>2
<1>2. \A c \in {"&", "="} : <<c>> \in Seq(Symbol) /\ Settled(<<c>>)
  <2>. SUFFICES ASSUME NEW c \in {"&", "="}
                PROVE  <<c>> \in Seq(Symbol) /\ Settled(<<c>>)
    OBVIOUS
  <2>. DEFINE r == <<c>>
  <2>1. c \in Symbol /\ Escape[c] = r
    BY UrlAssumption
  <2>2. r \in Seq(Symbol) /\ Len(r) = 1 /\ r[1] = c
    BY <2>1
  <2>3. <<c>> = r
    OBVIOUS
  <2>. HIDE DEF r
  <2>4. \A i \in 1 .. Len(r) : r[i] = c
    BY <2>2
  <2>. QED BY <2>1, <2>2, <2>3, <2>4 DEF Settled
<1>. DEFINE s == IF params = <<>> THEN <<>> ELSE <<"&">>
            e == <<"=">>
            p1 == params \o s
            p2 == p1 \o Encoded(k)
            p3 == p2 \o e
            p4 == p3 \o Encoded(v)
<1>3. s \in Seq(Symbol) /\ Settled(s) /\ e \in Seq(Symbol) /\ Settled(e)
  BY <1>2, NothingHashless
<1>4. p = p4
  OBVIOUS
<1>. HIDE DEF s, e
<1>5. p1 \in Seq(Symbol) /\ (encode => Settled(p1))
  BY <1>3, JoinKeeps
<1>. HIDE DEF p1
<1>6. p2 \in Seq(Symbol) /\ (encode => Settled(p2))
  BY <1>1, <1>5, JoinKeeps
<1>. HIDE DEF p2
<1>7. p3 \in Seq(Symbol) /\ (encode => Settled(p3))
  BY <1>3, <1>6, JoinKeeps
<1>. HIDE DEF p3
<1>8. p4 \in Seq(Symbol) /\ (encode => Settled(p4))
  BY <1>1, <1>7, JoinKeeps
<1>. QED BY <1>4, <1>8

PortText(u) == IF u.port = None THEN <<>> ELSE <<":", WordOf[u.port]>>

\* A port that is printed is a word, and parsed as the same port again.
LEMMA PortTextIs ==
  ASSUME NEW u \in HttpUrl
  PROVE  /\ PortText(u) \in Seq(Symbol)
         /\ u.port = None => PortText(u) = <<>>
         /\ u.port # None => /\ PortText(u) = <<":", WordOf[u.port]>>
                             /\ WordOf[u.port] \in Symbol
                             /\ WordOf[u.port] \notin {":", "/", "?", "#"}
                             /\ PortOf[WordOf[u.port]] = u.port
<1>1. CASE u.port = None
  BY <1>1 DEF PortText
<1>2. CASE u.port # None
  <2>1. PICK w \in Symbol : u.port = PortOf[w]
    BY <1>2 DEF HttpUrl
  <2>2. WordOf[u.port] \in Symbol /\ PortOf[WordOf[u.port]] = u.port
    BY <1>2, <2>1, UrlAssumption
  <2>3. WordOf[u.port] \notin {":", "/", "?", "#"}
    BY <1>2, <2>2, UrlAssumption
  <2>4. PortText(u) = <<":", WordOf[u.port]>> /\ ":" \in Symbol
    BY <1>2, UrlAssumption DEF PortText
  <2>5. PortText(u) \in Seq(Symbol)
    BY <2>2, <2>4
  <2>. QED BY <1>2, <2>2, <2>3, <2>4, <2>5
<1>. QED BY <1>1, <1>2

Scheme(u) == IF u.https THEN Https ELSE Http

LEMMA SchemeIs ==
  ASSUME NEW u \in HttpUrl
  PROVE  /\ Scheme(u) \in Seq(Symbol) /\ Len(Scheme(u)) = 4
         /\ (Scheme(u)[1] = "https") = u.https
<1>1. {"http", "https", ":", "/"} \subseteq Symbol
  BY UrlAssumption
<1>2. Https \in Seq(Symbol) /\ Http \in Seq(Symbol) /\ Len(Https) = 4 /\ Len(Http) = 4
  BY <1>1 DEF Https, Http
<1>3. Https[1] = "https" /\ Http[1] = "http"
  BY DEF Https, Http
<1>4. CASE u.https
  BY <1>2, <1>3, <1>4 DEF Scheme
<1>5. CASE ~u.https
  <2>1. u.https = FALSE
    BY <1>5 DEF HttpUrl
  <2>. QED BY <1>2, <1>3, <2>1 DEF Scheme
<1>. QED BY <1>4, <1>5

LEMMA BaseTyped ==
  ASSUME NEW u \in HttpUrl
  PROVE  /\ WriteBaseUrl(u) = (Scheme(u) \o u.host) \o PortText(u)
         /\ WriteBaseUrl(u) \in Seq(Symbol)
<1>1. WriteBaseUrl(u) = (Scheme(u) \o u.host) \o PortText(u)
  BY DEF WriteBaseUrl, Scheme, PortText
<1>2. PortText(u) \in Seq(Symbol) /\ u.host \in Seq(Symbol) /\ Scheme(u) \in Seq(Symbol)
  BY PortTextIs, SchemeIs DEF HttpUrl
<1>3. Scheme(u) \o u.host \in Seq(Symbol)
  BY <1>2, JoinKeeps
<1>4. (Scheme(u) \o u.host) \o PortText(u) \in Seq(Symbol)
  BY <1>2, <1>3, JoinKeeps
<1>. QED BY <1>1, <1>4

LEMMA ResolvedTyped ==
  ASSUME NEW l \in Locations, url \in HttpUrl
  PROVE  Resolved(l) \in Seq(Symbol)
<1>1. l \in Seq(Symbol)
  BY TextAssumption
<1>2. WriteBaseUrl(url) \o l \in Seq(Symbol)
  BY <1>1, BaseTyped, JoinKeeps
<1>. QED BY <1>1, <1>2 DEF Resolved
-------------------------------------------------------------------------------
(* The invariant of a chain.                                               *)

Arguments ==
  /\ caller \in Callers
  /\ asked \in Seq(Symbol)
  /\ params \in Seq(Symbol)
  /\ encode => Settled(params)

Chain ==
  /\ stage \in {"build", "send", "sent", "done"} \cup Failures
  /\ redirects \in Seq(HttpUrl)
  /\ Len(redirects) <= caller.max_redirects + 1
  /\ stage \in {"build", "send", "sent"} => Len(redirects) <= caller.max_redirects
  /\ stage = "build" => url = None /\ redirects = <<>> /\ asked = caller.text
  /\ stage \in {"send", "sent", "done"} => url # None
  /\ url # None => WellFormed(url) /\ Fit(url)

UrlInv == Arguments /\ Chain /\ UrlGrammar

LEMMA UrlInit ==
  ASSUME Init
  PROVE  UrlInv
<1>1. caller \in Callers /\ asked = caller.text /\ params = <<>> /\ redirects = <<>>
      /\ url = None /\ stage = "build"
  BY DEF Init
<1>2. caller.text \in Seq(Symbol) /\ caller.max_redirects \in Nat
  BY <1>1, TextAssumption
<1>3. Arguments
  BY <1>1, <1>2, NothingHashless DEF Arguments
<1>4. redirects \in Seq(HttpUrl) /\ Len(redirects) = 0
  BY <1>1
<1>5. Chain
  BY <1>1, <1>2, <1>4 DEF Chain
<1>6. UrlGrammar
  BY <1>1 DEF UrlGrammar
<1>. QED BY <1>3, <1>5, <1>6 DEF UrlInv

\* What leaves the URL and the parameters alone.
LEMMA UrlStays ==
  ASSUME UrlInv, UNCHANGED <<encode, caller, params, url, redirects, asked>>,
         \/ stage' = stage
         \/ stage' \in Failures
         \/ stage = "send" /\ stage' = "sent"
         \/ stage = "sent" /\ stage' = "done"
  PROVE  UrlInv'
<1>1. UrlGrammar'
  BY GrammarUnchanged DEF UrlInv
<1>2. Arguments'
  BY DEF UrlInv, Arguments
<1>3. url # None => (WellFormed(url) /\ Fit(url))'
  BY DEF UrlInv, Chain, WellFormed, Fit
<1>4. /\ redirects' \in Seq(HttpUrl)
      /\ Len(redirects') <= caller'.max_redirects + 1
  BY DEF UrlInv, Chain
<1>5. /\ stage' \in {"build", "send", "sent", "done"} \cup Failures
      /\ stage' \in {"build", "send", "sent"} => Len(redirects') <= caller'.max_redirects
      /\ stage' = "build" => url' = None /\ redirects' = <<>> /\ asked' = caller'.text
      /\ stage' \in {"send", "sent", "done"} => url' # None
  BY DEF UrlInv, Chain
<1>6. Chain'
  BY <1>3, <1>4, <1>5 DEF Chain
<1>. QED BY <1>1, <1>2, <1>6 DEF UrlInv

\* The builder: there is no URL yet.
LEMMA UrlBuilder ==
  ASSUME UrlInv, stage = "build", stage' \in {"build"} \cup Failures,
         UNCHANGED <<encode, caller, url, redirects, asked>>,
         params' \in Seq(Symbol), encode => Settled(params')
  PROVE  UrlInv'
<1>1. url' = None
  BY DEF UrlInv, Chain
<1>2. UrlGrammar'
  BY <1>1 DEF UrlGrammar
<1>3. Arguments'
  BY DEF UrlInv, Arguments
<1>4. Chain'
  BY <1>1 DEF UrlInv, Chain
<1>. QED BY <1>2, <1>3, <1>4 DEF UrlInv

LEMMA UrlFirst ==
  ASSUME UrlInv, NewParsedRequest
  PROVE  UrlInv'
<1>0. /\ UNCHANGED <<encode, caller, params, redirects, asked>> /\ stage = "build"
      /\ redirects = <<>> /\ asked = caller.text /\ asked \in Seq(Symbol)
      /\ params \in Seq(Symbol) /\ (encode => Settled(params))
  BY DEF UrlInv, Chain, Arguments, NewParsedRequest, request
<1>1. CASE UNCHANGED url /\ stage' = "IoError"
  BY <1>0, <1>1, UrlStays
<1>2. CASE /\ HasProtocol(caller.text)
           /\ url' = WithQuery(ParseUrl(caller.text, None, encode))
           /\ stage' = "send"
  <2>. DEFINE u == ParseUrl(asked, None, encode)
              v == WithQuery(u)
  <2>1. PathFirst(asked) => u = Grammar(asked, None)
    BY <1>0, <1>2, ParsesGrammar
  <2>2. WellFormed(u) /\ Fit(u)
    BY <1>0, <1>2, ParsedWell
  <2>3. url' = v
    BY <1>0, <1>2
  <2>. HIDE DEF u
  <2>4. WellFormed(v) /\ Fit(v)
    BY <1>0, <2>2, QueryWell
  <2>5. PathFirst(asked) => url' = WithQuery(Grammar(asked, None))
    BY <2>1, <2>3
  <2>. HIDE DEF v
  <2>6. UrlGrammar'
    BY <1>0, <2>5, GrammarFirst
  <2>7. Arguments'
    BY <1>0 DEF UrlInv, Arguments
  <2>8. (WellFormed(url) /\ Fit(url))'
    BY <1>0, <2>3, <2>4 DEF WellFormed, Fit
  <2>9. url' # None
    BY <2>3, <2>4, UrlAssumption DEF WellFormed
  <2>10. Chain'
    BY <1>0, <1>2, <2>8, <2>9 DEF UrlInv, Chain
  <2>. QED BY <2>6, <2>7, <2>10 DEF UrlInv
<1>. QED BY <1>1, <1>2 DEF NewParsedRequest

LEMMA UrlRedirected ==
  ASSUME UrlInv, RedirectTo
  PROVE  UrlInv'
<1>0. /\ UNCHANGED <<encode, caller, params>> /\ stage = "sent" /\ url # None
      /\ WellFormed(url) /\ Fit(url) /\ redirects \in Seq(HttpUrl)
      /\ Len(redirects) <= caller.max_redirects
      /\ params \in Seq(Symbol) /\ (encode => Settled(params)) /\ caller.max_redirects \in Nat
  BY TextAssumption DEF UrlInv, Chain, Arguments, RedirectTo, request
<1>1. PICK l \in Locations, status \in Statuses :
       \/ /\ stage' = "IoError"
          /\ UNCHANGED <<url, redirects, asked>>
       \/ /\ HasProtocol(Resolved(l))
          /\ asked' = Resolved(l)
          /\ url' = ParseUrl(Resolved(l), url, encode)
          /\ redirects' = Append(redirects, url)
          /\ stage' = IF Len(redirects') > caller.max_redirects THEN "TooManyRedirections"
                      ELSE IF Visited(url') \/ url' = url THEN "InfiniteRedirectionLoop"
                      ELSE "send"
  BY DEF RedirectTo
<1>2. CASE UNCHANGED <<url, redirects, asked>> /\ stage' = "IoError"
  BY <1>0, <1>2, UrlStays
<1>3. CASE /\ HasProtocol(Resolved(l))
           /\ asked' = Resolved(l)
           /\ url' = ParseUrl(Resolved(l), url, encode)
           /\ redirects' = Append(redirects, url)
           /\ stage' = IF Len(redirects') > caller.max_redirects THEN "TooManyRedirections"
                       ELSE IF Visited(url') \/ url' = url THEN "InfiniteRedirectionLoop"
                       ELSE "send"
  <2>. DEFINE t == Resolved(l)
              u == ParseUrl(t, url, encode)
  <2>1. t \in Seq(Symbol) /\ url \in HttpUrl
    BY <1>0, ResolvedTyped DEF WellFormed
  <2>2. PathFirst(t) => u = Grammar(t, url)
    <3>. HIDE DEF t
    <3>. QED BY <1>3, <2>1, ParsesGrammar DEF t
  <2>3. WellFormed(u) /\ Fit(u)
    <3>. HIDE DEF t
    <3>1. HasProtocol(t)
      BY <1>3 DEF t
    <3>. QED BY <1>0, <2>1, <3>1, ParsedWell
  <2>4. url' = u /\ asked' = t
    BY <1>3
  <2>. HIDE DEF u, t
  <2>5. redirects' \in Seq(HttpUrl) /\ Len(redirects') = Len(redirects) + 1 /\ redirects' # <<>>
        /\ Last(redirects') = url
    <3>1. redirects' = Append(redirects, url) /\ Len(redirects) \in Nat
      BY <1>0, <1>3, LenProperties
    <3>2. redirects' \in Seq(HttpUrl) /\ Len(redirects') = Len(redirects) + 1
          /\ redirects'[Len(redirects) + 1] = url
      BY <1>0, <2>1, <3>1, AppendProperties
    <3>3. redirects' # <<>>
      BY <3>1, <3>2
    <3>. QED BY <3>2, <3>3 DEF Last
  <2>6. UrlGrammar'
    BY <1>0, <2>2, <2>4, <2>5, GrammarNext
  <2>7. Arguments'
    BY <1>0, <2>1, <2>4 DEF UrlInv, Arguments
  <2>8. (WellFormed(url) /\ Fit(url))'
    BY <1>0, <2>3, <2>4 DEF WellFormed, Fit
  <2>9. url' # None
    BY <2>3, <2>4, UrlAssumption DEF WellFormed
  <2>10. /\ stage' \in {"TooManyRedirections", "InfiniteRedirectionLoop", "send"}
         /\ stage' = "send" => Len(redirects') <= caller.max_redirects
    <3>1. Len(redirects') \in Nat
      BY <2>5, LenProperties
    <3>. QED BY <1>0, <1>3, <3>1
  <2>11. Len(redirects') <= caller.max_redirects + 1
    BY <1>0, <2>5, LenProperties
  <2>12. Chain'
    BY <1>0, <2>5, <2>8, <2>9, <2>10, <2>11 DEF Chain
  <2>. QED BY <2>6, <2>7, <2>12 DEF UrlInv
<1>. QED BY <1>1, <1>2, <1>3

LEMMA UrlStep ==
  ASSUME UrlInv, [Next]_vars
  PROVE  UrlInv'
<1>0. params \in Seq(Symbol) /\ (encode => Settled(params))
  BY DEF UrlInv, Arguments
<1>1. CASE WithHeader \/ WithBody
  BY <1>1, UrlStays DEF WithHeader, WithBody
<1>2. CASE WithJson
  <2>1. stage' = stage \/ stage' \in Failures
    BY <1>2 DEF WithJson
  <2>. QED BY <1>2, <2>1, UrlStays DEF WithJson
<1>3. CASE WithParam
  <2>1. PICK k \in Words, v \in Words :
          params' = params \o (IF params = <<>> THEN <<>> ELSE <<"&">>)
                      \o Encoded(k) \o <<"=">> \o Encoded(v)
    BY <1>3 DEF WithParam
  <2>2. params' \in Seq(Symbol) /\ (encode => Settled(params'))
    BY <1>0, <2>1, ParamKeeps
  <2>3. /\ stage = "build" /\ stage' = "build"
        /\ UNCHANGED <<encode, caller, url, redirects, asked>>
    BY <1>3 DEF WithParam, Building
  <2>. QED BY <2>2, <2>3, UrlBuilder
<1>4. CASE NewParsedRequest
  BY <1>4, UrlFirst
<1>5. CASE WriteRequest
  BY <1>5, UrlStays DEF WriteRequest, request
<1>6. CASE RedirectTo
  BY <1>6, UrlRedirected
<1>7. CASE Destination
  BY <1>7, UrlStays DEF Destination, request
<1>8. CASE Terminated \/ UNCHANGED vars
  BY <1>8, UrlStays DEF Terminated, vars
<1>. QED
  BY <1>1, <1>2, <1>3, <1>4, <1>5, <1>6, <1>7, <1>8 DEF Next

LEMMA UrlInvariance == Spec => []UrlInv
<1>1. Init => UrlInv
  BY UrlInit
<1>2. UrlInv /\ [Next]_vars => UrlInv'
  BY UrlStep
<1>. QED BY <1>1, <1>2, PTL DEF Spec

\* Every hop's URL has a host without separators and a path that begins with /
\* or ?, and a chain is never longer than max_redirects allows.
THEOREM RequestTyping == Spec => []TypeOK
<1>1. UrlInv => TypeOK
  <2>. SUFFICES ASSUME UrlInv PROVE TypeOK
    OBVIOUS
  <2>1. ASSUME url # None
        PROVE  /\ url \in HttpUrl
               /\ url.path_and_query # <<>>
               /\ url.path_and_query[1] \in {"/", "?"}
               /\ {"/", "?", ":"} \cap ToSet(url.host) = {}
    <3>1. WellFormed(url)
      BY <2>1 DEF UrlInv, Chain
    <3>2. ToSet(url.host) = {url.host[i] : i \in 1 .. Len(url.host)}
      <4>1. url.host \in Seq(Symbol)
        BY <3>1 DEF WellFormed, HttpUrl
      <4>. QED BY <4>1, LenProperties DEF ToSet
    <3>3. {"/", "?", ":"} \cap ToSet(url.host) = {}
      BY <3>1, <3>2 DEF WellFormed
    <3>. QED BY <3>1, <3>3 DEF WellFormed, StartsWith
  <2>. QED BY <2>1 DEF UrlInv, Chain, TypeOK
<1>. QED BY <1>1, UrlInvariance, PTL

\* The URL of every hop is what the documented grammar makes of the text that
\* was parsed for it, whatever the caller, the parameters and the servers'
\* Locations are, unless a fragment follows the authority of that text at once.
THEOREM ChainFollowsGrammar == Spec => []UrlGrammar
<1>1. UrlInv => UrlGrammar
  BY DEF UrlInv
<1>. QED BY <1>1, UrlInvariance, PTL
-------------------------------------------------------------------------------
(* What is sent to the server.                                             *)

LEMMA HashlessIs ==
  ASSUME NEW s \in Seq(Symbol)
  PROVE  "#" \notin ToSet(s) <=> Hashless(s)
<1>1. ToSet(s) = {s[i] : i \in 1 .. Len(s)}
  BY LenProperties DEF ToSet
<1>. QED BY <1>1 DEF Hashless

\* The head is that of the URL the request is about.
HeadKept ==
  stage = "sent" => head.target = url.path_and_query /\ head.host = url.host \o PortText(url)

LEMMA HeadStep ==
  ASSUME HeadKept, [Next]_vars
  PROVE  HeadKept'
<1>1. CASE WriteRequest
  <2>1. head'.target = url.path_and_query /\ head'.host = url.host \o PortText(url) /\ url' = url
    BY <1>1 DEF WriteRequest, Target, PortText
  <2>2. PortText(url)' = PortText(url)
    BY <2>1 DEF PortText
  <2>. QED BY <2>1, <2>2 DEF HeadKept
<1>2. ASSUME stage' # "sent" PROVE HeadKept'
  BY <1>2 DEF HeadKept
<1>3. CASE WithHeader \/ WithBody \/ WithJson \/ WithParam \/ NewParsedRequest
  BY <1>2, <1>3 DEF WithHeader, WithBody, WithJson, WithParam, NewParsedRequest, Building
<1>4. CASE RedirectTo
  <2>1. stage' # "sent"
    BY <1>4 DEF RedirectTo
  <2>. QED BY <1>2, <2>1
<1>5. CASE Destination
  BY <1>2, <1>5 DEF Destination
<1>6. CASE Terminated
  BY <1>2, <1>6 DEF Terminated, vars
<1>7. CASE UNCHANGED vars
  <2>1. stage' = stage /\ head' = head /\ url' = url
    BY <1>7 DEF vars
  <2>. QED BY <2>1 DEF HeadKept, PortText
<1>. QED BY <1>1, <1>3, <1>4, <1>5, <1>6, <1>7 DEF Next

\* The request line and Host of no hop hold a # that is not in the host that
\* was asked for or in a parameter, so no fragment reaches a server.
THEOREM FragmentStaysHome == Spec => []FragmentNotSent
<1>1. Init => HeadKept
  BY DEF Init, HeadKept
<1>2. HeadKept /\ [Next]_vars => HeadKept'
  BY HeadStep
<1>3. UrlInv /\ HeadKept => FragmentNotSent
  <2>. SUFFICES ASSUME UrlInv, HeadKept, stage = "sent",
                       "#" \notin ToSet(url.host), "#" \notin ToSet(params)
                PROVE  "#" \notin ToSet(head.target) \cup ToSet(head.host)
    BY DEF FragmentNotSent
  <2>1. WellFormed(url) /\ Fit(url) /\ params \in Seq(Symbol)
    BY DEF UrlInv, Chain, Arguments
  <2>. DEFINE h == url.host
              p == url.path_and_query
              n == PortText(url)
  <2>2. url \in HttpUrl /\ h \in Seq(Symbol) /\ p \in Seq(Symbol)
    BY <2>1 DEF WellFormed, HttpUrl
  <2>3. n \in Seq(Symbol) /\ Hashless(n)
    <3>1. CASE url.port = None
      BY <2>2, <3>1, PortTextIs, NothingHashless
    <3>2. CASE url.port # None
      <4>1. /\ n = <<":", WordOf[url.port]>> /\ n \in Seq(Symbol)
            /\ WordOf[url.port] # "#"
        BY <2>2, <3>2, PortTextIs
      <4>2. Len(n) = 2 /\ n[1] = ":" /\ n[2] = WordOf[url.port]
        BY <4>1
      <4>. HIDE DEF n
      <4>3. \A i \in 1 .. Len(n) : i = 1 \/ i = 2
        BY <4>2
      <4>. QED BY <4>1, <4>2, <4>3 DEF Hashless
    <3>. QED BY <3>1, <3>2
  <2>4. Hashless(h) /\ Hashless(params)
    BY <2>1, <2>2, HashlessIs
  <2>5. Hashless(p)
    BY <2>1, <2>4 DEF Fit
  <2>6. head.target = p /\ head.host = h \o n
    BY DEF HeadKept
  <2>. HIDE DEF h, p, n
  <2>7. h \o n \in Seq(Symbol) /\ Hashless(h \o n)
    BY <2>2, <2>3, <2>4, JoinKeeps
  <2>8. "#" \notin ToSet(h \o n) /\ "#" \notin ToSet(p)
    BY <2>2, <2>5, <2>7, HashlessIs
  <2>. QED BY <2>6, <2>8
<1>. QED BY <1>1, <1>2, <1>3, UrlInvariance, PTL DEF Spec

-------------------------------------------------------------------------------
(* A URL that is printed and parsed again.                                 *)

LEMMA Regrouped ==
  ASSUME NEW x \in Seq(Symbol), NEW y \in Seq(Symbol), NEW z \in Seq(Symbol)
  PROVE  (x \o y) \o z = x \o (y \o z)
BY ConcatAssociative, SMT

\* The text behind the protocol: host, port and what follows.
Behind(u, r) == (u.host \o PortText(u)) \o r

LEMMA PrintedIs ==
  ASSUME NEW u \in HttpUrl, NEW r \in Seq(Symbol)
  PROVE  /\ WriteBaseUrl(u) \o r = Scheme(u) \o Behind(u, r)
         /\ Behind(u, r) \in Seq(Symbol)
<1>. DEFINE s == Scheme(u)
            h == u.host
            n == PortText(u)
<1>1. s \in Seq(Symbol) /\ h \in Seq(Symbol) /\ n \in Seq(Symbol)
  BY SchemeIs, PortTextIs DEF HttpUrl
<1>2. WriteBaseUrl(u) = (s \o h) \o n
  BY BaseTyped
<1>. HIDE DEF s, h, n
<1>3. h \o n \in Seq(Symbol) /\ s \o h \in Seq(Symbol)
  BY <1>1, JoinKeeps
<1>4. (s \o h) \o n = s \o (h \o n)
  BY <1>1, Regrouped, Zenon
<1>5. (s \o (h \o n)) \o r = s \o ((h \o n) \o r)
  BY <1>1, <1>3, Regrouped, Zenon
<1>6. (h \o n) \o r \in Seq(Symbol)
  BY <1>3, JoinKeeps
<1>7. Behind(u, r) = (h \o n) \o r
  BY DEF Behind, h, n
<1>8. WriteBaseUrl(u) \o r = s \o Behind(u, r)
  BY <1>2, <1>4, <1>5, <1>7, Zenon
<1>. QED BY <1>6, <1>7, <1>8 DEF s

LEMMA PrintedHasProtocol ==
  ASSUME NEW u \in HttpUrl, NEW x \in Seq(Symbol), NEW t, t = Scheme(u) \o x
  PROVE  /\ t \in Seq(Symbol) /\ HasProtocol(t)
         /\ (t[1] = "https") = u.https
         /\ SubSeq(t, 5, Len(t)) = x
<1>. DEFINE s == Scheme(u)
<1>1. s \in Seq(Symbol) /\ Len(s) = 4 /\ (s[1] = "https") = u.https /\ Len(x) \in Nat
  BY SchemeIs, LenProperties
<1>2. s = Https \/ s = Http
  BY DEF Scheme
<1>. HIDE DEF s
<1>3. t = s \o x
  BY DEF s
<1>4. t \in Seq(Symbol) /\ Len(t) = 4 + Len(x) /\ t[1] = s[1]
  <2>. DEFINE w == s \o x
  <2>0. /\ w \in Seq(Symbol) /\ Len(w) = Len(s) + Len(x)
        /\ \A i \in 1 .. Len(s) + Len(x) : w[i] = IF i <= Len(s) THEN s[i] ELSE x[i - Len(s)]
    BY <1>1, ConcatProperties
  <2>3. t = w
    BY <1>3, Zenon
  <2>. HIDE DEF w
  <2>1. /\ t \in Seq(Symbol) /\ Len(t) = Len(s) + Len(x)
        /\ \A i \in 1 .. Len(s) + Len(x) : t[i] = IF i <= Len(s) THEN s[i] ELSE x[i - Len(s)]
    BY <2>0, <2>3
  <2>2. 1 \in 1 .. Len(s) + Len(x) /\ 1 <= Len(s)
    BY <1>1
  <2>. QED BY <1>1, <2>1, <2>2
<1>5. IsPrefix(s, t)
  <2>1. 0 \in 0 .. Len(x) /\ Len(s) + 0 = Len(s)
    BY <1>1
  <2>2. SubSeq(s \o x, 1, Len(s) + 0) = s \o SubSeq(x, 1, 0)
    BY <1>1, <2>1, CutBehind
  <2>3. SubSeq(x, 0 + 1, 0) = <<>>
    BY <2>1, PieceEmpty
  <2>4. s \o <<>> = s
    BY <1>1, ConcatEmptySeq
  <2>5. SubSeq(t, 1, Len(s)) = s
    <3>1. SubSeq(x, 1, 0) = <<>>
      BY <2>3
    <3>. QED BY <1>3, <2>1, <2>2, <2>4, <3>1, Zenon
  <2>6. SubSeq(s, 1, Len(s)) = s
    BY <1>1, SubSeqFull
  <2>. QED BY <1>1, <1>4, <2>5, <2>6 DEF IsPrefix
<1>6. SubSeq(t, 5, Len(t)) = x
  <2>1. 0 \in 0 .. Len(x) /\ Len(s) + 0 + 1 = 5 /\ 0 + 1 = 1
    BY <1>1
  <2>2. SubSeq(s \o x, Len(s) + 0 + 1, Len(s \o x)) = SubSeq(x, 0 + 1, Len(x))
    BY <1>1, <2>1, CutBefore
  <2>3. SubSeq(x, 1, Len(x)) = x
    BY SubSeqFull
  <2>. QED BY <1>3, <2>1, <2>2, <2>3
<1>. QED BY <1>1, <1>2, <1>4, <1>5, <1>6 DEF HasProtocol

\* How far host and port of a printed URL reach.
BaseLen(u) == Len(u.host) + (IF u.port = None THEN 0 ELSE 2)

LEMMA BehindIs ==
  ASSUME NEW u, WellFormed(u), NEW r \in Seq(Symbol), NEW x, x = Behind(u, r)
  PROVE  /\ Len(u.host) \in Nat /\ BaseLen(u) \in Nat /\ Len(u.host) <= BaseLen(u)
         /\ Len(x) = BaseLen(u) + Len(r)
         /\ \A i \in 1 .. Len(u.host) : x[i] = u.host[i]
         /\ u.port # None => /\ x[Len(u.host) + 1] = ":"
                             /\ x[Len(u.host) + 2] = WordOf[u.port]
         /\ \A i \in 1 .. Len(r) : x[BaseLen(u) + i] = r[i]
<1>. DEFINE h == u.host
            n == PortText(u)
            k == BaseLen(u)
            a == h \o n
            w == a \o r
<1>1. u \in HttpUrl /\ h \in Seq(Symbol) /\ n \in Seq(Symbol)
  BY PortTextIs DEF WellFormed, HttpUrl
<1>2. Len(n) = (IF u.port = None THEN 0 ELSE 2)
      /\ (u.port # None => n[1] = ":" /\ n[2] = WordOf[u.port])
  BY <1>1, PortTextIs
<1>3. k = Len(h) + (IF u.port = None THEN 0 ELSE 2)
  BY DEF BaseLen
<1>4. x = w
  BY Zenon DEF Behind
<1>. HIDE DEF h, n, k
<1>5. Len(h) \in Nat /\ Len(n) \in Nat /\ Len(r) \in Nat /\ Len(n) \in {0, 2} /\ k = Len(h) + Len(n)
  BY <1>1, <1>2, <1>3, LenProperties
<1>6. /\ a \in Seq(Symbol) /\ Len(a) = Len(h) + Len(n)
      /\ \A i \in 1 .. Len(h) + Len(n) : a[i] = IF i <= Len(h) THEN h[i] ELSE n[i - Len(h)]
  BY <1>1, ConcatProperties
<1>. HIDE DEF a
<1>7. /\ w \in Seq(Symbol) /\ Len(w) = Len(a) + Len(r)
      /\ \A i \in 1 .. Len(a) + Len(r) : w[i] = IF i <= Len(a) THEN a[i] ELSE r[i - Len(a)]
  <2>1. a \in Seq(Symbol)
    BY <1>6
  <2>. QED BY <2>1, ConcatProperties
<1>. HIDE DEF w
<1>8. k \in Nat /\ Len(h) <= k /\ Len(a) = k /\ Len(w) = k + Len(r)
  BY <1>5, <1>6, <1>7
<1>9. \A i \in 1 .. k : w[i] = a[i]
  <2>. SUFFICES ASSUME NEW i \in 1 .. k PROVE w[i] = a[i]
    OBVIOUS
  <2>1. i \in 1 .. Len(a) + Len(r) /\ i <= Len(a)
    BY <1>5, <1>8
  <2>. QED BY <1>7, <2>1
<1>10. \A i \in 1 .. Len(h) : w[i] = h[i]
  <2>. SUFFICES ASSUME NEW i \in 1 .. Len(h) PROVE w[i] = h[i]
    OBVIOUS
  <2>1. i \in 1 .. Len(h) + Len(n) /\ i <= Len(h) /\ i \in 1 .. k
    BY <1>5
  <2>2. a[i] = h[i]
    BY <1>6, <2>1
  <2>. QED BY <1>9, <2>1, <2>2
<1>11. ASSUME u.port # None PROVE w[Len(h) + 1] = ":" /\ w[Len(h) + 2] = WordOf[u.port]
  <2>0. Len(n) = 2
    BY <1>2, <1>11
  <2>1. \A i \in {1, 2} : Len(h) + i \in 1 .. k /\ Len(h) + i \in 1 .. Len(h) + Len(n)
          /\ ~(Len(h) + i <= Len(h)) /\ (Len(h) + i) - Len(h) = i
    BY <1>5, <2>0
  <2>2. \A i \in {1, 2} : a[Len(h) + i] = n[i]
    BY <1>6, <2>1
  <2>3. \A i \in {1, 2} : w[Len(h) + i] = n[i]
    BY <1>9, <2>1, <2>2
  <2>. QED BY <1>2, <1>11, <2>3
<1>12. \A i \in 1 .. Len(r) : w[k + i] = r[i]
  <2>. SUFFICES ASSUME NEW i \in 1 .. Len(r) PROVE w[k + i] = r[i]
    OBVIOUS
  <2>1. k + i \in 1 .. Len(a) + Len(r) /\ ~(k + i <= Len(a)) /\ (k + i) - Len(a) = i
    BY <1>5, <1>8
  <2>2. w[k + i] = r[(k + i) - Len(a)]
    BY <1>7, <2>1
  <2>. QED BY <2>1, <2>2
<1>. QED BY <1>4, <1>5, <1>8, <1>10, <1>11, <1>12 DEF h, k

\* Parsed again, the authority ends where it was printed to end.
LEMMA AuthorityMarks ==
  ASSUME NEW u, WellFormed(u), NEW r \in Seq(Symbol), NEW c \in {"/", "?"}, StartsWith(r, c),
         NEW x \in Seq(Symbol), x = Behind(u, r),
         NEW j \in Nat, NEW k \in Nat, NEW q \in Nat, Marks(x, j, k, q)
  PROVE  j = Len(u.host) /\ k = BaseLen(u) /\ k # Len(x)
<1>. DEFINE h == u.host
            b == BaseLen(u)
<1>1. /\ Len(h) \in Nat /\ b \in Nat /\ Len(h) <= b
      /\ Len(x) = b + Len(r)
      /\ \A i \in 1 .. Len(h) : x[i] = h[i]
      /\ u.port # None => /\ x[Len(h) + 1] = ":"
                          /\ x[Len(h) + 2] = WordOf[u.port]
      /\ \A i \in 1 .. Len(r) : x[b + i] = r[i]
  BY BehindIs
<1>2. \A i \in 1 .. Len(h) : h[i] \notin {"/", "?", ":"}
  BY DEF WellFormed
<1>3. b = Len(h) + (IF u.port = None THEN 0 ELSE 2)
  BY DEF BaseLen
<1>4. u.port # None => WordOf[u.port] \notin {"/", "?"}
  BY PortTextIs DEF WellFormed
<1>5. Len(r) \in Nat /\ Len(r) # 0 /\ r[1] = c
  BY DEF StartsWith
<1>. HIDE DEF h, b
<1>6. x[b + 1] \in {"/", "?"} /\ Len(x) > b /\ Len(x) \in Nat
  <2>1. 1 \in 1 .. Len(r)
    BY <1>5
  <2>2. x[b + 1] = r[1]
    BY <1>1, <2>1
  <2>. QED BY <1>1, <1>5, <2>2
<1>7. ASSUME NEW i \in 1 .. b PROVE x[i] \notin {"/", "?"}
  <2>1. CASE i \in 1 .. Len(h)
    BY <1>1, <1>2, <2>1
  <2>2. CASE i \notin 1 .. Len(h)
    <3>1. u.port # None /\ (i = Len(h) + 1 \/ i = Len(h) + 2)
      BY <1>1, <1>3, <2>2
    <3>. QED BY <1>1, <1>4, <3>1
  <2>. QED BY <2>1, <2>2
<1>8. /\ j <= k /\ k <= Len(x)
      /\ \A i \in 1 .. j : x[i] # ":"
      /\ j = k \/ x[j + 1] = ":"
      /\ \A i \in 1 .. k : x[i] \notin {"/", "?"}
      /\ k = Len(x) \/ x[k + 1] \in {"/", "?"}
  BY <1>6 DEF Marks
<1>9. k = b
  <2>1. ASSUME k < b PROVE FALSE
    <3>1. k + 1 \in 1 .. b /\ k # Len(x)
      BY <1>1, <1>6, <2>1
    <3>. QED BY <1>7, <1>8, <3>1
  <2>2. ASSUME k > b PROVE FALSE
    <3>1. b + 1 \in 1 .. k
      BY <1>1, <2>2
    <3>. QED BY <1>6, <1>8, <3>1
  <2>. QED BY <1>1, <2>1, <2>2
<1>10. j = Len(h)
  <2>1. ASSUME j < Len(h) PROVE FALSE
    <3>1. j + 1 \in 1 .. Len(h) /\ j # k
      BY <1>1, <1>9, <2>1
    <3>2. x[j + 1] = ":"
      BY <1>8, <3>1
    <3>. QED BY <1>1, <1>2, <3>1, <3>2
  <2>2. ASSUME j > Len(h) PROVE FALSE
    <3>1. u.port # None /\ Len(h) + 1 \in 1 .. j
      BY <1>1, <1>3, <1>8, <1>9, <2>2
    <3>. QED BY <1>1, <1>8, <3>1
  <2>. QED BY <1>1, <2>1, <2>2
<1>11. k # Len(x)
  BY <1>1, <1>6, <1>9
<1>. QED BY <1>9, <1>10, <1>11 DEF h, b

\* t is the text of u with r behind its authority; x is t without its protocol.
Prints(t, u, r, x) ==
  /\ t \in Seq(Symbol) /\ HasProtocol(t)
  /\ (t[1] = "https") = u.https
  /\ x = SubSeq(t, 5, Len(t)) /\ x \in Seq(Symbol)
  /\ x = Behind(u, r)

LEMMA BasePrints ==
  ASSUME NEW u \in HttpUrl, NEW r \in Seq(Symbol)
  PROVE  Prints(WriteBaseUrl(u) \o r, u, r, Behind(u, r))
<1>. DEFINE x == Behind(u, r)
            t == WriteBaseUrl(u) \o r
<1>1. t = Scheme(u) \o x /\ x \in Seq(Symbol) /\ x = Behind(u, r)
  BY PrintedIs, Zenon
<1>. HIDE DEF x, t
<1>2. t \in Seq(Symbol) /\ HasProtocol(t) /\ (t[1] = "https") = u.https /\ SubSeq(t, 5, Len(t)) = x
  BY <1>1, PrintedHasProtocol, Zenon
<1>3. Prints(t, u, r, x)
  BY <1>1, <1>2, Zenon DEF Prints
<1>. QED BY <1>3, Zenon DEF t, x

SameBase(v, u) == v.https = u.https /\ v.host = u.host /\ v.port = u.port

\* Scheme, host and port survive printing and parsing.
LEMMA BaseSurvives ==
  ASSUME NEW u, WellFormed(u), NEW r \in Seq(Symbol), NEW c \in {"/", "?"}, StartsWith(r, c),
         NEW from, NEW t, NEW x, Prints(t, u, r, x),
         NEW j \in Nat, NEW k \in Nat, NEW q \in Nat, Marks(x, j, k, q)
  PROVE  SameBase(ParseUrl(t, from, encode), u)
<1>. DEFINE v == ParseUrl(t, from, encode)
<1>1. u \in HttpUrl /\ u.host \in Seq(Symbol)
  BY DEF WellFormed, HttpUrl
<1>2. /\ x \in Seq(Symbol) /\ t \in Seq(Symbol) /\ HasProtocol(t)
      /\ x = SubSeq(t, 5, Len(t))
  BY DEF Prints
<1>3. x = Behind(u, r)
  BY DEF Prints
<1>4. (t[1] = "https") = u.https
  BY Zenon DEF Prints
<1>6. j = Len(u.host) /\ k = BaseLen(u) /\ k # Len(x)
  BY <1>2, <1>3, AuthorityMarks
<1>7. v = ByMarks(x, t[1] = "https", j, k, q, from)
  <2>1. x = SubSeq(t, 5, Len(t))
    BY <1>2
  <2>2. t \in Seq(Symbol) /\ HasProtocol(t)
    BY <1>2
  <2>. HIDE DEF v
  <2>3. v = ParseUrl(t, from, encode)
    BY DEF v
  <2>4. ParseUrl(t, from, encode) = ByMarks(x, t[1] = "https", j, k, q, from)
    <3>1. ParsedBy(t, from, x, j, k, q)
      BY <2>1, <2>2, ParseIs, Zenon
    <3>. QED BY <3>1, Zenon DEF ParsedBy
  <2>. QED BY <2>3, <2>4
<1>. HIDE DEF v
<1>8. v.https = u.https
  <2>1. v.https = (t[1] = "https")
    BY <1>7 DEF ByMarks
  <2>. QED BY <1>4, <2>1, Zenon
<1>9. /\ Len(u.host) \in Nat /\ BaseLen(u) \in Nat /\ Len(u.host) <= BaseLen(u)
      /\ Len(x) = BaseLen(u) + Len(r)
      /\ \A i \in 1 .. Len(u.host) : x[i] = u.host[i]
      /\ u.port # None => x[Len(u.host) + 2] = WordOf[u.port]
  BY <1>3, BehindIs
<1>10. SubSeq(x, 1, j) = u.host
  <2>. DEFINE h == u.host
              y == SubSeq(x, 1, j)
  <2>1. /\ 1 \in 1 .. Len(x) + 1 /\ j \in 1 - 1 .. Len(x) /\ j - 1 + 1 = j /\ Len(x) \in Nat
        /\ \A i \in 1 .. j : 1 + i - 1 = i
    BY <1>2, <1>6, <1>9, LenProperties
  <2>2. y \in Seq(Symbol) /\ Len(y) = j - 1 + 1 /\ \A i \in 1 .. j - 1 + 1 : y[i] = x[1 + i - 1]
    BY <1>2, <2>1, Piece
  <2>. HIDE DEF y
  <2>3. Len(y) = Len(h) /\ \A i \in 1 .. Len(h) : y[i] = h[i]
    BY <1>6, <1>9, <2>1, <2>2
  <2>4. h \in Seq(Symbol)
    BY <1>1
  <2>. HIDE DEF h
  <2>5. y = h
    BY <2>2, <2>3, <2>4, SeqEqual
  <2>. QED BY <2>5 DEF y, h
<1>11. (IF k = j + 2 THEN PortOf[x[j + 2]] ELSE None) = u.port
  <2>1. CASE u.port = None
    <3>1. k # j + 2
      BY <1>6, <1>9, <2>1 DEF BaseLen
    <3>. QED BY <2>1, <3>1
  <2>2. CASE u.port # None
    <3>1. k = j + 2 /\ x[j + 2] = WordOf[u.port]
      BY <1>6, <1>9, <2>2 DEF BaseLen
    <3>2. PortOf[WordOf[u.port]] = u.port
      BY <1>1, <2>2, PortTextIs
    <3>. QED BY <3>1, <3>2
  <2>. QED BY <2>1, <2>2
<1>12. v.host = SubSeq(x, 1, j) /\ v.port = IF k = j + 2 THEN PortOf[x[j + 2]] ELSE None
  BY <1>7 DEF ByMarks
<1>. QED BY <1>8, <1>10, <1>11, <1>12, Zenon DEF v, SameBase

\* A redirection to a Location that begins with / or ? keeps the scheme, the
\* host and the port of the hop before, for every URL, port and Location.
THEOREM RelativeStays == Spec => RelativeKeepsAuthority
<1>. DEFINE Kept == redirects' # redirects /\ (\E l \in Rooted : asked' = WriteBaseUrl(url) \o l)
                      => /\ url'.https = url.https
                         /\ url'.host = url.host
                         /\ url'.port = url.port
<1>1. ASSUME UrlInv, [Next]_vars PROVE Kept
  <2>. SUFFICES ASSUME redirects' # redirects,
                       NEW l \in Rooted, asked' = WriteBaseUrl(url) \o l
                PROVE  url'.https = url.https /\ url'.host = url.host /\ url'.port = url.port
    BY Zenon
  <2>1. RedirectTo
    BY <1>1 DEF Next, WithHeader, WithBody, WithJson, WithParam, NewParsedRequest, WriteRequest,
                Destination, Terminated, vars
  <2>2. WellFormed(url) /\ url \in HttpUrl
    BY <1>1, <2>1 DEF RedirectTo, UrlInv, Chain, WellFormed
  <2>3. url' = ParseUrl(asked', url, encode)
    BY <2>1 DEF RedirectTo
  <2>4. l \in Seq(Symbol) /\ \E c \in {"/", "?"} : StartsWith(l, c)
    <3>1. l \in Seq(Symbol) /\ l # <<>> /\ l[1] \in {"/", "?"}
      BY TextAssumption DEF Rooted
    <3>2. Len(l) \in Nat /\ Len(l) # 0
      BY <3>1, EmptySeq
    <3>. QED BY <3>1, <3>2 DEF StartsWith
  <2>5. Prints(asked', url, l, Behind(url, l))
    BY <2>2, <2>4, BasePrints, Zenon
  <2>6. PICK j \in Nat, k \in Nat, q \in Nat : Marks(Behind(url, l), j, k, q)
    <3>1. Behind(url, l) \in Seq(Symbol)
      BY <2>5, Zenon DEF Prints
    <3>. QED BY <3>1, MarksExist, Zenon
  <2>7. PICK c \in {"/", "?"} : StartsWith(l, c)
    BY <2>4
  <2>. DEFINE v == ParseUrl(asked', url, encode)
  <2>8. SameBase(v, url)
    BY <2>2, <2>4, <2>5, <2>6, <2>7, BaseSurvives, Zenon
  <2>. QED BY <2>3, <2>8, Zenon DEF SameBase
<1>2. UrlInv /\ [Next]_vars => [Kept]_vars
  BY <1>1
<1>. QED BY <1>2, UrlInvariance, PTL DEF Spec, RelativeKeepsAuthority

\* A text that escaping leaves alone.
LEMMA EscapeIdle ==
  ASSUME NEW s \in Seq(Symbol), ~encode \/ \A i \in 1 .. Len(s) : Escape[s[i]] = <<s[i]>>
  PROVE  EscapeAll(s) = s
<1>. DEFINE T == {n \in 0 .. Len(s) : EscapeAll(SubSeq(s, 1, n)) = SubSeq(s, 1, n)}
<1>0. Len(s) \in Nat
  BY LenProperties
<1>1. 0 \in T
  <2>1. SubSeq(s, 0 + 1, 0) = <<>>
    BY <1>0, PieceEmpty
  <2>2. SubSeq(s, 1, 0) = <<>>
    BY <2>1
  <2>3. EscapeAll(SubSeq(s, 1, 0)) = SubSeq(s, 1, 0)
    BY <2>2, EscapeNothing, Zenon
  <2>. QED BY <1>0, <2>3
<1>2. ASSUME NEW n \in 0 .. Len(s) - 1, n \in T PROVE n + 1 \in T
  <2>. DEFINE a == SubSeq(s, 1, n)
              b == SubSeq(s, 1, n + 1)
              c == s[n + 1]
  <2>1. n + 1 \in 1 .. Len(s) /\ 1 \in 1 .. Len(s) + 1 /\ (n + 1) - 1 = n
    BY <1>0
  <2>2. b = Append(SubSeq(s, 1, (n + 1) - 1), c) /\ c \in Symbol
    BY <2>1, PieceGrows
  <2>3. EscapeAll(b) = EscapeAll(SubSeq(s, 1, (n + 1) - 1)) \o Escaped(c)
    BY <2>1, EscapeGrows
  <2>4. a \in Seq(Symbol)
    <3>1. 1 \in 1 .. Len(s) + 1 /\ n \in 1 - 1 .. Len(s)
      BY <1>0
    <3>. QED BY <3>1, Piece
  <2>5. Escaped(c) = <<c>>
    BY <2>1 DEF Escaped
  <2>6. EscapeAll(a) = a
    BY <1>2
  <2>7. b = Append(a, c) /\ EscapeAll(b) = EscapeAll(a) \o Escaped(c)
    BY <2>1, <2>2, <2>3
  <2>. HIDE DEF a, c
  <2>8. a \o <<c>> = Append(a, c)
    BY <2>2, <2>4
  <2>9. EscapeAll(b) = b
    BY <2>5, <2>6, <2>7, <2>8, Zenon
  <2>10. n + 1 \in 0 .. Len(s)
    BY <1>0, <2>1
  <2>. QED BY <2>9, <2>10
<1>3. Len(s) \in T
  <2>1. \A n \in 0 .. Len(s) - 1 : n \in T => n + 1 \in T
    BY <1>2
  <2>2. Len(s) \in 0 .. Len(s)
    BY <1>0
  <2>. HIDE DEF T
  <2>. QED BY <1>0, <1>1, <2>1, <2>2, Induction
<1>4. SubSeq(s, 1, Len(s)) = s
  BY SubSeqFull
<1>. QED BY <1>3, <1>4

LEMMA SameUrl ==
  ASSUME NEW u \in HttpUrl, NEW v \in HttpUrl, u.https = v.https, u.host = v.host,
         u.port = v.port, u.path_and_query = v.path_and_query, u.fragment = v.fragment
  PROVE  u = v
BY DEF HttpUrl

\* A stretch of a text by its symbols.
LEMMA StretchIs ==
  ASSUME NEW x \in Seq(Symbol), NEW s \in Seq(Symbol), NEW a \in Nat,
         a + Len(s) <= Len(x), \A i \in 1 .. Len(s) : x[a + i] = s[i]
  PROVE  SubSeq(x, a + 1, a + Len(s)) = s
<1>. DEFINE y == SubSeq(x, a + 1, a + Len(s))
<1>0. Len(x) \in Nat /\ Len(s) \in Nat
  BY LenProperties
<1>1. /\ a + 1 \in 1 .. Len(x) + 1 /\ a + Len(s) \in (a + 1) - 1 .. Len(x)
      /\ (a + Len(s)) - (a + 1) + 1 = Len(s)
      /\ \A i \in 1 .. Len(s) : (a + 1) + i - 1 = a + i
  BY <1>0
<1>2. /\ y \in Seq(Symbol) /\ Len(y) = (a + Len(s)) - (a + 1) + 1
      /\ \A i \in 1 .. (a + Len(s)) - (a + 1) + 1 : y[i] = x[(a + 1) + i - 1]
  BY <1>1, Piece
<1>. HIDE DEF y
<1>3. Len(y) = Len(s) /\ \A i \in 1 .. Len(s) : y[i] = s[i]
  BY <1>1, <1>2
<1>4. y = s
  BY <1>2, <1>3, SeqEqual
<1>. QED BY <1>4 DEF y

\* What write_resource_to prints.
LEMMA ResourceIs ==
  ASSUME NEW u \in HttpUrl, NEW r, r = WriteResource(u)
  PROVE  /\ r \in Seq(Symbol)
         /\ \A i \in 1 .. Len(u.path_and_query) : r[i] = u.path_and_query[i]
         /\ u.fragment = None => Len(r) = Len(u.path_and_query)
         /\ u.fragment # None =>
              /\ u.fragment \in Seq(Symbol)
              /\ Len(r) = Len(u.path_and_query) + 1 + Len(u.fragment)
              /\ r[Len(u.path_and_query) + 1] = "#"
              /\ \A i \in 1 .. Len(u.fragment) : r[Len(u.path_and_query) + 1 + i] = u.fragment[i]
         /\ \A c : StartsWith(u.path_and_query, c) => StartsWith(r, c)
<1>. DEFINE p == u.path_and_query
            f == u.fragment
            e == <<"#">>
            g == IF f = None THEN <<>> ELSE e \o f
            w == p \o g
<1>1. p \in Seq(Symbol) /\ f \in {None} \cup Seq(Symbol) /\ Len(p) \in Nat
  BY LenProperties DEF HttpUrl
<1>2. e \in Seq(Symbol) /\ Len(e) = 1 /\ e[1] = "#"
  BY UrlAssumption
<1>3. r = w
  BY Zenon DEF WriteResource
<1>. HIDE DEF p, f, e
<1>4. /\ g \in Seq(Symbol)
      /\ f = None => Len(g) = 0
      /\ f # None => /\ f \in Seq(Symbol) /\ Len(g) = 1 + Len(f) /\ Len(f) \in Nat /\ g[1] = "#"
                     /\ \A i \in 1 .. Len(f) : g[1 + i] = f[i]
  <2>1. CASE f = None
    BY <2>1
  <2>2. CASE f # None
    <3>. DEFINE d == e \o f
    <3>1. f \in Seq(Symbol) /\ Len(f) \in Nat
      BY <1>1, <2>2, LenProperties
    <3>2. /\ d \in Seq(Symbol) /\ Len(d) = Len(e) + Len(f)
          /\ \A i \in 1 .. Len(e) + Len(f) : d[i] = IF i <= Len(e) THEN e[i] ELSE f[i - Len(e)]
      BY <1>2, <3>1, ConcatProperties
    <3>3. g = d
      BY <2>2, Zenon
    <3>. HIDE DEF d, g
    <3>4. Len(d) = 1 + Len(f) /\ d[1] = "#"
      BY <1>2, <3>1, <3>2
    <3>5. ASSUME NEW i \in 1 .. Len(f) PROVE d[1 + i] = f[i]
      <4>1. 1 + i \in 1 .. Len(e) + Len(f) /\ ~(1 + i <= Len(e)) /\ (1 + i) - Len(e) = i
        BY <1>2, <3>1
      <4>2. d[1 + i] = f[(1 + i) - Len(e)]
        BY <3>2, <4>1
      <4>. QED BY <4>1, <4>2
    <3>. QED BY <2>2, <3>1, <3>2, <3>3, <3>4, <3>5
  <2>. QED BY <2>1, <2>2
<1>. HIDE DEF g
<1>5. g \in Seq(Symbol) /\ Len(g) \in Nat
  BY <1>4, LenProperties
<1>6. /\ w \in Seq(Symbol) /\ Len(w) = Len(p) + Len(g)
      /\ \A i \in 1 .. Len(p) + Len(g) : w[i] = IF i <= Len(p) THEN p[i] ELSE g[i - Len(p)]
  BY <1>1, <1>5, ConcatProperties
<1>7. \A c : StartsWith(p, c) => StartsWith(w, c)
  BY <1>1, <1>5, JoinKeeps
<1>. HIDE DEF w
<1>8. \A i \in 1 .. Len(p) : w[i] = p[i]
  <2>. SUFFICES ASSUME NEW i \in 1 .. Len(p) PROVE w[i] = p[i]
    OBVIOUS
  <2>1. i \in 1 .. Len(p) + Len(g) /\ i <= Len(p)
    BY <1>1, <1>5
  <2>. QED BY <1>6, <2>1
<1>9. \A i \in 1 .. Len(g) : w[Len(p) + i] = g[i]
  <2>. SUFFICES ASSUME NEW i \in 1 .. Len(g) PROVE w[Len(p) + i] = g[i]
    OBVIOUS
  <2>1. Len(p) + i \in 1 .. Len(p) + Len(g) /\ ~(Len(p) + i <= Len(p)) /\ (Len(p) + i) - Len(p) = i
    BY <1>1, <1>5
  <2>2. w[Len(p) + i] = g[(Len(p) + i) - Len(p)]
    BY <1>6, <2>1
  <2>. QED BY <2>1, <2>2
<1>10. f = None => Len(w) = Len(p)
  BY <1>1, <1>4, <1>6
<1>11. ASSUME f # None
       PROVE  /\ f \in Seq(Symbol) /\ Len(w) = Len(p) + 1 + Len(f) /\ w[Len(p) + 1] = "#"
              /\ \A i \in 1 .. Len(f) : w[Len(p) + 1 + i] = f[i]
  <2>1. /\ f \in Seq(Symbol) /\ Len(g) = 1 + Len(f) /\ Len(f) \in Nat /\ g[1] = "#"
        /\ \A i \in 1 .. Len(f) : g[1 + i] = f[i]
    BY <1>4, <1>11
  <2>2. Len(w) = Len(p) + 1 + Len(f)
    BY <1>1, <1>6, <2>1
  <2>3. w[Len(p) + 1] = "#"
    <3>1. 1 \in 1 .. Len(g)
      BY <2>1
    <3>. QED BY <1>9, <2>1, <3>1
  <2>4. ASSUME NEW i \in 1 .. Len(f) PROVE w[Len(p) + 1 + i] = f[i]
    <3>1. 1 + i \in 1 .. Len(g) /\ Len(p) + (1 + i) = Len(p) + 1 + i
      BY <1>1, <2>1
    <3>2. w[Len(p) + (1 + i)] = g[1 + i]
      BY <1>9, <3>1
    <3>. QED BY <2>1, <3>1, <3>2
  <2>. QED BY <2>1, <2>2, <2>3, <2>4
<1>. QED BY <1>3, <1>6, <1>7, <1>8, <1>10, <1>11 DEF p, f

\* A text without escapes that is settled already.
LEMMA SettledIdle ==
  ASSUME NEW s \in Seq(Symbol), encode => Settled(s), encode => \A i \in 1 .. Len(s) : s[i] # "%"
  PROVE  EscapeAll(s) = s
<1>1. ~encode \/ \A i \in 1 .. Len(s) : Escape[s[i]] = <<s[i]>>
  BY DEF Settled
<1>. QED BY <1>1, EscapeIdle

\* Printed and parsed again, a URL is itself.
LEMMA RoundTrip ==
  ASSUME NEW u, WellFormed(u), Fit(u), Hashless(params), NEW r, r = WriteResource(u),
         NEW t, NEW x, Prints(t, u, r, x),
         encode => \A i \in 1 .. Len(t) : t[i] # "%"
  PROVE  ParseUrl(t, None, encode) = u
<1>. DEFINE p == u.path_and_query
            f == u.fragment
            b == BaseLen(u)
            v == ParseUrl(t, None, encode)
<1>1. u \in HttpUrl /\ p \in Seq(Symbol) /\ f \in {None} \cup Seq(Symbol)
  BY DEF WellFormed, HttpUrl
<1>2. /\ r \in Seq(Symbol)
      /\ \A i \in 1 .. Len(p) : r[i] = p[i]
      /\ f = None => Len(r) = Len(p)
      /\ f # None =>
           /\ f \in Seq(Symbol)
           /\ Len(r) = Len(p) + 1 + Len(f)
           /\ r[Len(p) + 1] = "#"
           /\ \A i \in 1 .. Len(f) : r[Len(p) + 1 + i] = f[i]
      /\ \A c : StartsWith(p, c) => StartsWith(r, c)
  BY <1>1, ResourceIs
<1>3. PICK c \in {"/", "?"} : StartsWith(r, c)
  BY <1>2 DEF WellFormed
<1>4. /\ x \in Seq(Symbol) /\ t \in Seq(Symbol) /\ HasProtocol(t)
      /\ x = SubSeq(t, 5, Len(t))
  BY DEF Prints
<1>5. x = Behind(u, r)
  BY DEF Prints
<1>6. PICK j \in Nat, k \in Nat, q \in Nat : Marks(x, j, k, q)
  BY <1>4, MarksExist
<1>7. k = b /\ k # Len(x)
  <2>1. r \in Seq(Symbol) /\ x \in Seq(Symbol)
    BY <1>2, <1>4
  <2>. QED BY <1>3, <1>5, <1>6, <2>1, AuthorityMarks, Zenon
<1>8. /\ b \in Nat /\ Len(x) = b + Len(r)
      /\ \A i \in 1 .. Len(r) : x[b + i] = r[i]
  BY <1>2, <1>5, BehindIs
<1>9. SameBase(v, u)
  BY <1>2, <1>3, <1>6, BaseSurvives, Zenon
<1>10. ParsedBy(t, None, x, j, k, q)
  BY <1>4, <1>6, ParseIs, Zenon
<1>11. /\ v.path_and_query = EscapeAll(SubSeq(x, k + 1, q))
       /\ v.fragment = IF q = Len(x) THEN None ELSE EscapeAll(SubSeq(x, q + 2, Len(x)))
  <2>1. v = ByMarks(x, t[1] = "https", j, k, q, None)
    BY <1>10, Zenon DEF ParsedBy
  <2>. HIDE DEF v
  <2>. QED BY <1>7, <2>1 DEF ByMarks, Inherited
<1>12. v \in HttpUrl
  BY <1>4, ParsedWell DEF WellFormed
<1>13. /\ Hashless(p)
       /\ encode => Settled(p) /\ (f # None => Settled(f))
  BY DEF Fit
<1>14. encode => \A i \in 1 .. Len(x) : x[i] # "%"
  <2>. SUFFICES ASSUME encode, NEW i \in 1 .. Len(x) PROVE x[i] # "%"
    OBVIOUS
  <2>. DEFINE y == SubSeq(t, 5, Len(t))
  <2>1. Len(t) \in Nat /\ Len(t) >= 4
    BY <1>4, ProtocolIs
  <2>2. 5 \in 1 .. Len(t) + 1 /\ Len(t) \in 5 - 1 .. Len(t) /\ Len(t) - 5 + 1 = Len(t) - 4
    BY <2>1
  <2>3. Len(y) = Len(t) - 5 + 1 /\ \A n \in 1 .. Len(t) - 5 + 1 : y[n] = t[5 + n - 1]
    BY <1>4, <2>2, Piece
  <2>4. x = y
    BY <1>4
  <2>. HIDE DEF y
  <2>5. i \in 1 .. Len(t) - 5 + 1
    BY <2>3, <2>4
  <2>6. 5 + i - 1 \in 1 .. Len(t)
    BY <2>1, <2>5
  <2>7. y[i] = t[5 + i - 1]
    BY <2>3, <2>5
  <2>. QED BY <2>4, <2>6, <2>7
<1>. HIDE DEF p, f, b, v
<1>15. Len(p) \in Nat /\ Len(r) \in Nat /\ Len(p) <= Len(r) /\ (f # None => Len(f) \in Nat)
  <2>1. Len(p) \in Nat /\ Len(r) \in Nat /\ (f # None => Len(f) \in Nat)
    BY <1>1, <1>2, LenProperties
  <2>2. CASE f = None
    BY <1>2, <2>1, <2>2
  <2>3. CASE f # None
    <3>1. Len(r) = Len(p) + 1 + Len(f) /\ Len(f) \in Nat
      BY <1>2, <2>1, <2>3
    <3>. QED BY <2>1, <3>1
  <2>. QED BY <2>2, <2>3
<1>16. \A i \in 1 .. Len(p) : x[b + i] = p[i]
  <2>. SUFFICES ASSUME NEW i \in 1 .. Len(p) PROVE x[b + i] = p[i]
    OBVIOUS
  <2>1. i \in 1 .. Len(r)
    BY <1>15
  <2>. QED BY <1>2, <1>8, <2>1
<1>17. f # None => x[b + Len(p) + 1] = "#" /\ \A i \in 1 .. Len(f) : x[b + Len(p) + 1 + i] = f[i]
  <2>. SUFFICES ASSUME f # None
                PROVE  x[b + Len(p) + 1] = "#" /\ \A i \in 1 .. Len(f) : x[b + Len(p) + 1 + i] = f[i]
    OBVIOUS
  <2>1. /\ Len(r) = Len(p) + 1 + Len(f)
        /\ r[Len(p) + 1] = "#"
        /\ \A i \in 1 .. Len(f) : r[Len(p) + 1 + i] = f[i]
    BY <1>2
  <2>2. x[b + Len(p) + 1] = "#"
    <3>1. Len(p) + 1 \in 1 .. Len(r) /\ b + (Len(p) + 1) = b + Len(p) + 1
      BY <1>8, <1>15, <2>1
    <3>. QED BY <1>8, <2>1, <3>1
  <2>3. ASSUME NEW i \in 1 .. Len(f) PROVE x[b + Len(p) + 1 + i] = f[i]
    <3>1. Len(p) + 1 + i \in 1 .. Len(r) /\ b + (Len(p) + 1 + i) = b + Len(p) + 1 + i
      BY <1>8, <1>15, <2>1
    <3>2. x[b + (Len(p) + 1 + i)] = r[Len(p) + 1 + i]
      BY <1>8, <3>1
    <3>. QED BY <2>1, <3>1, <3>2
  <2>. QED BY <2>2, <2>3
<1>18. q = b + Len(p)
  <2>1. /\ k <= q /\ q <= Len(x)
        /\ \A i \in k + 1 .. q : x[i] # "#"
        /\ q = Len(x) \/ x[q + 1] = "#"
    BY <1>6 DEF Marks
  <2>2. ASSUME q < b + Len(p) PROVE FALSE
    <3>1. (q + 1) - b \in 1 .. Len(p) /\ b + ((q + 1) - b) = q + 1 /\ q # Len(x)
      BY <1>7, <1>8, <1>15, <2>1, <2>2
    <3>2. x[q + 1] = p[(q + 1) - b]
      BY <1>16, <3>1
    <3>3. p[(q + 1) - b] # "#"
      BY <1>13, <3>1 DEF Hashless
    <3>. QED BY <2>1, <3>1, <3>2, <3>3
  <2>3. ASSUME q > b + Len(p) PROVE FALSE
    <3>1. f # None
      BY <1>2, <1>8, <1>15, <2>1, <2>3
    <3>2. b + Len(p) + 1 \in k + 1 .. q
      BY <1>7, <1>8, <1>15, <2>3
    <3>. QED BY <1>17, <2>1, <3>1, <3>2
  <2>4. b \in Nat /\ Len(p) \in Nat
    BY <1>8, <1>15
  <2>. QED BY <2>2, <2>3, <2>4
<1>19. v.path_and_query = p
  <2>1. b + Len(p) <= Len(x)
    BY <1>8, <1>15
  <2>2. SubSeq(x, b + 1, b + Len(p)) = p
    BY <1>1, <1>4, <1>8, <1>16, <2>1, StretchIs
  <2>3. ASSUME encode, NEW i \in 1 .. Len(p) PROVE p[i] # "%"
    <3>1. b + i \in 1 .. Len(x)
      BY <1>8, <1>15
    <3>. QED BY <1>14, <1>16, <2>3, <3>1
  <2>4. EscapeAll(p) = p
    BY <1>1, <1>13, <2>3, SettledIdle
  <2>. QED BY <1>7, <1>11, <1>18, <2>2, <2>4
<1>20. v.fragment = f
  <2>1. CASE f = None
    <3>1. q = Len(x)
      BY <1>2, <1>8, <1>18, <2>1
    <3>. QED BY <1>11, <2>1, <3>1
  <2>2. CASE f # None
    <3>. DEFINE a == b + Len(p) + 1
    <3>1. a \in Nat /\ Len(x) = a + Len(f) /\ q # Len(x) /\ q + 2 = a + 1 /\ Len(f) \in Nat
      <4>1. Len(r) = Len(p) + 1 + Len(f) /\ Len(f) \in Nat
        BY <1>2, <1>15, <2>2
      <4>. QED BY <1>8, <1>15, <1>18, <4>1
    <3>2. f \in Seq(Symbol) /\ \A i \in 1 .. Len(f) : x[a + i] = f[i]
      BY <1>1, <1>17, <2>2
    <3>. HIDE DEF a
    <3>3. a + Len(f) <= Len(x)
      BY <3>1
    <3>4. SubSeq(x, a + 1, a + Len(f)) = f
      BY <1>4, <3>1, <3>2, <3>3, StretchIs
    <3>5. ASSUME encode, NEW i \in 1 .. Len(f) PROVE f[i] # "%"
      <4>1. a + i \in 1 .. Len(x)
        BY <3>1
      <4>. QED BY <1>14, <3>2, <3>5, <4>1
    <3>6. EscapeAll(f) = f
      BY <1>13, <2>2, <3>2, <3>5, SettledIdle
    <3>7. SubSeq(x, q + 2, Len(x)) = f
      BY <3>1, <3>4
    <3>. QED BY <1>11, <3>1, <3>6, <3>7
  <2>. QED BY <2>1, <2>2
<1>21. v = u
  BY <1>1, <1>9, <1>12, <1>19, <1>20, SameUrl DEF SameBase, p, f
<1>. QED BY <1>21 DEF v

\* The answer is the text of the last URL.
AnswerKept == stage = "done" => answer = WriteBaseUrl(url) \o WriteResource(url)

LEMMA AnswerStep ==
  ASSUME AnswerKept, [Next]_vars
  PROVE  AnswerKept'
<1>1. CASE Destination
  <2>1. url' = url /\ answer' = WriteBaseUrl(url) \o WriteResource(url)
    BY <1>1 DEF Destination
  <2>. QED BY <2>1 DEF AnswerKept, WriteBaseUrl, WriteResource
<1>2. ASSUME stage' # "done" PROVE AnswerKept'
  BY <1>2 DEF AnswerKept
<1>3. CASE WithHeader \/ WithBody \/ WithJson \/ WithParam \/ NewParsedRequest \/ WriteRequest
  BY <1>2, <1>3 DEF WithHeader, WithBody, WithJson, WithParam, NewParsedRequest, WriteRequest, Building
<1>4. CASE RedirectTo
  <2>1. stage' # "done"
    BY <1>4 DEF RedirectTo
  <2>. QED BY <1>2, <2>1
<1>5. CASE Terminated \/ UNCHANGED vars
  <2>1. stage' = stage /\ answer' = answer /\ url' = url
    BY <1>5 DEF Terminated, vars
  <2>. QED BY <2>1 DEF AnswerKept, WriteBaseUrl, WriteResource
<1>. QED BY <1>1, <1>3, <1>4, <1>5 DEF Next

\* For every chain, the url of the response leads back to the URL that was
\* answered: parsed again it is that URL, with its port, its path, its query
\* and its fragment, an empty one too.
THEOREM AnswerLeadsBack == Spec => []UrlRoundTrip
<1>1. Init => AnswerKept
  BY DEF Init, AnswerKept
<1>2. AnswerKept /\ [Next]_vars => AnswerKept'
  BY AnswerStep
<1>3. UrlInv /\ AnswerKept => UrlRoundTrip
  <2>. SUFFICES ASSUME UrlInv, AnswerKept, stage = "done",
                       encode => "%" \notin ToSet(answer), "#" \notin ToSet(params)
                PROVE  ParseUrl(answer, None, encode) = url
    BY DEF UrlRoundTrip
  <2>1. WellFormed(url) /\ Fit(url) /\ params \in Seq(Symbol) /\ url \in HttpUrl
    BY DEF UrlInv, Chain, Arguments, WellFormed
  <2>2. Hashless(params)
    BY <2>1, HashlessIs
  <2>. DEFINE r == WriteResource(url)
  <2>3. r \in Seq(Symbol)
    BY <2>1, ResourceIs
  <2>4. answer = WriteBaseUrl(url) \o r
    BY DEF AnswerKept
  <2>5. r = WriteResource(url)
    OBVIOUS
  <2>. HIDE DEF r
  <2>6. Prints(answer, url, r, Behind(url, r))
    BY <2>1, <2>3, <2>4, BasePrints, Zenon
  <2>7. answer \in Seq(Symbol)
    BY <2>6, Zenon DEF Prints
  <2>8. ToSet(answer) = {answer[i] : i \in 1 .. Len(answer)}
    BY <2>7, LenProperties DEF ToSet
  <2>9. encode => \A i \in 1 .. Len(answer) : answer[i] # "%"
    BY <2>8
  <2>. QED BY <2>1, <2>2, <2>5, <2>6, <2>9, RoundTrip, Zenon
<1>. QED BY <1>1, <1>2, <1>3, UrlInvariance, PTL DEF Spec

===============================================================================
