---------------------------- MODULE SequenceFacts -----------------------------
(***************************************************************************)
(* How sequences are cut and joined, the first and the last position with  *)
(* a property, and remainders: what the proofs about streams and texts     *)
(* have in common.                                                         *)
(***************************************************************************)
EXTENDS Integers, SequenceTheorems, WellFoundedInduction, TLAPS

\* A piece of a sequence, position by position.
LEMMA Piece ==
  ASSUME NEW S, NEW s \in Seq(S), NEW m \in 1 .. Len(s) + 1, NEW n \in m - 1 .. Len(s)
  PROVE  /\ SubSeq(s, m, n) \in Seq(S)
         /\ Len(SubSeq(s, m, n)) = n - m + 1
         /\ \A i \in 1 .. n - m + 1 : SubSeq(s, m, n)[i] = s[m + i - 1]
<1>1. \A i \in m .. n : s[i] \in S
  BY ElementOfSeq
<1> QED
  BY <1>1, SubSeqProperties

\* What ends inside of the second part takes the first part whole.
LEMMA CutBehind ==
  ASSUME NEW S, NEW s \in Seq(S), NEW t \in Seq(S), NEW n \in 0 .. Len(t)
  PROVE  SubSeq(s \o t, 1, Len(s) + n) = s \o SubSeq(t, 1, n)
<1> DEFINE a == SubSeq(s \o t, 1, Len(s) + n)
           b == s \o SubSeq(t, 1, n)
<1>1. s \o t \in Seq(S) /\ Len(s \o t) = Len(s) + Len(t)
  BY ConcatProperties
<1>2. /\ a \in Seq(S)
      /\ Len(a) = Len(s) + n
      /\ \A i \in 1 .. Len(s) + n : a[i] = (s \o t)[i]
  BY <1>1, Piece
<1>3. /\ SubSeq(t, 1, n) \in Seq(S)
      /\ Len(SubSeq(t, 1, n)) = n
      /\ \A i \in 1 .. n : SubSeq(t, 1, n)[i] = t[i]
  BY Piece
<1>4. b \in Seq(S) /\ Len(b) = Len(s) + n
  BY <1>3, ConcatProperties
<1>5. ASSUME NEW i \in 1 .. Len(s) + n PROVE a[i] = b[i]
  <2>1. b[i] = IF i <= Len(s) THEN s[i] ELSE SubSeq(t, 1, n)[i - Len(s)]
    BY <1>3, ConcatProperties
  <2>2. (s \o t)[i] = IF i <= Len(s) THEN s[i] ELSE t[i - Len(s)]
    BY ConcatProperties
  <2> QED
    BY <1>2, <1>3, <2>1, <2>2
<1> HIDE DEF a, b
<1>6. a = b
  BY <1>2, <1>4, <1>5, SeqEqual
<1> QED
  BY <1>6 DEF a, b

\* What begins inside of the second part has nothing of the first.
LEMMA CutBefore ==
  ASSUME NEW S, NEW s \in Seq(S), NEW t \in Seq(S), NEW n \in 0 .. Len(t)
  PROVE  SubSeq(s \o t, Len(s) + n + 1, Len(s \o t)) = SubSeq(t, n + 1, Len(t))
<1> DEFINE a == SubSeq(s \o t, Len(s) + n + 1, Len(s) + Len(t))
           b == SubSeq(t, n + 1, Len(t))
<1>1. s \o t \in Seq(S) /\ Len(s \o t) = Len(s) + Len(t)
  BY ConcatProperties
<1>2. /\ a \in Seq(S)
      /\ Len(a) = Len(t) - n
      /\ \A i \in 1 .. Len(t) - n : a[i] = (s \o t)[Len(s) + n + i]
  <2>1. Len(s) + n + 1 \in 1 .. Len(s \o t) + 1
    BY <1>1
  <2>2. Len(s) + Len(t) \in Len(s) + n + 1 - 1 .. Len(s \o t)
    BY <1>1
  <2> QED
    BY <1>1, <2>1, <2>2, Piece
<1>3. /\ b \in Seq(S)
      /\ Len(b) = Len(t) - n
      /\ \A i \in 1 .. Len(t) - n : b[i] = t[n + i]
  BY Piece
<1>4. ASSUME NEW i \in 1 .. Len(t) - n PROVE a[i] = b[i]
  <2>1. (s \o t)[Len(s) + n + i] = t[n + i]
    BY ConcatProperties
  <2> QED
    BY <1>2, <1>3, <2>1
<1> HIDE DEF a, b
<1>5. a = b
  BY <1>2, <1>3, <1>4, SeqEqual
<1> QED
  BY <1>1, <1>5 DEF a, b

\* A sequence that is cut in two is the two parts.
LEMMA CutInTwo ==
  ASSUME NEW S, NEW s \in Seq(S), NEW n \in 0 .. Len(s)
  PROVE  /\ SubSeq(s, 1, n) \in Seq(S)
         /\ SubSeq(s, n + 1, Len(s)) \in Seq(S)
         /\ Len(SubSeq(s, 1, n)) = n
         /\ Len(SubSeq(s, n + 1, Len(s))) = Len(s) - n
         /\ SubSeq(s, 1, n) \o SubSeq(s, n + 1, Len(s)) = s
<1>1. Len(s) \in Nat
  BY LenProperties
<1>2. 1 \in 1 .. Len(s) + 1 /\ n \in 1 - 1 .. Len(s) /\ Len(s) \in n .. Len(s)
  BY <1>1
<1>3. SubSeq(s, 1, n) \o SubSeq(s, n + 1, Len(s)) = SubSeq(s, 1, Len(s))
  BY <1>2, ConcatAdjacentSubSeq
<1>4. SubSeq(s, 1, n) \in Seq(S) /\ Len(SubSeq(s, 1, n)) = n
  BY <1>1, Piece
<1>5. SubSeq(s, n + 1, Len(s)) \in Seq(S) /\ Len(SubSeq(s, n + 1, Len(s))) = Len(s) - n
  BY <1>1, Piece
<1> QED
  BY <1>3, <1>4, <1>5, SubSeqFull

\* A nonempty set of natural numbers has a least element.
LEMMA LeastNatural ==
  ASSUME NEW T \in SUBSET Nat, T # {}
  PROVE  \E x \in T : \A y \in T : x <= y
<1>. DEFINE R == OpToRel(<, Nat)
<1>1. PICK x \in T : \A y \in T : <<y, x>> \notin R
  <2>. HIDE DEF R
  <2>1. IsWellFoundedOn(R, Nat)
    BY NatLessThanWellFounded DEF R
  <2>. QED BY <2>1, WFMin
<1>2. ASSUME NEW y \in T PROVE x <= y
  <2>1. <<y, x>> \notin R
    BY <1>1
  <2>2. ~(y < x)
    BY <2>1 DEF OpToRel
  <2>. QED BY <2>2
<1>. QED BY <1>2

\* A bounded one has a greatest element.
LEMMA GreatestNatural ==
  ASSUME NEW n \in Nat, NEW T \in SUBSET (0 .. n), T # {}
  PROVE  \E x \in T : \A y \in T : x >= y
<1>. DEFINE U == {n - x : x \in T}
<1>1. U \in SUBSET Nat /\ U # {}
  <2>1. \A x \in T : n - x \in Nat
    OBVIOUS
  <2>2. U \subseteq Nat
    BY <2>1
  <2>3. U # {}
    OBVIOUS
  <2>. QED BY <2>2, <2>3
<1>2. PICK u \in U : \A v \in U : u <= v
  <2>. HIDE DEF U
  <2>. QED BY <1>1, LeastNatural
<1>3. PICK x \in T : u = n - x
  OBVIOUS
<1>4. ASSUME NEW y \in T PROVE x >= y
  <2>1. n - y \in U
    OBVIOUS
  <2>2. n - x <= n - y
    BY <1>2, <1>3, <2>1
  <2>. QED BY <2>2
<1>. QED BY <1>4

\* What is left of a division.
LEMMA Division ==
  ASSUME NEW n \in Int, NEW b \in Int, b > 0
  PROVE  /\ n = (b * (n \div b)) + (n % b)
         /\ n \div b \in Int
         /\ n % b \in Int /\ 0 <= n % b /\ n % b < b
<1>1. n = (b * (n \div b)) + (n % b)
  OBVIOUS
<1>2. n \div b \in Int
  OBVIOUS
<1>3. n % b \in Int /\ 0 <= n % b /\ n % b < b
  OBVIOUS
<1>. QED BY <1>1, <1>2, <1>3

\* No multiple lies between zero and the divisor.
LEMMA NoMultiple ==
  ASSUME NEW b \in Int, b > 0, NEW q \in Int, NEW r \in Int, 0 <= r, r < b, b * q + r = 0
  PROVE  r = 0
OBVIOUS

\* One more whole buffer leaves nothing over.
LEMMA OneMore ==
  ASSUME NEW n \in Int, NEW b \in Int, b > 0, n % b = 0
  PROVE  (n + b) % b = 0
<1>. DEFINE q == n \div b
            p == (n + b) \div b
            r == (n + b) % b
<1>1. n = b * q /\ q \in Int
  BY Division
<1>2. n + b = b * p + r /\ p \in Int /\ r \in Int /\ 0 <= r /\ r < b
  BY Division
<1>. HIDE DEF q, p, r
<1>3. b * (p - (q + 1)) + r = 0
  BY <1>1, <1>2
<1>4. p - (q + 1) \in Int
  BY <1>1, <1>2
<1>5. r = 0
  BY <1>2, <1>3, <1>4, NoMultiple
<1>. QED BY <1>5 DEF r

\* Induction up to a bound, with the set of the numbers that it has reached.
LEMMA Induction ==
  ASSUME NEW m \in Nat, NEW T, 0 \in T, \A n \in 0 .. m - 1 : n \in T => n + 1 \in T
  PROVE  \A n \in 0 .. m : n \in T
<1>. DEFINE U == {n \in 0 .. m : n \notin T}
<1>1. SUFFICES ASSUME U # {} PROVE FALSE
  OBVIOUS
<1>2. U \in SUBSET Nat
  OBVIOUS
<1>3. PICK n \in U : \A k \in U : n <= k
  <2>. HIDE DEF U
  <2>. QED BY <1>1, <1>2, LeastNatural
<1>4. n # 0 /\ n \in 0 .. m /\ n \notin T
  OBVIOUS
<1>5. n - 1 \in 0 .. m - 1 /\ n - 1 \notin U /\ (n - 1) + 1 = n
  BY <1>3, <1>4
<1>6. n - 1 \in T
  BY <1>5
<1>. QED BY <1>4, <1>5, <1>6

===============================================================================
