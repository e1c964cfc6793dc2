---------------------------- MODULE LazyReadProofs ----------------------------
(***************************************************************************)
(* Theorems about LazyRead, for all bodies, buffers and chunks.            *)
(***************************************************************************)
EXTENDS LazyRead, SequenceFacts

USE DEF server, stream

\* Only a reader with room has been promised any; who reads has a buffer.
Buffer ==
  stage = "reading" =>
    /\ room \in Rooms
    /\ ~narrow => Len(trailing) + ChunkMax <= room

Flags == body \in Seq(Byte) /\ closes \in BOOLEAN /\ narrow \in BOOLEAN /\ hasty \in BOOLEAN

IInv == Flags /\ TypeOK /\ Buffer /\ ExactWhenRoomy /\ NoFalseEnd

-------------------------------------------------------------------------------
\* What a poll puts into the buffer: the prefix whole, and a part of the chunk.
LEMMA FilledIs ==
  ASSUME IInv, Fits, NEW n \in 1 .. ChunkMax, n <= Len(unread)
  PROVE  \E len \in 0 .. n :
           /\ Filled(n) = trailing \o SubSeq(unread, 1, len)
           /\ SubSeq(unread, 1, len) \in Seq(Byte)
           /\ Len(SubSeq(unread, 1, len)) = len
           /\ stage = "reading" /\ trailing = <<>> => len # 0
           /\ stage = "reading" /\ ~narrow => len = n
<1> DEFINE len == IF n < room - Len(trailing) THEN n ELSE room - Len(trailing)
<1>1. /\ trailing \in Seq(Byte) /\ unread \in Seq(Byte)
      /\ room \in Nat /\ Len(trailing) <= room
  BY LazyAssumption DEF IInv, TypeOK, Fits
<1>2. n \in Nat /\ Len(trailing) \in Nat /\ Len(unread) \in Nat /\ ChunkMax \in Nat
  BY <1>1, LazyAssumption
<1>3. len \in 0 .. n
  BY <1>1, <1>2
<1>4. stage = "reading" /\ trailing = <<>> => len # 0
  <2> SUFFICES ASSUME stage = "reading", trailing = <<>> PROVE len # 0
    OBVIOUS
  <2>1. room \in Nat \ {0}
    BY LazyAssumption DEF IInv, Buffer
  <2>2. Len(trailing) = 0
    BY EmptySeq
  <2> QED
    BY <1>2, <2>1, <2>2
<1>5. stage = "reading" /\ ~narrow => len = n
  BY <1>1, <1>2 DEF IInv, Buffer
<1>6. Filled(n) = trailing \o SubSeq(unread, 1, len)
  BY DEF Filled
<1> HIDE DEF len
<1>7. SubSeq(unread, 1, len) \in Seq(Byte) /\ Len(SubSeq(unread, 1, len)) = len
  <2>1. len \in 0 .. Len(unread)
    BY <1>2, <1>3
  <2> QED
    BY <1>1, <2>1, CutInTwo
<1> QED
  BY <1>3, <1>4, <1>5, <1>6, <1>7

LEMMA InitIInv == Init => IInv
<1> SUFFICES ASSUME Init PROVE IInv
  OBVIOUS
<1>1. body \in Seq(Byte)
  BY LazyAssumption DEF Init
<1>2. PICK k \in 0 .. Len(body) : /\ trailing = SubSeq(body, 1, k)
                                  /\ unread = SubSeq(body, k + 1, Len(body))
  BY DEF Init
<1>3. /\ trailing \in Seq(Byte) /\ unread \in Seq(Byte)
      /\ Len(trailing) + Len(unread) = Len(body)
      /\ trailing \o unread = body
  <2>1. Len(body) \in Nat /\ k \in Nat
    BY <1>1
  <2>2. /\ trailing \in Seq(Byte) /\ unread \in Seq(Byte)
        /\ Len(trailing) = k /\ Len(unread) = Len(body) - k
        /\ trailing \o unread = body
    BY <1>1, <1>2, CutInTwo
  <2> QED
    BY <2>1, <2>2
<1>4. got = <<>> /\ got \in Seq(Byte) /\ Len(got) = 0
  BY EmptySeq DEF Init
<1>5. TypeOK
  <2>1. Len(trailing) \in Nat /\ Len(unread) \in Nat
    BY <1>3
  <2>2. Len(got) + Len(trailing) + Len(unread) <= Len(body)
    BY <1>3, <1>4, <2>1
  <2> QED
    BY <1>3, <1>4, <2>2 DEF Init, TypeOK
<1>6. got \o trailing \o unread = body
  BY <1>3, <1>4, ConcatEmptySeq
<1> QED
  BY <1>1, <1>5, <1>6 DEF Init, IInv, Flags, Buffer, ExactWhenRoomy, NoFalseEnd

\* Read chooses a buffer and touches no byte.
LEMMA ReadStep == ASSUME IInv, Read PROVE IInv'
<1>1. Len(trailing) \in Nat /\ ChunkMax \in Nat /\ room' \in Nat
  BY LazyAssumption DEF IInv, TypeOK, Read
<1>2. TypeOK'
  BY DEF IInv, TypeOK, Read
<1>3. Buffer'
  <2>1. ~narrow' => ~(room' < Len(trailing) + ChunkMax)
    BY Zenon DEF Read
  <2>2. ~narrow' => Len(trailing) + ChunkMax <= room'
    BY <1>1, <2>1
  <2> QED
    BY <2>2 DEF Buffer, Read
<1>4. Flags'
  BY DEF IInv, Flags, Read
<1>5. narrow' = FALSE => narrow = FALSE
  BY DEF IInv, Flags, Read
<1>6. ExactWhenRoomy'
  BY <1>5 DEF IInv, Flags, ExactWhenRoomy, Read
<1> QED
  BY <1>2, <1>3, <1>4, <1>6 DEF IInv, NoFalseEnd, Read

\* PrefixPanics leaves everything as it is.
LEMMA PrefixPanicsStep == ASSUME IInv, PrefixPanics PROVE IInv'
  BY DEF IInv, Flags, TypeOK, Buffer, ExactWhenRoomy, NoFalseEnd, PrefixPanics

\* The prefix and the first len bytes of a chunk of n are the caller's.
Takes(n, len) ==
  /\ got' = got \o (trailing \o SubSeq(unread, 1, len))
  /\ unread' = SubSeq(unread, n + 1, Len(unread))
  /\ stage = "reading" /\ stage' = "idle" /\ trailing' = <<>>
  /\ UNCHANGED <<server, eof, room, narrow, hasty>>
  /\ ~narrow => len = n

\* A poll that gets a chunk returns the prefix with a part of it.
LEMMA ChunkTaken ==
  ASSUME IInv, PollChunk
  PROVE  \E n \in 1 .. Len(unread) : \E len \in 0 .. n : Takes(n, len)
<1>1. PICK n \in 1 .. ChunkMax :
        /\ n <= Len(unread)
        /\ Return(Filled(n))
        /\ unread' = SubSeq(unread, n + 1, Len(unread))
  BY DEF PollChunk
<1>2. stage = "reading" /\ Fits /\ eof' = eof
  BY DEF PollChunk
<1>3. PICK len \in 0 .. n :
           /\ Filled(n) = trailing \o SubSeq(unread, 1, len)
           /\ SubSeq(unread, 1, len) \in Seq(Byte)
           /\ Len(SubSeq(unread, 1, len)) = len
           /\ stage = "reading" /\ trailing = <<>> => len # 0
           /\ stage = "reading" /\ ~narrow => len = n
  BY <1>1, <1>2, FilledIs
<1> DEFINE part == SubSeq(unread, 1, len)
<1>4. trailing \in Seq(Byte) /\ part \in Seq(Byte)
  BY <1>3 DEF IInv, TypeOK
<1>5. trailing = <<>> => part # <<>>
  BY <1>2, <1>3, EmptySeq
<1>6. n \in 1 .. Len(unread)
  <2>1. Len(unread) \in Nat
    BY DEF IInv, TypeOK
  <2> QED
    BY <1>1, <2>1, LazyAssumption
<1> HIDE DEF part
<1>7. trailing \o part # <<>>
  BY <1>4, <1>5, ConcatEqualIffEmpty
<1>8. Return(trailing \o part)
  BY <1>1, <1>3 DEF part
<1>9. /\ got' = got \o (trailing \o part) /\ stage' = "idle" /\ trailing' = <<>>
      /\ UNCHANGED <<server, room, narrow, hasty>>
  BY <1>7, <1>8 DEF Return
<1> QED
  BY <1>1, <1>2, <1>3, <1>6, <1>9 DEF part, Takes

\* PollChunk keeps the invariant.
LEMMA PollChunkStep == ASSUME IInv, PollChunk PROVE IInv'
<1>0. PICK n \in 1 .. Len(unread) : \E len \in 0 .. n : Takes(n, len)
  BY ChunkTaken
<1>1. PICK len \in 0 .. n : Takes(n, len)
  BY <1>0
<1> USE DEF Takes
<1> DEFINE part == SubSeq(unread, 1, len)
           rest == SubSeq(unread, n + 1, Len(unread))
<1>2. /\ trailing \in Seq(Byte) /\ unread \in Seq(Byte) /\ got \in Seq(Byte)
      /\ Len(got) + Len(trailing) + Len(unread) <= Len(body)
      /\ body \in Seq(Byte)
  BY DEF IInv, TypeOK, Flags
<1>3. /\ Len(unread) \in Nat /\ Len(trailing) \in Nat /\ Len(got) \in Nat /\ Len(body) \in Nat
      /\ n \in Nat /\ len \in Nat /\ len <= n
      /\ n \in 0 .. Len(unread) /\ len \in 0 .. Len(unread)
  BY <1>2
<1>4. /\ rest \in Seq(Byte) /\ Len(rest) = Len(unread) - n
      /\ SubSeq(unread, 1, n) \o rest = unread
      /\ part \in Seq(Byte) /\ Len(part) = len
  BY <1>2, <1>3, CutInTwo
<1>5. ~narrow => part \o rest = unread
  BY <1>1, <1>4
<1> HIDE DEF part, rest
<1>6. got \in Seq(Byte) /\ trailing \in Seq(Byte) /\ part \in Seq(Byte) /\ rest \in Seq(Byte)
  BY <1>2, <1>4
<1>7. trailing \o part \in Seq(Byte) /\ Len(trailing \o part) = Len(trailing) + len
  BY <1>4, <1>6, ConcatProperties
<1>8. /\ got \o (trailing \o part) \in Seq(Byte)
      /\ Len(got \o (trailing \o part)) = Len(got) + Len(trailing \o part)
  BY <1>6, <1>7, ConcatProperties
<1>9. got' = got \o (trailing \o part) /\ unread' = rest /\ body' = body
  BY <1>1 DEF part, rest
<1>10. trailing' \in Seq(Byte) /\ Len(trailing') = 0
  BY <1>1, EmptySeq
<1>11. TypeOK'
  <2>1. Len(got') + Len(trailing') + Len(unread') <= Len(body')
    <3>1. /\ Len(got') = Len(got) + Len(trailing) + len
          /\ Len(unread') = Len(unread) - n
          /\ body' = body
      BY <1>3, <1>4, <1>7, <1>8, <1>9
    <3> QED
      BY <3>1, <1>2, <1>3, <1>10
  <2> QED
    BY <2>1, <1>1, <1>6, <1>8, <1>9, <1>10 DEF TypeOK, IInv
<1>12. ExactWhenRoomy'
  <2> SUFFICES ASSUME ~narrow, ~hasty PROVE got' \o trailing' \o unread' = body'
    BY <1>1 DEF ExactWhenRoomy
  <2>1. got \o trailing \o unread = body
    BY <1>1 DEF IInv, ExactWhenRoomy
  <2>2. got' \o trailing' = got'
    BY <1>1, <1>8, <1>9, ConcatEmptySeq
  <2>3. (got \o trailing) \o part = got \o (trailing \o part)
    BY <1>6, ConcatAssociative
  <2>4. got \o trailing \in Seq(Byte)
    BY <1>6, ConcatProperties
  <2>5. ASSUME NEW h \in Seq(Byte) PROVE (h \o part) \o rest = h \o (part \o rest)
    BY <1>6, ConcatAssociative, SMTT(30)
  <2>6. ((got \o trailing) \o part) \o rest = (got \o trailing) \o (part \o rest)
    BY <2>4, <2>5, Zenon
  <2> QED
    BY <2>1, <2>2, <2>3, <2>6, <1>1, <1>5, <1>9
<1> QED
  BY <1>1, <1>11, <1>12 DEF IInv, Flags, Buffer, NoFalseEnd

\* PollClosed hands out the prefix, or nothing.
LEMMA PollClosedStep == ASSUME IInv, PollClosed PROVE IInv'
<1>1. /\ stage = "reading" /\ unread = <<>> /\ unread' = <<>> /\ closes /\ eof' = TRUE
      /\ got' = got \o trailing /\ trailing' = <<>>
      /\ stage' \in {"idle", "end"}
      /\ UNCHANGED <<server, room, narrow, hasty>>
  BY DEF PollClosed, Return
<1>2. /\ trailing \in Seq(Byte) /\ got \in Seq(Byte) /\ body \in Seq(Byte)
      /\ Len(got) + Len(trailing) + Len(unread) <= Len(body)
  BY DEF IInv, TypeOK, Flags
<1>3. got' \in Seq(Byte) /\ Len(got') = Len(got) + Len(trailing)
  BY <1>1, <1>2, ConcatProperties
<1>4. <<>> \in Seq(Byte) /\ Len(<<>>) = 0
  BY EmptySeq
<1>5. TypeOK'
  <2>1. Len(got') + Len(trailing') + Len(unread') <= Len(body')
    BY <1>1, <1>2, <1>3, <1>4
  <2> QED
    BY <2>1, <1>1, <1>3, <1>4 DEF IInv, TypeOK
<1>6. ExactWhenRoomy'
  <2>1. got' \o trailing' \o unread' = got \o trailing \o unread
    BY <1>1, <1>2, <1>3, ConcatEmptySeq
  <2> QED
    BY <2>1, <1>1 DEF IInv, ExactWhenRoomy
<1> QED
  BY <1>1, <1>5, <1>6 DEF IInv, Flags, Buffer, NoFalseEnd

\* PollError ends it all.
LEMMA PollErrorStep == ASSUME IInv, PollError PROVE IInv'
<1>1. <<>> \in Seq(Byte) /\ Len(<<>>) = 0
  BY EmptySeq
<1>2. TypeOK'
  <2>1. Len(trailing) \in Nat /\ Len(got) \in Nat /\ Len(unread) \in Nat /\ Len(body) \in Nat
    BY DEF IInv, Flags, TypeOK
  <2> QED
    BY <1>1, <2>1 DEF IInv, TypeOK, PollError
<1> QED
  BY <1>2 DEF IInv, Flags, Buffer, ExactWhenRoomy, NoFalseEnd, PollError

\* PollPending loses the prefix.
LEMMA PollPendingStep == ASSUME IInv, PollPending PROVE IInv'
<1>1. <<>> \in Seq(Byte) /\ Len(<<>>) = 0
  BY EmptySeq
<1>2. Len(trailing) \in Nat /\ Len(got) \in Nat /\ Len(unread) \in Nat /\ Len(body) \in Nat
  BY DEF IInv, Flags, TypeOK
<1>3. TypeOK'
  BY <1>1, <1>2 DEF IInv, TypeOK, PollPending
<1>4. Buffer'
  <2>1. ChunkMax \in Nat /\ room \in Nat
    BY LazyAssumption DEF IInv, TypeOK
  <2> QED
    BY <2>1, <1>1, <1>2 DEF IInv, Buffer, PollPending
<1>5. hasty' = FALSE => trailing' = trailing /\ hasty = FALSE
  BY DEF PollPending, IInv, Flags
<1>6. ExactWhenRoomy'
  BY <1>5 DEF IInv, Flags, ExactWhenRoomy, PollPending
<1>7. Flags'
  BY DEF IInv, Flags, PollPending
<1> QED
  BY <1>3, <1>4, <1>6, <1>7 DEF IInv, NoFalseEnd, PollPending

\* The invariant holds whatever the caller and the stream do.
THEOREM Invariance == Spec => []IInv
<1>1. Init => IInv
  BY InitIInv
<1>2. IInv /\ [Next]_vars => IInv'
  <2> SUFFICES ASSUME IInv, [Next]_vars PROVE IInv'
    OBVIOUS
  <2>1. CASE UNCHANGED vars
    BY <2>1 DEF vars, IInv, Flags, TypeOK, Buffer, ExactWhenRoomy, NoFalseEnd
  <2> QED
    BY <2>1, ReadStep, PrefixPanicsStep, PollChunkStep, PollClosedStep, PollErrorStep,
       PollPendingStep DEF Next, Stream, Terminated
<1> QED
  BY <1>1, <1>2, PTL DEF Spec

\* Every variable of the AsyncRead keeps its type, and no byte is in two places.
THEOREM LazyTyping == Spec => []TypeOK
<1>1. IInv => TypeOK
  BY DEF IInv
<1> QED
  BY <1>1, Invariance, PTL

\* With room for the prefix and a chunk in every buffer, and a first read that
\* does not have to wait, poll_read loses no byte.
THEOREM RoomyIsExact == Spec => []ExactWhenRoomy
<1>1. IInv => ExactWhenRoomy
  BY DEF IInv
<1> QED
  BY <1>1, Invariance, PTL

\* A read of poll_read returns no bytes only at the end of what the server sent.
THEOREM EndIsNotFalse == Spec => []NoFalseEnd
<1>1. IInv => NoFalseEnd
  BY DEF IInv
<1> QED
  BY <1>1, Invariance, PTL

-------------------------------------------------------------------------------
(* The refinement.                                                         *)

\* PollChunk moves past the prefix and the chunk.
LEMMA ChunkAdvances ==
  ASSUME IInv, PollChunk
  PROVE  \E k \in 1 .. Len(Rest) : \E n \in 0 .. k : Body!Advance(n, k)
<1>0. PICK n \in 1 .. Len(unread) : \E len \in 0 .. n : Takes(n, len)
  BY ChunkTaken
<1>1. PICK len \in 0 .. n : Takes(n, len)
  BY <1>0
<1> USE DEF Takes
<1>2. trailing \in Seq(Byte) /\ unread \in Seq(Byte)
  BY DEF IInv, TypeOK
<1>3. /\ Len(unread) \in Nat /\ Len(trailing) \in Nat /\ n \in Nat /\ len \in Nat
      /\ n \in 0 .. Len(unread) /\ len \in 0 .. Len(unread)
  BY <1>2
<1>4. Rest = trailing \o unread /\ Len(Rest) = Len(trailing) + Len(unread)
  BY <1>1, <1>2, ConcatProperties DEF Rest, Over
<1>5. SubSeq(Rest, 1, Len(trailing) + len) = trailing \o SubSeq(unread, 1, len)
  BY <1>2, <1>3, <1>4, CutBehind
<1>6. SubSeq(Rest, Len(trailing) + n + 1, Len(Rest)) = SubSeq(unread, n + 1, Len(unread))
  BY <1>2, <1>3, <1>4, CutBefore
<1>7. Rest' = SubSeq(unread, n + 1, Len(unread))
  <2>1. SubSeq(unread, n + 1, Len(unread)) \in Seq(Byte)
    BY <1>2, <1>3, CutInTwo
  <2> QED
    BY <2>1, <1>1, ConcatEmptySeq DEF Rest, Over
<1>8. /\ Len(trailing) + n \in 1 .. Len(Rest)
      /\ Len(trailing) + len \in 0 .. Len(trailing) + n
  BY <1>3, <1>4
<1>9. Body!Advance(Len(trailing) + len, Len(trailing) + n)
  <2>1. got' = got \o SubSeq(Rest, 1, Len(trailing) + len)
    BY <1>1, <1>5
  <2>2. Rest' = SubSeq(Rest, Len(trailing) + n + 1, Len(Rest))
    BY <1>6, <1>7
  <2>3. stage = "reading" /\ stage' = "idle"
    BY <1>1
  <2> QED
    BY <2>1, <2>2, <2>3 DEF Body!Advance, Over
<1> QED
  BY <1>8, <1>9

\* PollClosed and PollPending move past the prefix, with it or without it.
LEMMA PrefixAdvances ==
  ASSUME IInv, PollClosed \/ PollPending, trailing # <<>>
  PROVE  \E k \in 1 .. Len(Rest) : \E n \in 0 .. k : Body!Advance(n, k)
<1>1. trailing \in Seq(Byte) /\ unread \in Seq(Byte) /\ got \in Seq(Byte)
  BY DEF IInv, TypeOK
<1>2. Len(trailing) \in Nat \ {0} /\ Len(unread) \in Nat
  BY <1>1, EmptySeq
<1>3. /\ stage = "reading" /\ stage' \in {"reading", "idle", "end"}
      /\ trailing' = <<>> /\ unread' = unread
  BY DEF PollClosed, PollPending, Return
<1>4. Rest = trailing \o unread /\ Len(Rest) = Len(trailing) + Len(unread)
  BY <1>1, <1>3, ConcatProperties DEF Rest, Over
<1>5. Rest' = unread
  BY <1>1, <1>3, ConcatEmptySeq DEF Rest, Over
<1>6. SubSeq(Rest, Len(trailing) + 1, Len(Rest)) = unread
  <2>1. SubSeq(Rest, Len(trailing) + 0 + 1, Len(Rest)) = SubSeq(unread, 0 + 1, Len(unread))
    BY <1>1, <1>2, <1>4, CutBefore
  <2>2. Len(trailing) + 0 + 1 = Len(trailing) + 1 /\ 0 + 1 = 1
    BY <1>2
  <2> QED
    BY <2>1, <2>2, <1>1, SubSeqFull
<1>7. CASE PollClosed
  <2>1. got' = got \o trailing
    BY <1>7 DEF PollClosed, Return
  <2>2. SubSeq(Rest, 1, Len(trailing)) = trailing
    <3>1. SubSeq(Rest, 1, Len(trailing) + 0) = trailing \o SubSeq(unread, 1, 0)
      BY <1>1, <1>2, <1>4, CutBehind
    <3>2. SubSeq(unread, 1, 0) = <<>>
      BY SubSeqEmpty
    <3> QED
      BY <3>1, <3>2, <1>1, <1>2, ConcatEmptySeq
  <2>3. Body!Advance(Len(trailing), Len(trailing))
    BY <2>1, <2>2, <1>3, <1>5, <1>6 DEF Body!Advance, Over
  <2> QED
    BY <2>3, <1>2, <1>4
<1>8. CASE PollPending
  <2>1. got' = got
    BY <1>8 DEF PollPending
  <2>2. SubSeq(Rest, 1, 0) = <<>>
    BY SubSeqEmpty
  <2>3. got' = got \o SubSeq(Rest, 1, 0)
    BY <2>1, <2>2, <1>1, ConcatEmptySeq
  <2>4. Body!Advance(0, Len(trailing))
    BY <2>3, <1>3, <1>5, <1>6 DEF Body!Advance, Over
  <2> QED
    BY <2>4, <1>2, <1>4
<1> QED
  BY <1>7, <1>8

\* Every step of the AsyncRead is one that BodyStream allows.
LEMMA BodyStep ==
  ASSUME IInv, [Next]_vars
  PROVE  [Body!Next]_(Body!vars)
<1> USE DEF Body!vars
<1>1. CASE Read \/ UNCHANGED vars
  BY <1>1 DEF Read, vars, Rest, Over
<1>2. CASE PrefixPanics \/ PollError
  BY <1>2 DEF PrefixPanics, PollError, Body!Next, Body!Fail, Rest, Over
<1>3. CASE PollChunk
  BY <1>3, ChunkAdvances DEF Body!Next
<1>4. CASE (PollClosed \/ PollPending) /\ trailing # <<>>
  BY <1>4, PrefixAdvances DEF Body!Next
<1>5. CASE (PollClosed \/ PollPending) /\ trailing = <<>>
  <2>1. got \in Seq(Byte)
    BY DEF IInv, TypeOK
  <2>2. got' = got
    BY <1>5, <2>1, ConcatEmptySeq DEF PollClosed, PollPending, Return
  <2>3. /\ stage = "reading" /\ stage' \in {"reading", "idle", "end"}
        /\ trailing' = <<>> /\ unread' = unread
    BY <1>5 DEF PollClosed, PollPending, Return
  <2> QED
    BY <1>5, <2>2, <2>3 DEF Rest, Over
<1>6. CASE Terminated
  BY <1>6 DEF Terminated, vars, Rest, Over
<1> QED
  BY <1>1, <1>2, <1>3, <1>4, <1>5, <1>6 DEF Next, Stream

\* Whatever the sizes of the buffers, and wherever the stream is Pending, the
\* caller of poll_read gets bytes sent behind the head, each at most once and in
\* order: the AsyncRead implements BodyStream.
THEOREM LazyReadsBody == Spec => ReadsBody
<1>1. Init => Body!Init
  <2> SUFFICES ASSUME Init PROVE Body!Init
    OBVIOUS
  <2>1. IInv
    BY InitIInv
  <2>2. trailing \o unread \in Seq(Byte)
    BY <2>1, ConcatProperties DEF IInv, TypeOK
  <2> QED
    BY <2>2 DEF Init, Body!Init, Rest, Over
<1>2. IInv /\ [Next]_vars => [Body!Next]_(Body!vars)
  BY BodyStep
<1> QED
  BY <1>1, <1>2, Invariance, PTL DEF Spec, ReadsBody, Body!Spec

===============================================================================
