------------------------- MODULE ResponseReaderProofs -------------------------
(***************************************************************************)
(* What ResponseReader guarantees for all messages, limits and ways of     *)
(* cutting the stream into chunks.                                         *)
(***************************************************************************)
EXTENDS ResponseReader, SequenceFacts

USE DEF Stages, HeadStages, PollStages, FailStages

-------------------------------------------------------------------------------
(* Lines.                                                                  *)

\* FirstBreak is where the loop over the bytes stops.
LEMMA FirstBreakIs ==
  ASSUME NEW bytes \in Seq(Byte), Breaks(bytes) # {}
  PROVE  /\ FirstBreak(bytes) \in 1 .. Len(bytes)
         /\ bytes[FirstBreak(bytes)] = LF
<1>1. Breaks(bytes) \subseteq 1 .. Len(bytes)
  BY DEF Breaks
<1>2. \E i \in Breaks(bytes) : \A j \in Breaks(bytes) : i <= j
  BY <1>1, LeastNatural
<1>3. FirstBreak(bytes) \in Breaks(bytes)
  BY <1>2 DEF FirstBreak
<1>. QED BY <1>3 DEF Breaks

\* A line and what follows it are made of the bytes that were read.
LEMMA LineType ==
  ASSUME line \in Seq(Byte), NEW bytes \in Seq(Byte), Breaks(bytes) # {}
  PROVE  Complete(bytes) \in Seq(Byte) /\ After(bytes) \in Seq(Byte)
<1>. DEFINE n == FirstBreak(bytes)
<1>1. n \in 1 .. Len(bytes)
  BY FirstBreakIs
<1>. HIDE DEF n
<1>2. SubSeq(bytes, 1, n - 1) \in Seq(Byte) /\ SubSeq(bytes, n + 1, Len(bytes)) \in Seq(Byte)
  BY <1>1
<1>3. line \o SubSeq(bytes, 1, n - 1) \in Seq(Byte)
  BY <1>2, ConcatProperties
<1>4. \A l \in Seq(Byte) : StripCR(l) \in Seq(Byte)
  BY DEF StripCR
<1>. QED BY <1>2, <1>3, <1>4 DEF Complete, After, n

\* So are the chunks of a stream and what is left of it.
LEMMA ChunkType ==
  ASSUME unread \in Seq(Byte), NEW n \in 1 .. Len(unread)
  PROVE  /\ Chunk(n) \in Seq(Byte)
         /\ Len(Chunk(n)) = n
         /\ SubSeq(unread, n + 1, Len(unread)) \in Seq(Byte)
BY DEF Chunk

LEMMA MeaningType ==
  ASSUME NEW l \in Seq(Byte)
  PROVE  /\ ParseHeader(l) \in [key : Keys, value : Values] \cup {None}
         /\ ParseLength(l) \in Nat \cup {None}
BY MeaningAssumption DEF ParseHeader, ParseLength

LEMMA InsertType ==
  ASSUME headers \in [Keys -> Values \cup {None}], NEW l \in Seq(Byte), Insert(l)
  PROVE  headers' \in [Keys -> Values \cup {None}]
BY MeaningType DEF Insert

\* Subtraction stays a usize.
LEMMA MinusType ==
  ASSUME NEW a \in Nat \cup {None}, NEW b \in Nat
  PROVE  /\ Minus(a, b) \in Nat \cup {None}
         /\ a \in Nat => Minus(a, b) \in Nat
<1>1. \A x \in Int : x % Modulus \in Nat
  BY LimitAssumption
<1>2. None \notin Nat
  BY MeaningAssumption DEF Values
<1>. QED BY <1>1, <1>2 DEF Minus

-------------------------------------------------------------------------------
(* Types.                                                                  *)

\* The parts of a step: each keeps the types if the stream does.
StreamTyped == unread' \in Seq(Byte) /\ eof' \in BOOLEAN

LEMMA FailTyped ==
  ASSUME TypeOK, StreamTyped, NEW error \in FailStages, Fail(error)
  PROVE  TypeOK'
BY DEF TypeOK, StreamTyped, Fail, head, framing, handed

LEMMA FrameTyped ==
  ASSUME TypeOK, StreamTyped, NEW rest \in Seq(Byte), Frame(rest)
  PROVE  TypeOK'
<1>1. CASE ~(Lengths \subseteq Nat)
  BY <1>1, FailTyped DEF Frame
<1>2. CASE Lengths \subseteq Nat
  <2>1. /\ Framing
        /\ stage' = "stream" /\ line' = <<>> /\ trailing' = rest
        /\ UNCHANGED <<wire, head, tcap, handed>>
    BY <1>2 DEF Frame
  <2>2. /\ mode' \in {"EndOnClose", "ContentLength", "Chunked"}
        /\ expecting' \in BOOLEAN
        /\ chunk_length' \in Nat
        /\ content_length' \in Nat
    BY <1>2, <2>1 DEF Framing, TypeOK
  <2>. QED BY <2>1, <2>2 DEF TypeOK, StreamTyped, head, handed
<1>. QED BY <1>1, <1>2

LEMMA HeadLineTyped ==
  ASSUME TypeOK, StreamTyped, stage \in HeadStages,
         NEW l \in Seq(Byte), NEW rest \in Seq(Byte), HeadLine(l, rest)
  PROVE  TypeOK'
<1>1. CASE Fail("InvalidUtf8InResponse") \/ Fail("panic")
  BY <1>1, FailTyped
<1>2. CASE StatusLine(rest)
  BY <1>2 DEF StatusLine, TypeOK, StreamTyped, head, framing, handed
<1>3. CASE Frame(rest)
  BY <1>3, FrameTyped
<1>4. CASE HeaderLine(l, rest) /\ ~Fail("panic")
  <2>1. headers' \in [Keys -> Values \cup {None}]
    BY <1>4, InsertType DEF HeaderLine, TypeOK
  <2>2. Len(l) \in Nat /\ Len(l) + 2 \in Nat
    OBVIOUS
  <2>3. cap' \in Nat \cup {None}
    <3>1. cap' = Minus(cap, Len(l) + 2)
      BY <1>4 DEF HeaderLine
    <3>2. cap \in Nat \cup {None}
      BY DEF TypeOK
    <3>. QED BY <3>1, <3>2, <2>2, MinusType
  <2>4. kept' \in Nat
    BY <1>4, <2>2 DEF HeaderLine, TypeOK
  <2>5. line' = <<>> /\ trailing' = rest /\ UNCHANGED <<wire, stage, framing, tcap, handed>>
    BY <1>4 DEF HeaderLine
  <2>. QED BY <2>1, <2>3, <2>4, <2>5 DEF TypeOK, StreamTyped, framing, handed
<1>. QED BY <1>1, <1>2, <1>3, <1>4 DEF HeadLine

LEMMA GatherTyped ==
  ASSUME TypeOK, StreamTyped, NEW bytes \in Seq(Byte), Gather(bytes)
  PROVE  TypeOK'
<1>1. line' \in Seq(Byte)
  BY ConcatProperties DEF TypeOK, Gather
<1>. QED BY <1>1 DEF TypeOK, StreamTyped, Gather, head, framing, handed

LEMMA HeadBytesTyped ==
  ASSUME TypeOK, StreamTyped, stage \in HeadStages,
         NEW bytes \in Seq(Byte), HeadBytes(bytes)
  PROVE  TypeOK'
<1>1. CASE Overflows(bytes)
  BY <1>1, FailTyped DEF HeadBytes
<1>2. CASE ~Overflows(bytes) /\ Breaks(bytes) = {}
  BY <1>2, GatherTyped DEF HeadBytes
<1>3. CASE ~Overflows(bytes) /\ Breaks(bytes) # {}
  BY <1>3, LineType, HeadLineTyped DEF HeadBytes, TypeOK
<1>. QED BY <1>1, <1>2, <1>3

LEMMA EndTyped ==
  ASSUME TypeOK, StreamTyped, End, mode # "unknown"
  PROVE  TypeOK'
BY DEF TypeOK, StreamTyped, End, head, framing

LEMMA ItemTyped ==
  ASSUME TypeOK, NEW bytes \in Seq(Byte), Item(bytes)
  PROVE  /\ out' \in Seq(Byte) /\ trailing' \in Seq(Byte)
         /\ finished' \in BOOLEAN
BY ConcatProperties DEF TypeOK, Item

LEMMA TakeTyped ==
  ASSUME TypeOK, StreamTyped, mode # "unknown",
         NEW bytes \in Seq(Byte), Take(bytes)
  PROVE  TypeOK'
<1>1. CASE Fail("panic")
  BY <1>1, FailTyped
<1>2. CASE ~Fail("panic")
  <2>1. content_length' \in Nat
    BY <1>2, MinusType DEF Take, TypeOK
  <2>2. /\ Item(bytes)
        /\ UNCHANGED <<wire, line, head, mode, expecting, chunk_length, tcap>>
    BY <1>2 DEF Take
  <2>3. stage' = "stream"
    BY <2>2 DEF Item
  <2>. QED BY <2>1, <2>2, <2>3, ItemTyped DEF TypeOK, StreamTyped, head
<1>. QED BY <1>1, <1>2

LEMMA ReadDataTyped ==
  ASSUME TypeOK, StreamTyped, mode # "unknown",
         NEW length \in Nat \ {0}, NEW total \in Nat, ReadData(length, total)
  PROVE  TypeOK'
<1>1. chunk_length' \in Nat
  BY DEF ReadData
<1>. QED BY <1>1 DEF ReadData, TypeOK, StreamTyped, head, handed

LEMMA LengthLineTyped ==
  ASSUME TypeOK, StreamTyped, mode # "unknown",
         NEW l \in Seq(Byte), NEW rest \in Seq(Byte), LengthLine(l, rest)
  PROVE  TypeOK'
<1>. DEFINE size == ParseLength(l)
            sum == content_length + size
<1>1. CASE \/ Fail("InvalidUtf8InResponse")
           \/ Fail("MalformedChunkLength")
           \/ Fail("panic")
  BY <1>1, FailTyped
<1>2. CASE ReadTrailers(rest)
  BY <1>2 DEF ReadTrailers, TypeOK, StreamTyped, head, framing, handed
<1>3. CASE size \notin {None, 0} /\ ReadData(size, sum % Modulus)
  <2>1. size \in Nat \ {0} /\ content_length \in Nat
    BY <1>3, MeaningType DEF TypeOK
  <2>2. sum % Modulus \in Nat
    BY <2>1, LimitAssumption
  <2>. QED BY <1>3, <2>1, <2>2, ReadDataTyped
<1>. QED BY <1>1, <1>2, <1>3 DEF LengthLine

LEMMA TrailerLineTyped ==
  ASSUME TypeOK, StreamTyped, mode # "unknown",
         NEW l \in Seq(Byte), NEW rest \in Seq(Byte), TrailerLine(l, rest)
  PROVE  TypeOK'
<1>1. CASE Fail("InvalidUtf8InResponse") \/ Fail("panic")
  BY <1>1, FailTyped
<1>2. CASE /\ tcap' = Minus(tcap, Len(l) + 2)
           /\ LastChunk \/ Trailer(l, rest)
  <2>1. Len(l) \in Nat /\ Len(l) + 2 \in Nat
    OBVIOUS
  <2>2. tcap' \in Nat \cup {None}
    <3>1. tcap \in Nat \cup {None}
      BY DEF TypeOK
    <3>. QED BY <1>2, <2>1, <3>1, MinusType
  <2>3. CASE LastChunk
    <3>1. headers' \in [Keys -> Values \cup {None}]
      BY <2>3, MeaningAssumption DEF LastChunk, TypeOK, Values
    <3>2. /\ expecting' = FALSE /\ stage' = "ended" /\ finished' = TRUE
          /\ line' = <<>> /\ trailing' = <<>>
          /\ UNCHANGED <<wire, cap, kept, mode, chunk_length, content_length, out>>
      BY <2>3 DEF LastChunk
    <3>3. stage' \in Stages /\ expecting' \in BOOLEAN /\ finished' \in BOOLEAN
      BY <3>2
    <3>4. line' \in Seq(Byte) /\ trailing' \in Seq(Byte)
      BY <3>2
    <3>5. /\ wire' \in Seq(Byte) /\ out' \in Seq(Byte)
          /\ cap' \in Nat \cup {None} /\ kept' \in Nat
          /\ chunk_length' \in Nat /\ content_length' \in Nat
      BY <3>2 DEF TypeOK
    <3>6. /\ mode' \in {"unknown", "EndOnClose", "ContentLength", "Chunked"}
          /\ mode' # "unknown"
      BY <3>2 DEF TypeOK
    <3>. QED BY <2>2, <3>1, <3>3, <3>4, <3>5, <3>6 DEF TypeOK, StreamTyped
  <2>4. CASE Trailer(l, rest)
    <3>1. headers' \in [Keys -> Values \cup {None}]
      BY <2>4, InsertType DEF Trailer, TypeOK
    <3>2. kept' \in Nat
      BY <2>1, <2>4 DEF Trailer, TypeOK
    <3>. QED BY <2>2, <2>4, <3>1, <3>2 DEF Trailer, TypeOK, StreamTyped, framing, handed
  <2>. QED BY <1>2, <2>3, <2>4
<1>. QED BY <1>1, <1>2 DEF TrailerLine

\* A chunk leaves the stream, or the stream ends, or it is not asked.
LEMMA StreamStep ==
  ASSUME TypeOK, (\E n \in 1 .. Len(unread) : Drop(n)) \/ Closed \/ Unasked
  PROVE  StreamTyped
<1>1. ASSUME NEW n \in 1 .. Len(unread), Drop(n) PROVE StreamTyped
  BY <1>1, ChunkType DEF Drop, TypeOK, StreamTyped
<1>2. CASE Closed \/ Unasked
  BY <1>2 DEF TypeOK, Closed, Unasked, StreamTyped
<1>. QED BY <1>1, <1>2

LEMMA PollUntilClosedTyped ==
  ASSUME TypeOK, PollUntilClosed
  PROVE  TypeOK'
<1>1. StreamTyped /\ mode # "unknown"
  BY StreamStep DEF PollUntilClosed
<1>2. CASE End
  BY <1>1, <1>2, EndTyped
<1>3. CASE /\ \E bytes \in Seq(Byte) : Item(bytes)
           /\ UNCHANGED <<wire, line, head, framing, tcap>>
  <2>1. stage' = "stream"
    BY <1>3 DEF Item
  <2>. QED BY <1>1, <1>3, <2>1, ItemTyped DEF TypeOK, StreamTyped, head, framing
<1>4. trailing \in Seq(Byte) /\ \A n \in 1 .. Len(unread) : Chunk(n) \in Seq(Byte)
  BY ChunkType DEF TypeOK
<1>. QED BY <1>2, <1>3, <1>4 DEF PollUntilClosed

LEMMA PollContentLengthTyped ==
  ASSUME TypeOK, PollContentLength
  PROVE  TypeOK'
<1>1. StreamTyped /\ mode # "unknown"
  BY StreamStep DEF PollContentLength
<1>2. CASE End
  BY <1>1, <1>2, EndTyped
<1>3. CASE \E bytes \in Seq(Byte) : Take(bytes)
  BY <1>1, <1>3, TakeTyped
<1>4. trailing \in Seq(Byte) /\ \A n \in 1 .. Len(unread) : Chunk(n) \in Seq(Byte)
  BY ChunkType DEF TypeOK
<1>. QED BY <1>2, <1>3, <1>4 DEF PollContentLength

LEMMA PollChunkedTyped ==
  ASSUME TypeOK, PollChunked
  PROVE  TypeOK'
<1>1. StreamTyped /\ mode # "unknown"
  BY StreamStep DEF PollChunked
<1>2. CASE End
  BY <1>1, <1>2, EndTyped
<1>3. CASE Breaks(trailing) # {} /\ LengthLine(Complete(trailing), After(trailing))
  BY <1>1, <1>3, LineType, LengthLineTyped DEF TypeOK
<1>4. CASE ReadLength
  BY <1>1, <1>4 DEF ReadLength, TypeOK, StreamTyped, head, framing, handed
<1>5. CASE chunk_length > 0 /\ ReadData(chunk_length, content_length)
  BY <1>1, <1>5, ReadDataTyped DEF TypeOK
<1>. QED BY <1>2, <1>3, <1>4, <1>5 DEF PollChunked

LEMMA LengthChunkTyped ==
  ASSUME TypeOK, LengthChunk
  PROVE  TypeOK'
<1>1. PICK n \in 1 .. Len(unread) :
        /\ Drop(n)
        /\ \/ Fail("MalformedChunkLength")
           \/ Breaks(Chunk(n)) # {} /\ LengthLine(Complete(Chunk(n)), After(Chunk(n)))
           \/ Gather(Chunk(n))
  BY DEF LengthChunk, PollLine
<1>2. StreamTyped
  BY <1>1, StreamStep
<1>3. mode # "unknown"
  BY DEF LengthChunk, TypeOK
<1>4. Chunk(n) \in Seq(Byte)
  BY ChunkType DEF TypeOK
<1>5. CASE Fail("MalformedChunkLength")
  BY <1>2, <1>5, FailTyped
<1>6. CASE Gather(Chunk(n))
  BY <1>2, <1>4, <1>6, GatherTyped
<1>7. CASE Breaks(Chunk(n)) # {} /\ LengthLine(Complete(Chunk(n)), After(Chunk(n)))
  BY <1>2, <1>3, <1>4, <1>7, LineType, LengthLineTyped DEF TypeOK
<1>. QED BY <1>1, <1>5, <1>6, <1>7

LEMMA TrailerChunkTyped ==
  ASSUME TypeOK, TrailerChunk
  PROVE  TypeOK'
<1>1. PICK n \in 1 .. Len(unread) :
        /\ Drop(n)
        /\ \/ Fail("HeadersOverflow")
           \/ Breaks(Chunk(n)) # {} /\ TrailerLine(Complete(Chunk(n)), After(Chunk(n)))
           \/ Gather(Chunk(n))
  BY DEF TrailerChunk, PollLine
<1>2. StreamTyped
  BY <1>1, StreamStep
<1>3. mode # "unknown"
  BY DEF TrailerChunk, TypeOK
<1>4. Chunk(n) \in Seq(Byte)
  BY ChunkType DEF TypeOK
<1>5. CASE Fail("HeadersOverflow")
  BY <1>2, <1>5, FailTyped
<1>6. CASE Gather(Chunk(n))
  BY <1>2, <1>4, <1>6, GatherTyped
<1>7. CASE Breaks(Chunk(n)) # {} /\ TrailerLine(Complete(Chunk(n)), After(Chunk(n)))
  BY <1>2, <1>3, <1>4, <1>7, LineType, TrailerLineTyped DEF TypeOK
<1>. QED BY <1>1, <1>5, <1>6, <1>7

\* One step of the reader keeps all types.
LEMMA ReaderStepTyped ==
  ASSUME TypeOK, [Next]_vars
  PROVE  TypeOK'
<1>1. CASE HeadPrefix
  <2>1. StreamTyped
    BY <1>1, StreamStep DEF HeadPrefix
  <2>. QED BY <1>1, <2>1, HeadBytesTyped DEF HeadPrefix, TypeOK
<1>2. CASE HeadChunk
  <2>1. PICK n \in 1 .. Len(unread) : HeadBytes(Chunk(n)) /\ Drop(n)
    BY <1>2 DEF HeadChunk
  <2>2. StreamTyped
    BY <2>1, StreamStep
  <2>3. Chunk(n) \in Seq(Byte)
    BY ChunkType DEF TypeOK
  <2>. QED BY <1>2, <2>1, <2>2, <2>3, HeadBytesTyped DEF HeadChunk
<1>3. CASE HeadClosed
  <2>1. StreamTyped
    BY <1>3, StreamStep DEF HeadClosed
  <2>. QED BY <1>3, <2>1, HeadLineTyped DEF HeadClosed, TypeOK
<1>4. CASE PollUntilClosed
  BY <1>4, PollUntilClosedTyped
<1>5. CASE PollContentLength
  BY <1>5, PollContentLengthTyped
<1>6. CASE PollChunked
  BY <1>6, PollChunkedTyped
<1>7. CASE LengthChunk
  BY <1>7, LengthChunkTyped
<1>8. CASE LengthClosed
  <2>1. StreamTyped /\ mode # "unknown"
    BY <1>8, StreamStep DEF LengthClosed, TypeOK
  <2>2. line \in Seq(Byte) /\ <<>> \in Seq(Byte) /\ LengthLine(line, <<>>)
    BY <1>8 DEF LengthClosed, TypeOK
  <2>. QED BY <2>1, <2>2, LengthLineTyped
<1>9. CASE DataChunk
  <2>1. PICK n \in 1 .. Len(unread) : Item(Chunk(n)) /\ Drop(n)
    BY <1>9 DEF DataChunk
  <2>2. StreamTyped /\ mode # "unknown"
    BY <1>9, <2>1, StreamStep DEF DataChunk, TypeOK
  <2>3. Chunk(n) \in Seq(Byte)
    BY ChunkType DEF TypeOK
  <2>4. stage' = "stream" /\ UNCHANGED <<wire, line, head, framing, tcap>>
    BY <1>9, <2>1 DEF DataChunk, Item
  <2>. QED BY <2>1, <2>2, <2>3, <2>4, ItemTyped DEF TypeOK, StreamTyped, head, framing
<1>10. CASE DataClosed
  <2>1. StreamTyped /\ mode # "unknown"
    BY <1>10, StreamStep DEF DataClosed, TypeOK
  <2>. QED BY <1>10, <2>1, EndTyped DEF DataClosed
<1>11. CASE TrailerPrefix
  <2>1. StreamTyped /\ mode # "unknown" /\ trailing \in Seq(Byte)
    BY <1>11, StreamStep DEF TrailerPrefix, TypeOK
  <2>2. CASE Gather(trailing)
    BY <2>1, <2>2, GatherTyped
  <2>3. CASE Breaks(trailing) # {} /\ TrailerLine(Complete(trailing), After(trailing))
    BY <2>1, <2>3, LineType, TrailerLineTyped DEF TypeOK
  <2>. QED BY <1>11, <2>2, <2>3 DEF TrailerPrefix
<1>12. CASE TrailerChunk
  BY <1>12, TrailerChunkTyped
<1>13. CASE TrailerClosed
  <2>1. StreamTyped /\ mode # "unknown"
    BY <1>13, StreamStep DEF TrailerClosed, TypeOK
  <2>. QED BY <1>13, <2>1, TrailerLineTyped DEF TrailerClosed, TypeOK
<1>14. CASE Pending
  BY <1>14 DEF Pending, TypeOK, head, framing, handed
<1>15. CASE StreamFails
  <2>1. StreamTyped
    BY <1>15, StreamStep DEF StreamFails
  <2>. QED BY <1>15, <2>1, FailTyped DEF StreamFails
<1>16. CASE UNCHANGED vars
  BY <1>16 DEF vars, TypeOK
<1>. QED
  BY <1>1, <1>2, <1>3, <1>4, <1>5, <1>6, <1>7, <1>8, <1>9, <1>10, <1>11, <1>12,
     <1>13, <1>14, <1>15, <1>16 DEF Next, Reader, Stream, Failed

\* Whatever the server sends and wherever the stream is cut, the reader's state
\* keeps its types: no counter of read_metadata, read_with_content_length or
\* read_chunked goes below zero, and a body is read only once it has a framing.
THEOREM ReaderTyping == Spec => []TypeOK
<1>1. Init => TypeOK
  <2>. SUFFICES ASSUME Init PROVE TypeOK
    OBVIOUS
  <2>1. wire \in Seq(Byte) /\ unread \in Seq(Byte)
    BY ByteAssumption DEF Init
  <2>2. headers \in [Keys -> Values \cup {None}]
    BY DEF Init
  <2>3. cap \in Nat \cup {None} /\ tcap \in Nat \cup {None}
    BY LimitAssumption DEF Init
  <2>4. eof \in BOOLEAN /\ expecting \in BOOLEAN /\ finished \in BOOLEAN
    BY DEF Init
  <2>5. /\ stage = "status" /\ mode = "unknown"
        /\ line = <<>> /\ trailing = <<>> /\ out = <<>>
        /\ chunk_length = 0 /\ content_length = 0 /\ kept = 0
    BY DEF Init
  <2>. QED BY <2>1, <2>2, <2>3, <2>4, <2>5 DEF TypeOK
<1>2. TypeOK /\ [Next]_vars => TypeOK'
  BY ReaderStepTyped
<1>. QED BY <1>1, <1>2, PTL DEF Spec

-------------------------------------------------------------------------------
(* The limit of a line.                                                    *)

\* A line of the head that was read leaves an empty line behind.
LEMMA HeadLineEmpties ==
  ASSUME NEW l, NEW rest, stage \in HeadStages, HeadLine(l, rest), stage' \in HeadStages
  PROVE  line' = <<>>
BY DEF HeadLine, StatusLine, Frame, HeaderLine, Fail

\* However much arrives at once, read_line_async holds no more of a line than
\* the limit that applies to it.
THEOREM LinesAreLimited == Spec => []LineWithinLimit
<1>1. Init => LineWithinLimit
  BY LimitAssumption DEF Init, LineWithinLimit, Limit
<1>2. TypeOK /\ TypeOK' /\ LineWithinLimit /\ [Next]_vars => LineWithinLimit'
  <2>. SUFFICES ASSUME TypeOK, TypeOK', LineWithinLimit, [Next]_vars, stage' \in HeadStages
                PROVE  LineWithinLimit'
    BY DEF LineWithinLimit
  <2>0. CASE line' = <<>>
    <3>1. Limit' # None => Limit' \in Nat
      BY LimitAssumption DEF TypeOK, Limit
    <3>2. Len(line') = 0
      BY <2>0
    <3>. QED BY <3>1, <3>2 DEF LineWithinLimit
  <2>1. ASSUME NEW bytes \in Seq(Byte), stage \in HeadStages, HeadBytes(bytes)
        PROVE  LineWithinLimit'
    <3>1. CASE Overflows(bytes)
      BY <2>1, <3>1 DEF HeadBytes, Fail
    <3>2. CASE ~Overflows(bytes) /\ Breaks(bytes) = {}
      <4>1. line' = line \o bytes /\ stage' = stage /\ cap' = cap
        BY <2>1, <3>2 DEF HeadBytes, Gather, head
      <4>2. Len(line') = Len(line) + Len(bytes)
        BY <4>1, ConcatProperties DEF TypeOK
      <4>3. Limit' = Limit
        BY <4>1 DEF Limit
      <4>4. Limit # None => Len(line) + Len(bytes) <= Limit
        BY <3>2, LimitAssumption DEF Overflows, Used, Limit, TypeOK
      <4>. QED BY <4>2, <4>3, <4>4 DEF LineWithinLimit
    <3>3. CASE ~Overflows(bytes) /\ Breaks(bytes) # {}
      BY <2>0, <2>1, <3>3, HeadLineEmpties DEF HeadBytes
    <3>. QED BY <3>1, <3>2, <3>3
  <2>2. CASE HeadPrefix
    BY <2>1, <2>2 DEF HeadPrefix, TypeOK
  <2>3. CASE HeadChunk
    BY <2>1, <2>3, ChunkType DEF HeadChunk, TypeOK
  <2>4. CASE HeadClosed
    BY <2>0, <2>4, HeadLineEmpties DEF HeadClosed
  <2>5. CASE PollUntilClosed \/ PollContentLength
    BY <2>5 DEF PollUntilClosed, PollContentLength, Item, Take, End, Fail
  <2>6. CASE PollChunked
    BY <2>6 DEF PollChunked, LengthLine, ReadLength, ReadData, ReadTrailers, End, Fail
  <2>7. CASE LengthChunk \/ LengthClosed
    BY <2>7 DEF LengthChunk, LengthClosed, PollLine, LengthLine, ReadData, ReadTrailers,
                Gather, Fail
  <2>8. CASE DataChunk \/ DataClosed
    BY <2>8 DEF DataChunk, DataClosed, Item, End
  <2>9. CASE TrailerPrefix \/ TrailerChunk \/ TrailerClosed
    BY <2>9 DEF TrailerPrefix, TrailerChunk, TrailerClosed, PollLine, TrailerLine,
                LastChunk, Trailer, Gather, Fail
  <2>10. CASE Pending \/ StreamFails
    BY <2>10 DEF Pending, StreamFails, Fail
  <2>11. CASE UNCHANGED vars
    BY <2>11 DEF vars, LineWithinLimit, Limit
  <2>. QED
    BY <2>2, <2>3, <2>4, <2>5, <2>6, <2>7, <2>8, <2>9, <2>10, <2>11
       DEF Next, Reader, Stream, Failed
<1>. QED BY <1>1, <1>2, ReaderTyping, PTL DEF Spec

-------------------------------------------------------------------------------
(* The stages of a body.                                                   *)

\* Nothing is handed out before the head is complete, only chunked bodies are
\* polled in several stages, and lines are read between two chunks.
Phase ==
  /\ stage \in HeadStages => mode = "unknown" /\ out = <<>> /\ ~finished
  /\ stage \in PollStages => mode = "Chunked"
  /\ stage \in {"length", "trailer"} => chunk_length = 0

\* What the parts of a step do to the stage and to what was handed out.
LEMMA HeadLinePhase ==
  ASSUME Phase, stage \in HeadStages, NEW l, NEW rest, HeadLine(l, rest)
  PROVE  Phase'
<1>1. out' = out /\ finished' = finished
  BY DEF HeadLine, StatusLine, Frame, HeaderLine, Fail, handed
<1>2. stage' \in HeadStages => mode' = mode
  BY DEF HeadLine, StatusLine, Frame, HeaderLine, Fail, framing
<1>3. stage' \notin PollStages
  BY DEF HeadLine, StatusLine, Frame, HeaderLine, Fail
<1>. QED BY <1>1, <1>2, <1>3 DEF Phase

LEMMA HeadBytesPhase ==
  ASSUME Phase, stage \in HeadStages, NEW bytes, HeadBytes(bytes)
  PROVE  Phase'
<1>1. CASE HeadLine(Complete(bytes), After(bytes))
  BY <1>1, HeadLinePhase
<1>2. CASE Gather(bytes)
  BY <1>2 DEF Gather, Phase, framing, handed
<1>3. CASE \E e \in FailStages : Fail(e)
  BY <1>3 DEF Fail, Phase
<1>. QED BY <1>1, <1>2, <1>3 DEF HeadBytes

LEMMA LengthLinePhase ==
  ASSUME Phase, mode = "Chunked", chunk_length = 0, NEW l, NEW rest, LengthLine(l, rest)
  PROVE  Phase' /\ out' = out /\ finished' = finished
BY DEF LengthLine, ReadData, ReadTrailers, Fail, Phase, framing, handed

LEMMA TrailerLinePhase ==
  ASSUME Phase, stage = "trailer", NEW l, NEW rest, TrailerLine(l, rest)
  PROVE  Phase' /\ out' = out
BY DEF TrailerLine, LastChunk, Trailer, Fail, Phase, framing, handed

THEOREM PhaseInvariant == Spec => []Phase
<1>1. Init => Phase
  BY DEF Init, Phase
<1>2. Phase /\ [Next]_vars => Phase'
  <2>. SUFFICES ASSUME Phase, [Next]_vars PROVE Phase'
    OBVIOUS
  <2>1. CASE HeadPrefix \/ HeadChunk
    BY <2>1, HeadBytesPhase DEF HeadPrefix, HeadChunk
  <2>2. CASE HeadClosed
    BY <2>2, HeadLinePhase DEF HeadClosed
  <2>3. CASE PollUntilClosed \/ PollContentLength
    BY <2>3 DEF PollUntilClosed, PollContentLength, Item, Take, End, Fail, Phase
  <2>4. CASE PollChunked
    <3>1. CASE LengthLine(Complete(trailing), After(trailing)) /\ chunk_length = 0
      BY <2>4, <3>1, LengthLinePhase DEF PollChunked
    <3>2. CASE End
      BY <3>2 DEF End, Phase
    <3>3. CASE ReadLength /\ chunk_length = 0
      BY <2>4, <3>3 DEF PollChunked, ReadLength, Phase, framing
    <3>4. CASE ReadData(chunk_length, content_length)
      BY <2>4, <3>4 DEF PollChunked, ReadData, Phase
    <3>. QED BY <2>4, <3>1, <3>2, <3>3, <3>4 DEF PollChunked
  <2>5. CASE LengthChunk
    <3>1. mode = "Chunked" /\ chunk_length = 0 /\ stage = "length"
      BY <2>5 DEF LengthChunk, Phase
    <3>2. PICK n \in 1 .. Len(unread) :
            \/ Fail("MalformedChunkLength")
            \/ LengthLine(Complete(Chunk(n)), After(Chunk(n)))
            \/ Gather(Chunk(n))
      BY <2>5 DEF LengthChunk, PollLine
    <3>3. CASE LengthLine(Complete(Chunk(n)), After(Chunk(n)))
      BY <3>1, <3>3, LengthLinePhase
    <3>4. CASE Fail("MalformedChunkLength") \/ Gather(Chunk(n))
      BY <3>1, <3>4 DEF Fail, Gather, Phase, framing
    <3>. QED BY <3>2, <3>3, <3>4
  <2>6. CASE LengthClosed
    BY <2>6, LengthLinePhase DEF LengthClosed, Phase
  <2>7. CASE DataChunk \/ DataClosed
    BY <2>7 DEF DataChunk, DataClosed, Item, End, Phase
  <2>8. CASE TrailerPrefix \/ TrailerClosed
    <3>1. CASE Gather(trailing)
      BY <2>8, <3>1 DEF TrailerPrefix, TrailerClosed, Gather, Phase, framing
    <3>. QED BY <2>8, <3>1, TrailerLinePhase DEF TrailerPrefix, TrailerClosed
  <2>9. CASE TrailerChunk
    <3>1. PICK n \in 1 .. Len(unread) :
            \/ Fail("HeadersOverflow")
            \/ TrailerLine(Complete(Chunk(n)), After(Chunk(n)))
            \/ Gather(Chunk(n))
      BY <2>9 DEF TrailerChunk, PollLine
    <3>2. CASE TrailerLine(Complete(Chunk(n)), After(Chunk(n)))
      BY <2>9, <3>2, TrailerLinePhase DEF TrailerChunk
    <3>3. CASE Fail("HeadersOverflow") \/ Gather(Chunk(n))
      BY <2>9, <3>3 DEF TrailerChunk, Fail, Gather, Phase, framing
    <3>. QED BY <3>1, <3>2, <3>3
  <2>10. CASE Pending \/ StreamFails
    BY <2>10 DEF Pending, StreamFails, Fail, Phase
  <2>11. CASE UNCHANGED vars
    BY <2>11 DEF vars, Phase
  <2>. QED
    BY <2>1, <2>2, <2>3, <2>4, <2>5, <2>6, <2>7, <2>8, <2>9, <2>10, <2>11
       DEF Next, Reader, Stream, Failed
<1>. QED BY <1>1, <1>2, PTL DEF Spec

-------------------------------------------------------------------------------
(* Content-Length.                                                         *)

\* The ledger of read_with_content_length, in every stage.
Ledger ==
  OverflowChecks /\ mode = "ContentLength"
    => \E k \in LengthKeys : Len(out) + content_length = headers[k]

\* The first entry: a length of the map that decides the framing.
LEMMA LedgerOpens ==
  ASSUME TypeOK, Phase, stage \in HeadStages, mode' = "ContentLength",
         NEW l, NEW rest, HeadLine(l, rest)
  PROVE  Ledger'
<1>1. mode = "unknown" /\ out = <<>>
  BY DEF Phase
<1>2. Frame(rest)
  BY <1>1 DEF HeadLine, StatusLine, HeaderLine, Fail, framing
<1>3. Lengths \subseteq Nat /\ Framing /\ UNCHANGED <<head, handed>>
  BY <1>1, <1>2 DEF Frame, Fail, framing
<1>4. content_length' \in Lengths /\ content_length' \in Nat
  BY <1>3 DEF Framing
<1>5. out' = <<>> /\ headers' = headers
  BY <1>1, <1>3 DEF head, handed
<1>6. PICK k \in LengthKeys : content_length' = headers[k]
  BY <1>4 DEF Lengths
<1>7. Len(out') + content_length' = headers'[k]
  BY <1>4, <1>5, <1>6
<1>. QED BY <1>7 DEF Ledger

\* Every further entry: what is handed out is no longer expected.
LEMMA LedgerTakes ==
  ASSUME TypeOK, Ledger, mode = "ContentLength",
         NEW bytes \in Seq(Byte), Take(bytes)
  PROVE  Ledger'
<1>. SUFFICES ASSUME OverflowChecks PROVE Ledger'
  BY DEF Ledger
<1>1. PICK k \in LengthKeys : Len(out) + content_length = headers[k]
  BY DEF Ledger
<1>2. CASE Underflows(content_length, Len(bytes))
  <2>1. out' = out /\ content_length' = content_length /\ headers' = headers
    BY <1>2 DEF Take, Fail, head, framing, handed
  <2>. QED BY <1>1, <2>1 DEF Ledger
<1>3. CASE ~Underflows(content_length, Len(bytes))
  <2>1. /\ content_length' = Minus(content_length, Len(bytes))
        /\ out' = out \o bytes
        /\ headers' = headers
    BY <1>3 DEF Take, Item, head
  <2>2. content_length \in Nat /\ content_length # None /\ Len(bytes) \in Nat
    BY MeaningAssumption DEF TypeOK, Values
  <2>3. content_length' = content_length - Len(bytes)
    BY <1>3, <2>1, <2>2 DEF Underflows, Minus
  <2>4. Len(out') = Len(out) + Len(bytes) /\ Len(out) \in Nat
    BY <2>1, ConcatProperties DEF TypeOK
  <2>5. Len(out') + content_length' = Len(out) + content_length
    BY <2>2, <2>3, <2>4
  <2>. QED BY <1>1, <2>1, <2>5 DEF Ledger
<1>. QED BY <1>2, <1>3

\* In a build with overflow checks, what the caller has got and what is still
\* expected add up to a Content-Length of the response, in every order in which
\* the header map is read.
THEOREM LengthIsLedger == Spec => []LengthLedger
<1>1. Init => Ledger
  BY DEF Init, Ledger
<1>2. TypeOK /\ Phase /\ Ledger /\ [Next]_vars => Ledger'
  <2>. SUFFICES ASSUME TypeOK, Phase, Ledger, [Next]_vars, mode' = "ContentLength"
                PROVE  Ledger'
    BY DEF Ledger
  <2>0. CASE /\ mode = "ContentLength"
             /\ UNCHANGED <<out, content_length, headers>>
    <3>1. SUFFICES ASSUME OverflowChecks PROVE Ledger'
      BY DEF Ledger
    <3>2. PICK k \in LengthKeys : Len(out) + content_length = headers[k]
      BY <2>0, <3>1 DEF Ledger
    <3>. QED BY <2>0, <3>2 DEF Ledger
  <2>1. ASSUME NEW bytes, stage \in HeadStages, HeadBytes(bytes) PROVE Ledger'
    <3>1. HeadLine(Complete(bytes), After(bytes))
      BY <2>1 DEF HeadBytes, Gather, Fail, framing, Phase
    <3>. QED BY <2>1, <3>1, LedgerOpens
  <2>2. CASE HeadPrefix \/ HeadChunk
    BY <2>1, <2>2 DEF HeadPrefix, HeadChunk
  <2>3. CASE HeadClosed
    BY <2>3, LedgerOpens DEF HeadClosed
  <2>4. CASE PollUntilClosed
    BY <2>4 DEF PollUntilClosed, End, framing
  <2>5. CASE PollContentLength
    <3>1. CASE End
      BY <2>0, <2>5, <3>1 DEF PollContentLength, End, head, framing
    <3>2. CASE \E bytes \in Seq(Byte) : Take(bytes)
      BY <2>5, <3>2, LedgerTakes DEF PollContentLength
    <3>3. trailing \in Seq(Byte) /\ \A n \in 1 .. Len(unread) : Chunk(n) \in Seq(Byte)
      BY ChunkType DEF TypeOK
    <3>. QED BY <2>5, <3>1, <3>2, <3>3 DEF PollContentLength
  <2>6. CASE PollChunked
    BY <2>6 DEF PollChunked, LengthLine, ReadLength, ReadData, ReadTrailers, End, Fail, framing
  <2>7. CASE LengthChunk \/ LengthClosed
    BY <2>7 DEF LengthChunk, LengthClosed, PollLine, LengthLine, ReadData, ReadTrailers,
                Gather, Fail, framing, Phase
  <2>8. CASE DataChunk \/ DataClosed
    BY <2>8 DEF DataChunk, DataClosed, Item, End, framing, Phase
  <2>9. CASE TrailerPrefix \/ TrailerChunk \/ TrailerClosed
    BY <2>9 DEF TrailerPrefix, TrailerChunk, TrailerClosed, PollLine, TrailerLine,
                LastChunk, Trailer, Gather, Fail, framing, Phase
  <2>10. CASE Pending \/ StreamFails
    <3>1. mode' = mode /\ UNCHANGED <<out, content_length, headers>>
      BY <2>10 DEF Pending, StreamFails, Fail, framing, head, handed
    <3>. QED BY <2>0, <3>1
  <2>11. CASE UNCHANGED vars
    BY <2>0, <2>11 DEF vars
  <2>. QED
    BY <2>2, <2>3, <2>4, <2>5, <2>6, <2>7, <2>8, <2>9, <2>10, <2>11
       DEF Next, Reader, Stream, Failed
<1>3. Ledger => LengthLedger
  BY DEF Ledger, LengthLedger
<1>. QED BY <1>1, <1>2, <1>3, ReaderTyping, PhaseInvariant, PTL DEF Spec

-------------------------------------------------------------------------------
(* The end of a body.                                                      *)

\* Once poll_next has returned None there is nothing it could still hand out:
\* the stream is empty, or the framing does not ask it any more.
Spent ==
  finished =>
    /\ trailing = <<>>
    /\ \/ unread = <<>>
       \/ mode = "ContentLength" /\ content_length = 0
       \/ mode = "Chunked" /\ ~expecting /\ chunk_length = 0 /\ stage \notin PollStages

LEMMA NothingLeft ==
  ASSUME unread = <<>>, NEW n \in 1 .. Len(unread)
  PROVE  FALSE
OBVIOUS

\* One step of the reader.
LEMMA SpentStep ==
  ASSUME TypeOK, Phase, Spent, [Next]_vars
  PROVE  Spent' /\ (finished => out' = out)
<1>0. finished /\ stage \in PollStages => unread = <<>>
  BY DEF Spent, Phase
<1>1. CASE HeadPrefix \/ HeadChunk \/ HeadClosed
  <2>1. ~finished
    BY <1>1 DEF HeadPrefix, HeadChunk, HeadClosed, Phase
  <2>2. ASSUME NEW l, NEW rest, HeadLine(l, rest) PROVE finished' = finished
    BY <2>2 DEF HeadLine, StatusLine, Frame, HeaderLine, Fail, handed
  <2>3. ASSUME NEW bytes, HeadBytes(bytes) PROVE finished' = finished
    BY <2>2, <2>3 DEF HeadBytes, Gather, Fail, handed
  <2>4. finished' = finished
    BY <1>1, <2>2, <2>3 DEF HeadPrefix, HeadChunk, HeadClosed
  <2>. QED BY <2>1, <2>4 DEF Spent
<1>2. CASE PollUntilClosed
  <2>1. CASE End /\ Closed
    BY <2>1 DEF End, Closed, Spent
  <2>2. CASE ~(End /\ Closed)
    <3>1. ~finished
      BY <1>2, <2>2, NothingLeft DEF PollUntilClosed, Spent
    <3>2. finished' = finished
      BY <1>2, <2>2 DEF PollUntilClosed, Item
    <3>. QED BY <3>1, <3>2 DEF Spent
  <2>. QED BY <2>1, <2>2
<1>3. CASE PollContentLength
  <2>1. CASE (End /\ Closed) \/ (End /\ content_length = 0 /\ Unasked)
    BY <1>3, <2>1 DEF PollContentLength, End, Closed, Unasked, Spent, framing
  <2>2. CASE /\ \E bytes : Take(bytes)
             /\ trailing # <<>> \/ (content_length > 0 /\ \E n \in 1 .. Len(unread) : TRUE)
    <3>1. ~finished
      BY <1>3, <2>2, NothingLeft DEF PollContentLength, Spent, TypeOK
    <3>2. finished' = finished
      BY <2>2 DEF Take, Item, Fail, handed
    <3>. QED BY <3>1, <3>2 DEF Spent
  <2>. QED BY <1>3, <2>1, <2>2 DEF PollContentLength
<1>4. CASE PollChunked
  <2>1. CASE End /\ ~expecting /\ chunk_length = 0
    BY <1>4, <2>1 DEF PollChunked, End, Spent, framing
  <2>2. CASE ~(End /\ ~expecting /\ chunk_length = 0)
    <3>1. finished' = finished /\ out' = out /\ UNCHANGED unread
      BY <1>4, <2>2 DEF PollChunked, LengthLine, ReadLength, ReadData, ReadTrailers, Fail,
                        handed, Unasked
    <3>2. finished => unread = <<>>
      BY <1>4, <2>2 DEF PollChunked, Spent
    <3>3. finished => trailing' = <<>>
      <4>1. Breaks(<<>>) = {}
        BY DEF Breaks
      <4>. QED BY <1>4, <2>2, <4>1 DEF PollChunked, Spent, ReadLength, ReadData
    <3>. QED BY <3>1, <3>2, <3>3 DEF Spent
  <2>. QED BY <2>1, <2>2
<1>5. CASE LengthChunk
  <2>1. ~finished
    BY <1>0, <1>5, NothingLeft DEF LengthChunk, PollLine
  <2>2. finished' = finished
    BY <1>5 DEF LengthChunk, PollLine, LengthLine, ReadData, ReadTrailers, Gather, Fail, handed
  <2>. QED BY <2>1, <2>2 DEF Spent
<1>6. CASE LengthClosed
  <2>1. finished' = finished /\ out' = out /\ unread' = <<>>
    BY <1>6 DEF LengthClosed, Closed, LengthLine, ReadData, ReadTrailers, Fail, handed
  <2>2. trailing = <<>> => trailing' = <<>>
    BY <1>6 DEF LengthClosed, LengthLine, ReadData, ReadTrailers, Fail
  <2>. QED BY <2>1, <2>2 DEF Spent
<1>7. CASE DataChunk
  <2>1. ~finished
    BY <1>0, <1>7, NothingLeft DEF DataChunk
  <2>2. finished' = finished
    BY <1>7 DEF DataChunk, Item
  <2>. QED BY <2>1, <2>2 DEF Spent
<1>8. CASE DataClosed
  BY <1>8 DEF DataClosed, Closed, End, Spent
<1>9. ASSUME NEW l, NEW rest, stage = "trailer", TrailerLine(l, rest),
             \/ trailing # <<>>
             \/ \E n \in 1 .. Len(unread) : TRUE
             \/ unread' = <<>> /\ rest = <<>>
      PROVE  Spent' /\ (finished => out' = out)
  <2>1. mode = "Chunked" /\ chunk_length = 0
    BY <1>9 DEF Phase
  <2>2. CASE LastChunk
    BY <2>1, <2>2 DEF LastChunk, Spent
  <2>3. CASE ~LastChunk
    <3>1. finished' = finished /\ out' = out /\ (trailing' = rest \/ trailing' = trailing)
      BY <1>9, <2>3 DEF TrailerLine, Trailer, Fail, handed
    <3>2. CASE finished
      <4>1. trailing = <<>> /\ unread = <<>>
        BY <1>0, <1>9, <3>2 DEF Spent
      <4>2. unread' = <<>> /\ rest = <<>>
        BY <1>9, <4>1, NothingLeft
      <4>. QED BY <3>1, <4>1, <4>2 DEF Spent
    <3>3. CASE ~finished
      BY <3>1, <3>3 DEF Spent
    <3>. QED BY <3>2, <3>3
  <2>. QED BY <2>2, <2>3
<1>10. CASE TrailerPrefix
  <2>1. CASE Gather(trailing)
    <3>1. ~finished
      BY <1>10 DEF TrailerPrefix, Spent
    <3>. QED BY <2>1, <3>1 DEF Gather, handed, Spent
  <2>. QED BY <1>9, <1>10, <2>1 DEF TrailerPrefix
<1>11. CASE TrailerChunk
  <2>1. PICK n \in 1 .. Len(unread) :
          \/ Fail("HeadersOverflow")
          \/ TrailerLine(Complete(Chunk(n)), After(Chunk(n)))
          \/ Gather(Chunk(n))
    BY <1>11 DEF TrailerChunk, PollLine
  <2>2. stage = "trailer" /\ ~finished
    BY <1>0, <1>11, NothingLeft DEF TrailerChunk, PollLine
  <2>3. CASE Fail("HeadersOverflow") \/ Gather(Chunk(n))
    BY <2>2, <2>3 DEF Fail, Gather, handed, Spent
  <2>. QED BY <1>9, <2>1, <2>2, <2>3
<1>12. CASE TrailerClosed
  BY <1>9, <1>12 DEF TrailerClosed, Closed
<1>13. CASE Pending \/ StreamFails
  BY <1>13 DEF Pending, StreamFails, Fail, Unasked, framing, handed, Spent
<1>14. CASE UNCHANGED vars
  BY <1>14 DEF vars, Spent
<1>. QED
  BY <1>1, <1>2, <1>3, <1>4, <1>5, <1>6, <1>7, <1>8, <1>10, <1>11, <1>12, <1>13, <1>14
     DEF Next, Reader, Stream, Failed

\* Polled after its end, a body hands out nothing more, whichever way it is
\* framed and however it ended.
THEOREM EndStaysFinal == Spec => EndIsFinal
<1>1. Init => Spent
  BY DEF Init, Spent
<1>2. TypeOK /\ Phase /\ Spent /\ [Next]_vars => Spent' /\ [finished => out' = out]_vars
  BY SpentStep
<1>. QED BY <1>1, <1>2, ReaderTyping, PhaseInvariant, PTL DEF Spec, EndIsFinal

===============================================================================
