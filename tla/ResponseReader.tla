---------------------------- MODULE ResponseReader ----------------------------
(***************************************************************************)
(* How a response is read from the stream: ResponseLazy::from_stream and   *)
(* read_metadata, then poll_next with its three ways of framing the body.  *)
(* src/src/response.rs.                                                    *)
(*                                                                         *)
(* `wire' holds the bytes the server sends before it closes.  They arrive  *)
(* in chunks of any size, and between two chunks the stream is Pending.    *)
(* read_line_async keeps its locals over the wait; read_line, which runs   *)
(* inside poll_next, does not.                                             *)
(*                                                                         *)
(* A line is as long as its bytes, and its first byte stands for all it    *)
(* says: HeaderOf and ChunkSize give the meaning.                          *)
(***************************************************************************)
EXTENDS Integers, Sequences

CONSTANTS
  None,
  Byte, CR, LF,
  NotUtf8,         \* bytes that make a line invalid UTF-8
  HeaderOf,        \* what parse_header makes of a line, by its first byte
  ChunkSize,       \* what from_str_radix makes of a line, by its first byte
  Keys,            \* header names in lower case
  LengthKeys,      \* those that trim() to content-length
  CodingKeys,      \* those that trim() to transfer-encoding
  Chunked,         \* the header value "chunked"
  Text,            \* any other header value that is not a number
  Wires,           \* what servers send
  MaxStatusLine, MaxHeaders,   \* the caller's limits, or None
  MaxLengthLine,   \* the limit of a chunk length line: 1024
  Modulus,         \* 2^w for a usize of w bits
  OverflowChecks   \* arithmetic overflow panics, as it does in a debug build

Values == Nat \cup {Chunked, Text}

ASSUME ByteAssumption ==
  /\ {CR, LF} \cup NotUtf8 \subseteq Byte
  /\ CR # LF
  /\ Wires \subseteq Seq(Byte)

ASSUME MeaningAssumption ==
  /\ HeaderOf \in [Byte -> [key : Keys, value : Values] \cup {None}]
  /\ ChunkSize \in [Byte -> Nat \cup {None}]
  /\ LengthKeys \cup CodingKeys \subseteq Keys
  /\ "content-length" \in LengthKeys
  /\ "transfer-encoding" \in CodingKeys
  /\ None \notin Values
  /\ None \notin [key : Keys, value : Values]

ASSUME LimitAssumption ==
  /\ MaxStatusLine \in Nat \cup {None}
  /\ MaxHeaders \in Nat \cup {None}
  /\ MaxLengthLine \in Nat
  /\ Modulus \in Nat \ {0}
  /\ MaxHeaders # None => MaxHeaders < Modulus
  /\ OverflowChecks \in BOOLEAN

VARIABLES
  wire,            \* everything the server sends
  unread,          \* the part of it that was not read yet
  eof,             \* the ReaderStream has reported the end: it is fused
  stage,           \* what the reader is doing
  line,            \* `bytes' of the line being read
  trailing,        \* bytes read beyond the last line
  cap,             \* max_headers_size, what is left of it
  headers,         \* the header map; None for an absent name
  mode,            \* HttpStreamState
  expecting,       \* expecting_more_chunks
  chunk_length,
  content_length,  \* what is left of it; for chunks, the total
  tcap,            \* read_trailers' own max_headers_size
  out,             \* the bytes handed to the caller
  kept,            \* history: bytes of header text accepted
  finished         \* history: poll_next has returned None

vars == <<wire, unread, eof, stage, line, trailing, cap, headers, mode, expecting,
          chunk_length, content_length, tcap, out, kept, finished>>

head == <<cap, headers, kept>>
framing == <<mode, expecting, chunk_length, content_length>>
handed == <<out, finished>>

\* Reading the head; between two polls; inside a poll of a chunked body; over.
HeadStages == {"status", "headers"}
PollStages == {"length", "data", "trailer"}
FailStages == {"StatusLineOverflow", "HeadersOverflow", "InvalidUtf8InResponse",
               "MalformedContentLength", "MalformedChunkLength", "IoError",
               "panic"}
Stages == HeadStages \cup {"stream", "ended"} \cup PollStages \cup FailStages

TypeOK ==
  /\ wire \in Seq(Byte)
  /\ unread \in Seq(Byte)
  /\ eof \in BOOLEAN
  /\ stage \in Stages
  /\ line \in Seq(Byte)
  /\ trailing \in Seq(Byte)
  /\ cap \in Nat \cup {None}
  /\ headers \in [Keys -> Values \cup {None}]
  /\ mode \in {"unknown", "EndOnClose", "ContentLength", "Chunked"}
  /\ stage \in {"stream", "ended"} \cup PollStages => mode # "unknown"
  /\ expecting \in BOOLEAN
  /\ chunk_length \in Nat
  /\ content_length \in Nat
  /\ tcap \in Nat \cup {None}
  /\ out \in Seq(Byte)
  /\ kept \in Nat
  /\ finished \in BOOLEAN

-------------------------------------------------------------------------------
(* Lines.                                                                  *)

Breaks(bytes) == {i \in DOMAIN bytes : bytes[i] = LF}

FirstBreak(bytes) ==
  CHOOSE i \in Breaks(bytes) : \A j \in Breaks(bytes) : i <= j

\* How many of the bytes belong to the line.
Used(bytes) == IF Breaks(bytes) = {} THEN Len(bytes) ELSE FirstBreak(bytes)

StripCR(l) ==
  IF l # <<>> /\ l[Len(l)] = CR THEN SubSeq(l, 1, Len(l) - 1) ELSE l

\* The line that ends in these bytes, and what follows it.
Complete(bytes) == StripCR(line \o SubSeq(bytes, 1, FirstBreak(bytes) - 1))

\* Mutant: the byte after the line break goes with it.
AfterSkips(bytes) == SubSeq(bytes, FirstBreak(bytes) + 2, Len(bytes))

After(bytes) == SubSeq(bytes, FirstBreak(bytes) + 1, Len(bytes))

BadUtf8(l) == \E i \in DOMAIN l : l[i] \in NotUtf8

ParseHeader(l) == IF l = <<>> THEN None ELSE HeaderOf[l[1]]

\* The empty line that some servers send counts as zero.
ParseLength(l) == IF l = <<>> THEN 0 ELSE ChunkSize[l[1]]

-------------------------------------------------------------------------------
(* Arithmetic and endings.                                                 *)

Underflows(a, b) == a # None /\ a < b

\* a -= b, in a build that does not panic.
Minus(a, b) ==
  IF a = None THEN None ELSE IF a >= b THEN a - b ELSE (a - b) % Modulus

Fail(error) ==
  /\ stage' = error
  /\ UNCHANGED <<wire, line, trailing, head, framing, tcap, handed>>

\* The next n bytes that arrive.
Chunk(n) == SubSeq(unread, 1, n)

Drop(n) == unread' = SubSeq(unread, n + 1, Len(unread)) /\ UNCHANGED eof

\* The stream yields None, now and from now on.
Closed == unread = <<>> /\ eof' = TRUE /\ UNCHANGED unread

\* The stream is not asked.
Unasked == UNCHANGED <<unread, eof>>

-------------------------------------------------------------------------------
Init ==
  /\ wire \in Wires
  /\ unread = wire
  /\ eof = FALSE
  /\ stage = "status"
  /\ line = <<>>
  /\ trailing = <<>>
  /\ cap = MaxHeaders
  /\ headers = [k \in Keys |-> None]
  /\ mode = "unknown"
  /\ expecting = FALSE
  /\ chunk_length = 0
  /\ content_length = 0
  /\ tcap = None
  /\ out = <<>>
  /\ kept = 0
  /\ finished = FALSE

-------------------------------------------------------------------------------
(* read_metadata.                                                          *)

Insert(l) ==
  headers' = IF ParseHeader(l) = None THEN headers
             ELSE [headers EXCEPT ![ParseHeader(l).key] = ParseHeader(l).value]

\* The head is complete.  Several names may stand for Content-Length, and the
\* map is read in any order: the last one read decides.
Lengths == {headers[k] : k \in LengthKeys} \ {None}

IsChunked == \E k \in CodingKeys : headers[k] = Chunked

Framing ==
  \/ /\ IsChunked
     /\ mode' = "Chunked"
     /\ expecting' = TRUE
     /\ UNCHANGED <<chunk_length, content_length>>
  \/ /\ ~IsChunked
     /\ mode' = "ContentLength"
     /\ content_length' \in Lengths
     /\ UNCHANGED <<expecting, chunk_length>>
  \/ /\ ~IsChunked
     /\ Lengths = {}
     /\ mode' = "EndOnClose"
     /\ UNCHANGED <<expecting, chunk_length, content_length>>

Frame(rest) ==
  \/ ~(Lengths \subseteq Nat) /\ Fail("MalformedContentLength")
  \/ /\ Lengths \subseteq Nat
     /\ Framing
     /\ stage' = "stream"
     /\ line' = <<>>
     /\ trailing' = rest
     /\ UNCHANGED <<wire, head, tcap, handed>>

\* parse_status_line makes do with anything.
StatusLine(rest) ==
  /\ stage' = "headers"
  /\ line' = <<>>
  /\ trailing' = rest
  /\ UNCHANGED <<wire, head, framing, tcap, handed>>

HeaderLine(l, rest) ==
  IF OverflowChecks /\ Underflows(cap, Len(l) + 2)
  THEN Fail("panic")
  ELSE /\ cap' = Minus(cap, Len(l) + 2)
       /\ Insert(l)
       /\ kept' = kept + Len(l)
       /\ line' = <<>>
       /\ trailing' = rest
       /\ UNCHANGED <<wire, stage, framing, tcap, handed>>

\* One line of the head.
HeadLine(l, rest) ==
  \/ BadUtf8(l) /\ Fail("InvalidUtf8InResponse")
  \/ ~BadUtf8(l) /\ stage = "status" /\ StatusLine(rest)
  \/ ~BadUtf8(l) /\ stage = "headers" /\ l = <<>> /\ Frame(rest)
  \/ ~BadUtf8(l) /\ stage = "headers" /\ l # <<>> /\ HeaderLine(l, rest)

Limit == IF stage = "status" THEN MaxStatusLine ELSE cap

\* Mutant: the limit is tested once for all the bytes at hand.
OverflowsOnce(bytes) == Limit # None /\ Len(line) >= Limit

\* Mutant: the limit is tested after each byte but the last.
OverflowsLate(bytes) == Limit # None /\ Len(line) + Used(bytes) > Limit + 1

\* The limit is tested before each byte.
Overflows(bytes) == Limit # None /\ Len(line) + Used(bytes) > Limit

\* All the bytes belong to the line, which goes on.
Gather(bytes) ==
  /\ line' = line \o bytes
  /\ trailing' = <<>>
  /\ UNCHANGED <<wire, stage, head, framing, tcap, handed>>

\* read_line_async's loop over the bytes left from the last line, or over the
\* next chunk.
HeadBytes(bytes) ==
  \/ /\ Overflows(bytes)
     /\ Fail(IF stage = "status" THEN "StatusLineOverflow" ELSE "HeadersOverflow")
  \/ /\ ~Overflows(bytes)
     /\ Breaks(bytes) = {}
     /\ Gather(bytes)
  \/ /\ ~Overflows(bytes)
     /\ Breaks(bytes) # {}
     /\ HeadLine(Complete(bytes), After(bytes))

HeadPrefix ==
  /\ stage \in HeadStages
  /\ trailing # <<>>
  /\ HeadBytes(trailing)
  /\ Unasked

HeadChunk ==
  /\ stage \in HeadStages
  /\ trailing = <<>>
  /\ \E n \in 1 .. Len(unread) : HeadBytes(Chunk(n)) /\ Drop(n)

\* Mutant: the end of the stream does not end the loop over the lines.
HeadClosedSpins ==
  stage \in HeadStages /\ trailing = <<>> /\ unread = <<>> /\ UNCHANGED vars

\* The stream ends: so does the line, and an empty line ends the head.
HeadClosed ==
  /\ stage \in HeadStages
  /\ trailing = <<>>
  /\ Closed
  /\ HeadLine(line, <<>>)

-------------------------------------------------------------------------------
(* poll_next.  A caller may poll again after the end.                      *)

Polled == stage \in {"stream", "ended"}

Item(bytes) ==
  /\ out' = out \o bytes
  /\ stage' = "stream"
  /\ trailing' = <<>>
  /\ UNCHANGED finished

\* poll_next returns None.
End ==
  /\ stage' = "ended"
  /\ trailing' = <<>>
  /\ finished' = TRUE
  /\ UNCHANGED <<wire, line, head, framing, tcap, out>>

PollUntilClosed ==
  /\ Polled
  /\ mode = "EndOnClose"
  /\ \/ /\ trailing # <<>>
        /\ Item(trailing)
        /\ Unasked
        /\ UNCHANGED <<wire, line, head, framing, tcap>>
     \/ /\ trailing = <<>>
        /\ \E n \in 1 .. Len(unread) : Item(Chunk(n)) /\ Drop(n)
        /\ UNCHANGED <<wire, line, head, framing, tcap>>
     \/ trailing = <<>> /\ Closed /\ End

\* Mutant: the bytes are handed out without being counted.
TakeUncounted(bytes) ==
  /\ Item(bytes)
  /\ UNCHANGED <<wire, line, head, framing, tcap>>

\* *content_length -= len, and the bytes are the caller's.
Take(bytes) ==
  IF OverflowChecks /\ Underflows(content_length, Len(bytes))
  THEN Fail("panic")
  ELSE /\ content_length' = Minus(content_length, Len(bytes))
       /\ Item(bytes)
       /\ UNCHANGED <<wire, line, head, mode, expecting, chunk_length, tcap>>

PollContentLength ==
  /\ Polled
  /\ mode = "ContentLength"
  /\ \/ trailing # <<>> /\ Take(trailing) /\ Unasked
     \/ /\ trailing = <<>>
        /\ content_length > 0
        /\ \E n \in 1 .. Len(unread) : Take(Chunk(n)) /\ Drop(n)
     \/ trailing = <<>> /\ content_length > 0 /\ Closed /\ End
     \/ trailing = <<>> /\ content_length = 0 /\ Unasked /\ End

-------------------------------------------------------------------------------
(* read_chunked.  What a poll has read of a line is lost when the stream is *)
(* Pending, and so are the bytes behind the length line of a chunk.        *)

\* Mutant: the line break behind the data is counted, too.
ReadDataCRLF(length, total) ==
  /\ chunk_length' = length - 2
  /\ content_length' = total
  /\ stage' = "data"
  /\ line' = <<>>
  /\ trailing' = <<>>
  /\ UNCHANGED <<wire, mode, expecting, head, tcap, handed>>

\* Mutant: chunk_length is not decremented.
ReadDataUncounted(length, total) ==
  /\ chunk_length' = length
  /\ content_length' = total
  /\ stage' = "data"
  /\ line' = <<>>
  /\ trailing' = <<>>
  /\ UNCHANGED <<wire, mode, expecting, head, tcap, handed>>

\* *chunk_length -= 1 before the stream is polled for data.
ReadData(length, total) ==
  /\ chunk_length' = length - 1
  /\ content_length' = total
  /\ stage' = "data"
  /\ line' = <<>>
  /\ trailing' = <<>>
  /\ UNCHANGED <<wire, mode, expecting, head, tcap, handed>>

\* A chunk of length zero: read_trailers takes its limit by value.
ReadTrailers(rest) ==
  /\ stage' = "trailer"
  /\ tcap' = cap
  /\ line' = <<>>
  /\ trailing' = rest
  /\ UNCHANGED <<wire, framing, head, handed>>

\* Mutant: the total is that of the last chunk.
LengthLineLast(l, rest) ==
  LET size == ParseLength(l) IN
  \/ BadUtf8(l) /\ Fail("InvalidUtf8InResponse")
  \/ ~BadUtf8(l) /\ size = None /\ Fail("MalformedChunkLength")
  \/ ~BadUtf8(l) /\ size = 0 /\ ReadTrailers(rest)
  \/ ~BadUtf8(l) /\ size \notin {None, 0} /\ ReadData(size, size % Modulus)

LengthLine(l, rest) ==
  LET size == ParseLength(l)
      sum == content_length + size IN
  \/ BadUtf8(l) /\ Fail("InvalidUtf8InResponse")
  \/ ~BadUtf8(l) /\ size = None /\ Fail("MalformedChunkLength")
  \/ ~BadUtf8(l) /\ size = 0 /\ ReadTrailers(rest)
  \/ /\ ~BadUtf8(l)
     /\ size \notin {None, 0}
     /\ IF OverflowChecks /\ sum >= Modulus
        THEN Fail("panic") ELSE ReadData(size, sum % Modulus)

ReadLength ==
  /\ stage' = "length"
  /\ line' = trailing
  /\ trailing' = <<>>
  /\ UNCHANGED <<wire, head, framing, tcap, handed>>

\* read_line begins with what was left from the head.
PollChunked ==
  /\ Polled
  /\ mode = "Chunked"
  /\ \/ ~expecting /\ chunk_length = 0 /\ Unasked /\ End
     \/ /\ expecting
        /\ chunk_length = 0
        /\ \/ Breaks(trailing) # {} /\ LengthLine(Complete(trailing), After(trailing))
           \/ Breaks(trailing) = {} /\ ReadLength
        /\ Unasked
     \/ chunk_length > 0 /\ ReadData(chunk_length, content_length) /\ Unasked

\* read_line's loop over the chunks, with the limit tested once for each.
PollLine(limit, error, Line(_, _)) ==
  \E n \in 1 .. Len(unread) :
    /\ Drop(n)
    /\ \/ limit # None /\ Len(line) >= limit /\ Fail(error)
       \/ /\ limit # None => Len(line) < limit
          /\ Breaks(Chunk(n)) # {}
          /\ Line(Complete(Chunk(n)), After(Chunk(n)))
       \/ /\ limit # None => Len(line) < limit
          /\ Breaks(Chunk(n)) = {}
          /\ Gather(Chunk(n))

LengthChunk ==
  stage = "length" /\ PollLine(MaxLengthLine, "MalformedChunkLength", LengthLine)

LengthClosed ==
  stage = "length" /\ Closed /\ LengthLine(line, <<>>)

DataChunk ==
  /\ stage = "data"
  /\ \E n \in 1 .. Len(unread) : Item(Chunk(n)) /\ Drop(n)
  /\ UNCHANGED <<wire, line, head, framing, tcap>>

DataClosed == stage = "data" /\ Closed /\ End

\* Mutant: expecting_more_chunks is not reset.
LastChunkOpen ==
  /\ stage' = "ended"
  /\ finished' = TRUE
  /\ line' = <<>>
  /\ trailing' = <<>>
  /\ UNCHANGED <<wire, framing, head, out>>

\* The last chunk has been read: the map now says Content-Length.
LastChunk ==
  /\ expecting' = FALSE
  /\ headers' = [headers EXCEPT !["content-length"] = content_length,
                               !["transfer-encoding"] = None]
  /\ stage' = "ended"
  /\ finished' = TRUE
  /\ line' = <<>>
  /\ trailing' = <<>>
  /\ UNCHANGED <<wire, cap, kept, mode, chunk_length, content_length, out>>

Trailer(l, rest) ==
  /\ Insert(l)
  /\ kept' = kept + Len(l)
  /\ line' = <<>>
  /\ trailing' = rest
  /\ UNCHANGED <<wire, stage, cap, framing, handed>>

TrailerLine(l, rest) ==
  LET panics == OverflowChecks /\ Underflows(tcap, Len(l) + 2) IN
  \/ BadUtf8(l) /\ Fail("InvalidUtf8InResponse")
  \/ ~BadUtf8(l) /\ panics /\ Fail("panic")
  \/ /\ ~BadUtf8(l)
     /\ ~panics
     /\ tcap' = Minus(tcap, Len(l) + 2)
     /\ IF ParseHeader(l) = None THEN LastChunk ELSE Trailer(l, rest)

TrailerPrefix ==
  /\ stage = "trailer"
  /\ trailing # <<>>
  /\ \/ Breaks(trailing) # {} /\ TrailerLine(Complete(trailing), After(trailing))
     \/ Breaks(trailing) = {} /\ Gather(trailing)
  /\ Unasked

TrailerChunk ==
  stage = "trailer" /\ trailing = <<>> /\ PollLine(tcap, "HeadersOverflow", TrailerLine)

TrailerClosed ==
  /\ stage = "trailer"
  /\ trailing = <<>>
  /\ Closed
  /\ TrailerLine(line, <<>>)

\* Nothing has arrived: poll_next returns Pending and starts over when it is
\* polled again.
Pending ==
  /\ stage \in PollStages
  /\ trailing = <<>>
  /\ ~eof
  /\ stage' = "stream"
  /\ line' = <<>>
  /\ UNCHANGED <<wire, unread, eof, trailing, head, framing, tcap, handed>>

\* The stream reports an error wherever it is read.
StreamFails ==
  /\ trailing = <<>>
  /\ \/ stage \in HeadStages \cup PollStages
     \/ Polled /\ mode = "EndOnClose"
     \/ Polled /\ mode = "ContentLength" /\ content_length > 0
  /\ ~eof
  /\ Fail("IoError")
  /\ Unasked

\* The request has failed.
Failed == stage \in FailStages /\ UNCHANGED vars

-------------------------------------------------------------------------------
\* Steps of the reader by itself, and steps that wait for the stream.
Reader == \/ HeadPrefix \/ TrailerPrefix
          \/ PollUntilClosed \/ PollContentLength \/ PollChunked

Stream == \/ HeadChunk \/ HeadClosed \/ LengthChunk \/ LengthClosed
          \/ DataChunk \/ DataClosed \/ TrailerChunk \/ TrailerClosed

Next == Reader \/ Stream \/ Pending \/ StreamFails \/ Failed

Spec == Init /\ [][Next]_vars

\* The caller polls to the end; what was sent, and the end of it, arrives some
\* time, however often the stream is Pending.
Fairness == WF_vars(Reader) /\ SF_vars(Stream)

FairSpec == Spec /\ Fairness

-------------------------------------------------------------------------------
(* Properties.                                                             *)

\* The reference: the body begins after the first empty line that is not the
\* status line; without one there is no body.
LineStart(w, i) == i = 1 \/ w[i - 1] = LF

HeadEnds(w) ==
  {i \in Breaks(w) : /\ \E j \in Breaks(w) : j < i
                      /\ \/ LineStart(w, i)
                         \/ w[i - 1] = CR /\ LineStart(w, i - 1)}

HeadEnd(w) ==
  IF HeadEnds(w) = {} THEN Len(w)
  ELSE CHOOSE i \in HeadEnds(w) : \A j \in HeadEnds(w) : i <= j

\* All that is sent behind the head: the body, or the chunks that spell it.
BodyOf(w) == SubSeq(w, HeadEnd(w) + 1, Len(w))

\* Wherever the stream is cut into chunks, the bytes handed out, those kept and
\* those still to come are the body, each once and in order (read_line_async's
\* trailing, process_prefix).  What is handed out of chunks is ChunkedBody's matter.
BodyByteExact ==
  Polled /\ mode # "Chunked" => out \o trailing \o unread = BodyOf(wire)

\* What was handed out and what is still expected add up to the Content-Length,
\* unless the length has wrapped around (read_with_content_length).
LengthLedger ==
  OverflowChecks /\ Polled /\ mode = "ContentLength"
    => \E k \in LengthKeys : Len(out) + content_length = headers[k]

\* The head parser never holds more of a line than the limits allow, however
\* much arrives at once (the test for each byte in read_line_async).
LineWithinLimit == stage \in HeadStages /\ Limit # None => Len(line) <= Limit

\* A head that was accepted was within the limits as the server sent it, every
\* line ending counted, in a build with overflow checks (read_metadata).
LimitsHold ==
  OverflowChecks /\ mode # "unknown" /\ Breaks(wire) # {} =>
    /\ MaxStatusLine # None => FirstBreak(wire) <= MaxStatusLine
    /\ MaxHeaders # None => HeadEnd(wire) - FirstBreak(wire) <= MaxHeaders

\* After poll_next has returned None it hands out nothing more, however often
\* it is polled.
EndIsFinal == [][finished => out' = out]_vars

\* A server that closes the connection lets the caller come to an end in every
\* framing.
Ends == <>(stage \in {"ended"} \cup FailStages)

-------------------------------------------------------------------------------
(* What comments and documentation say and the code does not do.           *)

\* max_headers_size bounds headers and trailers in every build.
CapHolds == MaxHeaders # None => kept <= MaxHeaders

===============================================================================
