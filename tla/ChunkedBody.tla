----------------------------- MODULE ChunkedBody ------------------------------
(***************************************************************************)
(* What poll_next delivers of a chunked body, compared with the body that  *)
(* the chunks spell.  ResponseReader with a history variable: read_chunked *)
(* delivers the body only while the stream keeps in step with it.          *)
(* src/src/response.rs.                                                    *)
(***************************************************************************)
EXTENDS ResponseReader

VARIABLE inStep    \* history: every read so far was one read_chunked can bear

varsC == <<vars, inStep>>

-------------------------------------------------------------------------------
(* The reference: a chunk is a line with its size, as many bytes, and an    *)
(* empty line; a chunk without bytes is the last one.                      *)

SizeOf(b) ==
  LET size == ParseLength(StripCR(SubSeq(b, 1, FirstBreak(b) - 1)))
  IN IF Breaks(b) = {} \/ size = None THEN 0 ELSE size

\* What there is of the data of the first chunk, and what follows them.
DataOf(b) ==
  LET end == Used(b) + SizeOf(b)
  IN SubSeq(b, Used(b) + 1, IF end < Len(b) THEN end ELSE Len(b))

Behind(b) == SubSeq(b, Used(b) + SizeOf(b) + 1, Len(b))

WholeChunk(b) ==
  /\ SizeOf(b) > 0
  /\ Breaks(Behind(b)) # {}
  /\ StripCR(SubSeq(Behind(b), 1, FirstBreak(Behind(b)) - 1)) = <<>>

NextChunk(b) == After(Behind(b))

\* The data of the chunks that are whole, and what is left behind them.
Chunks[b \in Seq(Byte)] ==
  IF WholeChunk(b)
  THEN [data |-> DataOf(b) \o Chunks[NextChunk(b)].data, rest |-> Chunks[NextChunk(b)].rest]
  ELSE [data |-> <<>>, rest |-> b]

Remainder(b) == Chunks[b].rest

\* The bytes that the chunks spell.
Decoded(b) == Chunks[b].data \o DataOf(Remainder(b))

-------------------------------------------------------------------------------
(* Keeping in step.                                                        *)

\* What poll_next has taken of the body.
Taken == SubSeq(wire, HeadEnd(wire) + 1, Len(wire) - Len(unread) - Len(trailing))

BetweenChunks == Remainder(Taken) = <<>>

\* A length line comes where a chunk begins, and nothing comes with it that
\* read_chunked would drop.
LineAlone ==
  stage' = "data" /\ chunk_length = 0
    => LET chunk == Remainder(Taken) \o SubSeq(Taken', Len(Taken) + 1, Len(Taken'))
       IN SizeOf(chunk) > 0 /\ Used(chunk) = Len(chunk)

\* Data come byte by byte, as chunk_length counts them, and come when they are
\* asked for.
ByteByByte == stage = "data" /\ stage' = "stream" => Len(Taken') = Len(Taken) + 1

\* No line is split by a Pending.
LineUnbroken == stage = "length" /\ stage' = "stream" => line = <<>>

\* The empty line behind the data of a chunk makes read_chunked look for
\* trailers; only a Pending brings it back to the next chunk.
BackFromTrailers ==
  stage = "trailer" => IF stage' = "stream" THEN BetweenChunks
                       ELSE BetweenChunks => Taken' = Taken

KeepsStep ==
  mode = "Chunked" => LineAlone /\ ByteByByte /\ LineUnbroken /\ BackFromTrailers

InitC == Init /\ inStep = TRUE

NextC == Next /\ inStep' = (inStep /\ KeepsStep)

SpecC == InitC /\ [][NextC]_varsC

FairSpecC == SpecC /\ Fairness

-------------------------------------------------------------------------------
(* Properties.                                                             *)

\* As long as the stream keeps in step, what poll_next has handed out is what
\* the chunks it has taken spell: no length line, no line break and no trailer
\* among it, and no byte of data missing, over several chunks, with Pending and
\* close between any two reads (read_chunked's chunk_length and read_line).
ChunksDecoded ==
  inStep /\ mode = "Chunked" /\ stage \notin FailStages => out = Decoded(Taken)

\* In step, the end means that all of the body was handed out, and the length
\* that read_chunked puts into the header map is the length of it, unless the
\* server has closed too early or, without overflow checks, it has wrapped around.
EndsWhole ==
  inStep /\ mode = "Chunked" /\ finished =>
    /\ out = Decoded(BodyOf(wire))
    /\ OverflowChecks /\ ~eof => headers["content-length"] = Len(out)

-------------------------------------------------------------------------------
(* What documentation says and the code does not do.                       *)

\* The bytes of a loaded response are those that make up its body.
BodyIsWhole == mode = "Chunked" /\ finished => out = Decoded(BodyOf(wire))

===============================================================================
