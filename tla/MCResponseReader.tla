--------------------------- MODULE MCResponseReader ---------------------------
(* Instances of ResponseReader for TLC.                                    *)
EXTENDS ResponseReader, SequencesExt

\* S: a status line; h: a header; L1, L2, Lx: Content-Length 1, 2, not a number;
\* M1: "content-length " 1; TE: chunked; 0, 1, 2, G: chunk lengths, G the largest
\* usize; a, b: payload; ff: not UTF-8.
MCByte == {"S", "h", "L1", "L2", "Lx", "M1", "TE", "0", "1", "2", "G", "a", "b", "ff",
           "CR", "LF"}
MCNotUtf8 == {"ff"}
MCKeys == {"other", "content-length", "content-length ", "transfer-encoding"}
MCLengthKeys == {"content-length", "content-length "}
MCCodingKeys == {"transfer-encoding"}

Header(k, v) == [key |-> k, value |-> v]

MCHeaderOf ==
  [b \in MCByte |->
     CASE b = "h" -> Header("other", Text)
       [] b = "L1" -> Header("content-length", 1)
       [] b = "L2" -> Header("content-length", 2)
       [] b = "Lx" -> Header("content-length", Text)
       [] b = "M1" -> Header("content-length ", 1)
       [] b = "TE" -> Header("transfer-encoding", Chunked)
       [] OTHER -> None]

MCModulus == 16

MCChunkSize ==
  [b \in MCByte |->
     CASE b = "0" -> 0 [] b = "1" -> 1 [] b = "2" -> 2 [] b = "G" -> MCModulus - 1 [] OTHER -> None]

CRLF == <<"CR", "LF">>
JustLF == <<"LF">>

\* A message: lines, each with the line ending.
Message(lines, eol) == FlattenSeq([i \in DOMAIN lines |-> lines[i] \o eol])

HeadOf(fields, eol) == Message(<<<<"S">>>> \o fields \o <<<<>>>>, eol)

\* A server may close anywhere.
Cut(ws) == UNION {Prefixes(w) : w \in ws}

PlainFields ==
  {<<>>, <<<<"L2">>>>, <<<<"M1">>, <<"L2">>>>, <<<<"Lx">>>>, <<<<"h", "h", "h">>, <<"L1">>>>,
   <<<<"h">>, <<"L1">>, <<"L2">>>>, <<<<"ff">>>>, <<<<"h", "h", "h", "h", "h", "h", "h", "h">>>>}

PlainBodies == {<<"a", "b">>, <<"a", "CR", "LF", "LF", "b">>}

PlainWires ==
  Cut({HeadOf(f, eol) \o b : f \in PlainFields, eol \in {CRLF, JustLF}, b \in PlainBodies}
      \cup {<<"S", "S", "S", "S", "S", "LF">>, <<"ff", "LF">>})

ChunkBodies ==
  {<<<<"1">>, <<"a">>, <<"0">>, <<>>>>, <<<<"1">>, <<"a">>, <<"1">>, <<"b">>, <<"0">>, <<>>>>,
   <<<<"0">>, <<"h">>, <<>>>>, <<<<"0">>, <<"ff">>>>, <<<<"h">>>>, <<<<"ff">>>>,
   <<<<"0">>, <<"h", "h", "h", "h">>, <<>>>>, <<<<"G">>, <<"G">>>>, <<<<"1">>, <<"1">>, <<"G">>>>,
   <<<<"1", "1", "1", "1", "1">>>>, <<<<"0">>, <<>>, <<"1">>, <<"a">>>>}

ChunkWires ==
  Cut({HeadOf(<<<<"TE">>>>, eol) \o Message(b, eol) : eol \in {CRLF, JustLF}, b \in ChunkBodies})

AllWires == PlainWires \cup ChunkWires

\* The message that a documented claim is about.
LineFeeds == {HeadOf(<<<<"h", "h", "h", "h">>, <<"h", "h", "h", "h">>>>, JustLF)}

===============================================================================
