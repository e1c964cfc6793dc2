------------------------------- MODULE LazyRead -------------------------------
(***************************************************************************)
(* The second way to take a body from a ResponseLazy: its AsyncRead, which *)
(* reads the stream without regard to the framing of the response.         *)
(* src/src/response.rs.                                                    *)
(*                                                                         *)
(* The caller reads with buffers of its own.  AsyncReadExt::read makes a   *)
(* new ReadBuf for each poll, so that what a poll has put into the buffer  *)
(* before it returned Pending is gone.                                     *)
(***************************************************************************)
EXTENDS Naturals, Sequences

CONSTANTS
  Byte,
  Bodies,      \* what servers send behind the head
  Rooms,       \* the sizes of the caller's buffers
  ChunkMax     \* the most that the ReaderStream yields at once

ASSUME LazyAssumption ==
  /\ Bodies \subseteq Seq(Byte)
  /\ Rooms \subseteq Nat \ {0}
  /\ ChunkMax \in Nat \ {0}

VARIABLES
  body,
  closes,      \* the server closes the connection behind the body
  trailing,    \* trailing_content: bytes that came with the head
  unread,      \* what is still in the stream
  eof,         \* the ReaderStream has reported the end: it is fused
  stage,       \* "idle", "reading", "end" (0 bytes read), "IoError", "panic"
  room,        \* the length of the caller's buffer
  got,         \* all the caller has read
  narrow,      \* history: a buffer did not have room for a prefix and a chunk
  hasty        \* history: the stream was Pending when the prefix was asked for

vars == <<body, closes, trailing, unread, eof, stage, room, got, narrow, hasty>>

server == <<body, closes>>
stream == <<unread, eof>>

\* read_metadata leaves any part of the body in trailing_content.
Init ==
  /\ body \in Bodies
  /\ closes \in BOOLEAN
  /\ \E k \in 0 .. Len(body) : /\ trailing = SubSeq(body, 1, k)
                               /\ unread = SubSeq(body, k + 1, Len(body))
  /\ eof = FALSE
  /\ stage = "idle"
  /\ room = 0
  /\ got = <<>>
  /\ narrow = FALSE
  /\ hasty = FALSE

\* The caller reads into a buffer; it may read again after the end.
Read ==
  /\ stage \in {"idle", "end"}
  /\ room' \in Rooms
  /\ narrow' = (narrow \/ room' < Len(trailing) + ChunkMax)
  /\ stage' = "reading"
  /\ UNCHANGED <<server, trailing, stream, got, hasty>>

\* put_slice(prefix) panics if the buffer is too small.
Fits == Len(trailing) <= room

PrefixPanics ==
  /\ stage = "reading"
  /\ ~Fits
  /\ stage' = "panic"
  /\ UNCHANGED <<server, trailing, stream, room, got, narrow, hasty>>

\* Mutant: trailing_content is not reset.
ReturnKeeps(bytes) ==
  /\ got' = got \o bytes
  /\ stage' = IF bytes = <<>> THEN "end" ELSE "idle"
  /\ UNCHANGED <<server, trailing, room, narrow, hasty>>

\* poll_read returns Ok: the caller takes no bytes for the end.
Return(bytes) ==
  /\ got' = got \o bytes
  /\ stage' = IF bytes = <<>> THEN "end" ELSE "idle"
  /\ trailing' = <<>>
  /\ UNCHANGED <<server, room, narrow, hasty>>

\* Mutant: the prefix is put behind the chunk.
FilledBehind(n) ==
  LET len == IF n < room - Len(trailing) THEN n ELSE room - Len(trailing)
  IN SubSeq(unread, 1, len) \o trailing

\* Mutant: the prefix is not put into the buffer.
FilledWithout(n) ==
  SubSeq(unread, 1, IF n < room THEN n ELSE room)

\* The prefix, and as much of the chunk as still fits.
Filled(n) ==
  LET len == IF n < room - Len(trailing) THEN n ELSE room - Len(trailing)
  IN trailing \o SubSeq(unread, 1, len)

PollChunk ==
  /\ stage = "reading"
  /\ Fits
  /\ \E n \in 1 .. ChunkMax :
       /\ n <= Len(unread)
       /\ Return(Filled(n))
       /\ unread' = SubSeq(unread, n + 1, Len(unread))
  /\ UNCHANGED eof

\* Mutant: the end of the stream is taken for a Pending.
PollClosedWaits ==
  /\ stage = "reading"
  /\ Fits
  /\ unread = <<>>
  /\ closes
  /\ trailing' = <<>>
  /\ UNCHANGED <<server, stream, stage, room, got, narrow, hasty>>

PollClosed ==
  /\ stage = "reading"
  /\ Fits
  /\ unread = <<>>
  /\ closes
  /\ Return(trailing)
  /\ eof' = TRUE
  /\ UNCHANGED unread

PollError ==
  /\ stage = "reading"
  /\ Fits
  /\ ~eof
  /\ stage' = "IoError"
  /\ trailing' = <<>>
  /\ UNCHANGED <<server, stream, room, got, narrow, hasty>>

\* Mutant: poll_read returns what there is instead of Pending.
PollPendingReturns ==
  /\ stage = "reading"
  /\ Fits
  /\ ~eof
  /\ Return(trailing)
  /\ UNCHANGED stream

\* Nothing has arrived.
PollPending ==
  /\ stage = "reading"
  /\ Fits
  /\ ~eof
  /\ hasty' = (hasty \/ trailing # <<>>)
  /\ trailing' = <<>>
  /\ UNCHANGED <<server, stream, stage, room, got, narrow>>

Terminated == stage \in {"IoError", "panic"} /\ UNCHANGED vars

Stream == PrefixPanics \/ PollChunk \/ PollClosed

Next == Read \/ Stream \/ PollError \/ PollPending \/ Terminated

Spec == Init /\ [][Next]_vars

\* The caller reads on, and what the server sends, or its close, arrives.
FairSpec == Spec /\ WF_vars(Read) /\ SF_vars(Stream)

-------------------------------------------------------------------------------
(* Properties.                                                             *)

\* Every variable keeps its type, and no byte is in two places.
TypeOK ==
  /\ trailing \in Seq(Byte)
  /\ unread \in Seq(Byte)
  /\ eof \in BOOLEAN
  /\ stage \in {"idle", "reading", "end", "IoError", "panic"}
  /\ room \in Rooms \cup {0}
  /\ got \in Seq(Byte)
  /\ Len(got) + Len(trailing) + Len(unread) <= Len(body)

\* What the reader is past, as the promise of BodyStream counts it.
Over == stage \in {"IoError", "panic"}

Rest == IF Over THEN <<>> ELSE trailing \o unread

Body == INSTANCE BodyStream
          WITH rest <- Rest, given <- got, over <- Over

\* Whatever the sizes of the buffers, and wherever the stream is Pending, the
\* caller gets bytes that the server sent behind the head, whatever their
\* framing, each at most once and in order (poll_read's prefix comes before the
\* chunk it goes with).
ReadsBody == Body!Spec

\* With room for the prefix and a chunk in every buffer, and a first read that
\* does not have to wait, no byte is lost.
ExactWhenRoomy ==
  ~narrow /\ ~hasty /\ stage # "IoError" => got \o trailing \o unread = body

\* A read returns no bytes only if the server has closed and all it sent has
\* been taken from the stream: a caller that stops there stops in the right
\* place, also when a prefix fills the buffer or the stream is Pending.
NoFalseEnd == stage = "end" => closes /\ trailing = <<>> /\ unread = <<>>

\* If the server closes, a caller that reads on comes to the end or to an
\* error.
ReadsToEnd == closes ~> stage \in {"end", "IoError", "panic"}

===============================================================================
