----------------------------- MODULE MCChunkedBody ----------------------------
(* Instances of ChunkedBody for TLC.                                       *)
EXTENDS MCResponseReader, ChunkedBody

\* Two chunks, one of them of two bytes, with lines among the data; trailers;
\* something behind the last chunk; a missing and a doubled line break.
StepBodies ==
  {<<<<"2">>, <<"a", "b">>, <<"1">>, <<"a">>, <<"0">>, <<>>>>,
   <<<<"1">>, <<"LF">>, <<"1">>, <<"1">>, <<"0">>, <<"h">>, <<>>>>,
   <<<<"0">>, <<>>, <<"1">>, <<"a">>>>, <<<<>>, <<"1">>, <<"a">>>>,
   <<<<"1">>, <<"a", "1">>, <<"b">>>>, <<<<"1">>, <<"a">>, <<>>, <<"1">>, <<"b">>>>,
   <<<<"1">>, <<"a", "b">>, <<>>>>, <<<<"G">>, <<"a">>>>}

StepWires ==
  Cut({HeadOf(<<<<"TE">>>>, eol) \o Message(b, eol) : eol \in {CRLF, JustLF}, b \in StepBodies})

EveryWire == AllWires \cup StepWires

\* The message that a documented claim is about.
OneChunk == {HeadOf(<<<<"TE">>>>, CRLF) \o Message(<<<<"1">>, <<"a">>, <<"0">>, <<>>>>, CRLF)}

===============================================================================
