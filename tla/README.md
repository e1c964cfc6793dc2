# minreq in TLA+

A verification project for minreq, an HTTP client for Rust (tokio). It models how
a request is built, sent through a proxy or TLS, redirected and written, and how
its response is read; checks the models with TLC on small instances, and proves
with TLAPS, for every value of the constants, the safety properties that the
passing runs check (all but the two about chunked bodies).
Source paths below are relative to the crate: `connection.rs` is
`src/src/connection.rs` here.

## The system

| Component | State it keeps | Operations | Interacts with |
|---|---|---|---|
| Request builder (`request.rs`) | `Request`: method, URL, headers, body, limits | `with_*`, `get_http_head` | consumed by `send` |
| Request life cycle (`request.rs`, `connection.rs`) | `ParsedRequest` (url, redirects, config), `Connection::timeout_at`, `is_head` | `send`, `send_lazy`, `send_https`, `connect`, `tcp_connect`, `handle_redirects`, `redirect_to` | resolver, sockets, timers, proxy, TLS; hands the socket to the reader |
| URL parser (`http_url.rs`) | none | `parse`, `write_base_url_to`, `write_resource_to` | `ParsedRequest::new`, `redirect_to` |
| Response reader (`response.rs`) | `ResponseLazy`: stream, `HttpStreamState`, bytes read too far, header map, what is left of the limits | `from_stream`, `read_metadata`, `poll_next` | polled by `Response::create` or by the caller |
| AsyncRead (`response.rs`) | the same stream and bytes read too far; the caller's buffer | `poll_read` | polled by the caller instead of `poll_next` |
| Proxy (`proxy.rs`) | `Proxy`: server, port, credentials | `new`, `connect`, `verify_response` | `Connection::connect`, environment variables |
| TLS roots (`connection.rs`) | the statics `MANUAL_ROOTS` and `CONFIG` | `set_manual_roots`, lazy initialisation | every `send_https`, all threads |
| Errors (`error.rs`) | none | formatting | everything |
| Copied native-tls wrapper (`native_tls/`) | none of this crate | builders around OpenSSL | `send_https` with the feature `native-tls` |

What is hard here: one deadline is shared by all hops of a redirect chain and by
three levels of nested timers; `is_head` is read before an await and used after
it; the stream may be cut into chunks anywhere and be Pending anywhere, while
`poll_next` and `poll_read` keep only a part of their state between two polls;
several counters are `usize` values that a peer's numbers are subtracted from;
the answer of a proxy is judged by what a loop of reads has caught of it; texts
are put together, printed and parsed again at every hop; two statics are filled
once by whichever thread comes first. `PROJECT.json` lists these hazards with
their lines and the properties that cover them.

What makes the components correct:

* life cycle: chains are finite and without repetition, the method follows the
  status codes, TLS is used exactly for https, the deadline ends every wait for
  the response head and is never reported early;
* reader: every byte of the body is handed out once, and of a chunked body what
  its chunks spell; the limits hold, lengths add up, the body comes to an end and
  stays at its end;
* AsyncRead: bytes come in order and at most once, and an empty read is the end;
* URL parser and request text: URLs are what the grammar says, survive printing
  and parsing, relative redirects stay with their host, and every hop announces
  the body that it sends;
* proxy: settings reach the wire as they were written, only a 200 opens a tunnel,
  and nothing of the proxy's answer is taken for the response;
* TLS roots: all requests trust the same roots, and nobody waits for ever.

## Modules

| Module | Content |
|---|---|
| `Connection` | one request from `send` to its result |
| `SendPromise` | abstract: what a caller may rely on, without hops, sockets and URLs |
| `ResponseReader` | the head parser and the three framings of a body |
| `ChunkedBody` | a reference decoding of chunked bodies, and when the reader keeps to it |
| `LazyRead` | the `AsyncRead` of a response |
| `BodyStream` | abstract: what the `AsyncRead` promises |
| `ProxyTunnel` | proxy settings, environment variables and the CONNECT exchange |
| `UrlText` | `HttpUrl::parse` and the two writers, as operators on texts |
| `RequestText` | the builder, `ParsedRequest`, the text of each hop |
| `TlsRoots` | the two statics behind `send_https`, with concurrent requests |
| `MCConnection`, `MCResponseReader`, `MCChunkedBody`, `MCLazyRead`, `MCProxyTunnel`, `MCRequestText`, `MCTlsRoots` | instances for TLC |
| `ConnectionProofs`, `LazyReadProofs`, `ProxyTunnelProofs`, `RequestTextProofs`, `TlsRootsProofs` | theorems about the module in the name |
| `ResponseReaderProofs`, `ResponseBodyProofs` | theorems about `ResponseReader`: types, counters and the end; then where the head ends and what the body is |
| `SequenceFacts` | lemmas about sequences and natural numbers that several proofs use |

`Connection` implements `SendPromise`, and `LazyRead` implements `BodyStream`;
`ChunkedBody` is `ResponseReader` with a history variable; `RequestText` is built
on `UrlText`. `Connection` has one step for
the CONNECT exchange, one for writing the request and one for reading the head:
`ProxyTunnel`, `RequestText` and `ResponseReader` say what happens in them.

### Connection

`pc` names the place the future is suspended at, or the next synchronous piece
of code. The steps of a hop are `SendHop` (deadline check, `ensure_ascii_host`,
TLS parameters), `Resolve` and `Dial` (the loop of `tcp_connect`), `ConnectOk`,
`ConnectFail` and `ConnectTimeout` (one attempt), `ProxyStep`, `Handshake`,
`Write`, `ReadSecured` and `ReadHead`. `RedirectFails`, `FollowRedirect` and
`Destination` are `handle_redirects` with `redirect_to`, which run without an
await; `CreateEmpty` and `CreateLoaded` are `Response::create`. `TimerFires` is
the timer around a whole hop. Every hop nests its timer inside those of the hops
before it, and all of them elapse at `timeout_at`, so one action stands for all.

A URL is `https`, `host` (with its port), `path` and `fragment`; host texts are
members of a set, with `Encode` for punycode and `Glue` for what appending to a
host text makes of it. A Location (and the caller's URL text) is a record of what
`HttpUrl::parse` and `redirect_to` tell apart. Errors are named after the
variants of `Error`; `TimedOut` is the `IoError` of `timeout_err`,
`InvalidProtocol` the `IoError` of a URL that cannot be parsed, and
`BadResponseHead`/`BadResponseBody` stand for the reader's errors and for its
panics, which `ResponseReader` tells apart.

`config` is the caller's request together with the features of the build and the
`MINREQ_TIMEOUT` of the environment that it runs in.

Time is counted from `Connection::new`. `Expired` is `checked_duration_since`
returning None, after the deadline; `Due` is an elapsed timer, at the deadline or
after it. The resolver blocks the thread, so no timer interrupts `Resolve`. With
a TLS stream the first read is `todo!()`: `ReadSecured` is its panic, and no
response is ever read over TLS. Redirections from https are therefore not
reached, those from http to https are.

`config.proxy` is the outcome of `with_proxy` and of the environment variables,
which `ProxyTunnel` models.

### ResponseReader

`wire` is what the server sends before it closes, `unread` the part that has not
come yet. `HeadPrefix`, `HeadChunk` and `HeadClosed` are one turn of
`read_line_async` inside `read_metadata`: over the bytes left from the last line,
over the next chunk of the stream, at its end. `PollUntilClosed` and
`PollContentLength` are whole polls. A poll of a chunked body is several steps
(stages `length`, `data` and `trailer`), one for each chunk the stream yields to
it. `Pending` may happen at each of these, and what the poll's locals hold is
then lost, as in the code, where `read_line` keeps nothing. `StreamFails` is an
I/O error at any read. `Failed` states are terminal: what a caller gets by
polling after an error is not modelled.

A line is a sequence of bytes as long as the line is. Its first byte stands for
what the line says: `HeaderOf` is `parse_header`, `ChunkSize` the hexadecimal
number. Names that `trim()` to `content-length` are the set `LengthKeys`, and
`Framing` chooses among their values, since the `HashMap` is read in any order.
`usize` values wrap around modulo `Modulus`, or panic with `OverflowChecks`.

### ChunkedBody

`Chunks` is the reference: a chunk is a length line, as many bytes and an empty
line. `Decoded` is what the chunks of a text spell, that is their data and what
there is of the data of the last one; `Remainder` is what is left behind the
whole chunks.

`read_chunked` does not decode every stream. It counts `chunk_length` down by one
for each item of the stream, however long the item is, drops what comes behind a
length line in the same item, keeps no part of a line over a Pending, and takes
the empty line behind the data of a chunk for a chunk of length 0, after which it
reads trailers. So `poll_next` may hand out length lines and line breaks, and may
lose data; `doc_chunked` is such an execution, of a message of one chunk. The
history variable `inStep` says that none of this has happened so far:

* `LineAlone`: the length line comes where a chunk begins, with nothing behind it;
* `ByteByByte`: the data come one byte at a time;
* `LineUnbroken`: a Pending comes between lines, not inside one;
* `BackFromTrailers`: behind the empty line a Pending comes, and the next poll
  begins a new chunk.

`ChunksDecoded` and `EndsWhole` say that in step the caller gets exactly what the
chunks spell, and all of it. The conditions are on the stream and not on the
reader's result: each of them names one thing that the code cannot bear, and
between them every cut, Pending and close is still possible.

### LazyRead and BodyStream

`BodyStream` has the rest of a body and what the caller has got of it. `Advance`
moves past some bytes and hands out the first of them; the others are lost.
`poll_read` ignores the framing, puts the bytes kept from the head and then one
chunk into the buffer, and drops what does not fit. The body is therefore
everything behind the head, chunk lengths and trailers included.

In `LazyRead`, `Read` is the caller with a buffer, `PrefixPanics` the `put_slice`
that does not fit, and `PollChunk`, `PollClosed`, `PollError` and `PollPending`
are the four answers of the stream. Each poll has a new `ReadBuf`, as
`AsyncReadExt::read` makes one, so what was put before a Pending is gone. A read
that returns no bytes is the end for the caller, who may read again.

### ProxyTunnel

A text is a sequence of symbols: the separators the code looks for, and words.
`Parsed` is `Proxy::new`: `First` and `Last` are where `split_once` and
`rsplit_once` cut. `Variable` is the environment variable that
`ParsedRequest::new` ends up with. `ConnectProxy`, `WriteConnect`, `ReadAnswer`
and `VerifyResponse` are the steps of `Connection::connect` between its awaits;
`Arrive` lets any part of the answer come in between. `ReadAnswer` keeps the
whole buffer, zero bytes included. The buffer of 256 bytes is `BufLen`.
`NextHop` is a redirection, with the proxy that was chosen for the first URL.

### UrlText and RequestText

`Push` is one turn of the loop in `HttpUrl::parse`, `Turns` what the loop knows
after each turn, and `ParseUrl` what is made of the last one. `Escape` is
percent-encoding by symbol, `WordOf` the printed form of a port, which may differ
from the one that was parsed (`080`). `RequestText` has
one action for each builder call that the text depends on, `NewParsedRequest`,
`WriteRequest` (`as_bytes`), `RedirectTo` and `Destination`. The header map is a
function of the names that differ for the code: `content-length` and
`Content-Length` are two names. A JSON text is a body like any other. The text of
the last parse is kept, so that the parsed URL can be compared with `Grammar`,
the grammar that the comment above `HttpUrl` documents, defined without a loop: the
authority ends at the first `/`, `?` or `#`. The loop does not know `#` before the
path has begun, so `UrlGrammar` is claimed of texts that are `PathFirst`: what
follows the authority, if anything, is not a fragment. `HostEndsAtFragment` is the
claim without this condition, which `doc_fragment` refutes.

### TlsRoots

Requests and calls of `set_manual_roots` are threads. `Ask` is the request
reaching `CONFIG`; `Enter`, `Use`, `Poisoned`, `NoRoots`, `ReadRoots`,
`InvalidRoot` and `Build` are `Lazy::force` and the closure, cut where
`MANUAL_ROOTS` is read. A `Lazy` takes its closure out before it runs it: after a
panic the waiting threads wake up, find an empty cell without a closure, and
panic as well. The three ways of building the crate with rustls are in the
variable `feature`.

## Runs

| Run | Shows |
|---|---|
| `connection` | `TypeOK`, `ChainSound`, `MethodRule`, `IsHeadFresh`, `FragmentKept`, `TlsIffHttps`, `TimedOutNotEarly`, `NoDialPastDeadline`, the refinement `KeepsPromise`, and `HeadByDeadline`, with peers that may stay silent |
| `reader` | all framings: `TypeOK`, `BodyByteExact`, `LengthLedger`, `LineWithinLimit`, `LimitsHold`, `EndIsFinal`, and `Ends`; `ChunksDecoded` and `EndsWhole`: in step, a chunked body is what its chunks spell, and the end means all of it |
| `lazy_read` | `TypeOK`, `ExactWhenRoomy`, `NoFalseEnd`, the refinement `ReadsBody`, and `ReadsToEnd` |
| `proxy_tunnel` | `TypeOK`, `TunnelMeans200`, `CleanStart`, `SettingUnderstood`, and `Answered` |
| `request_text` | `TypeOK`, `UrlGrammar`, `UrlRoundTrip`, `LengthHonest`, `FragmentNotSent`, `RelativeKeepsAuthority` |
| `tls_roots` | `TypeOK`, `OneTrust`, `RootsFirst`, `PanicIsFinal`, and `Served` |

Bounds.

* Connection: chains of three redirections over four URLs are long enough for a
  loop back to a URL other than the last one, for the limit, and for a 303 before
  and after other redirects. Two addresses make an attempt that is neither the
  first nor the only one. The clock runs past the largest timeout in use, so that
  every step can come before, at and after the deadline; one request has a
  timeout no clock holds. Some requests run in a build without TLS and punycode
  and an environment without `MINREQ_TIMEOUT`, the others in a build with both and
  with the variable set; `ChainSound` speaks of repetitions in the first build
  only.
* ResponseReader: messages have up to about 15 bytes: lines of every kind, both
  line endings, bodies with line breaks in them, and every prefix of each message,
  because a server may close anywhere. Every cut into chunks is explored. Limits
  of 4, 5 and 8 bytes lie inside these lengths, and `Modulus` is 16. `reader` is a
  build with overflow checks; wrap-around happens in `doc_header_cap`, and
  `ReaderTyping` covers both builds.
* ChunkedBody, in the same run: messages of one and two chunks of one and two bytes, with a line
  break and a length line among the data, trailers, more data behind the last
  chunk, a missing and a doubled line break, and a length that is no number, with
  both line endings; again every prefix and every cut.
* LazyRead: bodies of up to five different bytes, of which any prefix came with
  the head, chunks of one or two, and buffers smaller than, as large as and larger
  than a prefix and a chunk.
* ProxyTunnel: all combinations of schemes, credentials (with the separators in
  them), hosts and ports, among them the largest port and one above it; every
  combination of the variables that are asked; answers shorter than, as long as
  and longer than a buffer of six bytes, with the status code on both sides of its
  end, arriving in every division; two hops.
* RequestText: sixty URL texts, each with a chain of one redirection, and a few
  with up to three builder calls or three redirections, over seven Locations, with
  and without `urlencoding`.
* TlsRoots: three requests are the one that initialises, one that waits and one
  that comes later; two calls of `set_manual_roots` with three lists, one of them
  unusable.

Fairness. `Connection!FairSpec` has weak fairness for the clock, for the timers
and for the client's own steps: the runtime polls a future that can go on, and
the resolver answers. Nothing is assumed of peers. `ResponseReader!FairSpec` has
weak fairness for the reader (the caller polls on) and strong fairness for the
stream: data that was sent, and the close, arrive although the stream may be
Pending in between any number of times. `LazyRead!FairSpec` says the same of a
caller who reads on. `ProxyTunnel!FairSpec` has weak fairness for the client and
for the arrival of what the proxy sends; that the proxy closes is a condition of
`Answered`. `TlsRoots!FairSpec` has strong fairness for each thread inside
`Lazy::force`: the closure does not block, and the cell wakes its waiters.
`RequestText` has no fairness, since it claims no liveness.

### Where documentation and code differ

Each of these runs checks what a comment or the documentation says, and TLC
finds an execution of the model of the code that violates it. The quotations are
in `PROJECT.json`.

| Run | What the code does |
|---|---|
| `doc_timeout` | the timeout does not cover the body |
| `doc_whole` | a part of the request counts as sent |
| `doc_loop` | the loop check misses URLs that differ only by punycode |
| `doc_header_cap` | the cap wraps around in a release build |
| `doc_chunked` | the body of a chunked response is not what its chunks spell |
| `doc_fragment` | a fragment right behind the host becomes a part of the host |

Seen while modelling, and visible in the models without a run of their own:

* every response over TLS ends in the `todo!()` of `HttpStream::poll_read`, and a
  timeout that `Instant` cannot hold panics;
* a Location such as `b.html` is appended to the host text, and one that begins
  with `/` but has `://` in its query is refused;
* the typo `?foo=bar` is not corrected to `/?foo=bar` in the URL of the response,
  as `response.rs:37-40` says: `OrSlash` puts a `/` before nothing else than an
  empty path, and `UrlGrammar` and `UrlRoundTrip` hold with the `?`;
* with `urlencoding`, an escape in a Location is escaped again;
* the Content-Length that is inserted after a chunked body is the sum of its
  length lines, which is not the length of what was handed out unless the stream
  kept in step;
* a trailer that comes in one piece passes the cap of `max_headers_size`, since
  `read_line` tests it before it adds the piece, although `request.rs:214` counts
  trailers towards the cap; in a release build the cap then wraps around;
* in a release build a server that sends more than its Content-Length makes the
  count wrap around, and what follows on the connection is handed out as body;
* `HTTPS_PROXY` and `ALL_PROXY` are never used, although the comment at
  `request.rs:333` accepts them: `map_err` puts the second variable into the `Err`
  of the first, as `Variable` models; the proxy port 70000 is dialled as
  4464; bytes of a proxy's answer that arrive after the first short read stay in
  the stream;
* `poll_next` hands out chunk lengths and line breaks of a chunked body, or loses
  data of it, when the stream is not in step (`doc_chunked`);
* the `AsyncRead` of a chunked response hands out the chunk lengths as well, and
  loses bytes with small buffers or after a Pending;
* `set_manual_roots` is public in a private module and not exported by `lib.rs`.

## Proofs

`ConnectionProofs`, for all hosts, Locations, requests, limits and features:

* `Typing` first, action by action. `ChainStep` then shows that only `Send`,
  `SendHop` and `FollowRedirect` touch the chain, so the theorems about the chain
  have three cases each.
* `Origin` (the chain starts empty, the clock at zero, and `timeout_at` is the
  caller's timeout ever after) is the strengthening that `ChainSoundness`,
  `IsHeadStaysFresh`, `FragmentIsKept`, `TimeoutIsNotEarly` and `NoLateDial`
  need: the properties speak of the caller's timeout, the code of `timeout_at`.
* `TlsIffHttps` is not inductive, since it says nothing of the stages before the
  write. `Tunnelled` does: which stream each stage has, and that the function a
  hop runs in fits its URL.
* `RequestKeepsPromise` is the refinement of `SendPromise`:
  `PromiseStep` maps every action to a step or a stutter.

`ResponseReaderProofs`, for all messages, limits, builds and cuts:

* `ReaderTyping` rests on `FirstBreakIs` (the least line break exists and is
  one) and on a lemma for each part a step is made of.
* `LinesAreLimited` is inductive on its own with the types.
* `Phase` (nothing is handed out before the body, only chunked bodies have the
  stages of a poll) supports `LengthIsLedger`, which is proved in the form
  `Ledger` for all stages, and `EndStaysFinal`.
* `EndStaysFinal` needs `Spent`: when `poll_next` has returned None, nothing is
  kept from earlier, and the stream is empty or the framing does not ask it.

`TlsRootsProofs`, for any number of requests and of calls of `set_manual_roots`
and all certificates, from one inductive invariant:

* `Single`: at most one request runs the closure. Without it two closures could
  gather different roots, and one could empty the cell under the other.
* `Gathering`: what the running closure has gathered, and what the complete cell
  holds, is the first list that was set, or contains the built-in roots. With
  `Ready` (who goes on has the cell's value) this is `TrustIsOne`; `OneTrust`
  alone says nothing of the closure that is still running.
* `Poison`: once a request has panicked the closure is gone, the cell is not
  complete and no request is adding roots; a closure that is gone without a value
  means that somebody has panicked. This gives `PanicStaysFinal`.
* `Asked` and `Reason`: a request that saw roots saw those that are still there,
  and behind the first panic is an unusable list or a request that came too early.
  They are what `RootsComeFirst` needs of requests that panic because another one
  did.

`ResponseBodyProofs`, on top of it, for all messages and all cuts:

* `Place` says how far the reader is: some lines of the message are behind it,
  and the line being read, what is kept and what is unread follow one behind the
  other. `BodyByteExact` and `LimitsHold` speak of the head as a whole
  (`HeadEnd`) and say nothing before it is complete; `Place` carries them through
  it, line by line, with the bytes the limits have left (`Within`).
* `Exact` (what was handed out, then what is ahead, is the body) is
  `BodyByteExact` for the states between two items. With `Quiet` and `Spent`
  these make up `BodyInv`.

`LazyReadProofs`, for all bodies, buffers and cuts: `ExactWhenRoomy` and
`NoFalseEnd` become inductive with `Buffer`, which ties the buffer of a read
under way to what its history variables remember of its size. `LazyReadsBody` is
the refinement of `BodyStream`.

`ProxyTunnelProofs`, for all settings, answers, arrivals and lengths of the
buffer:

* `Underway` (what was read, has arrived and is still to come is the answer),
  `Filled` (what `verify_response` sees is the beginning of the answer and zero
  bytes behind it, at least one) and `Emptied`. The zero bytes are what makes
  `TunnelIsGranted` hold: `PaddedStatus` shows that a status code which was cut
  off by the end of a read is followed by a zero byte and is not mistaken for
  200. `TunnelMeans200` alone is not inductive, since it says nothing of the
  buffer.
* `ChosenKept` and `AskedFor` follow a setting from `with_proxy` or the
  environment to the wire. `RegularParsed` is what `Proxy::new` makes of a
  setting of the documented format, with separators in the credentials.

`RequestTextProofs`, for all callers, builder calls, texts, parameters and
Locations:

* `LengthsKept`: the header map has a length exactly when there is a body, unless
  the caller has set one. `LengthHonest` speaks of the head that was written and
  forgets the map.
* `ParsesGrammar`: the loop over the characters computes what the grammar says of
  every `PathFirst` text. The grammar ends an authority at `#` and the loop does
  not; `SameAuthority` shows that the two ends are one place in such a text.
  `Marks` are the three places where the authority, the host and the path end;
  `TurnStep` says what one turn does to a text by the part it is in, `LoopIs` adds
  the turns up, and `MarksExist` finds the places that the grammar chooses.
* `UrlInv` is the invariant of a chain: `Arguments` (texts and parameters),
  `Chain` (every URL is well-formed, and nothing in it would be changed by
  escaping unless it holds an escape already) and `UrlGrammar`. `UrlGrammar` alone
  does not say that the text a relative Location is appended to is a text at all.
* `AuthorityMarks` is the heart of `RelativeStays` and `AnswerLeadsBack`: in a
  text that was printed from a well-formed URL, the authority ends where it was
  printed to end, because a host has no separator, a port is one word and a path
  begins with `/` or `?`. `AnswerLeadsBack` adds that path and fragment are cut at
  the same `#`, and that escaping leaves them alone.

Induction over a text or a number is done with `SequenceFacts!Induction`, which
speaks of the set of the numbers reached and so needs no operator as a parameter;
recursive definitions are functions, whose values exist by the same induction
(`TurnsExist`, `JoinedExists`).

Assumptions are the named `ASSUME`s of the modules. The constants have their
types, and `None` is none of the values it is an alternative to; for the reader
the header limit is a `usize`, and for the roots the built-in ones are valid. For
texts: a separator is not a number (`PortOf`); a port is below 65536 and its
printed form is a word that parses to it again (`WordOf`); escaping leaves `/`,
`?`, `#`, `&` and `=` alone, makes no `#`, and either leaves a symbol alone or
puts a `%` into it, as the arms of the match in `HttpUrl::parse` do; what
`urlencoding::encode` leaves alone, the parser leaves alone as well. TLC evaluates
them in every run.

Only model-checked: the liveness properties (`HeadByDeadline`,
`Ends`, `ReadsToEnd`, `Answered`, `Served`), which the
installed provers do not cover, and `ChunksDecoded` and `EndsWhole`, whose proof
is left (see the plan). The inductive invariants were checked with TLC on
the instances of the runs before they were proved.

## Plan

Done: all components listed as modelled, their runs, and the theorems above. What
is left:

1. `ChunksDecoded` and `EndsWhole` as theorems. Their invariant says what the
   remainder of the bytes taken is in each stage: nothing or the line gathered so
   far before a length, a chunk that lacks `chunk_length` bytes during its data, a
   chunk that nothing can complete among trailers. It rests on lemmas about
   `Chunks` of a text that grows at its end.
2. Shorter proofs where two modules prove the same fact about texts.

## Not modelled

* The TLS protocol, tokio, once_cell and the resolver are library code: their
  outcomes are choices of the models, and what the models take from them is
  marked external in `PROJECT.json`. A resolver that never answers blocks the
  thread; no property speaks of it.
* `native_tls/` is copied third-party code: builders and conversions around
  OpenSSL without protocol state of this crate.
* The expected size that `poll_next` hands out with each item, a hint that nothing
  reads but the capacity of a buffer; the texts of status lines and header values;
  logging; JSON; the accessors of `Response`; `Display` of errors; `build.rs`,
  examples and tests.
* What a caller gets by polling after an error, and dropping a future in the
  middle of a request: all state of the request goes with it.
