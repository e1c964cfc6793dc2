------------------------------ MODULE Connection ------------------------------
(***************************************************************************)
(* One request of the client, from Request::send to the finished Response: *)
(* ParsedRequest::new and Connection::new, one hop per connection (address *)
(* resolution, the dialling loop, the proxy, TLS, the write, the response  *)
(* head), the redirect chain, and the body.  src/src/connection.rs and     *)
(* src/src/request.rs.                                                     *)
(*                                                                         *)
(* A URL is abstracted to the parts the redirect logic compares; `host'    *)
(* stands for host[:port].  A Location header (and the caller's own URL    *)
(* text) is a record of what HttpUrl::parse and redirect_to distinguish:   *)
(*   scheme    what the text starts with: http://, https://, another       *)
(*             scheme, or none at all                                      *)
(*   embedded  "://" occurs later in the text (for example in the query)   *)
(*   rooted    a text without a scheme starts with "/" or "?"              *)
(***************************************************************************)
EXTENDS Naturals, Sequences, Functions

CONSTANTS
  None,          \* the absent option
  Hosts,         \* all host texts
  AsciiHosts,    \* the ones is_ascii() accepts
  Encode,        \* punycode: every other host to its ASCII form, or None
  Glue,          \* the host text one gets by appending to a host text
  Paths, Fragments,
  Locations,     \* texts a server may put into a Location header
  Requests,      \* what callers may ask for, and where
  Statuses,      \* status codes servers answer with
  MaxRedirects,  \* Request::max_redirects
  MaxAddrs,      \* bound: addresses a name resolves to
  MaxNow,        \* bound: the last instant of the clock
  MaxInstant     \* the largest representable Instant

Methods == {"Get", "Head", "Post", "Put", "Delete", "Connect", "Options",
            "Trace", "Patch", "Custom"}

Url == [https : BOOLEAN, host : Hosts, path : Paths,
        fragment : Fragments \cup {None}]

Location == [scheme : {"http", "https", "other", "none"}, embedded : BOOLEAN,
             rooted : BOOLEAN, host : Hosts, path : Paths,
             fragment : Fragments \cup {None}]

ResponseHead == [status : Nat, location : Location \cup {None}]

\* A caller's Request, with the MINREQ_TIMEOUT of its environment (as parsed by
\* Connection::new) and the features of the build it runs in.
Request == [location : Location, method : Methods, proxy : BOOLEAN,
            timeout : Nat \cup {None}, lazy : BOOLEAN,
            env_timeout : Nat \cup {None}, https : BOOLEAN, punycode : BOOLEAN]

ASSUME HostAssumption ==
  /\ AsciiHosts \subseteq Hosts
  /\ Encode \in [Hosts \ AsciiHosts -> AsciiHosts \cup {None}]
  /\ Glue \in [Hosts -> Hosts]
  /\ None \notin Hosts \cup Fragments

ASSUME InputAssumption ==
  /\ Locations \subseteq Location
  /\ Requests \subseteq Request
  /\ None \notin Url
  /\ None \notin Location
  /\ None \notin ResponseHead

ASSUME NumberAssumption ==
  /\ Statuses \subseteq Nat
  /\ MaxRedirects \in Nat
  /\ None \notin Nat
  /\ MaxAddrs \in Nat
  /\ MaxNow \in Nat
  /\ MaxInstant \in Nat

VARIABLES
  pc,          \* the stage the request is in
  now,         \* the monotonic clock, counted from Connection::new
  config,      \* the caller's Request, its environment and its build
  method,      \* request.config.method, which a 303 rewrites
  url,         \* request.url
  redirects,   \* request.redirects, the URLs left behind
  timeout_at,  \* Connection::timeout_at
  is_head,     \* Request::send's local, read before the first await
  secured,     \* this hop runs in send_https, not in send
  addrs,       \* addresses the dialling loop has not tried yet
  stream,      \* what the request talks through: "none", "tcp" or "tls"
  written,     \* how much of the request was written
  response,    \* status and location of the last response head, or None
  result,      \* what send() returned
  seeOther     \* history: a 303 was followed

vars == <<pc, now, config, method, url, redirects, timeout_at, is_head, secured,
          addrs, stream, written, response, result, seeOther>>

hop == <<addrs, stream, written>>              \* state of one connection
chain == <<method, url, redirects, secured, seeOther>>  \* state of the chain
fixed == <<config, timeout_at, is_head>>       \* set before the first await

Stages == {"start", "send", "resolve", "connect", "proxy", "tls", "write",
           "read", "redirect", "body", "done"}

\* Mutant: the timer covers no more than the request's way out.
AwaitsOut == {"connect", "proxy", "tls", "write"}

\* The stages that wait inside tokio::time::timeout(duration, ..).
Awaits == {"connect", "proxy", "tls", "write", "read"}

Errors == {"InvalidProtocol", "HttpsFeatureNotEnabled", "TimedOut", "IoError",
           "AddressNotFound", "PunycodeFeatureNotEnabled",
           "PunycodeConversionFailed", "BadProxy", "InvalidProxyCreds",
           "BadResponseHead", "BadResponseBody", "RedirectLocationMissing",
           "InfiniteRedirectionLoop", "TooManyRedirections"}

Results == {"none", "ok", "panic"} \cup Errors

TypeOK ==
  /\ pc \in Stages
  /\ now \in Nat
  /\ config \in Request
  /\ method \in Methods
  /\ url \in Url \cup {None}
  /\ pc \notin {"start", "done"} => url \in Url
  /\ redirects \in Seq(Url)
  /\ timeout_at \in Nat \cup {None}
  /\ is_head \in BOOLEAN
  /\ secured \in BOOLEAN
  /\ addrs \in Nat
  /\ stream \in {"none", "tcp", "tls"}
  /\ written \in {"nothing", "part", "all"}
  /\ response \in ResponseHead \cup {None}
  /\ pc \in {"redirect", "body"} => response # None
  /\ result \in Results
  /\ (result = "none") <=> (pc # "done")
  /\ seeOther \in BOOLEAN

-------------------------------------------------------------------------------
(* URLs.                                                                   *)

\* Mutant: the fragment is not taken over.
ParseBare(loc, oldFragment) ==
  [https |-> loc.scheme = "https", host |-> loc.host, path |-> loc.path,
   fragment |-> loc.fragment]

\* HttpUrl::parse of a text that starts with http:// or https://.  A text
\* without a fragment takes over the one of the URL redirected from.
Parse(loc, oldFragment) ==
  [https |-> loc.scheme = "https", host |-> loc.host, path |-> loc.path,
   fragment |-> IF loc.fragment = None THEN oldFragment ELSE loc.fragment]

Parses(loc) == loc.scheme \in {"http", "https"}

\* redirect_to takes every text that contains "://" for an absolute URL.
IsAbsolute(loc) == loc.scheme # "none" \/ loc.embedded

\* Any other text is appended to "scheme://host[:port]" and parsed again, so
\* one that starts with neither "/" nor "?" runs on into the host.
ParseRelative(loc, u) ==
  [https |-> u.https, host |-> IF loc.rooted THEN u.host ELSE Glue[u.host],
   path |-> loc.path,
   fragment |-> IF loc.fragment = None THEN u.fragment ELSE loc.fragment]

Target(loc, u) ==
  IF IsAbsolute(loc) THEN Parse(loc, u.fragment) ELSE ParseRelative(loc, u)

Rejected(loc) == IsAbsolute(loc) /\ ~Parses(loc)

\* Mutant: only the URL just left is compared with the new one.
RedirectToNeighbour(loc, u, old) ==
  IF Rejected(loc) THEN "InvalidProtocol"
  ELSE IF Len(Append(old, u)) > MaxRedirects THEN "TooManyRedirections"
  ELSE IF Target(loc, u) = u THEN "InfiniteRedirectionLoop"
  ELSE "ok"

\* Mutant: the limit is tested before the old URL is pushed.
RedirectToLate(loc, u, old) ==
  IF Rejected(loc) THEN "InvalidProtocol"
  ELSE IF Len(old) > MaxRedirects THEN "TooManyRedirections"
  ELSE IF Target(loc, u) \in Range(Append(old, u)) THEN "InfiniteRedirectionLoop"
  ELSE "ok"

\* The checks redirect_to makes after it pushed the old URL and took over the
\* new one, in its order.
RedirectTo(loc, u, old) ==
  IF Rejected(loc) THEN "InvalidProtocol"
  ELSE IF Len(Append(old, u)) > MaxRedirects THEN "TooManyRedirections"
  ELSE IF Target(loc, u) \in Range(Append(old, u)) THEN "InfiniteRedirectionLoop"
  ELSE "ok"

RedirectStatus == {301, 302, 303, 307}

NoBodyStatus == {204, 304}

\* Mutants: every redirection rewrites the method; a 303 rewrites every method.
MethodAfterAny(m, status) == IF m \in {"Post", "Put", "Delete"} THEN "Get" ELSE m

MethodAfterAll(m, status) == IF status = 303 THEN "Get" ELSE m

\* get_redirect: only a 303 rewrites the method, and only these three.
MethodAfter(m, status) ==
  IF status = 303 /\ m \in {"Post", "Put", "Delete"} THEN "Get" ELSE m

\* Mutant: the next hop goes on with the function of this one.
DispatchSame(https) == secured

\* Which of send_https and send the caller, or handle_redirects, calls.
Dispatch(https) == https

-------------------------------------------------------------------------------
(* The deadline.                                                           *)

\* Mutant: the operands of checked_duration_since are swapped.
ExpiredSwapped == timeout_at # None /\ now < timeout_at

\* Connection::timeout() returns Err: checked_duration_since is None.
Expired == timeout_at # None /\ now > timeout_at

\* A timer armed for timeout_at has elapsed.  Every hop arms one with the
\* remaining duration, inside those of the hops before it, so that all of
\* them elapse at timeout_at.
Due == timeout_at # None /\ now >= timeout_at

Timeout == IF config.timeout # None THEN config.timeout ELSE config.env_timeout

Finish(r) == pc' = "done" /\ result' = r

Goto(stage) == pc' = stage /\ UNCHANGED result

-------------------------------------------------------------------------------
Init ==
  /\ pc = "start"
  /\ now = 0
  /\ config \in Requests
  /\ method = config.method
  /\ url = None
  /\ redirects = <<>>
  /\ timeout_at = None
  /\ is_head = FALSE
  /\ secured = FALSE
  /\ addrs = 0
  /\ stream = "none"
  /\ written = "nothing"
  /\ response = None
  /\ result = "none"
  /\ seeOther = FALSE

\* Time passes on its own, while the request is under way.
Tick ==
  /\ pc \notin {"start", "done"}
  /\ now < MaxNow
  /\ now' = now + 1
  /\ UNCHANGED <<pc, result, response, hop, chain, fixed>>

\* Request::send up to its first await, the three ways it can go.
SendRefused ==
  /\ pc = "start"
  /\ \/ ~Parses(config.location) /\ Finish("InvalidProtocol")
     \/ /\ config.location.scheme = "https"
        /\ ~config.https
        /\ Finish("HttpsFeatureNotEnabled")
  /\ UNCHANGED <<now, response, hop, chain, fixed>>

\* Instant::now() + Duration::from_secs(t) panics when it overflows.
SendPanics ==
  /\ pc = "start"
  /\ Parses(config.location)
  /\ config.location.scheme = "https" => config.https
  /\ Timeout # None
  /\ now + Timeout > MaxInstant
  /\ Finish("panic")
  /\ UNCHANGED <<now, response, hop, chain, fixed>>

Send ==
  /\ pc = "start"
  /\ Parses(config.location)
  /\ config.location.scheme = "https" => config.https
  /\ Timeout # None => now + Timeout <= MaxInstant
  /\ url' = Parse(config.location, None)
  /\ secured' = Dispatch(config.location.scheme = "https")
  /\ is_head' = (method = "Head")
  /\ timeout_at' = IF Timeout = None THEN None ELSE now + Timeout
  /\ Goto("send")
  /\ UNCHANGED <<now, config, method, redirects, response, hop, seeOther>>

-------------------------------------------------------------------------------
(* One hop: send or send_https up to the response head.                    *)

\* The host in ASCII, or None if it cannot be had.
EnsureAsciiHost(host) ==
  IF host \in AsciiHosts THEN host
  ELSE IF config.punycode THEN Encode[host] ELSE None

\* The synchronous start of a hop: the deadline check, then ensure_ascii_host;
\* send_https also builds its TLS parameters, which can fail, or panic for want
\* of usable root certificates.
SendHop ==
  /\ pc = "send"
  /\ stream' = "none"
  /\ written' = "nothing"
  /\ \/ Expired /\ Finish("TimedOut") /\ UNCHANGED url
     \/ /\ ~Expired
        /\ secured
        /\ \E r \in {"IoError", "panic"} : Finish(r)
        /\ UNCHANGED url
     \/ /\ ~Expired
        /\ EnsureAsciiHost(url.host) = None
        /\ Finish(IF config.punycode THEN "PunycodeConversionFailed"
                  ELSE "PunycodeFeatureNotEnabled")
        /\ UNCHANGED url
     \/ /\ ~Expired
        /\ EnsureAsciiHost(url.host) # None
        /\ url' = [url EXCEPT !.host = EnsureAsciiHost(url.host)]
        /\ Goto("resolve")
  /\ UNCHANGED <<now, method, redirects, secured, seeOther, fixed, addrs, response>>

\* Mutants: an attempt does not look at the clock; the count runs one ahead.
DialBlind(left) == addrs' = left /\ Goto("connect")

DialAhead(left) ==
  /\ addrs' = left - 1
  /\ IF Expired THEN Finish("TimedOut") ELSE Goto("connect")

\* The head of the dialling loop: every attempt asks for the time that is left.
Dial(left) ==
  /\ addrs' = left
  /\ IF Expired THEN Finish("TimedOut") ELSE Goto("connect")

\* to_socket_addrs blocks the thread: no timer can end it.
Resolve ==
  /\ pc = "resolve"
  /\ \/ Finish("IoError") /\ UNCHANGED addrs
     \/ Finish("AddressNotFound") /\ UNCHANGED addrs
     \/ \E n \in 1 .. MaxAddrs : Dial(n - 1)
  /\ UNCHANGED <<now, chain, fixed, stream, written, response>>

\* What connect() continues with once it has a connected socket.
AfterTunnel == IF secured THEN "tls" ELSE "write"

ConnectOk ==
  /\ pc = "connect"
  /\ stream' = "tcp"
  /\ Goto(IF config.proxy THEN "proxy" ELSE AfterTunnel)
  /\ UNCHANGED <<now, chain, fixed, addrs, written, response>>

\* The attempt fails; the last address's error is the caller's.
ConnectFail ==
  /\ pc = "connect"
  /\ \/ addrs = 0 /\ Finish("IoError") /\ UNCHANGED addrs
     \/ addrs > 0 /\ Dial(addrs - 1)
  /\ UNCHANGED <<now, chain, fixed, stream, written, response>>

\* The attempt's own timer, inside the one of the hop, elapses.
ConnectTimeout ==
  /\ pc = "connect"
  /\ Due
  /\ \/ addrs = 0 /\ Finish("TimedOut") /\ UNCHANGED addrs
     \/ addrs > 0 /\ Dial(addrs - 1)
  /\ UNCHANGED <<now, chain, fixed, stream, written, response>>

\* The CONNECT exchange with the proxy, and what verify_response makes of it.
ProxyStep ==
  /\ pc = "proxy"
  /\ \/ Goto(AfterTunnel)
     \/ \E e \in {"IoError", "BadProxy", "InvalidProxyCreds"} : Finish(e)
  /\ UNCHANGED <<now, chain, fixed, hop, response>>

Handshake ==
  /\ pc = "tls"
  /\ \/ stream' = "tls" /\ Goto("write")
     \/ Finish("IoError") /\ UNCHANGED stream
  /\ UNCHANGED <<now, chain, fixed, addrs, written, response>>

\* write_all through TLS; on a plain socket a single try_write, which leaves
\* the loop with Ok(n) for any n the socket took.
Write ==
  /\ pc = "write"
  /\ \/ stream = "tls" /\ written' = "all" /\ Goto("read")
     \/ stream = "tcp" /\ written' \in {"part", "all"} /\ Goto("read")
     \/ Finish("IoError") /\ UNCHANGED written
  /\ UNCHANGED <<now, chain, fixed, addrs, stream, response>>

\* HttpStream::poll_read is todo!() for a secured stream.
ReadSecured ==
  /\ pc = "read"
  /\ stream = "tls"
  /\ Finish("panic")
  /\ UNCHANGED <<now, chain, fixed, hop, response>>

\* ResponseLazy::from_stream; a panic of the reader (ResponseReader's Panics)
\* counts as a bad head here.
ReadHead ==
  /\ pc = "read"
  /\ stream = "tcp"
  /\ \/ \E e \in {"IoError", "BadResponseHead"} : Finish(e) /\ UNCHANGED response
     \/ /\ \E status \in Statuses, location \in Locations \cup {None} :
             response' = [status |-> status, location |-> location]
        /\ Goto("redirect")
  /\ UNCHANGED <<now, chain, fixed, hop>>

\* The timer around the whole of send_without_timeout (send_https ..) elapses
\* while the future it guards is waiting: reading a secured stream does not.
TimerFires ==
  /\ pc \in Awaits
  /\ pc = "read" => stream = "tcp"
  /\ Due
  /\ Finish("TimedOut")
  /\ UNCHANGED <<now, chain, fixed, hop, response>>

-------------------------------------------------------------------------------
(* After the head.  handle_redirects and redirect_to run in one go.         *)

\* The redirection cannot be followed; the connection is dropped.
RedirectFails ==
  /\ pc = "redirect"
  /\ response.status \in RedirectStatus
  /\ \/ response.location = None /\ Finish("RedirectLocationMissing")
     \/ /\ response.location # None
        /\ RedirectTo(response.location, url, redirects) # "ok"
        /\ Finish(RedirectTo(response.location, url, redirects))
  /\ UNCHANGED <<now, chain, fixed, hop, response>>

FollowRedirect ==
  /\ pc = "redirect"
  /\ response.status \in RedirectStatus
  /\ response.location # None
  /\ RedirectTo(response.location, url, redirects) = "ok"
  /\ redirects' = Append(redirects, url)
  /\ url' = Target(response.location, url)
  /\ method' = MethodAfter(method, response.status)
  /\ seeOther' = (seeOther \/ response.status = 303)
  /\ secured' = Dispatch(url'.https)
  /\ IF url'.https /\ ~config.https THEN Finish("HttpsFeatureNotEnabled")
     ELSE Goto("send")
  /\ UNCHANGED <<now, fixed, hop, response>>

\* The response is the caller's; send() then has Response::create load it.
Destination ==
  /\ pc = "redirect"
  /\ response.status \notin RedirectStatus
  /\ IF config.lazy THEN Finish("ok") ELSE Goto("body")
  /\ UNCHANGED <<now, chain, fixed, hop, response>>

NoBody == is_head \/ response.status \in NoBodyStatus

\* Response::create, outside of every timer.
CreateEmpty ==
  /\ pc = "body"
  /\ NoBody
  /\ Finish("ok")
  /\ UNCHANGED <<now, chain, fixed, hop, response>>

\* A panic of the reader counts as a bad body here.
CreateLoaded ==
  /\ pc = "body"
  /\ ~NoBody
  /\ \E r \in {"ok", "IoError", "BadResponseBody"} : Finish(r)
  /\ UNCHANGED <<now, chain, fixed, hop, response>>

\* send() has returned.
Terminated == pc = "done" /\ UNCHANGED vars

-------------------------------------------------------------------------------
\* What the client does by itself, what its timers do, and what it waits for.
Client == \/ SendRefused \/ SendPanics \/ Send \/ SendHop \/ Resolve
          \/ ReadSecured \/ RedirectFails \/ FollowRedirect \/ Destination \/ CreateEmpty

Timers == ConnectTimeout \/ TimerFires

Network == \/ ConnectOk \/ ConnectFail \/ ProxyStep \/ Handshake \/ Write
           \/ ReadHead \/ CreateLoaded

Next == Tick \/ Client \/ Timers \/ Network \/ Terminated

Spec == Init /\ [][Next]_vars

\* The runtime polls a future that can go on, its timers elapse, time passes
\* and the system resolver answers.  Nothing is assumed of peers.
FairSpec == Spec /\ WF_vars(Tick) /\ WF_vars(Client) /\ WF_vars(Timers)

-------------------------------------------------------------------------------
(* Properties.                                                             *)

\* Without punycode no request is ever sent to a URL of the chain for a second
\* time, and the chain never exceeds max_redirects (redirect_to).
ChainSound ==
  /\ Len(redirects) <= MaxRedirects
  /\ ~config.punycode /\ pc \notin {"start", "done"}
       => IsInjective(Append(redirects, url))

\* Over any chain of redirections the method is the caller's, except that one
\* 303 anywhere in it has turned a POST, PUT or DELETE into a GET for good
\* (get_redirect).
MethodRule ==
  method = IF seeOther /\ config.method \in {"Post", "Put", "Delete"}
           THEN "Get" ELSE config.method

\* send() decides before its first await whether the response has a body; the
\* decision still fits the method of the last request of the chain, whose
\* response it is applied to (is_head, Response::create).
IsHeadFresh == pc # "start" /\ url # None => (is_head <=> method = "Head")

\* Once a URL of the chain had a fragment, so has every later one
\* (HttpUrl::parse with redirected_from).
FragmentKept ==
  \A i \in DOMAIN redirects : redirects[i].fragment # None => url.fragment # None

\* A request leaves, and its answer is read, through TLS exactly if the URL it
\* is for is an https one, over redirections between the schemes too
\* (handle_redirects' choice between send and send_https).
TlsIffHttps == pc \in {"write", "read"} => (stream = "tls" <=> url.https)

\* The timeout error comes only when the caller's (or MINREQ_TIMEOUT's) time
\* is really up, over all the hops and attempts that share the deadline.
TimedOutNotEarly == result = "TimedOut" => Timeout # None /\ now >= Timeout

\* No attempt to connect, of any hop, starts after the deadline of the whole
\* request (tcp_connect's timeout()? at the head of its loop).
NoDialPastDeadline ==
  [][pc' = "connect" /\ <<pc, addrs>>' # <<pc, addrs>>
       => Timeout = None \/ now <= Timeout]_vars

\* A request with a timeout has the head of the last response, or an error,
\* whatever peers do or fail to do (the timers of Connection::send).
HeadByDeadline == timeout_at # None ~> pc \in {"body", "done"}

\* The detailed request, seen by its caller.
Phase == IF pc = "start" THEN "idle"
         ELSE IF pc = "body" THEN "loading"
         ELSE IF pc = "done" THEN "over"
         ELSE "asking"

Clock == IF Expired THEN "late" ELSE IF Due THEN "due" ELSE "early"

Outcome == IF result \in {"none", "ok"} THEN result
           ELSE IF result = "TimedOut" THEN "timeout"
           ELSE "failed"

Promise == INSTANCE SendPromise
             WITH phase <- Phase, budget <- MaxRedirects - Len(redirects),
                  clock <- Clock, outcome <- Outcome

\* The request implements SendPromise: every step of a hop is a step of the
\* promise or none at all.
KeepsPromise == Promise!Spec

-------------------------------------------------------------------------------
(* What the documentation says and the code does not do.                   *)

\* The timeout bounds the whole response, its body included.
TimeoutBoundsResponse == timeout_at # None ~> pc = "done"

\* A response is read only for a request that was written as a whole.
RequestSentWhole == pc \in {"redirect", "body"} => written = "all"

\* No redirection leads back to a URL that was asked before.
NeverRevisits == pc \notin {"start", "done"} => IsInjective(Append(redirects, url))

===============================================================================
