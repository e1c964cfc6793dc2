----------------------------- MODULE ProxyTunnel ------------------------------
(***************************************************************************)
(* The proxy of one request: where its settings come from (Proxy::new of   *)
(* the caller, or the environment in ParsedRequest::new), and the CONNECT  *)
(* exchange of Connection::connect.  src/src/proxy.rs, src/src/request.rs, *)
(* src/src/connection.rs.                                                  *)
(*                                                                         *)
(* Texts are sequences of symbols: the separators that the code looks for, *)
(* and words.  The answer of the proxy is a sequence of bytes that arrive  *)
(* bit by bit; the loop reads them into buffers of BufLen bytes and keeps  *)
(* the buffers whole, zero bytes included.                                 *)
(***************************************************************************)
EXTENDS Integers, Sequences

CONSTANTS
  None,
  Symbol,      \* of settings: ":", "/", "@", "http" and words
  PortOf,      \* what parse::<u32> makes of a word, or None
  Cases,       \* callers and their proxies
  Targets,     \* host and port of the request
  Octet,       \* the bytes of an answer
  MaxHops,     \* how many redirections are followed
  BufLen       \* 256

Var == {"http_proxy", "https_proxy", "HTTPS_PROXY", "all_proxy", "ALL_PROXY"}

\* A setting as its author means it: the parts of the documented format.
Setting == [scheme : Seq(Symbol), creds : {None} \cup Seq(Symbol),
            host : Seq(Symbol), port : {None} \cup Symbol]

\* What becomes of it, and what is written to the proxy.
Proxies == [server : Seq(Symbol), port : Nat,
            user : {None} \cup Seq(Symbol), password : {None} \cup Seq(Symbol)]
Payloads == [connect : Targets, authorization : {None} \cup [basic : Seq(Symbol)]]

ASSUME TunnelAssumption ==
  /\ {":", "/", "@", "http"} \subseteq Symbol
  /\ \A w \in Symbol : PortOf[w] \in {None} \cup Nat
  /\ \A w \in {":", "/", "@"} : PortOf[w] = None
  /\ \A c \in Cases : c.own = None \/ c.own \in Setting
  /\ \A c \in Cases, v \in Var : c.env[v] = None \/ c.env[v] \in Setting
  /\ \A c \in Cases : c.answer \in Seq(Octet)
  /\ {"NUL", "0", "1", "2", "4", "7"} \subseteq Octet
  /\ MaxHops \in Nat
  /\ BufLen \in Nat \ {0}
  /\ None \notin Nat \cup Seq(Symbol) \cup Seq(Octet) \cup Proxies \cup Payloads

VARIABLES
  case,       \* the caller's setting (own), the environment (env), the URL's
              \* scheme (https) and what the proxy will send (answer)
  target, hops,   \* the host asked by this hop, and how many hops came before
  proxy,      \* config.proxy
  stage,
  dialled,    \* server and port of the TCP connection
  payload,    \* what was written to it
  coming,     \* what of the answer has not arrived yet
  socket,     \* what has arrived and was not read
  closes,     \* the proxy closes the connection behind its answer
  response    \* proxy_response

vars == <<case, target, hops, proxy, stage, dialled, payload, coming, socket, closes,
          response>>

given == <<case, target, hops, closes>>
network == <<coming, socket>>

Failures == {"BadProxy", "InvalidProxyCreds", "IoError"}
Stages == {"new", "config", "connect", "payload", "read", "verify", "direct",
           "tunnel"} \cup Failures
Done == {"direct", "tunnel"} \cup Failures

-------------------------------------------------------------------------------
(* Proxy::new.                                                             *)

Text(s) ==
  s.scheme \o (IF s.creds = None THEN <<>> ELSE s.creds \o <<"@">>)
    \o s.host \o (IF s.port = None THEN <<>> ELSE <<":", s.port>>)

\* Where the pattern occurs in the text.
Occurs(t, pattern) ==
  {i \in 1 .. Len(t) - Len(pattern) + 1 : SubSeq(t, i, i + Len(pattern) - 1) = pattern}

First(t, pattern) == CHOOSE i \in Occurs(t, pattern) : \A j \in Occurs(t, pattern) : i <= j
Last(t, pattern) == CHOOSE i \in Occurs(t, pattern) : \A j \in Occurs(t, pattern) : i >= j

Before(t, i) == SubSeq(t, 1, i - 1)
Behind(t, i, pattern) == SubSeq(t, i + Len(pattern), Len(t))

ProtocolEnd == <<":", "/", "/">>

BadProtocol(t) ==
  Occurs(t, ProtocolEnd) # {} /\ Before(t, First(t, ProtocolEnd)) # <<"http">>

Authority(t) ==
  IF Occurs(t, ProtocolEnd) = {} THEN t
  ELSE Behind(t, First(t, ProtocolEnd), ProtocolEnd)

UserInfo(a) == IF Occurs(a, <<"@">>) = {} THEN None ELSE Before(a, Last(a, <<"@">>))

\* Mutant: the first @ ends the credentials.
HostPortFirst(a) ==
  IF Occurs(a, <<"@">>) = {} THEN a ELSE Behind(a, First(a, <<"@">>), <<"@">>)

HostPort(a) ==
  IF Occurs(a, <<"@">>) = {} THEN a ELSE Behind(a, Last(a, <<"@">>), <<"@">>)

User(creds) ==
  IF creds = None \/ Occurs(creds, <<":">>) = {} THEN creds
  ELSE Before(creds, First(creds, <<":">>))

Password(creds) ==
  IF creds = None \/ Occurs(creds, <<":">>) = {} THEN None
  ELSE Behind(creds, First(creds, <<":">>), <<":">>)

Server(h) == IF Occurs(h, <<":">>) = {} THEN h ELSE Before(h, First(h, <<":">>))

\* A port is a single word.
ParsePort(p) == IF Len(p) = 1 THEN PortOf[p[1]] ELSE None

Port(h) ==
  IF Occurs(h, <<":">>) = {} THEN 8080
  ELSE ParsePort(Behind(h, First(h, <<":">>), <<":">>))

\* None for Err(BadProxy).
Parsed(s) ==
  LET a == Authority(Text(s)) IN
  IF BadProtocol(Text(s)) \/ Port(HostPort(a)) = None THEN None
  ELSE [server |-> Server(HostPort(a)), port |-> Port(HostPort(a)),
        user |-> User(UserInfo(a)), password |-> Password(UserInfo(a))]

-------------------------------------------------------------------------------
Init ==
  /\ case \in Cases
  /\ target \in Targets
  /\ hops = 0
  /\ proxy = None
  /\ stage = "new"
  /\ dialled = None
  /\ payload = None
  /\ coming = case.answer
  /\ socket = <<>>
  /\ closes \in BOOLEAN
  /\ response = <<>>

\* with_proxy(Proxy::new(text)?).
NewProxy ==
  /\ stage = "new"
  /\ \/ /\ case.own = None
        /\ stage' = "config"
        /\ UNCHANGED proxy
     \/ /\ case.own # None
        /\ proxy' = Parsed(case.own)
        /\ stage' = IF proxy' = None THEN "BadProxy" ELSE "config"
  /\ UNCHANGED <<given, dialled, payload, network, response>>

\* The variable that ParsedRequest::new asks.  An upper case name is only an
\* error value inside of map_err, and all_proxy is for http URLs.
Variable ==
  IF case.https THEN "https_proxy"
  ELSE IF case.env["http_proxy"] # None THEN "http_proxy" ELSE "all_proxy"

\* A setting that does not parse is dropped.
FromEnvironment ==
  IF case.env[Variable] = None THEN None ELSE Parsed(case.env[Variable])

NewParsedRequest ==
  /\ stage = "config"
  /\ proxy' = IF proxy = None THEN FromEnvironment ELSE proxy
  /\ stage' = "connect"
  /\ UNCHANGED <<given, dialled, payload, network, response>>

-------------------------------------------------------------------------------
(* Connection::connect.                                                    *)

ConnectDirect ==
  /\ stage = "connect"
  /\ proxy = None
  /\ dialled' = target
  /\ stage' = "direct"
  /\ UNCHANGED <<given, proxy, payload, network, response>>

\* proxy.port as u16.
ConnectProxy ==
  /\ stage = "connect"
  /\ proxy # None
  /\ dialled' = [host |-> proxy.server, port |-> proxy.port % 65536]
  /\ stage' = "payload"
  /\ UNCHANGED <<given, proxy, payload, network, response>>

\* The Basic credentials, of which base64 is another spelling.
Authorization ==
  IF proxy.user = None THEN None
  ELSE IF proxy.password = None THEN [basic |-> proxy.user]
  ELSE [basic |-> proxy.user \o <<":">> \o proxy.password]

WriteConnect ==
  /\ stage = "payload"
  /\ payload' = [connect |-> target, authorization |-> Authorization]
  /\ stage' = "read"
  /\ UNCHANGED <<given, proxy, dialled, network, response>>

\* The proxy answers what was written to it.
Arrive ==
  /\ stage = "read"
  /\ \E n \in 1 .. Len(coming) :
       /\ socket' = socket \o SubSeq(coming, 1, n)
       /\ coming' = SubSeq(coming, n + 1, Len(coming))
  /\ UNCHANGED <<given, proxy, stage, dialled, payload, response>>

Smaller(a, b) == IF a < b THEN a ELSE b

\* Mutant: what was not read is cut off.
ZerosCut(n) == <<>>

Zeros(n) == [i \in 1 .. n |-> "NUL"]

\* Mutant: only the end of the stream ends the loop.
LastReadClosed(total) == total = 0

\* Mutant: the first read is the last.
LastReadFirst(total) == TRUE

LastRead(total) == total < BufLen

\* One read: it takes all that has arrived, as far as the buffer goes, or
\* nothing when the proxy has closed.
ReadAnswer ==
  LET total == Smaller(BufLen, Len(socket)) IN
  /\ stage = "read"
  /\ socket # <<>> \/ (coming = <<>> /\ closes)
  /\ response' = response \o SubSeq(socket, 1, total) \o Zeros(BufLen - total)
  /\ socket' = SubSeq(socket, total + 1, Len(socket))
  /\ stage' = IF LastRead(total) THEN "verify" ELSE "read"
  /\ UNCHANGED <<given, proxy, dialled, payload, coming>>

\* Dialling, writing or reading fails.
Breaks ==
  /\ stage \in {"connect", "payload", "read"}
  /\ stage' = "IoError"
  /\ UNCHANGED <<given, proxy, dialled, payload, network, response>>

-------------------------------------------------------------------------------
(* Proxy::verify_response.                                                 *)

Space == {" ", "CR", "LF"}

TopLine(r) == IF Occurs(r, <<"LF">>) = {} THEN r ELSE Before(r, First(r, <<"LF">>))

WordStarts(l) == {i \in DOMAIN l : l[i] \notin Space /\ (i = 1 \/ l[i - 1] \in Space)}

WordEnd(l, i) ==
  CHOOSE k \in i .. Len(l) : /\ k = Len(l) \/ l[k + 1] \in Space
                             /\ \A j \in i .. k : l[j] \notin Space

\* Where the second word begins, and the word, or None.
Seconds(l) ==
  {i \in WordStarts(l) : \E j \in WordStarts(l) :
     j < i /\ \A k \in WordStarts(l) : k = j \/ k >= i}

Second(l) ==
  IF Seconds(l) = {} THEN None
  ELSE LET i == CHOOSE i \in Seconds(l) : TRUE IN SubSeq(l, i, WordEnd(l, i))

\* An answer of zero bytes only has no second word.
Verify(r) ==
  CASE Second(TopLine(r)) = <<"2", "0", "0">> -> "tunnel"
    [] Second(TopLine(r)) \in {<<"4", "0", "1">>, <<"4", "0", "7">>} -> "InvalidProxyCreds"
    [] OTHER -> "BadProxy"

VerifyResponse ==
  /\ stage = "verify"
  /\ stage' = Verify(response)
  /\ UNCHANGED <<given, proxy, dialled, payload, network, response>>

\* A redirection: the next hop connects anew, with the proxy that was chosen
\* for the first URL.
NextHop ==
  /\ stage \in {"tunnel", "direct"}
  /\ hops < MaxHops
  /\ hops' = hops + 1
  /\ target' \in Targets
  /\ stage' = "connect"
  /\ dialled' = None
  /\ payload' = None
  /\ coming' = case.answer
  /\ socket' = <<>>
  /\ response' = <<>>
  /\ UNCHANGED <<case, closes, proxy>>

Terminated == stage \in Done /\ UNCHANGED vars

-------------------------------------------------------------------------------
Client == \/ NewProxy \/ NewParsedRequest \/ ConnectDirect \/ ConnectProxy
          \/ WriteConnect \/ ReadAnswer \/ VerifyResponse

Next == Client \/ Arrive \/ Breaks \/ NextHop \/ Terminated

Spec == Init /\ [][Next]_vars

\* The client goes on when it can, and what the proxy sends arrives.
FairSpec == Spec /\ WF_vars(Client) /\ WF_vars(Arrive)

-------------------------------------------------------------------------------
(* Properties.                                                             *)

\* Every variable keeps its type; buffers are kept whole, and no byte of the
\* answer is in two places.
TypeOK ==
  /\ case \in Cases
  /\ target \in Targets
  /\ stage \in Stages
  /\ proxy \in {None} \cup Proxies
  /\ payload \in {None} \cup Payloads
  /\ coming \in Seq(Octet) /\ socket \in Seq(Octet) /\ response \in Seq(Octet)
  /\ Len(response) % BufLen = 0
  /\ Len(coming) + Len(socket) <= Len(case.answer)
  /\ stage = "tunnel" => payload # None

\* The status code as the proxy sent it.
Status == Second(TopLine(case.answer))

\* A tunnel is used only if the proxy's own status line says 200, wherever the
\* network cuts the answer, and refused credentials are reported only if it
\* says so: a code cut in two is never taken for another one (the zero bytes
\* that the loop keeps, verify_response).
TunnelMeans200 ==
  /\ stage = "tunnel" => Status = <<"2", "0", "0">>
  /\ stage = "InvalidProxyCreds" => Status \in {<<"4", "0", "1">>, <<"4", "0", "7">>}

\* If all of the answer has arrived when the loop ends, none of it is left in
\* the stream, where it would be taken for the head of the response.
CleanStart == stage = "tunnel" /\ coming = <<>> => socket = <<>>

\* Settings of the documented format: nothing of the host looks like a
\* separator, the port is one, and a :// in the credentials comes second.
Regular(s) ==
  /\ \/ s.scheme = <<"http", ":", "/", "/">>
     \/ s.scheme = <<>> /\ Occurs(Text(s), ProtocolEnd) = {}
  /\ \A i \in DOMAIN s.host : s.host[i] \notin {":", "@"}
  /\ s.port # None => PortOf[s.port] \in Nat /\ PortOf[s.port] < 65536

\* The setting in force: the caller's own one before the environment's.
InForce == IF case.own # None THEN case.own ELSE case.env[Variable]

\* A setting of the documented format is followed to the letter from its text
\* to the wire, on every hop: its server and port are dialled, its credentials
\* are sent as they were written, with any @ and : in them, and the tunnel is
\* one to the host of the hop (Proxy::new, connect).
SettingUnderstood ==
  InForce # None /\ Regular(InForce) =>
    /\ stage # "direct"
    /\ stage = "BadProxy" => payload # None
    /\ payload # None =>
         /\ payload.connect = target
         /\ dialled.host = InForce.host
         /\ dialled.port = IF InForce.port = None THEN 8080 ELSE PortOf[InForce.port]
         /\ payload.authorization =
              IF InForce.creds = None THEN None ELSE [basic |-> InForce.creds]

\* The loop comes to an end if the proxy closes, or if its answer is not a
\* multiple of the buffer, however the network cuts it.
Answered == [](closes \/ Len(case.answer) % BufLen # 0 => <>(stage \in Done))

===============================================================================
