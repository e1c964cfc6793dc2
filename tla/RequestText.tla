----------------------------- MODULE RequestText ------------------------------
(***************************************************************************)
(* What a request says: the calls that build a Request, ParsedRequest::new *)
(* with the parameters, the head that each hop of a redirect chain writes, *)
(* and the URL that the response names at the end.  src/src/request.rs,    *)
(* src/src/connection.rs.                                                  *)
(***************************************************************************)
EXTENDS UrlText, FiniteSets

CONSTANTS
  Callers,        \* [text, method, calls, max_redirects]
  Builds,         \* whether the feature urlencoding is on
  Bodies,         \* payloads by their bytes
  HandKeys,       \* header names for with_header
  HandLength,     \* a length the caller writes into such a header
  Words,          \* keys and values for with_param
  ParamEscape,    \* what urlencoding::encode makes of them
  Locations,      \* what servers send as Location
  Statuses        \* redirections among the status codes

\* get_http_head compares in lower case: spellings that stand for all others.
LengthNames == {"Content-Length", "content-length", "Transfer-Encoding"}

ASSUME TextAssumption ==
  /\ \A c \in Callers : c.text \in Seq(Symbol) /\ c.calls \in Nat /\ c.max_redirects \in Nat
  /\ Builds \subseteq BOOLEAN
  /\ \A b \in Bodies : b # None /\ Len(b) \in Nat
  /\ Words \subseteq Symbol
  /\ ParamEscape \in [Words -> Seq(Symbol)]
  /\ \A w \in Words : "%" \in ToSet(ParamEscape[w]) \/ (ParamEscape[w] = <<w>> /\ Escape[w] = <<w>>)
  /\ Locations \subseteq Seq(Symbol)

VARIABLES
  encode,      \* the build
  caller,      \* the URL text, the limits, and how many calls may build
  method,
  params, headers, body,   \* of Request; headers maps names, None if absent
  stage,
  url, redirects,          \* of ParsedRequest
  head,        \* the request last written: target, host, headers, body
  answer,      \* ResponseLazy.url
  calls,       \* how many builder calls were made
  hand,        \* history: the caller has set a length header by hand
  asked        \* history: the text that was parsed last

vars == <<encode, caller, method, params, headers, body, stage, url, redirects, head,
          answer, calls, hand, asked>>

request == <<encode, caller, params, headers, body, calls, hand>>

Failures == {"SerdeJsonError", "IoError", "TooManyRedirections",
             "InfiniteRedirectionLoop"}

Names == LengthNames \cup HandKeys \cup {"Content-Type"}

Init ==
  /\ encode \in Builds
  /\ caller \in Callers
  /\ method = caller.method
  /\ params = <<>>
  /\ headers = [k \in Names |-> None]
  /\ body = None
  /\ stage = "build"
  /\ url = None
  /\ redirects = <<>>
  /\ head = None
  /\ answer = None
  /\ calls = 0
  /\ hand = FALSE
  /\ asked = caller.text

-------------------------------------------------------------------------------
(* The builder.                                                            *)

Building == stage = "build" /\ calls < caller.calls

\* with_header and with_headers insert into the map.
WithHeader ==
  /\ Building
  /\ \E k \in HandKeys :
       /\ headers' = [headers EXCEPT ![k] = HandLength]
       /\ hand' = (hand \/ k \in LengthNames)
  /\ calls' = calls + 1
  /\ UNCHANGED <<encode, caller, method, params, body, stage, url, redirects, head, answer, asked>>

\* Mutant: a Content-Length that is there stays.
SetBodyOnce(b, others) ==
  /\ body' = b
  /\ headers' = [others EXCEPT !["Content-Length"] = IF @ = None THEN Len(b) ELSE @]

\* with_body: the length replaces an older one of the same name.
SetBody(b, others) ==
  /\ body' = b
  /\ headers' = [others EXCEPT !["Content-Length"] = Len(b)]

WithBody ==
  /\ Building
  /\ \E b \in Bodies : SetBody(b, headers)
  /\ calls' = calls + 1
  /\ UNCHANGED <<encode, caller, method, params, stage, url, redirects, head, answer, hand, asked>>

\* The JSON text is a body like any other; serde may fail.
WithJson ==
  /\ Building
  /\ \/ \E b \in Bodies :
          SetBody(b, [headers EXCEPT !["Content-Type"] = "json"]) /\ UNCHANGED stage
     \/ stage' = "SerdeJsonError" /\ UNCHANGED <<body, headers>>
  /\ calls' = calls + 1
  /\ UNCHANGED <<encode, caller, method, params, url, redirects, head, answer, hand, asked>>

Encoded(w) == IF encode THEN ParamEscape[w] ELSE <<w>>

WithParam ==
  /\ Building
  /\ \E k, v \in Words :
       params' = params \o (IF params = <<>> THEN <<>> ELSE <<"&">>)
                   \o Encoded(k) \o <<"=">> \o Encoded(v)
  /\ calls' = calls + 1
  /\ UNCHANGED <<encode, caller, method, headers, body, stage, url, redirects, head, answer,
                 hand, asked>>

-------------------------------------------------------------------------------
(* ParsedRequest.                                                          *)

WithQuery(u) ==
  IF params = <<>> THEN u
  ELSE [u EXCEPT !.path_and_query =
          @ \o (IF "?" \in ToSet(@) THEN <<"&">> ELSE <<"?">>) \o params]

NewParsedRequest ==
  /\ stage = "build"
  /\ \/ /\ HasProtocol(caller.text)
        /\ url' = WithQuery(ParseUrl(caller.text, None, encode))
        /\ stage' = "send"
     \/ /\ ~HasProtocol(caller.text)
        /\ stage' = "IoError"
        /\ UNCHANGED url
  /\ UNCHANGED <<request, method, redirects, head, answer, asked>>

Writes == {"Post", "Put", "Patch"}

\* The header that get_http_head adds on its own.
OwnLength ==
  IF method \in Writes /\ \A k \in LengthNames : headers[k] = None THEN {0} ELSE {}

\* Mutant: the fragment goes with the path.
TargetWhole == WriteResource(url)

Target == url.path_and_query

\* as_bytes: the request line, Host, the headers and the body.
WriteRequest ==
  /\ stage = "send"
  /\ head' = [method |-> method, target |-> Target,
              host |-> url.host \o (IF url.port = None THEN <<>> ELSE <<":", WordOf[url.port]>>),
              headers |-> headers, own |-> OwnLength, body |-> body]
  /\ stage' = "sent"
  /\ UNCHANGED <<request, method, url, redirects, answer, asked>>

\* What redirect_to parses: the Location, or the Location behind the base URL.
Resolved(l) ==
  IF \E i \in 1 .. Len(l) - 2 : SubSeq(l, i, i + 2) = <<":", "/", "/">>
  THEN l ELSE WriteBaseUrl(url) \o l

Visited(u) == \E i \in DOMAIN redirects : redirects[i] = u

MethodAfter(status) ==
  IF status = 303 /\ method \in {"Post", "Put", "Delete"} THEN "Get" ELSE method

RedirectTo ==
  /\ stage = "sent"
  /\ \E l \in Locations, status \in Statuses :
       \/ /\ ~HasProtocol(Resolved(l))
          /\ stage' = "IoError"
          /\ UNCHANGED <<method, url, redirects, asked>>
       \/ /\ HasProtocol(Resolved(l))
          /\ asked' = Resolved(l)
          /\ url' = ParseUrl(Resolved(l), url, encode)
          /\ redirects' = Append(redirects, url)
          /\ stage' = IF Len(redirects') > caller.max_redirects THEN "TooManyRedirections"
                      ELSE IF Visited(url') \/ url' = url THEN "InfiniteRedirectionLoop"
                      ELSE "send"
          /\ method' = IF stage' = "send" THEN MethodAfter(status) ELSE method
  /\ UNCHANGED <<request, head, answer>>

\* The response of any other status: its url is the text of the last URL.
Destination ==
  /\ stage = "sent"
  /\ answer' = WriteBaseUrl(url) \o WriteResource(url)
  /\ stage' = "done"
  /\ UNCHANGED <<request, method, url, redirects, head, asked>>

Terminated == stage \in {"done"} \cup Failures /\ UNCHANGED vars

Next == \/ WithHeader \/ WithBody \/ WithJson \/ WithParam
        \/ NewParsedRequest \/ WriteRequest \/ RedirectTo \/ Destination \/ Terminated

Spec == Init /\ [][Next]_vars

-------------------------------------------------------------------------------
(* Properties.                                                             *)

\* Every variable keeps its type.
TypeOK ==
  /\ stage \in {"build", "send", "sent", "done"} \cup Failures
  /\ url \in {None} \cup HttpUrl
  /\ url # None => /\ url.path_and_query # <<>>
                   /\ url.path_and_query[1] \in {"/", "?"}
                   /\ {"/", "?", ":"} \cap ToSet(url.host) = {}
  /\ stage \in {"send", "sent", "done"} => url # None
  /\ Len(redirects) <= caller.max_redirects + 1

\* The grammar at the head of http_url.rs, without a loop:
\* scheme "://" host [":" port] path ["?" query] ["#" fragment].  The authority
\* ends at the first of /, ? and #, the host at the first :, path and query at
\* the first # of what is left.  An empty path is / if nothing follows it, and
\* a URL without a fragment inherits that of the URL it was redirected from.
Ends(t, stops) == {i \in DOMAIN t : t[i] \in stops}

Upto(t, stops) ==
  IF Ends(t, stops) = {} THEN t
  ELSE SubSeq(t, 1, (CHOOSE i \in Ends(t, stops) : \A j \in Ends(t, stops) : i <= j) - 1)

From(t, stops) == SubSeq(t, Len(Upto(t, stops)) + 1, Len(t))

EscapeAll(t) == FlattenSeq([i \in DOMAIN t |-> IF encode THEN Escape[t[i]] ELSE <<t[i]>>])

Grammar(t, from) ==
  LET text == SubSeq(t, 5, Len(t))
      authority == Upto(text, {"/", "?", "#"})
      port == From(authority, {":"})
      resource == From(text, {"/", "?", "#"})
      fragment == From(resource, {"#"})
  IN [https |-> t[1] = "https",
      host |-> Upto(authority, {":"}),
      port |-> IF Len(port) = 2 THEN PortOf[port[2]] ELSE None,
      path_and_query |-> IF Upto(resource, {"#"}) = <<>> THEN <<"/">>
                         ELSE EscapeAll(Upto(resource, {"#"})),
      fragment |-> IF fragment # <<>> THEN EscapeAll(Tail(fragment))
                   ELSE IF from = None THEN None ELSE from.fragment]

AsDocumented ==
  url = IF redirects = <<>> THEN WithQuery(Grammar(asked, None))
        ELSE Grammar(asked, Last(redirects))

\* Behind the authority comes a path or a query, if anything.
PathFirst(t) ==
  LET resource == From(SubSeq(t, 5, Len(t)), {"/", "?", "#"})
  IN resource = <<>> \/ resource[1] # "#"

\* The URL of every hop is what the documented grammar makes of the text that
\* was parsed, for the caller's text and for Locations resolved against the hop
\* before, unless a fragment follows the authority at once (HttpUrl::parse).
UrlGrammar == url # None /\ PathFirst(asked) => AsDocumented

\* response.url leads back to the URL that was answered when it is used for
\* another request: its port, a query without a path and an empty fragment come
\* through printing and parsing.  An escape would be escaped again, and a # from
\* with_param is the caller's own.
UrlRoundTrip ==
  stage = "done" /\ (encode => "%" \notin ToSet(answer)) /\ "#" \notin ToSet(params) =>
    ParseUrl(answer, None, encode) = url

\* All lengths that the head names.
Lengths(h) ==
  ({h.headers[k] : k \in LengthNames} \ {None}) \cup h.own

\* Unless the caller has set a length by hand, whatever builder calls were made
\* and however the chain has changed the method, each hop announces exactly the
\* body that follows (with_body, with_json, get_http_head).
LengthHonest ==
  stage = "sent" /\ ~hand =>
    Lengths(head) = IF head.body # None THEN {Len(head.body)}
                    ELSE IF head.method \in Writes THEN {0} ELSE {}

Rooted == {l \in Locations : l # <<>> /\ l[1] \in {"/", "?"}}

\* A Location that begins with / or ? stays with the scheme, host and port that
\* the hop before has asked, explicit port or not (write_base_url_to and parse).
RelativeKeepsAuthority ==
  [][redirects' # redirects /\ (\E l \in Rooted : asked' = WriteBaseUrl(url) \o l)
       => /\ url'.https = url.https
          /\ url'.host = url.host
          /\ url'.port = url.port]_vars

\* No hop sends a fragment, its own or an inherited one, to the server, if the
\* URLs of the chain have a path before it.
FragmentNotSent ==
  stage = "sent" /\ "#" \notin ToSet(url.host) /\ "#" \notin ToSet(params) =>
    "#" \notin ToSet(head.target) \cup ToSet(head.host)

-------------------------------------------------------------------------------
(* What comments and documentation say and the code does not do.           *)

\* Every URL is what the documented grammar makes of its text.
HostEndsAtFragment == url # None => AsDocumented

===============================================================================
