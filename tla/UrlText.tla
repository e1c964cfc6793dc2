------------------------------- MODULE UrlText --------------------------------
(***************************************************************************)
(* URLs as texts: HttpUrl::parse with its loop over the characters, and    *)
(* the two writers that print a URL again.  src/src/http_url.rs.           *)
(*                                                                         *)
(* A text is a sequence of symbols: the characters that the loop looks     *)
(* for, and words that stand for runs of other characters.                 *)
(***************************************************************************)
EXTENDS Integers, SequencesExt

CONSTANTS
  None,
  Symbol,
  Escape,     \* what a symbol becomes with the feature urlencoding
  PortOf,     \* what parse::<u16> makes of a word, or None
  WordOf      \* how a port number is printed

\* The struct, with u16 as the ports that some word spells.
HttpUrl ==
  [https : BOOLEAN, host : Seq(Symbol), port : {None} \cup {PortOf[w] : w \in Symbol},
   path_and_query : Seq(Symbol), fragment : {None} \cup Seq(Symbol)]

ASSUME UrlAssumption ==
  /\ {"http", "https", ":", "/", "?", "#", "%", "&", "="} \subseteq Symbol
  /\ \A c \in Symbol : Escape[c] \in Seq(Symbol)
  /\ \A c \in {"/", "?", "#", "&", "="} : Escape[c] = <<c>>
  /\ \A c \in Symbol : Escape[c] = <<c>> \/ "%" \in ToSet(Escape[c])
  /\ \A c \in Symbol \ {"#"} : "#" \notin ToSet(Escape[c])
  /\ \A c \in {":", "/", "?", "#", "%"} : PortOf[c] = None
  /\ \A w \in Symbol : PortOf[w] # None =>
       /\ PortOf[w] \in Nat /\ PortOf[w] < 65536
       /\ WordOf[PortOf[w]] \in Symbol
       /\ PortOf[WordOf[PortOf[w]]] = PortOf[w]
  /\ None \notin Nat \cup Seq(Symbol) \cup HttpUrl

Http == <<"http", ":", "/", "/">>
Https == <<"https", ":", "/", "/">>

HasProtocol(t) == IsPrefix(Http, t) \/ IsPrefix(Https, t)

\* UrlParseStatus and the strings that the loop fills; path is None until #.
Start == [status |-> "Host", host |-> <<>>, port |-> <<>>, resource |-> <<>>,
          path |-> None]

Enter(s, status) == [s EXCEPT !.status = status]

PushResource(s, text) == [s EXCEPT !.resource = @ \o text]

\* Mutant: a fragment is cut off at a second #.
PushAgain(s, c, encode) ==
  CASE s.status \in {"Host", "Port"} /\ c \in {"/", "?"} ->
         PushResource(Enter(s, "PathAndQuery"), <<c>>)
    [] s.status = "Host" /\ c = ":" -> Enter(s, "Port")
    [] s.status = "Host" /\ c \notin {"/", "?", ":"} -> [s EXCEPT !.host = Append(@, c)]
    [] s.status = "Port" /\ c \notin {"/", "?"} -> [s EXCEPT !.port = Append(@, c)]
    [] s.status \in {"PathAndQuery", "Fragment"} /\ c = "#" ->
         [Enter(s, "Fragment") EXCEPT !.path = s.resource, !.resource = <<>>]
    [] OTHER -> PushResource(s, IF encode THEN Escape[c] ELSE <<c>>)

\* One turn of the loop.
Push(s, c, encode) ==
  CASE s.status \in {"Host", "Port"} /\ c \in {"/", "?"} ->
         PushResource(Enter(s, "PathAndQuery"), <<c>>)
    [] s.status = "Host" /\ c = ":" -> Enter(s, "Port")
    [] s.status = "Host" /\ c \notin {"/", "?", ":"} -> [s EXCEPT !.host = Append(@, c)]
    [] s.status = "Port" /\ c \notin {"/", "?"} -> [s EXCEPT !.port = Append(@, c)]
    [] s.status = "PathAndQuery" /\ c = "#" ->
         [Enter(s, "Fragment") EXCEPT !.path = s.resource, !.resource = <<>>]
    [] OTHER -> PushResource(s, IF encode THEN Escape[c] ELSE <<c>>)

\* A port that does not parse is the implicit one: None.
ParsePort(p) == IF Len(p) = 1 THEN PortOf[p[1]] ELSE None

\* Mutant: an empty path stays empty.
OrSlashBare(path) == path

OrSlash(path) == IF path = <<>> THEN <<"/">> ELSE path

\* A URL without a fragment takes over that of the URL it is redirected from.
Inherited(from) == IF from = None THEN None ELSE from.fragment

\* What the loop knows after each of its turns.
Turns(text, encode) ==
  LET turn[n \in 0 .. Len(text)] ==
        IF n = 0 THEN Start ELSE Push(turn[n - 1], text[n], encode)
  IN turn

\* HttpUrl::parse of a text that HasProtocol; otherwise it fails.
ParseUrl(t, from, encode) ==
  LET https == IsPrefix(Https, t)
      text == SubSeq(t, 5, Len(t))
      s == Turns(text, encode)[Len(text)]
  IN [https |-> https,
      host |-> s.host,
      port |-> ParsePort(s.port),
      path_and_query |-> OrSlash(IF s.path = None THEN s.resource ELSE s.path),
      fragment |-> IF s.path = None THEN Inherited(from) ELSE s.resource]

\* Mutant: the port is not printed.
WriteBaseUrlPortless(u) == (IF u.https THEN Https ELSE Http) \o u.host

WriteBaseUrl(u) ==
  (IF u.https THEN Https ELSE Http) \o u.host
    \o (IF u.port = None THEN <<>> ELSE <<":", WordOf[u.port]>>)

\* Mutant: an empty fragment is not printed.
WriteResourceBare(u) ==
  u.path_and_query
    \o (IF u.fragment \in {None, <<>>} THEN <<>> ELSE <<"#">> \o u.fragment)

WriteResource(u) ==
  u.path_and_query \o (IF u.fragment = None THEN <<>> ELSE <<"#">> \o u.fragment)

===============================================================================
