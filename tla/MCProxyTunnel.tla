---------------------------- MODULE MCProxyTunnel -----------------------------
(* Instances of ProxyTunnel for TLC.                                       *)
EXTENDS ProxyTunnel

MCSymbol == {":", "/", "@", "http", "socks", "u", "p", "h", "top", "over", "word"}

\* top is the largest port, over one that an u16 does not hold.
MCPortOf == [w \in MCSymbol |-> CASE w = "top" -> 65535
                                  [] w = "over" -> 70000
                                  [] OTHER -> None]

Schemes == {<<>>, <<"http", ":", "/", "/">>, <<"socks", ":", "/", "/">>}
Credentials ==
  {None, <<>>, <<"u">>, <<"u", ":", "p">>, <<"u", ":", "p", "@", "p", ":">>,
   <<"u", ":", "p", ":", "/", "/">>}

Written ==
  {[scheme |-> s, creds |-> c, host |-> h, port |-> p] :
     s \in Schemes, c \in Credentials, h \in {<<"h">>, <<"h", ":", "h">>},
     p \in {None, "top", "over", "word"}}

Plain(w) == [scheme |-> <<>>, creds |-> None, host |-> <<w>>, port |-> None]

\* A setting that Proxy::new refuses.
Socks == [scheme |-> <<"socks", ":", "/", "/">>, creds |-> None, host |-> <<"h">>,
          port |-> None]

Unset == [v \in Var |-> None]

\* V stands for the protocol version and K for a reason.  Among the answers
\* are one with a multiple of the buffer length, one that names another 200 in
\* a header, one with a code that begins like another, and nonsense.
MCOctet == {"V", "K", "0", "1", "2", "4", "7", " ", "CR", "LF", "NUL"}

StatusHead(code) == <<"V", " ">> \o code \o <<"LF">>

MCAnswers ==
  {StatusHead(<<"2", "0", "0">>),
   StatusHead(<<"2", "0", "0">>) \o <<"CR", "LF">>,
   <<"V", "V", "V">> \o StatusHead(<<"2", "0", "0">>) \o <<"K", "LF", "LF">>,
   StatusHead(<<"2", "0", "0", " ", "K">>) \o <<"LF">>,
   StatusHead(<<"4", "0", "7">>) \o <<"K", " ", "2", "0", "0", "LF", "LF">>,
   StatusHead(<<"2", "0", "0", "7">>) \o <<"LF">>,
   <<"K", "LF">>, <<>>}

\* Settings matter up to the CONNECT, answers behind it: all the settings with
\* a short answer, and all the answers with a plain setting.
MCCases ==
  {[own |-> s, env |-> Unset, https |-> FALSE, answer |-> <<"K">>] : s \in Written}
    \cup {[own |-> s, https |-> b, answer |-> <<>>,
           env |-> [Unset EXCEPT !["http_proxy"] = x, !["https_proxy"] = y,
                                 !["HTTPS_PROXY"] = z, !["all_proxy"] = z]] :
            s \in {None, Plain("h")}, b \in BOOLEAN, x \in {None, Socks, Plain("u")},
            y \in {None, Socks, Plain("p")}, z \in {None, Plain("word")}}
    \cup {[own |-> Plain("h"), env |-> Unset, https |-> FALSE, answer |-> a] :
            a \in MCAnswers}

MCTargets == {[host |-> <<"word">>, port |-> 443], [host |-> <<"top">>, port |-> 80]}

===============================================================================
