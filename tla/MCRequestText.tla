---------------------------- MODULE MCRequestText -----------------------------
(* An instance of RequestText for TLC.                                     *)
EXTENDS RequestText

\* 080 is another spelling of 80, 70000 is not a port; ! is a character that
\* has to be escaped.
MCSymbol == {"http", "https", ":", "/", "?", "#", "%", "&", "=", "h", "i", "a", "80", "080",
             "70000", "!", "x21", "x23", "x25", "x3A"}

MCEscape == [c \in MCSymbol |->
               CASE c = "!" -> <<"%", "x21">>
                 [] c = "%" -> <<"%", "x25">>
                 [] c = ":" -> <<"%", "x3A">>
                 [] OTHER -> <<c>>]

MCPortOf == [w \in MCSymbol |-> IF w \in {"80", "080"} THEN 80 ELSE None]
MCWordOf == [n \in {80} |-> "80"]

Authorities == {<<"h">>, <<"h", ":", "080">>, <<"h", ":", "70000">>, <<"h", ":">>, <<"h", "#", "a">>}
Resources == {<<>>, <<"/">>, <<"?", "a">>, <<"/", "a", "#">>, <<"/", "!", "?", "a", "#", "a", "#", "?">>,
              <<"/", "%", ":">>}

AllTexts == {p \o a \o r : p \in {Http, Https}, a \in Authorities, r \in Resources}

Caller(t, m, c, r) == [text |-> t, method |-> m, calls |-> c, max_redirects |-> r]

\* All texts with few calls; a few texts with more calls and longer chains.
MCCallers ==
  {Caller(t, "Get", 0, 1) : t \in AllTexts \cup {<<"h", "/">>}}
    \cup {Caller(Http \o <<"h", ":", "80">> \o r, m, 3, 1) :
            r \in {<<"?", "a", "#", "a">>, <<"/", "a">>}, m \in {"Post", "Get"}}
    \cup {Caller(Http \o <<"h", ":", "080", "/", "#", "a">>, "Post", 0, 3)}

MCBodies == {<<>>, <<"b", "b">>}
MCHandKeys == {"content-length", "Other"}
MCWords == {"a", "#"}
MCParamEscape == [w \in MCWords |-> IF w = "#" THEN <<"%", "x23">> ELSE <<w>>]

MCLocations ==
  {<<"/", "a">>, <<"/", "/", "i", "/">>, <<"?", "a", "#">>, <<"i">>, <<>>,
   Https \o <<"i", ":", "80">>, <<"h", ":", "/", "/", "i">>}

\* The text that a documented claim is about.
HostThenFragment == {Caller(Http \o <<"h", "#", "a">>, "Get", 0, 1)}

===============================================================================
