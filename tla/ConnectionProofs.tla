--------------------------- MODULE ConnectionProofs ---------------------------
(***************************************************************************)
(* What Connection guarantees for all hosts, Locations, requests, limits   *)
(* and features.                                                           *)
(***************************************************************************)
EXTENDS Connection, TLAPS

USE DEF Stages, Awaits, Errors, Results, Methods, RedirectStatus

-------------------------------------------------------------------------------
(* The operators on URLs.                                                  *)

\* redirect_to makes a URL of a Location it does not reject.
LEMMA TargetType ==
  ASSUME NEW loc \in Location, NEW u \in Url, ~Rejected(loc)
  PROVE  Target(loc, u) \in Url
BY HostAssumption DEF Target, Parse, ParseRelative, Rejected, Parses, Location, Url

\* HttpUrl::parse makes a URL of the caller's text.
LEMMA ParseType ==
  ASSUME NEW loc \in Location
  PROVE  Parse(loc, None) \in Url
BY DEF Parse, Location, Url

\* A redirection that leaves a fragment behind arrives with one.
LEMMA TargetFragment ==
  ASSUME NEW loc \in Location, NEW u \in Url, u.fragment # None
  PROVE  Target(loc, u).fragment # None
BY DEF Target, Parse, ParseRelative

\* What redirect_to has checked when it returns Ok.
LEMMA RedirectToOk ==
  ASSUME NEW loc \in Location, NEW u \in Url, NEW old \in Seq(Url),
         RedirectTo(loc, u, old) = "ok"
  PROVE  /\ ~Rejected(loc)
         /\ Len(Append(old, u)) <= MaxRedirects
         /\ Target(loc, u) \notin Range(Append(old, u))
BY NumberAssumption DEF RedirectTo

\* What redirect_to returns is a result of send().
LEMMA RedirectToType ==
  ASSUME NEW loc, NEW u, NEW old
  PROVE  RedirectTo(loc, u, old) \in Errors \cup {"ok"}
BY DEF RedirectTo

\* Pushing something new onto a sequence without duplicates leaves none.
LEMMA AppendInjective ==
  ASSUME NEW S, NEW s \in Seq(S), NEW e \in S, IsInjective(s), e \notin Range(s)
  PROVE  IsInjective(Append(s, e))
BY DEF IsInjective, Range

-------------------------------------------------------------------------------
(* Types.                                                                  *)

LEMMA TimeoutType ==
  ASSUME config \in Request
  PROVE  Timeout \in Nat \cup {None}
BY NumberAssumption DEF Timeout, Request

\* A hop that starts, and one that a redirection leads to, has a URL; the start
\* of a hop changes no more of it than the host.
LEMMA SendHopUrl ==
  ASSUME TypeOK, SendHop
  PROVE  /\ url' \in Url
         /\ url'.https = url.https /\ url'.fragment = url.fragment
         /\ ~config.punycode => url' = url
<1>1. url \in Url
  BY DEF TypeOK, SendHop
<1>2. EnsureAsciiHost(url.host) \in Hosts \cup {None}
  BY <1>1, HostAssumption DEF EnsureAsciiHost, Url
<1>3. CASE url' = url
  BY <1>1, <1>3
<1>4. CASE /\ EnsureAsciiHost(url.host) # None
           /\ url' = [url EXCEPT !.host = EnsureAsciiHost(url.host)]
  <2>1. ~config.punycode => EnsureAsciiHost(url.host) = url.host
    BY <1>4 DEF EnsureAsciiHost
  <2>. QED BY <1>1, <1>2, <1>4, <2>1 DEF Url
<1>. QED BY <1>3, <1>4 DEF SendHop

LEMMA FollowUrl ==
  ASSUME TypeOK, FollowRedirect
  PROVE  url' \in Url
<1>1. response.location \in Location
  BY DEF TypeOK, FollowRedirect, ResponseHead
<1>. QED BY <1>1, TargetType, RedirectToOk DEF TypeOK, FollowRedirect

\* Every variable keeps its type; the URL is there while a hop runs, a response
\* when it is looked at, and a result exactly when send() has returned.
THEOREM Typing == Spec => []TypeOK
<1>. USE NumberAssumption, HostAssumption
<1>1. Init => TypeOK
  <2>. SUFFICES ASSUME Init PROVE TypeOK
    OBVIOUS
  <2>1. config \in Request
    BY InputAssumption DEF Init
  <2>2. method \in Methods
    BY <2>1 DEF Init, Request
  <2>3. redirects \in Seq(Url)
    BY DEF Init
  <2>. QED BY <2>1, <2>2, <2>3 DEF Init, TypeOK
<1>2. TypeOK /\ [Next]_vars => TypeOK'
  <2>. SUFFICES ASSUME TypeOK, [Next]_vars PROVE TypeOK'
    OBVIOUS
  <2>. USE DEF TypeOK, Finish, Goto, chain, fixed, hop
  <2>1. CASE Tick
    BY <2>1 DEF Tick
  <2>2. CASE SendRefused
    BY <2>2 DEF SendRefused
  <2>3. CASE SendPanics
    BY <2>3 DEF SendPanics
  <2>4. CASE Send
    <3>1. url' \in Url
      BY <2>4, ParseType DEF Send, Request
    <3>2. timeout_at' \in Nat \cup {None}
      BY <2>4, TimeoutType DEF Send
    <3>. QED BY <2>4, <3>1, <3>2 DEF Send, Dispatch
  <2>5. CASE SendHop
    <3>1. url' \in Url
      BY <2>5, SendHopUrl
    <3>. QED BY <2>5, <3>1 DEF SendHop
  <2>6. CASE Resolve
    BY <2>6 DEF Resolve, Dial
  <2>7. CASE ConnectOk
    BY <2>7 DEF ConnectOk, AfterTunnel
  <2>8. CASE ConnectFail
    BY <2>8 DEF ConnectFail, Dial
  <2>9. CASE ConnectTimeout
    BY <2>9 DEF ConnectTimeout, Dial
  <2>10. CASE ProxyStep
    BY <2>10 DEF ProxyStep, AfterTunnel
  <2>11. CASE Handshake
    BY <2>11 DEF Handshake
  <2>12. CASE Write
    BY <2>12 DEF Write
  <2>13. CASE ReadHead
    <3>1. /\ response' \in ResponseHead \cup {None}
          /\ pc' = "redirect" => response' # None
      <4>1. CASE pc' = "redirect"
        <5>1. PICK status \in Statuses, location \in Locations \cup {None} :
                response' = [status |-> status, location |-> location]
          BY <2>13, <4>1 DEF ReadHead
        <5>2. location \in Location \cup {None}
          BY InputAssumption
        <5>3. response' \in ResponseHead
          BY <5>1, <5>2 DEF ResponseHead
        <5>. QED BY <5>3, InputAssumption
      <4>2. CASE pc' # "redirect"
        BY <2>13, <4>2 DEF ReadHead
      <4>. QED BY <4>1, <4>2
    <3>. QED BY <2>13, <3>1 DEF ReadHead
  <2>14. CASE TimerFires \/ ReadSecured
    BY <2>14 DEF TimerFires, ReadSecured
  <2>15. CASE RedirectFails
    BY <2>15, RedirectToType DEF RedirectFails
  <2>16. CASE FollowRedirect
    <3>1. url' \in Url
      BY <2>16, FollowUrl
    <3>2. redirects' \in Seq(Url)
      BY <2>16 DEF FollowRedirect
    <3>3. secured' \in BOOLEAN /\ seeOther' \in BOOLEAN /\ method' \in Methods
      BY <2>16, <3>1 DEF FollowRedirect, Dispatch, Url, MethodAfter
    <3>. QED BY <2>16, <3>1, <3>2, <3>3 DEF FollowRedirect
  <2>17. CASE Destination
    BY <2>17 DEF Destination
  <2>18. CASE CreateEmpty
    BY <2>18 DEF CreateEmpty
  <2>19. CASE CreateLoaded
    BY <2>19 DEF CreateLoaded
  <2>20. CASE UNCHANGED vars
    BY <2>20 DEF vars
  <2>. QED
    BY <2>1, <2>2, <2>3, <2>4, <2>5, <2>6, <2>7, <2>8, <2>9, <2>10, <2>11, <2>12,
       <2>13, <2>14, <2>15, <2>16, <2>17, <2>18, <2>19, <2>20
       DEF Next, Client, Timers, Network, Terminated
<1>. QED BY <1>1, <1>2, PTL DEF Spec

-------------------------------------------------------------------------------
(* The redirect chain.                                                     *)

\* Only these steps change the URL, the redirects or the method; every other
\* one also leaves what was fixed before the first await alone.
LEMMA ChainStep ==
  ASSUME [Next]_vars
  PROVE  \/ /\ UNCHANGED <<chain, fixed>>
            /\ pc = "start" => pc' \in {"start", "done"}
            /\ pc = "done" => pc' = "done"
            /\ pc' = "start" => UNCHANGED vars
         \/ Send
         \/ SendHop
         \/ FollowRedirect
<1>. USE DEF Finish, Goto, Dial, AfterTunnel, chain, fixed
<1>1. CASE Tick \/ SendRefused \/ SendPanics \/ Resolve
  BY <1>1 DEF Tick, SendRefused, SendPanics, Resolve
<1>2. CASE ReadSecured \/ RedirectFails \/ Destination \/ CreateEmpty \/ Timers
  BY <1>2 DEF ReadSecured, RedirectFails, Destination, CreateEmpty, Timers,
              ConnectTimeout, TimerFires
<1>3. CASE Network
  BY <1>3 DEF Network, ConnectOk, ConnectFail, ProxyStep, Handshake, Write, ReadHead,
              CreateLoaded
<1>4. CASE UNCHANGED vars
  BY <1>4 DEF vars
<1>. QED BY <1>1, <1>2, <1>3, <1>4 DEF Next, Client, Terminated

\* What the invariants below need: the chain starts empty, without a URL, when
\* the clock does, and the deadline is the caller's from then on.
Origin ==
  /\ url = None => redirects = <<>>
  /\ pc = "start" => url = None /\ now = 0 /\ seeOther = FALSE
  /\ url # None => timeout_at = Timeout

\* The chain starts empty and the deadline of Connection::new is kept by every
\* redirection.
THEOREM OriginInvariant == Spec => []Origin
<1>1. Init => Origin
  BY DEF Init, Origin
<1>2. TypeOK /\ Origin /\ [Next]_vars => Origin'
  <2>. SUFFICES ASSUME TypeOK, Origin, [Next]_vars PROVE Origin'
    OBVIOUS
  <2>. USE DEF Origin, Timeout
  <2>1. CASE Send
    <3>1. url' # None
      BY <2>1, ParseType, InputAssumption DEF Send, TypeOK, Request
    <3>2. timeout_at' = Timeout'
      BY <2>1, NumberAssumption DEF Send, TypeOK, Request
    <3>. QED BY <2>1, <3>1, <3>2 DEF Send, Goto
  <2>2. CASE SendHop
    <3>1. url # None /\ url' # None /\ pc' # "start"
      BY <2>2, SendHopUrl, InputAssumption DEF SendHop, TypeOK, Finish, Goto
    <3>. QED BY <2>2, <3>1 DEF SendHop, fixed
  <2>3. CASE FollowRedirect
    <3>1. url # None /\ url' # None /\ pc' # "start"
      BY <2>3, FollowUrl, InputAssumption DEF FollowRedirect, TypeOK, Finish, Goto
    <3>. QED BY <2>3, <3>1 DEF FollowRedirect, fixed
  <2>4. CASE UNCHANGED <<chain, fixed>> /\ (pc' = "start" => UNCHANGED vars)
    BY <2>4 DEF chain, fixed, vars
  <2>. QED BY <2>1, <2>2, <2>3, <2>4, ChainStep
<1>. QED BY <1>1, <1>2, Typing, PTL DEF Spec

\* Whatever servers answer, without punycode no URL of the chain is asked
\* twice, and no chain is longer than max_redirects.
THEOREM ChainSoundness == Spec => []ChainSound
<1>1. Init => ChainSound
  BY NumberAssumption DEF Init, ChainSound
<1>2. TypeOK /\ Origin /\ ChainSound /\ [Next]_vars => ChainSound'
  <2>. SUFFICES ASSUME TypeOK, Origin, ChainSound, [Next]_vars PROVE ChainSound'
    OBVIOUS
  <2>. USE DEF ChainSound
  <2>1. CASE Send
    <3>1. redirects = <<>> /\ redirects' = redirects
      BY <2>1 DEF Send, Origin
    <3>2. IsInjective(Append(redirects, url)')
      BY <3>1 DEF IsInjective
    <3>. QED BY <3>1, <3>2, NumberAssumption
  <2>2. CASE SendHop
    BY <2>2, SendHopUrl DEF SendHop, Finish, Goto, fixed
  <2>3. CASE FollowRedirect
    <3>1. response.location \in Location /\ url \in Url
      BY <2>3, InputAssumption DEF FollowRedirect, TypeOK, ResponseHead
    <3>2. /\ redirects' = Append(redirects, url)
          /\ Len(redirects') <= MaxRedirects
          /\ url' \notin Range(redirects')
          /\ url' \in Url
          /\ redirects' \in Seq(Url)
      BY <2>3, <3>1, RedirectToOk, FollowUrl DEF FollowRedirect, TypeOK
    <3>3. ~config.punycode => IsInjective(redirects')
      BY <2>3, <3>2 DEF FollowRedirect
    <3>4. ~config.punycode => IsInjective(Append(redirects', url'))
      BY <3>2, <3>3, AppendInjective
    <3>5. config' = config
      BY <2>3 DEF FollowRedirect, fixed
    <3>. QED BY <3>2, <3>4, <3>5
  <2>4. CASE /\ UNCHANGED <<chain, fixed>>
             /\ pc = "start" => pc' \in {"start", "done"}
             /\ pc = "done" => pc' = "done"
    BY <2>4 DEF chain, fixed
  <2>. QED BY <2>1, <2>2, <2>3, <2>4, ChainStep
<1>. QED BY <1>1, <1>2, Typing, OriginInvariant, PTL DEF Spec

\* However many redirections of whichever status are mixed, the method is the
\* caller's or, after a 303, the GET that replaced it.
THEOREM MethodRuleHolds == Spec => []MethodRule
<1>1. Init => MethodRule
  BY DEF Init, MethodRule
<1>2. TypeOK /\ MethodRule /\ [Next]_vars => MethodRule'
  <2>. SUFFICES ASSUME TypeOK, MethodRule, [Next]_vars PROVE MethodRule'
    OBVIOUS
  <2>1. CASE Send \/ SendHop
    BY <2>1 DEF Send, SendHop, MethodRule, fixed
  <2>2. CASE FollowRedirect
    BY <2>2 DEF FollowRedirect, MethodRule, MethodAfter, fixed
  <2>3. CASE UNCHANGED <<chain, fixed>>
    BY <2>3 DEF MethodRule, chain, fixed
  <2>. QED BY <2>1, <2>2, <2>3, ChainStep
<1>. QED BY <1>1, <1>2, Typing, PTL DEF Spec

\* The is_head that send() reads before its first await is right for the
\* response it is applied to after all redirections.
THEOREM IsHeadStaysFresh == Spec => []IsHeadFresh
<1>1. Init => IsHeadFresh
  BY DEF Init, IsHeadFresh
<1>2. TypeOK /\ Origin /\ IsHeadFresh /\ [Next]_vars => IsHeadFresh'
  <2>. SUFFICES ASSUME TypeOK, Origin, IsHeadFresh, [Next]_vars PROVE IsHeadFresh'
    OBVIOUS
  <2>. USE DEF IsHeadFresh
  <2>1. CASE Send
    BY <2>1 DEF Send
  <2>2. CASE SendHop
    BY <2>2, InputAssumption DEF SendHop, TypeOK, fixed
  <2>3. CASE FollowRedirect
    BY <2>3, InputAssumption DEF FollowRedirect, MethodAfter, TypeOK, fixed
  <2>4. CASE UNCHANGED <<chain, fixed>> /\ (pc' = "start" => UNCHANGED vars)
    BY <2>4 DEF chain, fixed, Origin
  <2>. QED BY <2>1, <2>2, <2>3, <2>4, ChainStep
<1>. QED BY <1>1, <1>2, Typing, OriginInvariant, PTL DEF Spec

\* No redirection, absolute or relative, loses the fragment.
THEOREM FragmentIsKept == Spec => []FragmentKept
<1>1. Init => FragmentKept
  BY DEF Init, FragmentKept
<1>2. TypeOK /\ Origin /\ FragmentKept /\ [Next]_vars => FragmentKept'
  <2>. SUFFICES ASSUME TypeOK, Origin, FragmentKept, [Next]_vars PROVE FragmentKept'
    OBVIOUS
  <2>1. CASE Send
    BY <2>1 DEF Send, Origin, FragmentKept
  <2>2. CASE SendHop
    <3>1. url'.fragment = url.fragment
      BY <2>2, SendHopUrl
    <3>. QED BY <2>2, <3>1 DEF SendHop, FragmentKept
  <2>3. CASE FollowRedirect
    <3>1. response.location \in Location /\ url \in Url
      BY <2>3, InputAssumption DEF FollowRedirect, TypeOK, ResponseHead
    <3>2. url.fragment # None => url'.fragment # None
      BY <2>3, <3>1, TargetFragment DEF FollowRedirect
    <3>3. redirects' = Append(redirects, url)
      BY <2>3 DEF FollowRedirect
    <3>. QED BY <3>1, <3>2, <3>3 DEF FragmentKept, TypeOK
  <2>4. CASE UNCHANGED <<chain, fixed>>
    BY <2>4 DEF FragmentKept, chain
  <2>. QED BY <2>1, <2>2, <2>3, <2>4, ChainStep
<1>. QED BY <1>1, <1>2, Typing, OriginInvariant, PTL DEF Spec

-------------------------------------------------------------------------------
(* Streams.                                                                *)

\* How far a hop is with its stream, in every stage: the invariant behind
\* TlsIffHttps.
Tunnelled ==
  /\ pc \notin {"start", "done"} => (secured <=> url.https)
  /\ pc \in {"proxy", "tls"} => stream = "tcp"
  /\ pc = "tls" => secured
  /\ pc \in {"write", "read"} => (stream = "tls" <=> secured)

\* A stage is entered only with the stream that the stages before it built.
THEOREM TunnelInvariant == Spec => []Tunnelled
<1>1. Init => Tunnelled
  BY DEF Init, Tunnelled
<1>2. TypeOK /\ Tunnelled /\ [Next]_vars => Tunnelled'
  <2>. SUFFICES ASSUME TypeOK, Tunnelled, [Next]_vars PROVE Tunnelled'
    OBVIOUS
  <2>. USE DEF Tunnelled, Finish, Goto, Dial, AfterTunnel, chain, hop
  <2>1. CASE Tick \/ SendRefused \/ SendPanics \/ Resolve
    BY <2>1 DEF Tick, SendRefused, SendPanics, Resolve
  <2>2. CASE Send
    BY <2>2 DEF Send, Parse, Dispatch
  <2>3. CASE SendHop
    <3>1. url'.https = url.https
      BY <2>3, SendHopUrl
    <3>. QED BY <2>3, <3>1 DEF SendHop
  <2>4. CASE FollowRedirect
    BY <2>4 DEF FollowRedirect, Dispatch
  <2>5. CASE ReadSecured \/ RedirectFails \/ Destination \/ CreateEmpty \/ Timers
    BY <2>5 DEF ReadSecured, RedirectFails, Destination, CreateEmpty, Timers,
                ConnectTimeout, TimerFires
  <2>6. CASE ConnectOk
    BY <2>6 DEF ConnectOk
  <2>7. CASE ConnectFail \/ ReadHead \/ CreateLoaded
    BY <2>7 DEF ConnectFail, ReadHead, CreateLoaded
  <2>8. CASE ProxyStep
    BY <2>8 DEF ProxyStep
  <2>9. CASE Handshake
    BY <2>9 DEF Handshake
  <2>10. CASE Write
    BY <2>10 DEF Write
  <2>11. CASE UNCHANGED vars
    BY <2>11 DEF vars
  <2>. QED
    BY <2>1, <2>2, <2>3, <2>4, <2>5, <2>6, <2>7, <2>8, <2>9, <2>10, <2>11
       DEF Next, Client, Network, Terminated
<1>. QED BY <1>1, <1>2, Typing, PTL DEF Spec

\* Over every chain of redirections between http and https, with or without a
\* proxy, a request is written and its answer read through TLS exactly if its
\* URL is an https one.
THEOREM TlsExactlyForHttps == Spec => []TlsIffHttps
<1>1. Tunnelled => TlsIffHttps
  BY DEF Tunnelled, TlsIffHttps
<1>. QED BY <1>1, TunnelInvariant, PTL

-------------------------------------------------------------------------------
(* The deadline.                                                           *)

\* Where a timeout error can come from, and that time does not run back.
LEMMA TimeoutStep ==
  ASSUME TypeOK, [Next]_vars
  PROVE  /\ now' >= now
         /\ \/ result' = result
            \/ result' # "TimedOut"
            \/ pc \notin {"start", "done"} /\ (Expired \/ Due) /\ now' = now
<1>. USE DEF Finish, Goto, Dial, TypeOK
<1>1. CASE Tick
  BY <1>1 DEF Tick
<1>2. CASE SendRefused \/ SendPanics \/ Send
  BY <1>2 DEF SendRefused, SendPanics, Send
<1>3. CASE SendHop
  BY <1>3 DEF SendHop
<1>4. CASE Resolve
  BY <1>4 DEF Resolve
<1>5. CASE RedirectFails
  <2>1. RedirectTo(response.location, url, redirects) # "TimedOut"
    BY DEF RedirectTo
  <2>. QED BY <1>5, <2>1 DEF RedirectFails
<1>6. CASE FollowRedirect \/ Destination \/ CreateEmpty \/ ReadSecured
  BY <1>6 DEF FollowRedirect, Destination, CreateEmpty, ReadSecured
<1>7. CASE Timers
  BY <1>7 DEF Timers, ConnectTimeout, TimerFires
<1>8. CASE ConnectOk \/ ConnectFail \/ ProxyStep
  BY <1>8 DEF ConnectOk, ConnectFail, ProxyStep
<1>9. CASE Handshake \/ Write \/ ReadHead \/ CreateLoaded
  BY <1>9 DEF Handshake, Write, ReadHead, CreateLoaded
<1>10. CASE UNCHANGED vars
  BY <1>10 DEF vars
<1>. QED
  BY <1>1, <1>2, <1>3, <1>4, <1>5, <1>6, <1>7, <1>8, <1>9, <1>10
     DEF Next, Client, Network, Terminated

\* The timeout error is never early, in whichever hop and attempt it arises.
THEOREM TimeoutIsNotEarly == Spec => []TimedOutNotEarly
<1>1. Init => TimedOutNotEarly
  BY DEF Init, TimedOutNotEarly
<1>2. TypeOK /\ TypeOK' /\ Origin /\ TimedOutNotEarly /\ [Next]_vars => TimedOutNotEarly'
  <2>. SUFFICES ASSUME TypeOK, TypeOK', Origin, TimedOutNotEarly, [Next]_vars
                PROVE  TimedOutNotEarly'
    OBVIOUS
  <2>. Timeout' = Timeout
    <3>1. config' = config
      BY ChainStep DEF fixed, Send, SendHop, FollowRedirect
    <3>. QED BY <3>1 DEF Timeout
  <2>1. Timeout \in Nat \cup {None} /\ now \in Nat /\ now' \in Nat
    BY TimeoutType DEF TypeOK
  <2>2. CASE result' # "TimedOut" \/ result' = result
    BY <2>1, <2>2, TimeoutStep DEF TimedOutNotEarly
  <2>3. CASE pc \notin {"start", "done"} /\ (Expired \/ Due) /\ now' = now
    <3>1. timeout_at = Timeout
      BY <2>3, InputAssumption DEF Origin, TypeOK
    <3>. QED BY <2>1, <2>3, <3>1 DEF TimedOutNotEarly, Expired, Due
  <2>. QED BY <2>2, <2>3, TimeoutStep
<1>. QED BY <1>1, <1>2, Typing, OriginInvariant, PTL DEF Spec

\* No attempt of any hop starts when the time of the whole request is up.
THEOREM NoLateDial == Spec => NoDialPastDeadline
<1>. DEFINE Dials == pc' = "connect" /\ <<pc, addrs>>' # <<pc, addrs>>
            InTime == Timeout = None \/ now <= Timeout
<1>1. TypeOK /\ Origin /\ [Next]_vars => [Dials => InTime]_vars
  <2>. SUFFICES ASSUME TypeOK, Origin, Next, Dials PROVE InTime
    OBVIOUS
  <2>1. pc \in {"resolve", "connect"} /\ ~Expired
    BY DEF Next, Client, Timers, Network, Tick, SendRefused, SendPanics, Send, SendHop,
           Resolve, Dial, RedirectFails, FollowRedirect, Destination, CreateEmpty,
           ConnectTimeout, TimerFires, ConnectOk, ConnectFail, ProxyStep, Handshake,
           Write, ReadSecured, ReadHead, CreateLoaded, Terminated, Finish, Goto, AfterTunnel, vars,
           hop
  <2>2. timeout_at = Timeout
    BY <2>1, InputAssumption DEF Origin, TypeOK
  <2>. QED BY <2>1, <2>2, TimeoutType DEF Expired, TypeOK
<1>. QED BY <1>1, Typing, OriginInvariant, PTL DEF Spec, NoDialPastDeadline

-------------------------------------------------------------------------------
(* Refinement.                                                             *)

\* The promise's view of a step, with its variables in sight.
LEMMA PromiseStep ==
  ASSUME TypeOK, TypeOK', Origin, Origin', [Next]_vars
  PROVE  [Promise!Next]_(Promise!vars)
<1>. DEFINE budget == MaxRedirects - Len(redirects)
<1>. USE DEF Phase, Clock, Outcome, Promise!vars, Promise!Next, Promise!Over,
             Finish, Goto, Expired, Due
<1>1. CASE Tick
  <2>1. /\ UNCHANGED <<pc, result, redirects, timeout_at>>
        /\ now' = now + 1
        /\ pc \notin {"start", "done"}
    BY <1>1 DEF Tick, chain, fixed
  <2>2. now \in Nat /\ timeout_at \in Nat \cup {None}
    BY DEF TypeOK
  <2>. QED BY <2>1, <2>2 DEF Promise!Pass
<1>2. CASE SendRefused \/ SendPanics
  BY <1>2 DEF SendRefused, SendPanics, Promise!Fail, chain, fixed
<1>3. CASE Send
  <2>1. /\ pc = "start" /\ pc' = "send"
        /\ UNCHANGED <<now, result, redirects>>
        /\ now = 0 /\ url = None
    BY <1>3 DEF Send, Origin
  <2>2. timeout_at' \in Nat \cup {None}
    BY DEF TypeOK
  <2>. QED BY <1>3, <2>1, <2>2 DEF Promise!Begin
<1>4. CASE SendHop
  BY <1>4 DEF SendHop, TypeOK, fixed, Promise!TimeOut, Promise!Fail
<1>5. CASE Resolve
  BY <1>5 DEF Resolve, Dial, TypeOK, chain, fixed, Promise!TimeOut, Promise!Fail
<1>6. CASE ConnectFail \/ ConnectTimeout
  BY <1>6 DEF ConnectFail, ConnectTimeout, Dial, TypeOK, chain, fixed,
              Promise!TimeOut, Promise!Fail
<1>7. CASE TimerFires \/ ReadSecured
  BY <1>7 DEF TimerFires, ReadSecured, TypeOK, chain, fixed, Promise!TimeOut, Promise!Fail
<1>8. CASE ConnectOk \/ ProxyStep \/ Handshake \/ Write \/ ReadHead
  BY <1>8 DEF ConnectOk, ProxyStep, Handshake, Write, ReadHead, AfterTunnel, TypeOK,
              chain, fixed, Promise!Fail
<1>9. CASE RedirectFails
  <2>1. RedirectTo(response.location, url, redirects) \notin {"TimedOut", "none"}
    BY DEF RedirectTo
  <2>. QED BY <1>9, <2>1 DEF RedirectFails, TypeOK, chain, fixed, Promise!Fail
<1>10. CASE FollowRedirect
  <2>1. response.location \in Location /\ url \in Url
    BY <1>10, InputAssumption DEF FollowRedirect, TypeOK, ResponseHead
  <2>2. /\ redirects' = Append(redirects, url)
        /\ Len(redirects') <= MaxRedirects
    BY <1>10, <2>1, RedirectToOk DEF FollowRedirect, TypeOK
  <2>3. budget > 0 /\ budget' = budget - 1
    BY <2>1, <2>2, NumberAssumption DEF TypeOK
  <2>. QED
    BY <1>10, <2>3 DEF FollowRedirect, TypeOK, fixed, Promise!Follow, Promise!FollowNowhere
<1>11. CASE Destination
  BY <1>11 DEF Destination, TypeOK, chain, fixed, Promise!Answer, Promise!Return
<1>12. CASE CreateEmpty \/ CreateLoaded
  BY <1>12 DEF CreateEmpty, CreateLoaded, TypeOK, chain, fixed, Promise!Return,
               Promise!Fail
<1>13. CASE UNCHANGED vars
  BY <1>13 DEF vars
<1>. QED
  BY <1>1, <1>2, <1>3, <1>4, <1>5, <1>6, <1>7, <1>8, <1>9, <1>10, <1>11, <1>12, <1>13
     DEF Next, Client, Timers, Network, Terminated

\* For all servers, resolvers and timings a request of the client is a request
\* as SendPromise has it: its budget of redirections, when it may time out, and
\* that it may not once the head of the last response is there.
THEOREM RequestKeepsPromise == Spec => KeepsPromise
<1>1. Init => Promise!Init
  BY NumberAssumption DEF Init, Promise!Init, Phase, Clock, Outcome, Expired, Due
<1>2. TypeOK /\ TypeOK' /\ Origin /\ Origin' /\ [Next]_vars
        => [Promise!Next]_(Promise!vars)
  BY PromiseStep
<1>. QED
  BY <1>1, <1>2, Typing, OriginInvariant, PTL DEF Spec, KeepsPromise, Promise!Spec

===============================================================================
