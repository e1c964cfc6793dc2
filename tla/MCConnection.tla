----------------------------- MODULE MCConnection -----------------------------
(* Instances of Connection for TLC.                                        *)
EXTENDS Connection

\* Two servers, the non-ASCII name of the first, a name punycode cannot
\* encode, and the name that comes of running text on into a host.
MCHosts == {"a", "b", "aUnicode", "tooLong", "glued"}
MCAsciiHosts == {"a", "b", "glued"}
MCEncode == [h \in {"aUnicode", "tooLong"} |-> IF h = "aUnicode" THEN "a" ELSE None]
MCGlue == [h \in MCHosts |-> "glued"]
MCPaths == {"/", "/x"}
MCFragments == {"f"}

Absolute(scheme, host, path, fragment) ==
  [scheme |-> scheme, embedded |-> FALSE, rooted |-> FALSE, host |-> host,
   path |-> path, fragment |-> fragment]

\* The host of a text without a scheme is never looked at.
Relative(rooted, embedded, path) ==
  [scheme |-> "none", embedded |-> embedded, rooted |-> rooted, host |-> "a",
   path |-> path, fragment |-> None]

\* All the ways a Location leads on, or does not.
MCLocations ==
  {Absolute("http", "a", "/", None), Absolute("http", "b", "/x", "f"),
   Absolute("https", "b", "/", None), Absolute("other", "b", "/", None),
   Absolute("http", "aUnicode", "/", None), Absolute("http", "tooLong", "/", None),
   Relative(TRUE, FALSE, "/x"), Relative(TRUE, TRUE, "/"), Relative(FALSE, FALSE, "/")}

Ask(location, m, proxy, timeout, lazy, env_timeout, features) ==
  [location |-> location, method |-> m, proxy |-> proxy, timeout |-> timeout,
   lazy |-> lazy, env_timeout |-> env_timeout,
   https |-> features, punycode |-> features]

HttpA == Absolute("http", "a", "/", None)
HttpAFragment == Absolute("http", "a", "/", "f")
HttpsA == Absolute("https", "a", "/", None)

\* In a build without features and an environment without a timeout: every method
\* class, with and without a timeout, lazy and loaded; a text that is not a URL,
\* an https URL and a timeout no clock can hold.
PlainRequests ==
  {Ask(HttpA, "Post", FALSE, 1, FALSE, None, FALSE),
   Ask(HttpAFragment, "Get", FALSE, None, TRUE, None, FALSE),
   Ask(HttpA, "Head", FALSE, None, FALSE, None, FALSE),
   Ask(HttpA, "Patch", FALSE, 0, FALSE, None, FALSE),
   Ask(Absolute("other", "a", "/", None), "Get", FALSE, None, FALSE, None, FALSE),
   Ask(HttpsA, "Get", FALSE, None, FALSE, None, FALSE),
   Ask(HttpA, "Get", FALSE, 9, FALSE, None, FALSE)}

\* With all features and a timeout in the environment.
FullRequests ==
  {Ask(HttpA, "Put", TRUE, 1, FALSE, 2, TRUE), Ask(HttpA, "Delete", FALSE, None, FALSE, 2, TRUE),
   Ask(HttpsA, "Get", FALSE, None, FALSE, 2, TRUE), Ask(HttpsA, "Head", TRUE, 2, FALSE, 2, TRUE),
   Ask(Absolute("http", "tooLong", "/", None), "Get", FALSE, None, TRUE, 2, TRUE),
   Ask(Absolute("http", "aUnicode", "/", None), "Get", FALSE, None, FALSE, 2, TRUE)}

MCRequests == PlainRequests \cup FullRequests

MCStatuses == {200, 204, 302, 303}

===============================================================================
