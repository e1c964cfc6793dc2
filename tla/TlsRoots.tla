------------------------------- MODULE TlsRoots -------------------------------
(***************************************************************************)
(* The two process-wide statics behind send_https: MANUAL_ROOTS, a         *)
(* OnceLock that set_manual_roots fills, and CONFIG, a once_cell Lazy that *)
(* the first https request initialises while the others wait for it.       *)
(* src/src/connection.rs.                                                  *)
(*                                                                         *)
(* Lazy takes its closure out before it runs it.  When the closure panics  *)
(* the cell is empty again, the waiting threads wake up, and the next one  *)
(* finds no closure: "Lazy instance has previously been poisoned".         *)
(***************************************************************************)
CONSTANTS
  None,
  Requests,    \* https requests, each on a thread of its own
  Setters,     \* calls of set_manual_roots, each on a thread of its own
  Certs,
  Valid,       \* the certificates a RootCertStore accepts
  CertLists,   \* what set_manual_roots may be called with
  BuiltIn,     \* TLS_SERVER_ROOTS
  Native,      \* what load_native_certs finds
  Features     \* builds: "manual", "webpki" or "probe" roots

ASSUME RootsAssumption ==
  /\ CertLists \subseteq SUBSET Certs
  /\ Valid \subseteq Certs
  /\ BuiltIn \subseteq Valid
  /\ Native \subseteq Certs
  /\ \A certs \in SUBSET Certs : certs # None
  /\ None \notin Requests
  /\ Requests \cap Setters = {}
  /\ Features \subseteq {"manual", "webpki", "probe"}

VARIABLES
  feature,   \* how the crate was built
  manual,    \* MANUAL_ROOTS
  cell,      \* the Lazy's cell: "incomplete", "running" or "complete"
  taken,     \* the Lazy's closure was taken out
  config,    \* CONFIG's root store once the cell is complete
  store,     \* root_certificates, the local of the running closure
  pc,        \* where each thread is
  got,       \* the config each request goes on with
  roots      \* history: MANUAL_ROOTS when the request asked for CONFIG

vars == <<feature, manual, cell, taken, config, store, pc, got, roots>>

Store == {None} \cup SUBSET Certs

TypeOK ==
  /\ feature \in Features
  /\ manual \in Store
  /\ cell \in {"incomplete", "running", "complete"}
  /\ taken \in BOOLEAN
  /\ config \in Store
  /\ store \in Store
  /\ pc \in [Requests \cup Setters ->
               {"start", "force", "closure", "add", "ready", "panic", "set"}]
  /\ got \in [Requests -> Store]
  /\ roots \in [Requests -> Store]
  /\ cell = "complete" <=> config # None
  /\ cell = "running" <=> \E r \in Requests : pc[r] \in {"closure", "add"}

Init ==
  /\ feature \in Features
  /\ manual = None
  /\ cell = "incomplete"
  /\ taken = FALSE
  /\ config = None
  /\ store = None
  /\ pc = [t \in Requests \cup Setters |-> "start"]
  /\ got = [r \in Requests |-> None]
  /\ roots = [r \in Requests |-> None]

Goto(t, stage) == pc' = [pc EXCEPT ![t] = stage]

\* Mutant: a later call replaces the roots.
SetManualRootsAgain(s) ==
  /\ pc[s] = "start"
  /\ \E certs \in CertLists : manual' = certs
  /\ Goto(s, "set")
  /\ UNCHANGED <<feature, cell, taken, config, store, got, roots>>

\* The first call fills the OnceLock, a later one is ignored.
SetManualRoots(s) ==
  /\ pc[s] = "start"
  /\ \E certs \in CertLists : manual' = IF manual = None THEN certs ELSE manual
  /\ Goto(s, "set")
  /\ UNCHANGED <<feature, cell, taken, config, store, got, roots>>

\* CONFIG.clone() of a request.
Ask(r) ==
  /\ pc[r] = "start"
  /\ roots' = [roots EXCEPT ![r] = manual]
  /\ Goto(r, "force")
  /\ UNCHANGED <<feature, manual, cell, taken, config, store, got>>

\* Mutant: a request that finds the cell busy starts a closure of its own.
EnterHasty(r) ==
  /\ pc[r] = "force"
  /\ cell # "complete"
  /\ cell' = "running"
  /\ Goto(r, "closure")
  /\ UNCHANGED <<feature, manual, taken, config, store, got, roots>>

\* get_or_init on an empty cell; while another thread initialises it, wait.
Enter(r) ==
  /\ pc[r] = "force"
  /\ cell = "incomplete"
  /\ cell' = "running"
  /\ Goto(r, "closure")
  /\ UNCHANGED <<feature, manual, taken, config, store, got, roots>>

Use(r) ==
  /\ pc[r] = "force"
  /\ cell = "complete"
  /\ got' = [got EXCEPT ![r] = config]
  /\ Goto(r, "ready")
  /\ UNCHANGED <<feature, manual, cell, taken, config, store, roots>>

\* Mutant: a panic leaves the cell busy.
PanicBusy(r) ==
  /\ Goto(r, "panic")
  /\ UNCHANGED cell

\* Unwinding empties the cell and wakes the waiting threads.
Panic(r) ==
  /\ Goto(r, "panic")
  /\ cell' = "incomplete"

Poisoned(r) ==
  /\ pc[r] = "closure"
  /\ taken
  /\ Panic(r)
  /\ UNCHANGED <<feature, manual, taken, config, store, got, roots>>

\* Mutant: the closure can be run again after a panic.
NoRootsRetry(r) ==
  /\ pc[r] = "closure"
  /\ ~taken
  /\ feature = "manual"
  /\ manual = None
  /\ Panic(r)
  /\ UNCHANGED <<feature, manual, taken, config, store, got, roots>>

\* The closure starts: it reads MANUAL_ROOTS, or takes the built-in roots.
NoRoots(r) ==
  /\ pc[r] = "closure"
  /\ ~taken
  /\ taken' = TRUE
  /\ feature = "manual"
  /\ manual = None
  /\ Panic(r)
  /\ UNCHANGED <<feature, manual, config, store, got, roots>>

ReadRoots(r) ==
  /\ pc[r] = "closure"
  /\ ~taken
  /\ taken' = TRUE
  /\ \/ feature = "manual" /\ manual # None /\ store' = manual
     \/ feature = "webpki" /\ store' = BuiltIn
     \/ feature = "probe" /\ store' = BuiltIn \cup (Native \cap Valid)
  /\ Goto(r, "add")
  /\ UNCHANGED <<feature, manual, cell, config, got, roots>>

\* One certificate the store does not accept is enough.
InvalidRoot(r) ==
  /\ pc[r] = "add"
  /\ ~(store \subseteq Valid)
  /\ Panic(r)
  /\ UNCHANGED <<feature, manual, taken, config, store, got, roots>>

Build(r) ==
  /\ pc[r] = "add"
  /\ store \subseteq Valid
  /\ config' = store
  /\ cell' = "complete"
  /\ got' = [got EXCEPT ![r] = store]
  /\ Goto(r, "ready")
  /\ UNCHANGED <<feature, manual, taken, store, roots>>

Terminated ==
  /\ \A t \in Requests \cup Setters : pc[t] \in {"ready", "panic", "set"}
  /\ UNCHANGED vars

\* Lazy::force.
Initialise(r) == \/ Enter(r) \/ Use(r) \/ Poisoned(r) \/ NoRoots(r) \/ ReadRoots(r)
                 \/ InvalidRoot(r) \/ Build(r)

Next == \/ \E s \in Setters : SetManualRoots(s)
        \/ \E r \in Requests : Ask(r) \/ Initialise(r)
        \/ Terminated

Spec == Init /\ [][Next]_vars

\* A thread that can go on does: the closure does not block, and a thread that
\* waits for the cell is woken up.
FairSpec == Spec /\ \A r \in Requests : SF_vars(Initialise(r))

-------------------------------------------------------------------------------
(* Properties.                                                             *)

\* However requests and calls of set_manual_roots interleave, all requests that
\* go on trust the same roots: the valid ones of a single call, with the
\* "manual" feature that of the first call ever made (MANUAL_ROOTS, CONFIG).
OneTrust ==
  \A r \in Requests : pc[r] = "ready" =>
    /\ got[r] = config
    /\ got[r] \subseteq Valid
    /\ feature = "manual" => got[r] = manual
    /\ feature # "manual" => BuiltIn \subseteq got[r]

\* If usable roots were in place before the first request asked for them, no
\* request panics, whatever is set later and however many requests race; with
\* built-in roots none ever does.
RootsInTime ==
  /\ manual # None
  /\ manual \subseteq Valid
  /\ \A r \in Requests : pc[r] # "start" => roots[r] # None

RootsFirst ==
  feature # "manual" \/ RootsInTime => \A r \in Requests : pc[r] # "panic"

\* A panic in CONFIG is for good: no request that asks after it gets a
\* connector, although roots may have been set in the meantime (Lazy).
PanicIsFinal ==
  [][\A r \in Requests : pc[r] = "panic" =>
       \A q \in Requests : pc[q] # "ready" => pc'[q] # "ready"]_vars

\* No request waits for ever for another one's initialisation, not even when
\* that one panics.
Served == \A r \in Requests : pc[r] = "force" ~> pc[r] \in {"ready", "panic"}

===============================================================================
