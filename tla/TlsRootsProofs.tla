---------------------------- MODULE TlsRootsProofs ----------------------------
(***************************************************************************)
(* Theorems about TlsRoots, for any number of requests and of calls of     *)
(* set_manual_roots, and for all lists of certificates.                    *)
(***************************************************************************)
EXTENDS TlsRoots, TLAPS

Inside == {"closure", "add"}

\* One request at a time runs the closure.
Single ==
  \A q, r \in Requests : pc[q] \in Inside /\ pc[r] \in Inside => q = r

\* What the running closure has gathered, and what it has left behind.
Gathered(certs) ==
  /\ certs # None
  /\ feature = "manual" => certs = manual
  /\ feature # "manual" => BuiltIn \subseteq certs /\ certs \subseteq Valid

Gathering ==
  /\ \A r \in Requests : pc[r] = "add" => taken /\ Gathered(store)
  /\ cell = "complete" => Gathered(config) /\ config \subseteq Valid

\* Who is ready has the complete cell's value.
Ready == \A r \in Requests : pc[r] = "ready" => cell = "complete" /\ got[r] = config

\* The closure is gone for good after a panic, and only then without a value.
Poison ==
  /\ \A r \in Requests : pc[r] = "panic" =>
       taken /\ cell # "complete" /\ \A q \in Requests : pc[q] # "add"
  /\ \A r \in Requests : pc[r] = "closure" /\ taken =>
       \E q \in Requests : pc[q] = "panic"
  /\ taken /\ cell = "incomplete" => \E q \in Requests : pc[q] = "panic"

\* MANUAL_ROOTS was empty before a request that found it empty asked.
Asked == \A r \in Requests : roots[r] # None => manual # None

\* Nobody panics without a reason, and a reason stays.
Reason ==
  \A r \in Requests : pc[r] = "panic" =>
    /\ feature = "manual"
    /\ \/ manual # None /\ ~(manual \subseteq Valid)
       \/ \E q \in Requests : pc[q] # "start" /\ roots[q] = None

IInv == /\ TypeOK /\ Single /\ Gathering /\ Ready /\ Poison /\ Asked
        /\ Reason

-------------------------------------------------------------------------------
\* Nothing has been set or asked for.
LEMMA InitIInv == Init => IInv
  BY RootsAssumption
  DEF Init, IInv, TypeOK, Store, Single, Inside, Gathering, Gathered, Ready, Poison,
      Asked, Reason

\* SetManualRoots keeps the invariant.
LEMMA SetManualRootsStep ==
  ASSUME IInv, NEW s \in Setters, SetManualRoots(s)
  PROVE  IInv'
<1> USE RootsAssumption DEF IInv, SetManualRoots, Goto
<1>1. TypeOK'
  BY DEF TypeOK, Store
<1>2. Single'
  BY DEF Single, Inside
<1>3. Gathering'
  BY DEF Gathering, Gathered
<1>4. Ready'
  BY DEF Ready
<1>5. Poison'
  BY DEF Poison
<1>6. Asked'
  BY DEF Asked
<1>7. Reason'
  BY DEF Reason
<1> QED
  BY <1>1, <1>2, <1>3, <1>4, <1>5, <1>6, <1>7

\* Ask keeps the invariant.
LEMMA AskStep ==
  ASSUME IInv, NEW r \in Requests, Ask(r)
  PROVE  IInv'
<1> USE RootsAssumption DEF IInv, Ask, Goto
<1>1. TypeOK'
  BY DEF TypeOK, Store
<1>2. Single'
  BY DEF Single, Inside
<1>3. Gathering'
  BY DEF Gathering, Gathered
<1>4. Ready'
  BY DEF Ready
<1>5. Poison'
  BY DEF Poison
<1>6. Asked'
  BY DEF Asked
<1>7. Reason'
  BY DEF Reason
<1> QED
  BY <1>1, <1>2, <1>3, <1>4, <1>5, <1>6, <1>7

\* Enter keeps the invariant.
LEMMA EnterStep ==
  ASSUME IInv, NEW r \in Requests, Enter(r)
  PROVE  IInv'
<1> USE RootsAssumption DEF IInv, Enter, Goto
<1>1. TypeOK'
  BY DEF TypeOK, Store
<1>2. Single'
  BY DEF TypeOK, Store, Single, Inside
<1>3. Gathering'
  BY DEF Gathering, Gathered
<1>4. Ready'
  BY DEF Ready
<1>5. Poison'
  BY DEF Poison
<1>6. Asked'
  BY DEF Asked
<1>7. Reason'
  BY DEF Reason
<1> QED
  BY <1>1, <1>2, <1>3, <1>4, <1>5, <1>6, <1>7

\* Use keeps the invariant.
LEMMA UseStep ==
  ASSUME IInv, NEW r \in Requests, Use(r)
  PROVE  IInv'
<1> USE RootsAssumption DEF IInv, Use, Goto
<1>1. TypeOK'
  BY DEF TypeOK, Store
<1>2. Single'
  BY DEF Single, Inside
<1>3. Gathering'
  BY DEF Gathering, Gathered
<1>4. Ready'
  BY DEF TypeOK, Store, Ready
<1>5. Poison'
  BY DEF Poison
<1>6. Asked'
  BY DEF Asked
<1>7. Reason'
  BY DEF Reason
<1> QED
  BY <1>1, <1>2, <1>3, <1>4, <1>5, <1>6, <1>7

\* Poisoned keeps the invariant.
LEMMA PoisonedStep ==
  ASSUME IInv, NEW r \in Requests, Poisoned(r)
  PROVE  IInv'
<1> USE RootsAssumption DEF IInv, Poisoned, Goto, Panic
<1>1. TypeOK'
  BY DEF TypeOK, Store, Single, Inside
<1>2. Single'
  BY DEF Single, Inside
<1>3. Gathering'
  BY DEF Gathering, Gathered
<1>4. Ready'
  BY DEF Ready, Poison
<1>5. Poison'
  BY DEF Poison
<1>6. Asked'
  BY DEF Asked
<1>7. Reason'
  BY DEF Poison, Reason
<1> QED
  BY <1>1, <1>2, <1>3, <1>4, <1>5, <1>6, <1>7

\* NoRoots keeps the invariant.
LEMMA NoRootsStep ==
  ASSUME IInv, NEW r \in Requests, NoRoots(r)
  PROVE  IInv'
<1> USE RootsAssumption DEF IInv, NoRoots, Goto, Panic
<1>1. TypeOK'
  BY DEF TypeOK, Store, Single, Inside
<1>2. Single'
  BY DEF Single, Inside
<1>3. Gathering'
  BY DEF Gathering, Gathered
<1>4. Ready'
  BY DEF Gathering, Gathered, Ready
<1>5. Poison'
  BY DEF TypeOK, Store, Gathering, Gathered, Poison
<1>6. Asked'
  BY DEF Asked
<1>7. Reason'
  BY DEF Asked, Reason
<1> QED
  BY <1>1, <1>2, <1>3, <1>4, <1>5, <1>6, <1>7

\* ReadRoots keeps the invariant.
LEMMA ReadRootsStep ==
  ASSUME IInv, NEW r \in Requests, ReadRoots(r)
  PROVE  IInv'
<1> USE RootsAssumption DEF IInv, ReadRoots, Goto
<1>1. TypeOK'
  BY DEF TypeOK, Store
<1>2. Single'
  BY DEF Single, Inside
<1>3. Gathering'
  BY DEF Gathering, Gathered
<1>4. Ready'
  BY DEF Ready
<1>5. Poison'
  BY DEF TypeOK, Store, Single, Inside, Poison
<1>6. Asked'
  BY DEF Asked
<1>7. Reason'
  BY DEF Reason
<1> QED
  BY <1>1, <1>2, <1>3, <1>4, <1>5, <1>6, <1>7

\* InvalidRoot keeps the invariant.
LEMMA InvalidRootStep ==
  ASSUME IInv, NEW r \in Requests, InvalidRoot(r)
  PROVE  IInv'
<1> USE RootsAssumption DEF IInv, InvalidRoot, Goto, Panic
<1>1. TypeOK'
  BY DEF TypeOK, Store, Single, Inside
<1>2. Single'
  BY DEF Single, Inside
<1>3. Gathering'
  BY DEF Gathering, Gathered
<1>4. Ready'
  BY DEF Gathering, Gathered, Ready
<1>5. Poison'
  BY DEF TypeOK, Store, Single, Inside, Gathering, Gathered, Poison
<1>6. Asked'
  BY DEF Asked
<1>7. Reason'
  BY DEF Gathering, Gathered, Reason
<1> QED
  BY <1>1, <1>2, <1>3, <1>4, <1>5, <1>6, <1>7

\* Build keeps the invariant.
LEMMA BuildStep ==
  ASSUME IInv, NEW r \in Requests, Build(r)
  PROVE  IInv'
<1> USE RootsAssumption DEF IInv, Build, Goto
<1>1. TypeOK'
  BY DEF TypeOK, Store, Single, Inside
<1>2. Single'
  BY DEF Single, Inside
<1>3. Gathering'
  BY DEF Gathering, Gathered
<1>4. Ready'
  BY DEF TypeOK, Store, Ready
<1>5. Poison'
  BY DEF Poison
<1>6. Asked'
  BY DEF Asked
<1>7. Reason'
  BY DEF Reason
<1> QED
  BY <1>1, <1>2, <1>3, <1>4, <1>5, <1>6, <1>7

\* The invariant holds in every state that can be reached.
THEOREM Invariance == Spec => []IInv
<1>1. Init => IInv
  BY InitIInv
<1>2. IInv /\ [Next]_vars => IInv'
  <2> SUFFICES ASSUME IInv, [Next]_vars PROVE IInv'
    OBVIOUS
  <2>1. ASSUME NEW s \in Setters, SetManualRoots(s) PROVE IInv'
    BY <2>1, SetManualRootsStep
  <2>2. ASSUME NEW r \in Requests, Ask(r) \/ Initialise(r) PROVE IInv'
    BY <2>2, AskStep, EnterStep, UseStep, PoisonedStep, NoRootsStep, ReadRootsStep,
       InvalidRootStep, BuildStep DEF Initialise
  <2>3. CASE UNCHANGED vars
    BY <2>3 DEF vars, IInv, TypeOK, Store, Single, Inside, Gathering, Gathered, Ready, Poison,
       Asked, Reason
  <2> QED
    BY <2>1, <2>2, <2>3 DEF Next, Terminated
<1> QED
  BY <1>1, <1>2, PTL DEF Spec

\* Every variable keeps its type, the cell has a value exactly when it is
\* complete, and is busy exactly while a request runs the closure of CONFIG.
THEOREM RootsTyping == Spec => []TypeOK
<1>1. IInv => TypeOK
  BY DEF IInv
<1> QED
  BY <1>1, Invariance, PTL

\* All https requests of a process trust the same roots, those of the first
\* call of set_manual_roots or the built-in ones, however they interleave.
THEOREM TrustIsOne == Spec => []OneTrust
<1>1. IInv => OneTrust
  BY DEF IInv, OneTrust, Ready, Gathering, Gathered
<1> QED
  BY <1>1, Invariance, PTL

\* With usable roots in place before the first request asks for CONFIG, no
\* request panics.
THEOREM RootsComeFirst == Spec => []RootsFirst
<1>1. IInv => RootsFirst
  BY DEF IInv, RootsFirst, RootsInTime, Reason
<1> QED
  BY <1>1, Invariance, PTL

\* After a panic in CONFIG no request gets a connector any more.
THEOREM PanicStaysFinal == Spec => PanicIsFinal
<1> DEFINE Step == \A r \in Requests : pc[r] = "panic" =>
                     \A q \in Requests : pc[q] # "ready" => pc'[q] # "ready"
<1>1. IInv /\ [Next]_vars => [Step]_vars
  <2> SUFFICES ASSUME IInv, Next,
                      NEW r \in Requests, pc[r] = "panic",
                      NEW q \in Requests, pc[q] # "ready"
               PROVE  pc'[q] # "ready"
    OBVIOUS
  <2>1. cell # "complete" /\ \A p \in Requests : pc[p] # "add"
    BY DEF IInv, Poison
  <2>2. ASSUME NEW s \in Setters, SetManualRoots(s) PROVE pc'[q] # "ready"
    BY <2>2 DEF SetManualRoots, Goto, IInv, TypeOK
  <2>3. ASSUME NEW t \in Requests, Ask(t) \/ Initialise(t) PROVE pc'[q] # "ready"
    BY <2>1, <2>3 DEF Ask, Initialise, Enter, Use, Poisoned, NoRoots, ReadRoots, InvalidRoot,
       Build, Panic, Goto, IInv, TypeOK
  <2> QED
    BY <2>2, <2>3 DEF Next, Terminated, vars
<1> QED
  BY <1>1, Invariance, PTL DEF Spec, PanicIsFinal

===============================================================================
