------------------------------ MODULE SendPromise ------------------------------
(***************************************************************************)
(* What Request::send promises its caller, without hops, sockets or URLs:  *)
(* at most max_redirects redirections are followed, a timeout is reported  *)
(* only when the time is up and only as long as the head of the last       *)
(* response is missing, and nothing follows the outcome.                   *)
(***************************************************************************)
EXTENDS Naturals

CONSTANT MaxRedirects

VARIABLES
  phase,    \* "idle", "asking", "loading" the body, or "over"
  budget,   \* redirections that may still be followed
  clock,    \* "early", "due" at the deadline, "late" after it
  outcome   \* "none", "ok", "timeout" or "failed"

vars == <<phase, budget, clock, outcome>>

Init ==
  /\ phase = "idle"
  /\ budget = MaxRedirects
  /\ clock = "early"
  /\ outcome = "none"

Over(o) == phase' = "over" /\ outcome' = o

\* A timeout of zero is due at once.
Begin ==
  /\ phase = "idle"
  /\ phase' = "asking"
  /\ clock' \in {"early", "due"}
  /\ UNCHANGED <<budget, outcome>>

Follow ==
  /\ phase = "asking"
  /\ budget > 0
  /\ budget' = budget - 1
  /\ UNCHANGED <<phase, clock, outcome>>

\* A redirection to a scheme that was not compiled in uses up budget, too.
FollowNowhere ==
  /\ phase = "asking"
  /\ budget > 0
  /\ budget' = budget - 1
  /\ Over("failed")
  /\ UNCHANGED clock

Answer ==
  /\ phase = "asking"
  /\ phase' = "loading"
  /\ UNCHANGED <<budget, clock, outcome>>

TimeOut ==
  /\ phase = "asking"
  /\ clock # "early"
  /\ Over("timeout")
  /\ UNCHANGED <<budget, clock>>

Fail ==
  /\ phase \in {"idle", "asking", "loading"}
  /\ Over("failed")
  /\ UNCHANGED <<budget, clock>>

Return ==
  /\ phase \in {"asking", "loading"}
  /\ Over("ok")
  /\ UNCHANGED <<budget, clock>>

Pass ==
  /\ phase \in {"asking", "loading"}
  /\ \/ clock = "early" /\ clock' = "due"
     \/ clock = "due" /\ clock' = "late"
  /\ UNCHANGED <<phase, budget, outcome>>

Next == \/ Begin \/ Follow \/ FollowNowhere \/ Answer \/ TimeOut \/ Fail
        \/ Return \/ Pass

Spec == Init /\ [][Next]_vars

================================================================================
