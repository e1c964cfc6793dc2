------------------------------ MODULE BodyStream ------------------------------
(***************************************************************************)
(* What a caller may rely on while it takes what follows the head with the *)
(* AsyncRead of a ResponseLazy: every byte comes from there, at most once  *)
(* and in order, and nothing comes after an error.  Bytes may be left out. *)
(***************************************************************************)
EXTENDS Naturals, Sequences

CONSTANT Byte

VARIABLES
  rest,    \* what follows the head, from where the reader is
  given,   \* what the caller has got
  over     \* an error has been reported

vars == <<rest, given, over>>

Init ==
  /\ rest \in Seq(Byte)
  /\ given = <<>>
  /\ over = FALSE

\* The reader moves past k bytes and hands out the first n of them.
Advance(n, k) ==
  /\ ~over
  /\ given' = given \o SubSeq(rest, 1, n)
  /\ rest' = SubSeq(rest, k + 1, Len(rest))
  /\ UNCHANGED over

Fail ==
  /\ ~over
  /\ over' = TRUE
  /\ rest' = <<>>
  /\ UNCHANGED given

Next == (\E k \in 1 .. Len(rest) : \E n \in 0 .. k : Advance(n, k)) \/ Fail

Spec == Init /\ [][Next]_vars

===============================================================================
