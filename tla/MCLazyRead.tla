----------------------------- MODULE MCLazyRead -------------------------------
(* An instance of LazyRead for TLC.                                        *)
EXTENDS LazyRead

MCByte == {"a", "b", "c", "d", "e"}

\* No byte occurs twice, so that a byte out of its place is seen.
MCBodies == {<<>>, <<"a">>, <<"a", "b", "c">>, <<"a", "b", "c", "d", "e">>}

===============================================================================
