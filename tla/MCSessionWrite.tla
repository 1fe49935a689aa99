------------------------- MODULE MCSessionWrite -------------------------
(***************************************************************************)
(* Values of the constants of SessionWrite for TLC.                        *)
(***************************************************************************)
EXTENDS SessionWrite, TLC

\* The calls of one session are interchangeable.
CallSymmetry == Permutations(Calls)
=============================================================================
