------------------------------- MODULE MCLock -------------------------------
EXTENDS DistLock, TLC

CONSTANTS p1, p2

MCProcs == {p1, p2}

(* Only the difference between the clocks counts.                          *)
OneAhead == {p1 :> 0 @@ p2 :> 1}
=============================================================================
