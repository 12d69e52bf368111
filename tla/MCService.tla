-------------------------------- MODULE MCService -------------------------------
(* Service with two requests at a time and two pings a window of two ticks. *)
EXTENDS Service, TLC

CONSTANTS r1, r2

MCRequest == {r1, r2}

Symmetry == Permutations(MCRequest)
===============================================================================
