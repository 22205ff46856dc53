------------------------------- MODULE MCMux --------------------------------
(***************************************************************************)
(* For TLC: two transports; one sends two frames, the other half of one.   *)
(***************************************************************************)
EXTENDS Mux

CONSTANTS a, b

MCMaxPieces == [c \in Children |-> IF c = a THEN 4 ELSE 1]
=============================================================================
