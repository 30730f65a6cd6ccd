----------------------------- MODULE MCNegPlate -----------------------------
(***************************************************************************)
(* A small instance of NegPlate: limits 2, 4, .. 12, one measurement in    *)
(* every interval, at the last limit, above it, far above it (the raw      *)
(* value is too) and below 0.                                              *)
(***************************************************************************)
EXTENDS NegPlate

MCInputs == {-1, 3, 5, 7, 9, 11, 12, 13, 25}
=============================================================================
