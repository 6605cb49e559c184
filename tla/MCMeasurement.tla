--------------------------- MODULE MCMeasurement ----------------------------
(* Two tests, the first of two objects and the second of four.             *)
EXTENDS Measurement

MCTestSizes == (0 :> 2) @@ (1 :> 4)
=============================================================================
