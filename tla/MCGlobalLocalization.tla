------------------------- MODULE MCGlobalLocalization -------------------------
(* Model checking of GlobalLocalization: fitness 0 is below, 1 above and 2    *)
(* certain; the two thresholds are equal, as the launch file sets them.       *)
EXTENDS GlobalLocalization
===============================================================================
