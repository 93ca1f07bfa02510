---------------------------- MODULE MCLivoxDriver ----------------------------
(* Model checking of LivoxDriver: lidar 1 is not in the configuration, and is *)
(* sampled when it announces itself again; lidar 2 is, but is not heard of    *)
(* while its ring runs full.                                                  *)
EXTENDS LivoxDriver

CONSTANTS a, b

MCConfigured == {2}
MCMaxInfo == <<2, 0>>
MCSends == <<{a, b}, {a}>>
==============================================================================
