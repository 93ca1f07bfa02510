----------------------------- MODULE MCLocalPlanner -----------------------------
(***************************************************************************)
(* An instance of LocalPlanner for TLC.  Every timer and message may be up *)
(* to two ticks late.  On a trajectory of eleven ticks the bound between   *)
(* the clocks, six ticks when it arrives and ten after one change between  *)
(* turning and following, still says something.  The queues hold one       *)
(* message more than can arrive in two ticks from a timer that runs in     *)
(* each.  A second trajectory tells the newest from the one before.        *)
(***************************************************************************)
EXTENDS LocalPlanner
================================================================================
