------------------------------ MODULE MCReplanFSM ------------------------------
(***************************************************************************)
(* Instances of ReplanFSM for TLC.  With MaxFail = 2 a single failure does *)
(* not end in an emergency and two do; with Duration = 3 the first two     *)
(* samples are the two thirds that are checked.  Timers may be two ticks   *)
(* late, which the freeze update notices (MaxStep = 1), and AwayAt = 1     *)
(* leaves just that much of a trajectory.                                  *)
(***************************************************************************)
EXTENDS ReplanFSM

MCModes == {"MANUAL_TARGET", "PRESET_TARGET", "REFERENCE_PATH"}
MCReference == {"REFERENCE_PATH"}
================================================================================
