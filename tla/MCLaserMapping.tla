---------------------------- MODULE MCLaserMapping ----------------------------
(* Model checking of LaserMapping: scans that end on a sample and between two, *)
(* and last_lidar_end_time_ before or after every sample to start with.        *)
EXTENDS LaserMapping

MCUninitialised == {0, 20}
===============================================================================
