----------------------------- MODULE MCSportBridge -----------------------------
(* Model checking of SportBridge: positions on a line, one of them out of bounds *)
(* and two of them further apart than a jump.                                    *)
EXTENDS SportBridge

MCPositions == {0, 2, 3}
================================================================================
