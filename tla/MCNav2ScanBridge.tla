--------------------------- MODULE MCNav2ScanBridge ---------------------------
(* Model checking of Nav2ScanBridge: two goal poses, so that a goal may be    *)
(* repeated or changed; the liveness properties rule symmetry out.            *)
EXTENDS Nav2ScanBridge
===============================================================================
