----------------------------- MODULE MCGridMap -----------------------------
(* A map of three by two cells, inflated by one cell along each axis, that  *)
(* follows a sensor along a corridor, aside, and out of the whole map.     *)
EXTENDS GridMap

MCAxes == 1 .. 2
MCSize == <<3, 2>>
MCOffsets == {<<0, 0>>, <<1, 0>>, <<-1, 0>>, <<0, 1>>, <<0, -1>>}
MCMiss == -1
MCRange == <<0, 1>>
MCStart == <<0, 0>>
MCRays == {<<0, 0>>, <<1, 0>>, <<1, 1>>, <<4, 0>>}
============================================================================
