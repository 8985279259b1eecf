------------------------- MODULE MCStationFollower -------------------------
(* Three stations of one type and one of another; the zero time lies a few *)
(* ticks before the starting point, so that a station never elaborated     *)
(* fills a bucket of its own.                                              *)
EXTENDS StationFollower

MCTypeOf == [s \in Stations |-> IF s = "s4" THEN "u" ELSE "t"]
=============================================================================
