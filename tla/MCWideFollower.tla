--------------------------- MODULE MCWideFollower ---------------------------
(* Two stations, five ticks of data in chunks of two, one station per      *)
(* request: chunks that start between the stations' own intervals, and     *)
(* requests of one chunk of which one fails.                               *)
EXTENDS WideFollower, TLC

Symmetric == Permutations(Stations)
=============================================================================
