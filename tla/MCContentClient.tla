--------------------------- MODULE MCContentClient ---------------------------
(* Two processes with two tags, one of which then pushes two values: the    *)
(* fewest for syncers that overtake one another and for a value that        *)
(* changes and changes back while an attempt is late.                       *)
EXTENDS ContentClient
=============================================================================
