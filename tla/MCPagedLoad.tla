---------------------------- MODULE MCPagedLoad ----------------------------
(* Five entities on pages of two: three pages, the last one not full.      *)
EXTENDS PagedLoad

MCIds == 1 .. 5
=============================================================================
