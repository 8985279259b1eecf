------------------------------ MODULE MCRefSet ------------------------------
(* Two tables, two goroutines that call Start up to twice each, and two    *)
(* that call Close.  Nothing distinguishes the members of a kind.          *)
EXTENDS RefSet, TLC

Symmetric == Permutations(Tables) \cup Permutations(Closers) \cup Permutations(Starters)
=============================================================================
