--------------------------- MODULE MCTransformer ---------------------------
(* Two entities that may look two ways: a write may be torn between them,  *)
(* and a value may come back after another one.                            *)
EXTENDS Transformer, TLC

Symmetric == Permutations(Ids) \cup Permutations(Vals)
=============================================================================
