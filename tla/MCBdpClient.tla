---------------------------- MODULE MCBdpClient ----------------------------
(* Tokens that live for four ticks, a margin of two, which two requests of *)
(* one tick fit into, and six ticks, in which a token is renewed before    *)
(* and after it has run out.                                               *)
EXTENDS BdpClient, TLC

Symmetric == Permutations(Workers)
=============================================================================
