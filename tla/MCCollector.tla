---------------------------- MODULE MCCollector -----------------------------
(* A schedule and a trigger that has a span of its own.                    *)
EXTENDS Collector

CONSTANTS s1, s2
=============================================================================
