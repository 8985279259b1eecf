----------------------------- MODULE MCTopology -----------------------------
(* A notifier, a collector that publishes by itself, a transformer, and a  *)
(* service that gets what the notifier publishes in vain, what the         *)
(* transformer rejects and what the collector publishes.                   *)
EXTENDS Topology

CONSTANTS notifier, collector, transformer, rest, raw, other, qt, qd, m1, m2

Nothing == [exchange |-> None, type |-> "fanout", declare |-> FALSE,
            alternate |-> None, alternateType |-> "",
            deadLetter |-> None, deadLetterType |-> "",
            queue |-> None, declareQueue |-> FALSE,
            bind |-> None, key |-> "", noRequeue |-> TRUE]

MCOptions == [s \in {notifier, collector, transformer, rest} |->
  CASE s = notifier -> [Nothing EXCEPT !.exchange = raw, !.type = "topic", !.declare = TRUE,
                                !.alternate = other]
    [] s = collector -> [Nothing EXCEPT !.exchange = other]
    [] s = transformer -> [Nothing EXCEPT !.queue = qt, !.declareQueue = TRUE, !.bind = raw,
                                !.key = "k", !.deadLetter = other, !.deadLetterType = "fanout"]
    [] s = rest -> [Nothing EXCEPT !.queue = qd, !.declareQueue = TRUE, !.bind = other,
                                !.noRequeue = FALSE]]

(* The notifier publishes to a direct exchange.                            *)
DirectOptions == [MCOptions EXCEPT ![notifier].type = "direct"]

MCFrom == [m \in {m1, m2} |-> IF m = m1 THEN notifier ELSE collector]
MCDest == [m \in {m1, m2} |-> "k"]
=============================================================================
