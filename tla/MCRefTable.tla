----------------------------- MODULE MCRefTable -----------------------------
(* A small instance of RefTable for TLC.                                   *)
EXTENDS RefTable

Rev(k, t, kind, v) == [key |-> k, ts |-> t, kind |-> kind, val |-> v]

(* Three keys, one more than a walk of two pages of one document reads.    *)
MCKeys == {1, 2, 3}
MCValues == {"a", "b"}

(* Key 1 is edited, deleted and backfilled, key 2 gets a refused document. *)
MCRevisions ==
  {Rev(1, 1, "upsert", "a"), Rev(1, 2, "upsert", "b"), Rev(1, 2, "delete", "a"),
   Rev(2, 2, "refused", "b"), Rev(3, 1, "upsert", "b")}
=============================================================================
