----------------------------- MODULE RefRecord -----------------------------
(***************************************************************************)
(* The documents of a reference collection as ingest/reftable reads them   *)
(* (record.go), and what each of them contributes to a table.              *)
(***************************************************************************)
EXTENDS Integers

CONSTANTS
  Keys,       \* the values of the grouping field, ordered as the bridge orders them
  Values,     \* decoded payloads
  Revisions,  \* the documents that may be written to the collection
  NoValue,    \* the table has no entry for a key
  NoRev       \* no document: of a key, or being handled

(* "refused" stands for a document whose schema or op the table does not   *)
(* accept, "malformed" for one parseRecord rejects.                        *)
Kinds == {"upsert", "delete", "refused", "malformed"}

(* ts is the publisher's event time; 0 is a document without a usable one, *)
(* which parseRecord leaves at the zero time.                              *)
Revision == [key : Keys, ts : Nat, kind : Kinds, val : Values]

ASSUME RecordAssumption ==
  /\ Keys \subseteq Nat \ {0}
  /\ Revisions \subseteq Revision
  /\ NoValue \notin Values
  /\ NoRev \notin Revisions

ParseRecord(r) == r.kind # "malformed"
Accepts(r)     == r.kind # "refused"
IsDelete(r)    == r.kind = "delete"

(* What a walk puts in the table it builds: tombstones and documents it    *)
(* skips contribute neither a value nor a stamp.                           *)
Installs(r) == r # NoRev /\ ParseRecord(r) /\ Accepts(r) /\ ~IsDelete(r)
ValueOf(r)  == IF Installs(r) THEN r.val ELSE NoValue
StampOf_Any(r) == IF r = NoRev THEN 0 ELSE r.ts
StampOf(r)  == IF Installs(r) THEN r.ts ELSE 0

(* What apply leaves for the key of a document it accepts.                 *)
AppliedValue(r) == IF IsDelete(r) THEN NoValue ELSE r.val

Empty    == [k \in Keys |-> NoValue]
NoStamps == [k \in Keys |-> 0]
=============================================================================
