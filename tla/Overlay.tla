------------------------------ MODULE Overlay ------------------------------
(***************************************************************************)
(* What ingest/merge computes, without sharing and without order: a pure   *)
(* function of documents.  The reference that Merge is checked against.    *)
(*                                                                         *)
(* A document is the function from the paths it has to the label there:    *)
(* an object, an array, null or a scalar.  A path is a sequence of steps,  *)
(* a name into an object or an index into an array.                        *)
(*                                                                         *)
(* The operators are total.  A rule whose destination leads through a      *)
(* scalar or the other kind of container fails, in Merge, where Overlay    *)
(* puts the container it needs; the two are compared where none fails.     *)
(***************************************************************************)
EXTENDS Naturals, Sequences, SequencesExt, TLC

Object  == [kind |-> "object"]
Array   == [kind |-> "array"]
Nil     == [kind |-> "nil"]
Leaf(x) == [kind |-> "leaf", is |-> x]

Name(n)  == [name |-> n]
Index(i) == [index |-> i]
IsIndex(step) == "index" \in DOMAIN step
Holder(step) == IF IsIndex(step) THEN Array ELSE Object

Over(f, g) == [x \in DOMAIN f \cup DOMAIN g |-> IF x \in DOMAIN f THEN f[x] ELSE g[x]]

-----------------------------------------------------------------------------
(* Documents *)

At(doc, path) ==
  [q \in {SubSeq(p, Len(path) + 1, Len(p)) : p \in {q \in DOMAIN doc : IsPrefix(path, q)}}
     |-> doc[path \o q]]

Under(path, part) ==
  [p \in {path \o q : q \in DOMAIN part} |-> part[SubSeq(p, Len(path) + 1, Len(p))]]

Without(doc, roots) ==
  [p \in {q \in DOMAIN doc : \A r \in roots : ~IsPrefix(r, q)} |-> doc[p]]

Ancestors(path) == {SubSeq(path, 1, i) : i \in 0 .. Len(path) - 1}
StepFrom(p, path) == path[Len(p) + 1]

(* The containers a path needs, and the nulls an array is grown with.      *)
Containers(path) == [p \in Ancestors(path) |-> Holder(StepFrom(p, path))]
Padding(path) ==
  LET grown == {p \in Ancestors(path) : IsIndex(StepFrom(p, path))} IN
  [q \in UNION {{Append(p, Index(i)) : i \in 0 .. StepFrom(p, path).index} : p \in grown} |-> Nil]

Graft(doc, path, part, roots) ==
  Over(Under(path, part), Over(Containers(path), Over(Without(doc, roots), Padding(path))))

-----------------------------------------------------------------------------
(* Rules *)

(* "Replace makes the record's value the destination outright."            *)
Replaced(doc, path, part) == Graft(doc, path, part, {path})

(* RFC 7386: what the patch names, outside of arrays, is merged when both  *)
(* sides are objects, removed when it is null, and replaced otherwise.     *)
Merged(doc, path, patch) ==
  LET named == {q \in DOMAIN patch : \A r \in Ancestors(q) : patch[r] = Object}
      met   == {q \in named : /\ patch[q] = Object
                              /\ path \o q \in DOMAIN doc /\ doc[path \o q] = Object}
      nulls == {q \in named : patch[q] = Nil} IN
  Graft(doc, path, Without(patch, nulls), {path \o q : q \in named \ met})

(* "Removing an element would shift fixed indices; not supported."         *)
Cleared(doc, path) ==
  IF path = <<>> \/ IsIndex(Last(path)) THEN doc ELSE Without(doc, {path})

(* "A src the record does not carry is skipped [...] A src the record      *)
(* carries as null is the way to say clear this."                          *)
Ruled(doc, rule, record) ==
  LET value == At(record, rule.src) IN
  IF value = <<>> THEN doc
  ELSE IF value[<<>>] = Nil THEN Cleared(doc, rule.dst)
  ELSE IF rule.policy = "replace" THEN Replaced(doc, rule.dst, value)
  ELSE Merged(doc, rule.dst, value)

Overlaid(doc, table, record) == FoldLeft(LAMBDA d, rule : Ruled(d, rule, record), doc, table)

(* A later source overwrites an earlier one.                               *)
OverlaidAll(doc, tables, records) ==
  FoldLeft(LAMBDA d, i : Overlaid(d, tables[i], records[i]), doc, [i \in 1 .. Len(tables) |-> i])

-----------------------------------------------------------------------------
(* Destinations *)

(* Neither leads through the other.                                        *)
Apart(p, q) == ~IsPrefix(p, q) /\ ~IsPrefix(q, p)

(* Where both lead they agree on what is an object and what an array.      *)
Alike(p, q) ==
  \A r \in Ancestors(p) \cap Ancestors(q) : Holder(StepFrom(r, p)) = Holder(StepFrom(r, q))
=============================================================================
