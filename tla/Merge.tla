------------------------------- MODULE Merge -------------------------------
(***************************************************************************)
(* merge.ApplyAll (ingest/merge): the rule tables of several sources laid  *)
(* over a target document, in place, one rule per step, and one step per   *)
(* call of MergePatch, per member it merges and per return.                *)
(*                                                                         *)
(* Maps and slices are shared when they are assigned, so documents live in *)
(* a heap: an object or array value is a reference to a cell, the function *)
(* from its steps to values.  A slice has no capacity to spare: growing it *)
(* makes a cell of its own.                                                *)
(* X_Defect is X with a plausible defect, used by no specification.        *)
(***************************************************************************)
EXTENDS Overlay, FiniteSets, FiniteSetsExt

CONSTANTS
  Targets,  \* documents a transformation may have produced
  Records,  \* reference records, per source a set
  Tables    \* rule tables, per source a set

Steps == [name : STRING] \cup [index : Nat]
Paths == Seq(Steps)
RuleKind == [src : Paths, dst : Paths, policy : {"merge", "replace"}]

(* The steps from a place in a document.                                   *)
StepsFrom(doc, p) == {s \in {Last(q) : q \in DOMAIN doc \ {<<>>}} : Append(p, s) \in DOMAIN doc}

(* Elements are numbered from 0 without a gap.                             *)
IsRow(steps) == IsFiniteSet(steps) /\ steps = {Index(i) : i \in 0 .. Cardinality(steps) - 1}

(* What encoding/json makes of an object.                                  *)
IsDocument(doc) ==
  /\ IsFiniteSet(DOMAIN doc) /\ DOMAIN doc \subseteq Paths
  /\ <<>> \in DOMAIN doc /\ doc[<<>>] = Object
  /\ \A p \in DOMAIN doc :
       /\ doc[p] \in {Object, Array, Nil} \/ doc[p].kind = "leaf"
       /\ p # <<>> => Front(p) \in DOMAIN doc /\ doc[Front(p)] = Holder(Last(p))
       /\ doc[p] = Array => IsRow(StepsFrom(doc, p))

ASSUME MergeAssumption ==
  /\ \A doc \in Targets : IsDocument(doc)
  /\ Tables \in Seq(SUBSET Seq(RuleKind)) /\ Tables # <<>>
  /\ DOMAIN Tables \subseteq DOMAIN Records
  /\ \A i \in DOMAIN Records : \A doc \in Records[i] : IsDocument(doc)

VARIABLES
  heap,
  tables,   \* per source, its compiled rules
  present,  \* sources that have a record for this entity
  src, nr,  \* the source and the rule to be applied next
  calls,    \* calls of MergePatch under way, the innermost first
  outcome,  \* "applying", "done", "failed" or "panicked"
  given     \* history: the target (0) and the records as they were decoded

mergeVars == <<heap, tables, present, src, nr, calls, outcome, given>>
inputs == <<tables, present, given>>
place  == <<src, nr, outcome>>

-----------------------------------------------------------------------------
(* The heap *)

Absent == [kind |-> "absent"]
Ref(kind, n, p) == [kind |-> kind, doc |-> n, node |-> p]
IsRef(v) == v.kind \in {"object", "array"}
Root(n) == Ref("object", n, <<>>)

Child(h, v, step) == IF IsRef(v) /\ step \in DOMAIN h[v] THEN h[v][step] ELSE Absent

Store(h, v, step, value) == [h EXCEPT ![v] = Over([s \in {step} |-> value], @)]
Drop(h, v, step)         == [h EXCEPT ![v] = [s \in DOMAIN @ \ {step} |-> @[s]]]

NoMembers == [s \in {} |-> Nil]
New(h, kind, cell) ==
  LET ref == Ref(kind, 1 + Max({a.doc : a \in DOMAIN h}), <<>>) IN
  [heap |-> Over([a \in {ref} |-> cell], h), val |-> ref]

(* A decoded document, a cell per object and array.                        *)
Decoded(n, doc, p) == IF doc[p] \in {Object, Array} THEN Ref(doc[p].kind, n, p) ELSE doc[p]
Content(n, doc, p) == [s \in StepsFrom(doc, p) |-> Decoded(n, doc, Append(p, s))]
Cells(n, doc) == {Decoded(n, doc, p) : p \in {q \in DOMAIN doc : doc[q] \in {Object, Array}}}

Decode(docs) ==
  [a \in UNION {Cells(n, docs[n]) : n \in DOMAIN docs} |-> Content(a.doc, docs[a.doc], a.node)]

-----------------------------------------------------------------------------
(* Paths *)

Get(h, path, v) ==
  LET at[i \in 0 .. Len(path)] == IF i = 0 THEN v ELSE Child(h, at[i - 1], path[i])
  IN  at[Len(path)]

Grown(h, v, i) ==
  IF Cardinality(DOMAIN h[v]) > i THEN [heap |-> h, val |-> v]
  ELSE New(h, "array", Over(h[v], [s \in {Index(j) : j \in 0 .. i} |-> Nil]))

Filled_NotNull(h, v, step, next) ==
  LET new == New(h, Holder(next).kind, NoMembers) IN
  IF Child(h, v, step) = Absent THEN [heap |-> Store(new.heap, v, step, new.val), val |-> new.val]
  ELSE [heap |-> h, val |-> Child(h, v, step)]

Filled_Always(h, v, step, next) ==
  LET new == New(h, Holder(next).kind, NoMembers) IN
  [heap |-> Store(new.heap, v, step, new.val), val |-> new.val]

Filled(h, v, step, next) ==
  LET new == New(h, Holder(next).kind, NoMembers) IN
  IF Child(h, v, step) \in {Absent, Nil}
    THEN [heap |-> Store(new.heap, v, step, new.val), val |-> new.val]
  ELSE [heap |-> h, val |-> Child(h, v, step)]

Stops(h, v, step) == v.kind # Holder(step).kind \/ (IsIndex(step) /\ Child(h, v, step) = Absent)

Stuck(h) == [heap |-> h, val |-> Absent]

Descend(h, v, step, next) ==
  LET filled == Filled(h, v, step, next)
      grown  == Grown(filled.heap, filled.val, next.index) IN
  IF Stops(h, v, step) THEN Stuck(h)
  ELSE IF IsIndex(step) \/ ~IsIndex(next) THEN filled
  ELSE IF filled.val.kind # "array" THEN Stuck(filled.heap)
  ELSE [heap |-> Store(grown.heap, v, step, grown.val), val |-> grown.val]

Walked(h, path, root) ==
  LET at[i \in 0 .. Len(path) - 1] ==
        IF i = 0 THEN [heap |-> h, val |-> root]
        ELSE LET was == at[i - 1] IN Descend(was.heap, was.val, path[i], path[i + 1])
  IN  at[Len(path) - 1]

Set(h, path, root, value) ==
  IF path = <<>>
    THEN IF value.kind = "object"
           THEN [heap |-> [h EXCEPT ![root] = Over(h[value], @)], end |-> "ok"]
           ELSE [heap |-> h, end |-> "failed"]
    ELSE LET parent == Walked(h, path, root)
             last   == path[Len(path)] IN
         IF parent.val.kind # Holder(last).kind
           THEN [heap |-> parent.heap, end |-> "failed"]
         ELSE IF IsIndex(last) /\ Child(parent.heap, parent.val, last) = Absent
           THEN [heap |-> parent.heap, end |-> "panicked"]
         ELSE [heap |-> Store(parent.heap, parent.val, last, value), end |-> "ok"]

Delete_Null(h, path, root) ==
  LET container == Get(h, Front(path), root) IN
  IF path = <<>> \/ IsIndex(Last(path)) \/ container.kind # "object" THEN h
  ELSE Store(h, container, Last(path), Nil)

Delete(h, path, root) ==
  LET container == Get(h, Front(path), root) IN
  IF path = <<>> \/ IsIndex(Last(path)) \/ container.kind # "object" THEN h
  ELSE Drop(h, container, Last(path))

-----------------------------------------------------------------------------
(* Tables *)

(* What Compile accepts: at least one rule, and one source per             *)
(* destination.                                                            *)
Compiles(table) ==
  /\ table # <<>>
  /\ \A i, j \in DOMAIN table : table[i].dst = table[j].dst => i = j

Rule  == tables[src][nr]
Value == Get(heap, Rule.src, Root(src))

Applying == outcome = "applying" /\ src \in present /\ calls = <<>>

NextRule ==
  IF nr < Len(tables[src]) THEN nr' = nr + 1 /\ UNCHANGED <<src, outcome>>
  ELSE /\ nr' = 1
       /\ IF src < Len(tables) THEN src' = src + 1 /\ UNCHANGED outcome
          ELSE outcome' = "done" /\ UNCHANGED src

SkipSource ==
  /\ outcome = "applying" /\ src \notin present
  /\ IF src < Len(tables) THEN src' = src + 1 /\ UNCHANGED outcome
     ELSE outcome' = "done" /\ UNCHANGED src
  /\ UNCHANGED <<heap, nr, calls, inputs>>

SkipRule ==
  /\ Applying /\ Value = Absent
  /\ NextRule
  /\ UNCHANGED <<heap, calls, inputs>>

Clear ==
  /\ Applying /\ Value = Nil
  /\ heap' = Delete(heap, Rule.dst, Root(0))
  /\ NextRule
  /\ UNCHANGED <<calls, inputs>>

Assign(value) ==
  LET set == Set(heap, Rule.dst, Root(0), value) IN
  /\ heap' = set.heap
  /\ IF set.end = "ok" THEN NextRule ELSE outcome' = set.end /\ UNCHANGED <<src, nr>>

Outright_NoCopy ==
  Rule.policy = "replace" \/ Value.kind # "object" \/ Get(heap, Rule.dst, Root(0)).kind # "object"
Outright == Rule.policy = "replace" \/ Value.kind # "object"

Replace ==
  /\ Applying /\ Value \notin {Absent, Nil} /\ Outright
  /\ Assign(Value)
  /\ UNCHANGED <<calls, inputs>>

-----------------------------------------------------------------------------
(* Merge patch.  A call merges the members left of its patch into an       *)
(* object, in any order, as a Go map is ranged over; it returns that       *)
(* object to the member of its caller that it is for.                      *)

Call(target, patch, for, callers) ==
  LET made == New(heap, "object", NoMembers)
      Frame(into) == [into |-> into, patch |-> patch, left |-> DOMAIN heap[patch], for |-> for] IN
  \/ /\ target.kind = "object"
     /\ calls' = <<Frame(target)>> \o callers
     /\ UNCHANGED heap
  \/ /\ target.kind # "object"
     /\ calls' = <<Frame(made.val)>> \o callers
     /\ heap' = made.heap

MergeObject ==
  /\ Applying /\ Value \notin {Absent, Nil} /\ ~Outright
  /\ Call(Get(heap, Rule.dst, Root(0)), Value, Absent, <<>>)
  /\ UNCHANGED <<place, inputs>>

Merging == outcome = "applying" /\ calls # <<>>

MergeMember(k) ==
  LET call    == Head(calls)
      member  == Child(heap, call.patch, k)
      callers == <<[call EXCEPT !.left = @ \ {k}]>> \o Tail(calls) IN
  /\ \/ /\ member.kind = "object"
        /\ Call(Child(heap, call.into, k), member, k, callers)
     \/ /\ member.kind # "object"
        /\ calls' = callers
        /\ heap' = CASE member = Absent -> heap
                     [] member = Nil    -> Drop(heap, call.into, k)
                     [] OTHER           -> Store(heap, call.into, k, member)
  /\ UNCHANGED <<place, inputs>>

Return ==
  LET call == Head(calls) IN
  /\ Merging /\ call.left = {}
  /\ calls' = Tail(calls)
  /\ IF calls' = <<>> THEN Assign(call.into)
     ELSE /\ heap' = Store(heap, Head(calls').into, call.for, call.into)
          /\ UNCHANGED place
  /\ UNCHANGED inputs

-----------------------------------------------------------------------------
(* A member of each of the sets.                                           *)
OneOfEach(sets) ==
  {f \in [DOMAIN sets -> UNION {sets[i] : i \in DOMAIN sets}] : \A i \in DOMAIN sets : f[i] \in sets[i]}

Compiled == {t \in OneOfEach(Tables) : \A i \in DOMAIN t : Compiles(t[i])}
Held     == OneOfEach(Records)

MergeInit ==
  /\ tables \in Compiled
  /\ present \in SUBSET DOMAIN Tables
  /\ \E target \in Targets, records \in Held :
        given = [i \in 0 .. Len(Tables) |-> IF i = 0 THEN target ELSE records[i]]
  /\ heap = Decode(given)
  /\ src = 1 /\ nr = 1 /\ calls = <<>> /\ outcome = "applying"

MergeNext ==
  \/ SkipSource \/ SkipRule \/ Clear \/ Replace \/ MergeObject \/ Return
  \/ Merging /\ \E k \in Head(calls).left : MergeMember(k)

MergeSpec == MergeInit /\ [][MergeNext]_mergeVars

-----------------------------------------------------------------------------
(* Properties *)

(* The document a value has become, down to a depth.                       *)
Doc(v, depth) ==
  LET paths[d \in 0 .. depth] ==
        IF d = 0 THEN {<<>>}
        ELSE paths[d - 1] \cup
             UNION {LET at == Get(heap, p, v) IN
                    IF IsRef(at) THEN {Append(p, s) : s \in DOMAIN heap[at]} ELSE {}
                      : p \in paths[d - 1]} IN
  [p \in paths[depth] |-> LET at == Get(heap, p, v) IN
                          IF IsRef(at) THEN [kind |-> at.kind] ELSE at]

Depth == 5
Target == Doc(Root(0), Depth)
Laid == [i \in DOMAIN tables |-> IF i \in present THEN tables[i] ELSE <<>>]

(* Every reference is to a cell, and an array has no gaps; every other     *)
(* variable holds a value of its kind, a call of MergePatch two objects.   *)
HeapOK(h) ==
  /\ DOMAIN h \subseteq [kind : {"object", "array"}, doc : Nat, node : Paths]
  /\ \A a \in DOMAIN h :
       /\ DOMAIN h[a] \subseteq Steps
       /\ a.kind = "array" => IsRow(DOMAIN h[a])
       /\ \A s \in DOMAIN h[a] : h[a][s] # Absent /\ (IsRef(h[a][s]) => h[a][s] \in DOMAIN h)

IsObject(v) == v \in DOMAIN heap /\ v.kind = "object"

MergeTypeOK ==
  /\ HeapOK(heap)
  /\ \A n \in DOMAIN given : IsDocument(given[n]) /\ IsObject(Root(n))
  /\ DOMAIN given = 0 .. Len(tables) /\ present \subseteq DOMAIN tables
  /\ tables \in Seq(Seq(RuleKind))
  /\ src \in DOMAIN tables /\ nr \in DOMAIN tables[src]
  /\ outcome \in {"applying", "done", "failed", "panicked"}
  /\ calls \in Seq([into : DOMAIN heap, patch : DOMAIN heap, left : SUBSET Steps,
                    for : Steps \cup {Absent}])
  /\ \A n \in DOMAIN calls :
       /\ IsObject(calls[n].into) /\ IsObject(calls[n].patch)
       /\ n < Len(calls) => calls[n].for # Absent

(* The result is "a pure function of (target, records, rules)", the one of *)
(* Overlay, which applies the rules in the order they are listed: nothing  *)
(* is lost that no record names, null removes at every depth, of           *)
(* destinations within one another the later rule decides, and no rule     *)
(* sees what another one has done to shared cells.  Of tables whose rules  *)
(* read apart from each other: MCMerge!Rereading has some that do not.     *)
OverlayIsPure == outcome = "done" => Target = OverlaidAll(given[0], Laid, given)

(* "Because destinations are unique, the order rules are listed in does    *)
(* not affect the result."  Unique as Compile understands it: no two are   *)
(* the same, but one may lead through the other.                           *)
OrderIsIrrelevant ==
  outcome = "done" =>
    Target = OverlaidAll(given[0], [i \in DOMAIN Laid |-> Reverse(Laid[i])], given)

(* A path leads through a value, neither missing nor null, that its next   *)
(* step does not apply to.                                                 *)
Obstructed(path) ==
  \E p \in Ancestors(path) :
    LET met == Get(heap, p, Root(0)) IN
    met \notin {Absent, Nil} /\ Stops(heap, met, StepFrom(p, path))

(* An overlay fails only where the target, as the failed rule left it, is  *)
(* in the way of the rule's destination, or where a value that is no       *)
(* object is to become the document.                                       *)
FailsWhereBlocked ==
  outcome = "failed" =>
    IF Rule.dst = <<>> THEN Value.kind # "object" ELSE Obstructed(Rule.dst)

(* But for an array directly in an array nothing panics, whatever document *)
(* the path leads through.                                                 *)
OnlyNestedArraysPanic ==
  outcome = "panicked" =>
    \E i \in 2 .. Len(Rule.dst) : IsIndex(Rule.dst[i - 1]) /\ IsIndex(Rule.dst[i])

(* An overlay that does not come to its end was stopped by the target or   *)
(* by the shape of a destination, never by what it did itself.             *)
FailureIsExplained == FailsWhereBlocked /\ OnlyNestedArraysPanic

(* A target that an overlay fails on is as the rules before the failed one *)
(* have left it, but for containers and nulls on the way to its            *)
(* destination, in places that were missing or null: nothing that was      *)
(* there is lost, and nothing of the failed rule's value is written.       *)
LaidBefore ==
  [i \in DOMAIN Laid |-> IF i < src THEN Laid[i]
                         ELSE IF i = src THEN SubSeq(Laid[i], 1, nr - 1) ELSE <<>>]

FailureKeepsTheRest ==
  outcome = "failed" =>
    LET before == OverlaidAll(given[0], LaidBefore, given)
        filled == Over(Containers(Rule.dst), Padding(Rule.dst)) IN
    /\ \A p \in DOMAIN before : p \in DOMAIN Target /\ (before[p] # Nil => Target[p] = before[p])
    /\ \A p \in DOMAIN Target :
         \/ p \in DOMAIN before /\ Target[p] = before[p]
         \/ p \in DOMAIN filled /\ Target[p] = filled[p]

(* A record can only be changed through what a rule shared with the        *)
(* target: the object or array that replaced something, or an array among  *)
(* what was merged.  All else that is merged is copied, and a record that  *)
(* no rule has shared is as it was decoded, down to the last cell.         *)
Shared(i) ==
  \E k \in DOMAIN tables[i], p \in DOMAIN given[i] :
    /\ IsPrefix(tables[i][k].src, p)
    /\ given[i][p] = Array \/ (tables[i][k].policy = "replace" /\ given[i][p] = Object)

Untouched(i) == \A a \in Cells(i, given[i]) : heap[a] = Content(i, given[i], a.node)

OnlySharedRecordsChange ==
  \A i \in DOMAIN tables : Untouched(i) \/ (i \in present /\ Shared(i))

(* The overlay reads records, which the reference table goes on serving,   *)
(* and changes only the target: its result is "a pure function of (target, *)
(* records, rules)".                                                       *)
RecordsAreOnlyRead == \A i \in DOMAIN tables : Untouched(i)

(* "Arrays are grown with nils up to a fixed index."                       *)
NothingPanics == outcome # "panicked"

(* "Replace makes the record's value the destination outright, objects     *)
(* included."                                                              *)
ReplaceOwnsTheDestination ==
  (outcome = "done" /\ Len(tables) = 1 /\ Len(tables[1]) = 1 /\ 1 \in present) =>
    LET rule == tables[1][1]
        value == At(given[1], rule.src) IN
    (rule.policy = "replace" /\ value # <<>> /\ value[<<>>] # Nil) => At(Target, rule.dst) = value
=============================================================================
