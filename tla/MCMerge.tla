------------------------------ MODULE MCMerge ------------------------------
(***************************************************************************)
(* Documents with two members of up to two levels, tables of up to two     *)
(* rules: destinations that are members, members of members and array      *)
(* elements, each with both policies.                                      *)
(***************************************************************************)
EXTENDS Merge

Only(label) == <<>> :> label
Member(n, doc) == Under(<<Name(n)>>, doc)
Element(i, doc) == Under(<<Index(i)>>, doc)

(* {"a": x, "b": y}, where a member may be missing.                        *)
Members(x, xs, y, ys) ==
  {Member(x, d) @@ Member(y, e) @@ Only(Object) : d \in xs \cup {<<>>}, e \in ys \cup {<<>>}}

One    == Only(Leaf(1))
Two    == Only(Leaf(2))
Null   == Only(Nil)
Empty  == Only(Object)
Pair   == Member("b", One) @@ Member("c", Null) @@ Empty
Nested == Member("b", Member("c", Two) @@ Empty) @@ Empty
List   == Element(0, Member("b", Two) @@ Empty) @@ Only(Array)

MCTargets == Members("a", {Null, Pair, Nested, List}, "b", {})
MCRecords ==
  <<Members("x", {One, Null, Pair, List}, "y", {Nested}),
    {Member("x", Pair) @@ Only(Object)}>>
FewTargets == Members("a", {Pair}, "b", {One})
FewRecords ==
  LET records == {r \in Members("x", {Pair, List}, "y", {Two}) : <<Name("x")>> \in DOMAIN r} IN
  <<records, records>>

X == <<Name("x")>>
Y == <<Name("y")>>
A == <<Name("a")>>
B == <<Name("b")>>
First == Append(A, Index(0))
Destinations == {A, B, A \o B, First, Append(A, Index(1)), First \o B}

Rules(sources, destinations) ==
  [src : sources, dst : destinations, policy : {"merge", "replace"}]

(* Tables in which no rule reads what another one does.                    *)
ReadApart(rules) == {t \in rules \X rules : Apart(t[1].src, t[2].src)}

(* Pairs with destinations apart from each other, of which either order is *)
(* enough, and with one destination within the other, in both orders.      *)
Disjoint(rules) == {t \in ReadApart(rules) : Apart(t[1].dst, t[2].dst) /\ t[2].src = Y}
Within(rules)   == {t \in ReadApart(rules) : t[1].dst # t[2].dst /\ ~Apart(t[1].dst, t[2].dst)}

(* An array in an array, as a destination and on the way to one.           *)
Deep == Append(First, Index(0))

MCTables ==
  <<{<<r>> : r \in Rules({X, Y, X \o B}, Destinations)}
      \cup Disjoint(Rules({X, Y, X \o B}, Destinations))
      \cup Within(Rules({X, Y, X \o B}, {A, A \o B, First, First \o B}))
      \cup {<<r>> : r \in {q \in Rules({<<>>, X}, {<<>>}) : q.policy = "merge"}}
      \cup {<<r>> : r \in Rules({X}, {Deep, Deep \o B})},
    {<<r>> : r \in {q \in Rules({X}, {A, First}) : q.policy = "merge"}}>>
FewTables ==
  LET single == {<<r>> : r \in Rules({X, Y}, {A, B, First})} IN <<single, single>>

(* The document as a destination and as a source.                          *)
WholeDocument == <<{<<r>> : r \in Rules({<<>>, X}, {<<>>, A})}>>

(* A rule that reads again what another one wrote through.                 *)
Replacing(source, destination) == [src |-> source, dst |-> destination, policy |-> "replace"]
Rereading == <<{<<Replacing(X, A), Replacing(Y, A \o B), Replacing(X, B)>>}>>

(* Rules with one destination within the other.                            *)
Overlapping == <<Within(Rules({X, Y}, {A, A \o B}))>>
=============================================================================
