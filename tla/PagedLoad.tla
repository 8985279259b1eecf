----------------------------- MODULE PagedLoad -----------------------------
(***************************************************************************)
(* clib.LoadExisting (cache.go): the entities of a collection of the       *)
(* Content API are loaded into a Cache, page by page, while others may add,*)
(* edit and delete entities between two requests.  Pages are cut by        *)
(* position from the order "rawsort" asks for: a total order on Id by      *)
(* default, or one a consumer chose that may not be total, in which case   *)
(* every request may see entities in another order.  An entity is its id:  *)
(* nothing here depends on contents.                                       *)
(*                                                                         *)
(* X_Defect is X with a plausible defect, used by no specification.        *)
(***************************************************************************)
EXTENDS Naturals, FiniteSets, Functions

CONSTANTS
  Ids,       \* ids of entities; their order is the one of the numbers
  PageSize,  \* LoadConfig.PageSize
  MaxEdits   \* bound: changes others make during the load

ASSUME LoadAssumption ==
  /\ Ids \subseteq Nat /\ IsFiniteSet(Ids) /\ Ids # {}
  /\ PageSize \in Nat \ {0}
  /\ MaxEdits \in Nat

VARIABLES
  collection,    \* the entities the API holds
  totalOrder,    \* LoadConfig.SortBy is a total order
  pc,            \* loading, loaded, or the error that ended the load
  cache,         \* the entities in Cache.entries
  currentPage,
  totalPages,
  totalResults,
  rows,          \* entities received
  (* Bound and history *)
  edits,         \* changes others made so far
  shrunk,        \* an entity was deleted after the first page was served
  moved,         \* entities were added or deleted after that
  always,        \* the entities that have been there since the load began
  asOf           \* the entities the API held when it served the last page

request == <<currentPage, totalPages, totalResults, rows>>
history == <<edits, shrunk, moved, always>>
loadVars == <<collection, totalOrder, pc, cache, request, history, asOf>>

-----------------------------------------------------------------------------
(* The Content API *)

Begun == currentPage > 1

AddEntity(i) ==
  /\ pc = "loading" /\ edits < MaxEdits /\ i \notin collection
  /\ collection' = collection \cup {i}
  /\ edits' = edits + 1
  /\ moved' = (moved \/ Begun)
  /\ UNCHANGED <<totalOrder, pc, cache, request, shrunk, always, asOf>>

DeleteEntity(i) ==
  /\ pc = "loading" /\ edits < MaxEdits /\ i \in collection
  /\ collection' = collection \ {i}
  /\ edits' = edits + 1
  /\ shrunk' = (shrunk \/ Begun)
  /\ moved' = (moved \/ Begun)
  /\ always' = always \ {i}
  /\ UNCHANGED <<totalOrder, pc, cache, request, asOf>>

ById(ids) == [i \in ids |-> Cardinality({j \in ids : j <= i})]

Orders(ids) == IF totalOrder THEN {ById(ids)} ELSE Bijection(ids, 1 .. Cardinality(ids))

OnPage(order, n) ==
  {i \in DOMAIN order : (n - 1) * PageSize < order[i] /\ order[i] <= n * PageSize}

PagesFor(n) == (n + PageSize - 1) \div PageSize

-----------------------------------------------------------------------------
(* LoadExisting *)

MorePages_Early == currentPage = 1 \/ currentPage < totalPages
MorePages       == currentPage <= totalPages

GetPage ==
  /\ pc = "loading" /\ MorePages
  /\ \E order \in Orders(collection) :
       LET items == OnPage(order, currentPage) IN
       /\ cache' = cache \cup items
       /\ rows' = rows + Cardinality(items)
  /\ totalResults' = Cardinality(collection)
  /\ totalPages' = PagesFor(Cardinality(collection))
  /\ currentPage' = currentPage + 1
  /\ asOf' = collection
  /\ UNCHANGED <<collection, totalOrder, pc, history>>

(* The request failed, or an entity could not be hashed.                   *)
GetFails ==
  /\ pc = "loading" /\ MorePages
  /\ pc' = "failed"
  /\ UNCHANGED <<collection, totalOrder, cache, request, history, asOf>>

Complete_ByRows == rows = totalResults
Complete        == Cardinality(cache) = totalResults

Finish ==
  /\ pc = "loading" /\ ~MorePages
  /\ pc' = IF Complete THEN "loaded" ELSE "incomplete"
  /\ UNCHANGED <<collection, totalOrder, cache, request, history, asOf>>

LoadInit ==
  /\ collection \in SUBSET Ids
  /\ totalOrder \in BOOLEAN
  /\ pc = "loading"
  /\ cache = {}
  /\ currentPage = 1 /\ totalPages = 1 /\ totalResults = 0 /\ rows = 0
  /\ edits = 0 /\ shrunk = FALSE /\ moved = FALSE
  /\ always = collection /\ asOf = {}

LoadNext ==
  \/ GetPage \/ GetFails \/ Finish
  \/ \E i \in Ids : AddEntity(i) \/ DeleteEntity(i)

LoadSpec == LoadInit /\ [][LoadNext]_loadVars

-----------------------------------------------------------------------------
(* Properties *)

(* Every variable holds a value of its kind; pages are counted from one.   *)
LoadTypeOK ==
  /\ collection \subseteq Ids /\ cache \subseteq Ids
  /\ totalOrder \in BOOLEAN
  /\ pc \in {"loading", "loaded", "incomplete", "failed"}
  /\ currentPage \in Nat \ {0}
  /\ totalPages \in Nat /\ totalResults \in Nat /\ rows \in Nat
  /\ edits \in 0 .. MaxEdits /\ shrunk \in BOOLEAN /\ moved \in BOOLEAN
  /\ always \subseteq collection /\ asOf \subseteq Ids

(* "An incomplete load is an error rather than a shorter result": as long  *)
(* as nobody deletes an entity during the walk, a load that succeeds holds *)
(* exactly the ids of the collection as its last page was served, whatever *)
(* is added meanwhile and even if the pages came in no total order.        *)
LoadedIsComplete == pc = "loaded" /\ ~shrunk => cache = asOf

(* The check never refuses a load it need not refuse: in a total order,    *)
(* pages of a collection nobody adds to or deletes from are disjoint and   *)
(* leave nothing out.                                                      *)
StableIsNotRefused == totalOrder /\ ~moved => pc # "incomplete"

(* The comment again, without the proviso on deletions: an entity that was *)
(* there all the time is loaded.                                           *)
NothingSilentlyMissing ==
  pc = "loaded" /\ totalOrder => always \subseteq cache
=============================================================================
