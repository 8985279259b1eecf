----------------------------- MODULE ClibProofs -----------------------------
(***************************************************************************)
(* Proofs about package clib: LoadExisting, for any collection, page size  *)
(* and order, and the Content API client, for any number of processes and  *)
(* tags, any RetryMax and any number of late attempts.                     *)
(*                                                                         *)
(* PagedLoad: the argument is counting.  What is cached was served by the  *)
(* API, nothing served has left the collection, and a subset of a finite   *)
(* set that has as many members is the whole of it.                        *)
(*                                                                         *)
(* ContentClient: the inductive invariant says of every POST of a tag,     *)
(* whether its process still waits for it or it is late, that all earlier  *)
(* tags exist; and of every answer "ok" that is on its way to a process,   *)
(* that the item holds what the process asked for, or was changed by       *)
(* somebody else.                                                          *)
(***************************************************************************)
EXTENDS PagedLoad, ContentClient, FiniteSetTheorems, TLAPS

-----------------------------------------------------------------------------
(* PagedLoad *)

CountInv ==
  /\ collection \subseteq Ids /\ asOf \subseteq Ids
  /\ currentPage \in Nat \ {0}
  /\ shrunk \in BOOLEAN
  /\ totalResults = Cardinality(asOf)
  /\ ~Begun => cache = {} /\ asOf = {}
  /\ ~shrunk => cache \subseteq asOf /\ asOf \subseteq collection

LoadInv == CountInv /\ LoadedIsComplete

(* A page holds entities of the order it is cut from, and every order of a *)
(* set of entities orders that set.                                        *)
LEMMA PagesAreCutFromTheCollection ==
  ASSUME NEW ids, NEW order \in Orders(ids), NEW n
  PROVE  OnPage(order, n) \subseteq ids
<1>1. DOMAIN order = ids
  BY DEF Orders, ById, Bijection, Injection, Surjection
<1> QED
  BY <1>1 DEF OnPage

LEMMA LoadInitInv == LoadInit => LoadInv
<1> SUFFICES ASSUME LoadInit PROVE LoadInv
  OBVIOUS
<1> USE DEF LoadInit
<1>1. totalResults = Cardinality(asOf)
  BY FS_EmptySet
<1>2. collection \subseteq Ids /\ asOf \subseteq Ids /\ currentPage \in Nat \ {0}
  OBVIOUS
<1>3. cache = {} /\ asOf = {} /\ shrunk \in BOOLEAN
  OBVIOUS
<1>4. cache \subseteq asOf /\ asOf \subseteq collection
  BY <1>3
<1> HIDE DEF LoadInit
<1>5. CountInv
  BY <1>1, <1>2, <1>3, <1>4 DEF CountInv
<1> QED
  BY <1>5 DEF LoadInv, LoadedIsComplete, LoadInit

LEMMA GetPageKeeps == LoadInv /\ GetPage => LoadInv'
<1> SUFFICES ASSUME LoadInv, GetPage PROVE LoadInv'
  OBVIOUS
<1> USE DEF LoadInv, CountInv, GetPage, history
<1>1. PICK order \in Orders(collection) : cache' = cache \cup OnPage(order, currentPage)
  OBVIOUS
<1>2. OnPage(order, currentPage) \subseteq collection
  BY PagesAreCutFromTheCollection
<1>3. CountInv'
  BY <1>1, <1>2 DEF Begun
<1>4. LoadedIsComplete'
  BY DEF LoadedIsComplete
<1> QED
  BY <1>3, <1>4

(* The decisive step: the count check of LoadExisting.                     *)
LEMMA FinishKeeps == LoadInv /\ Finish => LoadInv'
<1> SUFFICES ASSUME LoadInv, Finish PROVE LoadInv'
  OBVIOUS
<1> USE DEF LoadInv, CountInv, Finish, request, history
<1>1. CountInv'
  BY DEF Begun
<1>2. LoadedIsComplete'
  <2> SUFFICES ASSUME Complete, ~shrunk PROVE cache = asOf
    BY DEF LoadedIsComplete
  <2>1. IsFiniteSet(asOf)
    BY LoadAssumption, FS_Subset
  <2>2. Cardinality(cache) = Cardinality(asOf) /\ cache \subseteq asOf
    BY DEF Complete
  <2> QED
    BY <2>1, <2>2, FS_Subset
<1> QED
  BY <1>1, <1>2

LEMMA EditsKeep == LoadInv /\ (GetFails \/ \E i \in Ids : AddEntity(i) \/ DeleteEntity(i)) => LoadInv'
<1> SUFFICES ASSUME LoadInv, GetFails \/ \E i \in Ids : AddEntity(i) \/ DeleteEntity(i) PROVE LoadInv'
  OBVIOUS
<1> USE DEF LoadInv, CountInv, LoadedIsComplete, Begun, request, history
<1>1. CASE GetFails
  BY <1>1 DEF GetFails
<1>2. CASE \E i \in Ids : AddEntity(i)
  BY <1>2 DEF AddEntity
<1>3. CASE \E i \in Ids : DeleteEntity(i)
  BY <1>3 DEF DeleteEntity
<1> QED
  BY <1>1, <1>2, <1>3

(* clib.LoadExisting reports a short load as an error whenever nothing is  *)
(* deleted behind its back.                                                *)
THEOREM LoadsAreComplete == LoadSpec => []LoadedIsComplete
<1>1. LoadInit => LoadInv
  BY LoadInitInv
<1>2. LoadInv /\ [LoadNext]_loadVars => LoadInv'
  <2>1. LoadInv /\ UNCHANGED loadVars => LoadInv'
    BY DEF LoadInv, CountInv, LoadedIsComplete, Begun, loadVars, request, history
  <2> QED
    BY <2>1, GetPageKeeps, FinishKeeps, EditsKeep DEF LoadNext
<1>3. LoadInv => LoadedIsComplete
  BY DEF LoadInv
<1> QED
  BY <1>1, <1>2, <1>3, PTL DEF LoadSpec

-----------------------------------------------------------------------------
LEMMA PagesAreCounted == ASSUME NEW n \in Nat PROVE PagesFor(n) \in Nat
<1>1. n + PageSize - 1 \in Nat /\ PageSize \in Nat /\ PageSize > 0
  BY LoadAssumption
<1>2. ASSUME NEW a \in Nat, NEW b \in Nat, b > 0 PROVE a \div b \in Nat
  BY <1>2
<1> QED
  BY <1>1, <1>2 DEF PagesFor

(* The place of an entity in the order of the ids is counted from one and  *)
(* does not exceed their number.                                           *)
LEMMA PlacesAreCounted ==
  ASSUME NEW ids, ids \subseteq Ids, NEW i \in ids
  PROVE  /\ Cardinality(ids) \in Nat
         /\ ById(ids)[i] \in 1 .. Cardinality(ids)
<1> DEFINE upTo == {j \in ids : j <= i}
<1>1. IsFiniteSet(ids) /\ upTo \subseteq ids
  BY LoadAssumption, FS_Subset
<1>2. /\ IsFiniteSet(upTo) /\ Cardinality(upTo) \in Nat /\ Cardinality(ids) \in Nat
      /\ Cardinality(upTo) <= Cardinality(ids)
  BY <1>1, FS_Subset, FS_CardinalityType
<1>3. i \in upTo
  BY LoadAssumption
<1>4. Cardinality(upTo) # 0
  BY <1>2, <1>3, FS_EmptySet
<1>5. ById(ids)[i] = Cardinality(upTo)
  BY DEF ById
<1> QED
  BY <1>2, <1>4, <1>5

LEMMA PagesHoldAll ==
  ASSUME NEW n \in Nat, NEW pages \in Nat, PagesFor(n) <= pages
  PROVE  n <= pages * PageSize
<1> DEFINE q == PagesFor(n)
<1>1. PageSize \in Nat \ {0}
  BY LoadAssumption
<1>2. q \in Nat
  BY PagesAreCounted
<1>3. n + PageSize - 1 < (q + 1) * PageSize
  <2>1. ASSUME NEW a \in Nat, NEW b \in Nat \ {0} PROVE a < (a \div b + 1) * b
    BY <2>1
  <2>2. n + PageSize - 1 \in Nat
    BY <1>1
  <2> QED
    BY <1>1, <2>1, <2>2 DEF PagesFor
<1> HIDE DEF q
<1>4. q * PageSize \in Nat /\ (q + 1) * PageSize = q * PageSize + PageSize
  BY <1>1, <1>2
<1>5. n <= q * PageSize
  BY <1>1, <1>2, <1>3, <1>4
<1>6. ASSUME NEW a \in Nat, NEW b \in Nat, NEW p \in Nat, a <= b PROVE a * p <= b * p
  BY <1>6
<1>7. q * PageSize <= pages * PageSize
  BY <1>1, <1>2, <1>6 DEF q
<1> QED
  BY <1>1, <1>2, <1>4, <1>5, <1>7

LEMMA LoadInitType == LoadInit => LoadTypeOK
<1> USE LoadAssumption DEF LoadTypeOK, request, history
<1> SUFFICES ASSUME LoadInit PROVE LoadTypeOK
  OBVIOUS
<1>1. /\ collection \subseteq Ids /\ cache \subseteq Ids
      /\ always \subseteq collection /\ asOf \subseteq Ids
  BY DEF LoadInit
<1>2. /\ currentPage \in Nat \ {0} /\ totalPages \in Nat
      /\ totalResults \in Nat /\ rows \in Nat /\ edits \in 0 .. MaxEdits
  BY DEF LoadInit
<1> QED
  BY <1>1, <1>2 DEF LoadInit

LEMMA LoadNextType == LoadTypeOK /\ [LoadNext]_loadVars => LoadTypeOK'
<1> USE LoadAssumption DEF LoadTypeOK, request, history
<1> SUFFICES ASSUME LoadTypeOK, [LoadNext]_loadVars PROVE LoadTypeOK'
  OBVIOUS
<1>1. CASE GetPage
  <2>1. PICK order \in Orders(collection) :
          /\ cache' = cache \cup OnPage(order, currentPage)
          /\ rows' = rows + Cardinality(OnPage(order, currentPage))
    BY <1>1 DEF GetPage
  <2>2. OnPage(order, currentPage) \subseteq collection
    BY PagesAreCutFromTheCollection
  <2>3. /\ Cardinality(OnPage(order, currentPage)) \in Nat
        /\ Cardinality(collection) \in Nat
    <3>1. IsFiniteSet(collection) /\ IsFiniteSet(OnPage(order, currentPage))
      BY <2>2, FS_Subset
    <3> QED
      BY <3>1, FS_CardinalityType
  <2>4. PagesFor(Cardinality(collection)) \in Nat
    BY <2>3, PagesAreCounted
  <2>5. /\ collection' \subseteq Ids /\ cache' \subseteq Ids
        /\ always' \subseteq collection' /\ asOf' \subseteq Ids
    BY <1>1, <2>1, <2>2 DEF GetPage
  <2>6. /\ currentPage' \in Nat \ {0} /\ totalPages' \in Nat
        /\ totalResults' \in Nat /\ rows' \in Nat /\ edits' \in 0 .. MaxEdits
    BY <1>1, <2>1, <2>3, <2>4 DEF GetPage
  <2> QED
    BY <1>1, <2>5, <2>6 DEF GetPage
<1>2. CASE GetFails
  BY <1>2 DEF GetFails
<1>3. CASE Finish
  BY <1>3 DEF Finish
<1>4. ASSUME NEW i \in Ids, AddEntity(i) PROVE LoadTypeOK'
  BY <1>4 DEF AddEntity, Begun
<1>5. ASSUME NEW i \in Ids, DeleteEntity(i) PROVE LoadTypeOK'
  BY <1>5 DEF DeleteEntity, Begun
<1>6. CASE UNCHANGED loadVars
  BY <1>6 DEF loadVars
<1> QED
  BY <1>1, <1>2, <1>3, <1>4, <1>5, <1>6 DEF LoadNext

(* The variables keep their types; pages are counted from one.             *)
THEOREM LoadTypeCorrect == LoadSpec => []LoadTypeOK
  BY LoadInitType, LoadNextType, PTL DEF LoadSpec

-----------------------------------------------------------------------------
(* While nothing is added or deleted, the cache holds the entities of the  *)
(* pages served so far, the first ones in the order of the ids, and what   *)
(* the last response said of their number still holds.                     *)
Served(ids, pages) == {i \in ids : ById(ids)[i] <= pages * PageSize}

Undisturbed == pc = "loading" /\ totalOrder /\ ~moved /\ Begun

StableInv ==
  /\ LoadTypeOK
  /\ ~Begun => cache = {} /\ totalPages = 1
  /\ Undisturbed =>
       /\ asOf = collection
       /\ totalResults = Cardinality(collection)
       /\ totalPages = PagesFor(Cardinality(collection))
       /\ cache = Served(collection, currentPage - 1)
  /\ StableIsNotRefused

(* One more page of entities in their order.                               *)
LEMMA OnePageMore ==
  ASSUME NEW ids, ids \subseteq Ids, NEW n \in Nat
  PROVE  /\ Served(ids, 0) = {}
         /\ Served(ids, n + 1) = Served(ids, n) \cup OnPage(ById(ids), n + 1)
<1> DEFINE lo == n * PageSize
           hi == (n + 1) * PageSize
<1>1. PageSize \in Nat \ {0}
  BY LoadAssumption
<1>2. lo \in Nat /\ hi \in Nat /\ 0 * PageSize = 0 /\ n + 1 \in Nat /\ (n + 1) - 1 = n
  BY <1>1
<1>3. hi = lo + PageSize
  BY <1>1
<1>5. \A i \in ids : ById(ids)[i] \in Nat /\ ById(ids)[i] >= 1
  BY PlacesAreCounted
<1>6. Served(ids, 0) = {}
  BY <1>2, <1>5 DEF Served
<1>7. OnPage(ById(ids), n + 1) = {i \in ids : lo < ById(ids)[i] /\ ById(ids)[i] <= hi}
  <2>1. DOMAIN ById(ids) = ids
    BY DEF ById
  <2> QED
    BY <1>2, <2>1 DEF OnPage
<1>8. Served(ids, n) = {i \in ids : ById(ids)[i] <= lo}
  BY DEF Served
<1>9. Served(ids, n + 1) = {i \in ids : ById(ids)[i] <= hi}
  BY DEF Served
<1> HIDE DEF lo, hi
<1>4. lo <= hi
  BY <1>1, <1>2, <1>3
<1>10. \A i \in ids : ById(ids)[i] <= hi <=>
         ById(ids)[i] <= lo \/ (lo < ById(ids)[i] /\ ById(ids)[i] <= hi)
  BY <1>2, <1>4, <1>5
<1>11. Served(ids, n + 1) = Served(ids, n) \cup OnPage(ById(ids), n + 1)
  BY <1>7, <1>8, <1>9, <1>10
<1> QED
  BY <1>6, <1>11

LEMMA StableInitInv == LoadInit => StableInv
<1> SUFFICES ASSUME LoadInit PROVE StableInv
  OBVIOUS
<1>1. LoadTypeOK
  BY LoadInitType
<1>2. ~Begun /\ cache = {} /\ totalPages = 1
  BY DEF LoadInit, Begun
<1>3. StableIsNotRefused
  BY DEF LoadInit, StableIsNotRefused
<1> QED
  BY <1>1, <1>2, <1>3 DEF StableInv, Undisturbed

LEMMA GetPageStable == ASSUME StableInv, LoadTypeOK', GetPage PROVE StableInv'
<1> DEFINE n == currentPage - 1
<1>1. /\ currentPage \in Nat \ {0} /\ n \in Nat /\ n + 1 = currentPage
      /\ currentPage' = currentPage + 1 /\ currentPage' - 1 = n + 1
  BY DEF StableInv, LoadTypeOK, GetPage
<1>2. Begun'
  BY <1>1 DEF Begun
<1>3. StableIsNotRefused'
  BY DEF StableIsNotRefused, GetPage
<1>4. ASSUME Undisturbed'
      PROVE  /\ asOf' = collection'
             /\ totalResults' = Cardinality(collection')
             /\ totalPages' = PagesFor(Cardinality(collection'))
             /\ cache' = Served(collection', currentPage' - 1)
  <2>1. totalOrder /\ ~moved /\ pc = "loading" /\ collection' = collection
    BY <1>4 DEF Undisturbed, GetPage, history
  <2>2. /\ asOf' = collection /\ totalResults' = Cardinality(collection)
        /\ totalPages' = PagesFor(Cardinality(collection))
    BY DEF GetPage
  <2>3. cache' = cache \cup OnPage(ById(collection), n + 1)
    BY <1>1, <2>1 DEF GetPage, Orders
  <2>4. collection \subseteq Ids
    BY DEF StableInv, LoadTypeOK
  <2>5. cache = Served(collection, n)
    <3>1. CASE Begun
      BY <2>1, <3>1 DEF StableInv, Undisturbed
    <3>2. CASE ~Begun
      <4>1. n = 0
        BY <1>1, <3>2 DEF Begun
      <4>2. cache = {}
        BY <3>2 DEF StableInv
      <4> QED
        BY <2>4, <4>1, <4>2, OnePageMore
    <3> QED
      BY <3>1, <3>2
  <2>6. cache' = Served(collection, n + 1)
    <3> HIDE DEF n
    <3> QED
      BY <1>1, <2>3, <2>4, <2>5, OnePageMore
  <2> QED
    BY <1>1, <2>1, <2>2, <2>6
<1> QED
  BY <1>2, <1>3, <1>4 DEF StableInv

(* The walk stops behind the last page the API has.                        *)
LEMMA FinishStable == ASSUME StableInv, LoadTypeOK', Finish PROVE StableInv'
<1>1. pc' # "loading" /\ UNCHANGED <<cache, currentPage, totalPages, totalOrder, moved>>
  BY DEF Finish, request, history
<1>2. ~Undisturbed' /\ (Begun' <=> Begun)
  BY <1>1 DEF Undisturbed, Begun
<1>3. StableIsNotRefused'
  <2> SUFFICES ASSUME totalOrder, ~moved PROVE Complete
    BY <1>1 DEF StableIsNotRefused, Finish
  <2> DEFINE size == Cardinality(collection)
             n == currentPage - 1
  <2>1. /\ currentPage \in Nat \ {0} /\ totalPages \in Nat /\ n \in Nat
        /\ collection \subseteq Ids
    BY DEF StableInv, LoadTypeOK
  <2>2. totalPages < currentPage
    BY <2>1 DEF Finish, MorePages
  <2>3. Begun
    BY <2>1, <2>2 DEF StableInv, Begun
  <2>4. /\ totalResults = size /\ totalPages = PagesFor(size)
        /\ cache = Served(collection, n)
    BY <2>3 DEF StableInv, Undisturbed, Finish
  <2>5. size \in Nat
    BY <2>1, LoadAssumption, FS_Subset, FS_CardinalityType
  <2>6. PagesFor(size) <= n
    BY <2>1, <2>2, <2>4
  <2>7. size <= n * PageSize
    BY <2>1, <2>5, <2>6, PagesHoldAll
  <2>8. n * PageSize \in Nat
    BY <2>1, LoadAssumption
  <2>9. \A i \in collection : ById(collection)[i] <= n * PageSize
    <3> SUFFICES ASSUME NEW i \in collection PROVE ById(collection)[i] <= n * PageSize
      OBVIOUS
    <3>1. ById(collection)[i] \in 1 .. size
      BY <2>1, PlacesAreCounted
    <3> HIDE DEF n, size
    <3> QED
      BY <3>1, <2>5, <2>7, <2>8
  <2>10. cache = collection
    BY <2>4, <2>9 DEF Served
  <2> QED
    BY <2>4, <2>10 DEF Complete
<1> QED
  BY <1>1, <1>2, <1>3 DEF StableInv

LEMMA EditsStable ==
  ASSUME StableInv, LoadTypeOK', GetFails \/ \E i \in Ids : AddEntity(i) \/ DeleteEntity(i)
  PROVE  StableInv'
<1> USE DEF StableInv, Undisturbed, StableIsNotRefused, Begun, request, history
<1>1. CASE GetFails
  BY <1>1 DEF GetFails
<1>2. CASE \E i \in Ids : AddEntity(i)
  BY <1>2 DEF AddEntity
<1>3. CASE \E i \in Ids : DeleteEntity(i)
  BY <1>3 DEF DeleteEntity
<1> QED
  BY <1>1, <1>2, <1>3

(* clib.LoadExisting's count check never refuses a load during which no    *)
(* entity was added or deleted, the order being total.                     *)
THEOREM StableLoadsAreAccepted == LoadSpec => []StableIsNotRefused
<1>1. LoadInit => StableInv
  BY StableInitInv
<1>2. StableInv /\ [LoadNext]_loadVars => StableInv'
  <2> SUFFICES ASSUME StableInv, [LoadNext]_loadVars PROVE StableInv'
    OBVIOUS
  <2>1. LoadTypeOK'
    BY LoadNextType DEF StableInv
  <2>2. CASE UNCHANGED loadVars
    BY <2>1, <2>2 DEF loadVars, request, history, StableInv, Undisturbed,
                      StableIsNotRefused, Begun
  <2> QED
    BY <2>1, <2>2, GetPageStable, FinishStable, EditsStable DEF LoadNext
<1>3. StableInv => StableIsNotRefused
  BY DEF StableInv
<1> QED
  BY <1>1, <1>2, <1>3, PTL DEF LoadSpec

-----------------------------------------------------------------------------
(* ContentClient *)


Exists(n) == store[n] # NoVal

OrderInv ==
  /\ \A n \in Tags : Exists(n) => \A m \in 1 .. n : Exists(m)
  /\ \A s \in Syncers : \A m \in Tags : m < pos[s] => Exists(m)
  /\ \A r \in late : \A n, m \in Tags : r.item = n /\ m < n => Exists(m)
  /\ \A s \in Syncers : pos[s] # 0 /\ wire[s] \in {"ok", "exists"} => Exists(pos[s])
  /\ synced # {} => \A n \in Tags : Exists(n)

CreatorInv ==
  /\ \A n \in Tags : \A s \in told[n] : store[n] = s
  /\ \A s \in Syncers : pos[s] # 0 /\ wire[s] = "ok" => store[pos[s]] = s

CacheInv ==
  /\ \A s \in Syncers : /\ pos[s] # 0 => s \notin synced
                        /\ pos[s] = 0 /\ call[s] # NoCall => s \in synced
  /\ \A p \in Pushers : p \notin synced => entry[p] = NoVal
  /\ \A p \in Pushers : pos[p] = 0 /\ wire[p] = "ok" /\ p \notin foreign
                          => store[p] = call[p].val
  /\ CacheNeverAhead

IInv == TypeOK /\ OrderInv /\ CreatorInv /\ CacheInv

-----------------------------------------------------------------------------
(* What a request is: a POST of a tag in the name of its process, or a     *)
(* write of a pusher to its own entity.                                    *)
LEMMA PushRequestKind ==
  ASSUME NEW p \in Pushers, NEW r \in PushRequests(p)
  PROVE  /\ r.by = p /\ r.item = p /\ r.val \in Vals /\ r.method \in {"POST", "PUT"}
         /\ r \in Requests
  <1>1. PICK m \in {"POST", "PUT"}, v \in Vals : r = PushRequest(p, m, v)
    BY DEF PushRequests
  <1> QED BY <1>1 DEF PushRequest, Request, Requests

LEMMA PushRequestIsOne ==
  ASSUME NEW p \in Pushers, NEW m \in {"POST", "PUT"}, NEW v \in Vals
  PROVE  /\ PushRequest(p, m, v) \in PushRequests(p)
         /\ PushRequest(p, m, v).val = v
  BY DEF PushRequests, PushRequest, Request

LEMMA TagRequestKind ==
  ASSUME NEW s \in Syncers, NEW n \in Tags
  PROVE  LET r == TagRequest(s, n)
         IN  /\ r \in Requests /\ r.by = s /\ r.item = n /\ r.val = s /\ r.method = "POST"
  BY DEF Requests, TagRequest, TagMethod, Request

LEMMA RequestKinds ==
  ASSUME NEW r \in Requests
  PROVE  /\ r.by \in Syncers /\ r.item \in Items /\ r.val \in Vals \cup Syncers
         /\ r.val # NoVal
         /\ r.item \in Tags => r.method = "POST" /\ r.val = r.by
         /\ r.item \notin Tags => r.item \in Pushers /\ r.item = r.by
         /\ r # NoCall
  <1>0. Pushers \subseteq Syncers /\ Tags \cap Syncers = {} BY ClientAssumption DEF Tags
  <1>1. CASE \E s \in Syncers, n \in Tags : r = TagRequest(s, n)
    <2>1. PICK s \in Syncers, n \in Tags : r = TagRequest(s, n) BY <1>1
    <2>2. r \in [by : Syncers, method : {"POST", "PUT"},
                item : (1 .. NTags) \cup Pushers, val : Vals \cup Syncers]
      BY <2>1 DEF TagRequest, TagMethod, Request, Tags
    <2> QED BY <1>0, <2>1, <2>2, TagRequestKind, ClientAssumption DEF Items
  <1>2. CASE \E p \in Pushers : r \in PushRequests(p)
    <2>1. PICK p \in Pushers : r \in PushRequests(p) BY <1>2
    <2>2. r \in [by : Syncers, method : {"POST", "PUT"},
                item : (1 .. NTags) \cup Pushers, val : Vals \cup Syncers]
      BY <1>0, <2>1 DEF PushRequests, PushRequest, Request, Tags
    <2> QED BY <1>0, <2>1, <2>2, PushRequestKind, ClientAssumption DEF Items
  <1> QED BY <1>1, <1>2 DEF Requests

(* What carrying out a request does to the store: it writes the requested  *)
(* value to the requested item if the answer is "ok", and a tag only if it *)
(* does not exist yet.                                                     *)
LEMMA CarryOutFacts ==
  ASSUME TypeOK, NEW r \in Requests, CarryOut(r)
  PROVE  /\ store' \in [Items -> Vals \cup Syncers \cup {NoVal}]
         /\ \A i \in Items : i # r.item => store'[i] = store[i]
         /\ Answer(r) = "ok" => store'[r.item] = r.val
         /\ Answer(r) # "ok" => store' = store
         /\ \A n \in Tags : Exists(n) => store'[n] = store[n] /\ Exists(n)'
         /\ r.item \in Tags /\ Answer(r) \in {"ok", "exists"} => store'[r.item] # NoVal
         /\ Answer(r) \in {"ok", "exists", "missing"}
  <1>1. store \in [Items -> Vals \cup Syncers \cup {NoVal}] BY DEF TypeOK
  <1>2. /\ r.item \in Items /\ r.val \in Vals \cup Syncers /\ r.val # NoVal
        /\ r.item \in Tags => r.method = "POST"
    BY RequestKinds
  <1>3. Tags \subseteq Items BY DEF Items
  <1> QED BY <1>1, <1>2, <1>3 DEF CarryOut, Answer, Exists

-----------------------------------------------------------------------------
LEMMA InitIInv == Init => IInv
  <1> SUFFICES ASSUME Init PROVE IInv OBVIOUS
  <1> USE DEF Init
  <1>1. TypeOK
    <2>1. /\ store \in [Items -> Vals \cup Syncers \cup {NoVal}]
          /\ late \subseteq Requests /\ calm \in BOOLEAN
          /\ call \in [Syncers -> Requests \cup {NoCall}]
          /\ wire \in [Syncers -> {"none", "sent", "ok", "exists", "missing", "refused"}]
          /\ synced \subseteq Syncers /\ told \in [Tags -> SUBSET Syncers]
          /\ entry \in [Pushers -> Vals \cup {NoVal}] /\ foreign \subseteq Pushers
      OBVIOUS
    <2>2. tries \in [Syncers -> 0 .. RetryMax] /\ pos \in [Syncers -> 0 .. NTags]
      BY ClientAssumption
    <2>3. \A s \in Syncers : CallOK(s) BY DEF CallOK
    <2> QED BY <2>1, <2>2, <2>3 DEF TypeOK
  <1>2. OrderInv
    BY ClientAssumption DEF OrderInv, Exists, Tags, Items
  <1>3. CreatorInv BY DEF CreatorInv
  <1>4. CacheInv BY ClientAssumption DEF CacheInv, CacheNeverAhead
  <1> QED BY <1>1, <1>2, <1>3, <1>4 DEF IInv

-----------------------------------------------------------------------------
(* The steps of Next, one name per action.                                 *)
LEMMA NextCases ==
  ASSUME NEW P,
         ASSUME NEW s \in Syncers, SyncTags(s)   PROVE P,
         ASSUME NEW s \in Syncers, Serve(s)      PROVE P,
         ASSUME NEW s \in Syncers, Refuse(s)     PROVE P,
         ASSUME NEW s \in Syncers, Retry(s)      PROVE P,
         ASSUME NEW s \in Syncers, TagPosted(s)  PROVE P,
         ASSUME NEW s \in Syncers, SyncFails(s)  PROVE P,
         ASSUME NEW s \in Syncers, Restart(s)    PROVE P,
         ASSUME NEW p \in Pushers, NEW v \in Vals, Push(p, v) PROVE P,
         ASSUME NEW p \in Pushers, Pushed(p)     PROVE P,
         ASSUME NEW p \in Pushers, PushExists(p) PROVE P,
         ASSUME NEW p \in Pushers, PushFails(p)  PROVE P,
         ASSUME NEW p \in Pushers, Remove(p)     PROVE P,
         ASSUME NEW r \in Requests, ServeLate(r) PROVE P,
         ASSUME CalmDown                         PROVE P,
         ASSUME UNCHANGED vars                   PROVE P,
         [Next]_vars
  PROVE  P
  BY DEF Next, CallStep, PushStep

(* What sending, hanging up and leaving an attempt unanswered preserve.    *)
LEMMA SendType ==
  ASSUME TypeOK, NEW c \in Syncers, NEW r \in Requests, Send(c, r)
  PROVE  /\ call' \in [Syncers -> Requests \cup {NoCall}]
         /\ tries' \in [Syncers -> 0 .. RetryMax]
         /\ wire' \in [Syncers -> {"none", "sent", "ok", "exists", "missing", "refused"}]
         /\ call'[c] = r /\ wire'[c] = "sent" /\ r # NoCall
         /\ \A d \in Syncers \ {c} : call'[d] = call[d] /\ wire'[d] = wire[d]
  BY RequestKinds, ClientAssumption DEF TypeOK, Send

LEMMA HangupType ==
  ASSUME TypeOK, NEW c \in Syncers, Hangup(c)
  PROVE  /\ call' \in [Syncers -> Requests \cup {NoCall}]
         /\ tries' \in [Syncers -> 0 .. RetryMax]
         /\ wire' \in [Syncers -> {"none", "sent", "ok", "exists", "missing", "refused"}]
         /\ call'[c] = NoCall /\ wire'[c] = "none"
         /\ \A d \in Syncers \ {c} : call'[d] = call[d] /\ wire'[d] = wire[d]
  BY ClientAssumption DEF TypeOK, Hangup

LEMMA UnansweredType ==
  ASSUME TypeOK, NEW c \in Syncers, Unanswered(c)
  PROVE  /\ late' \subseteq Requests
         /\ \A r \in late' \ late : r = call[c] /\ r # NoCall
  BY RequestKinds DEF TypeOK, Unanswered, CallOK

(* Nothing changes for a process whose call, attempt and place stay.       *)
LEMMA CallFrame ==
  ASSUME NEW d \in Syncers, CallOK(d),
         call'[d] = call[d], wire'[d] = wire[d], pos'[d] = pos[d]
  PROVE  CallOK(d)'
  BY DEF CallOK

(* A pusher that waits for no tag waits for a write to its own entity.     *)
LEMMA OwnCall ==
  ASSUME TypeOK, NEW p \in Pushers, pos[p] = 0, wire[p] # "none"
  PROVE  /\ call[p] \in PushRequests(p) /\ call[p].val \in Vals /\ call[p].item = p
  <1>1. p \in Syncers /\ CallOK(p) BY ClientAssumption DEF TypeOK
  <1> QED BY <1>1, PushRequestKind DEF CallOK

LEMMA TypeStep == TypeOK /\ [Next]_vars => TypeOK'
  <1> SUFFICES ASSUME TypeOK, [Next]_vars PROVE TypeOK' OBVIOUS
  <1>0. /\ Pushers \subseteq Syncers
        /\ \A s \in Syncers : CallOK(s)
    BY ClientAssumption DEF TypeOK
  <1>1. ASSUME NEW s \in Syncers, SyncTags(s) PROVE TypeOK'
    <2>1. 1 \in Tags /\ 1 \in 0 .. NTags BY ClientAssumption DEF Tags
    <2>2. TagRequest(s, 1) \in Requests /\ Send(s, TagRequest(s, 1))
      BY <1>1, <2>1, TagRequestKind DEF SyncTags
    <2>3. /\ pos' = [pos EXCEPT ![s] = 1] /\ pos' \in [Syncers -> 0 .. NTags]
          /\ UNCHANGED <<store, late, calm, synced, told, entry, foreign>>
      BY <1>1, <2>1 DEF SyncTags, TypeOK
    <2>4. \A d \in Syncers : CallOK(d)'
      <3>1. pos'[s] = 1 /\ \A d \in Syncers \ {s} : pos'[d] = pos[d] BY <2>3 DEF TypeOK
      <3>2. CallOK(s)' BY <2>2, <3>1, SendType DEF CallOK
      <3>3. \A d \in Syncers \ {s} : CallOK(d)' BY <1>0, <2>2, <3>1, SendType, CallFrame
      <3> QED BY <3>2, <3>3
    <2> QED BY <2>2, <2>3, <2>4, SendType DEF TypeOK
  <1>2. ASSUME NEW s \in Syncers, Serve(s) PROVE TypeOK'
    <2>1. call[s] \in Requests BY <1>0, <1>2 DEF Serve, TypeOK, CallOK
    <2>2. /\ store' \in [Items -> Vals \cup Syncers \cup {NoVal}]
          /\ Answer(call[s]) \in {"ok", "exists", "missing"}
      BY <1>2, <2>1, CarryOutFacts DEF Serve
    <2>3. wire[s] = "sent" /\ wire' = [wire EXCEPT ![s] = Answer(call[s])]
          /\ UNCHANGED <<late, calm, call, tries, pos, synced, told, entry>>
          /\ foreign' \subseteq Pushers
      BY <1>2 DEF Serve, TypeOK
    <2>4. \A d \in Syncers : CallOK(d)'
      BY <1>0, <2>2, <2>3 DEF CallOK, TypeOK
    <2> QED BY <2>2, <2>3, <2>4 DEF TypeOK
  <1>3. ASSUME NEW s \in Syncers, Refuse(s) PROVE TypeOK'
    <2>1. /\ wire[s] = "sent" /\ wire' = [wire EXCEPT ![s] = "refused"]
          /\ UNCHANGED <<store, late, calm, call, tries, pos, synced, told, entry, foreign>>
      BY <1>3 DEF Refuse
    <2>2. \A d \in Syncers : CallOK(d)' BY <1>0, <2>1 DEF CallOK, TypeOK
    <2> QED BY <2>1, <2>2 DEF TypeOK
  <1>4. ASSUME NEW s \in Syncers, Retry(s) PROVE TypeOK'
    <2>1. late' \subseteq Requests BY <1>4, UnansweredType DEF Retry
    <2>2. tries' \in [Syncers -> 0 .. RetryMax]
      BY <1>4, ClientAssumption DEF Retry, MayRetry, TypeOK
    <2>3. /\ wire[s] # "none" /\ wire' = [wire EXCEPT ![s] = "sent"]
          /\ UNCHANGED <<store, calm, call, pos, synced, told, entry, foreign>>
      BY <1>4 DEF Retry, Unanswered
    <2>4. \A d \in Syncers : CallOK(d)' BY <1>0, <2>3 DEF CallOK, TypeOK
    <2> QED BY <2>1, <2>2, <2>3, <2>4 DEF TypeOK
  <1>5. ASSUME NEW s \in Syncers, TagPosted(s) PROVE TypeOK'
    <2>1. /\ told' \in [Tags -> SUBSET Syncers]
          /\ UNCHANGED <<store, late, calm, entry, foreign>>
      BY <1>5 DEF TagPosted, NoteCreation, TypeOK
    <2>2. CASE pos[s] < NTags
      <3>1. /\ pos' = [pos EXCEPT ![s] = @ + 1] /\ synced' = synced
            /\ Send(s, TagRequest(s, pos[s] + 1))
        BY <1>5, <2>2 DEF TagPosted
      <3>2. pos[s] + 1 \in Tags /\ pos' \in [Syncers -> 0 .. NTags] /\ pos'[s] = pos[s] + 1
        BY <3>1, <2>2, ClientAssumption DEF TypeOK, Tags
      <3>3. TagRequest(s, pos[s] + 1) \in Requests BY <3>2, TagRequestKind
      <3>4. CallOK(s)' BY <3>1, <3>2, <3>3, SendType DEF CallOK, TypeOK, Tags
      <3>5. \A d \in Syncers \ {s} : CallOK(d)'
        BY <1>0, <3>1, <3>3, SendType, CallFrame DEF TypeOK
      <3> QED BY <2>1, <3>1, <3>2, <3>3, <3>4, <3>5, SendType DEF TypeOK
    <2>3. CASE ~(pos[s] < NTags)
      <3>1. /\ pos' = [pos EXCEPT ![s] = 0] /\ synced' = synced \cup {s}
            /\ Hangup(s)
        BY <1>5, <2>3 DEF TagPosted
      <3>2. pos' \in [Syncers -> 0 .. NTags] /\ pos'[s] = 0
        BY <3>1, ClientAssumption DEF TypeOK
      <3>3. CallOK(s)' BY <3>1, <3>2, HangupType DEF CallOK
      <3>4. \A d \in Syncers \ {s} : CallOK(d)' BY <1>0, <3>1, HangupType, CallFrame DEF TypeOK
      <3> QED BY <2>1, <3>1, <3>2, <3>3, <3>4, HangupType DEF TypeOK
    <2> QED BY <2>2, <2>3
  <1>6. ASSUME NEW s \in Syncers, Hangup(s), pos' = [pos EXCEPT ![s] = 0], late' \subseteq Requests,
               store' = store, calm' = calm, told' = told, foreign' = foreign,
               synced' \subseteq Syncers, entry' \in [Pushers -> Vals \cup {NoVal}]
        PROVE  TypeOK'
    <2>1. pos' \in [Syncers -> 0 .. NTags] /\ pos'[s] = 0 BY <1>6, ClientAssumption DEF TypeOK
    <2>2. CallOK(s)' BY <1>6, <2>1, HangupType DEF CallOK
    <2>3. \A d \in Syncers \ {s} : CallOK(d)' BY <1>0, <1>6, HangupType, CallFrame DEF TypeOK
    <2> QED BY <1>6, <2>1, <2>2, <2>3, HangupType DEF TypeOK
  <1>7. ASSUME NEW s \in Syncers, SyncFails(s) PROVE TypeOK'
    BY <1>6, <1>7, UnansweredType DEF SyncFails, AnsweredBy, GivesUp, TypeOK
  <1>8. ASSUME NEW s \in Syncers, Restart(s) PROVE TypeOK'
    BY <1>6, <1>8, UnansweredType DEF Restart, TypeOK
  <1>9. ASSUME NEW p \in Pushers, NEW r \in PushRequests(p), Send(p, r), pos[p] = 0,
               UNCHANGED <<store, late, calm, pos, synced, told, entry, foreign>>
        PROVE  TypeOK'
    <2>1. p \in Syncers /\ r \in Requests BY <1>0, PushRequestKind
    <2>2. CallOK(p)' BY <1>9, <2>1, SendType DEF CallOK
    <2>3. \A d \in Syncers \ {p} : CallOK(d)' BY <1>0, <1>9, <2>1, SendType, CallFrame
    <2> QED BY <1>9, <2>1, <2>2, <2>3, SendType DEF TypeOK
  <1>10. ASSUME NEW p \in Pushers, NEW v \in Vals, Push(p, v) PROVE TypeOK'
    <2> DEFINE m == IF entry[p] = NoVal THEN "POST" ELSE "PUT"
    <2>1. /\ PushRequest(p, m, v) \in PushRequests(p) /\ Send(p, PushRequest(p, m, v))
          /\ call[p] = NoCall
          /\ UNCHANGED <<store, late, calm, pos, synced, told, entry, foreign>>
      BY <1>10, PushRequestIsOne DEF Push
    <2>2. pos[p] = 0
      <3>1. p \in Syncers /\ CallOK(p) BY <1>0
      <3>2. pos[p] # 0 => pos[p] \in Tags BY <3>1, ClientAssumption DEF TypeOK, Tags
      <3> QED BY <2>1, <3>1, <3>2, TagRequestKind, RequestKinds DEF CallOK
    <2> QED BY <1>9, <2>1, <2>2
  <1>11. ASSUME NEW p \in Pushers, PushExists(p) PROVE TypeOK'
    <2>1. pos[p] = 0 /\ call[p].val \in Vals BY <1>11, OwnCall DEF PushExists
    <2>2. PushRequest(p, "PUT", call[p].val) \in PushRequests(p) BY <2>1, PushRequestIsOne
    <2> QED BY <1>9, <1>11, <2>1, <2>2 DEF PushExists
  <1>12. ASSUME NEW p \in Pushers, Hangup(p), pos[p] = 0, late' \subseteq Requests,
                entry' \in [Pushers -> Vals \cup {NoVal}],
                UNCHANGED <<store, calm, pos, synced, told, foreign>>
         PROVE  TypeOK'
    <2>1. p \in Syncers BY <1>0
    <2>2. CallOK(p)' BY <1>12, <2>1, HangupType DEF CallOK
    <2>3. \A d \in Syncers \ {p} : CallOK(d)' BY <1>0, <1>12, <2>1, HangupType, CallFrame
    <2> QED BY <1>12, <2>1, <2>2, <2>3, HangupType DEF TypeOK
  <1>13. ASSUME NEW p \in Pushers, Pushed(p) PROVE TypeOK'
    <2>1. call[p].val \in Vals BY <1>13, OwnCall DEF Pushed, Success
    <2> QED BY <1>12, <1>13, <2>1 DEF Pushed, Set, TypeOK
  <1>14. ASSUME NEW p \in Pushers, PushFails(p) PROVE TypeOK'
    <2>1. p \in Syncers /\ Hangup(p) /\ late' \subseteq Requests
      BY <1>0, <1>14, UnansweredType DEF PushFails, AnsweredBy, GivesUp, TypeOK
    <2>2. entry' \in [Pushers -> Vals \cup {NoVal}] BY <1>14 DEF PushFails, Forgets, Delete, TypeOK
    <2> QED BY <1>12, <1>14, <2>1, <2>2 DEF PushFails
  <1>15. ASSUME NEW p \in Pushers, Remove(p) PROVE TypeOK'
    <2>1. /\ store' \in [Items -> Vals \cup Syncers \cup {NoVal}] /\ foreign' \subseteq Pushers
          /\ UNCHANGED <<late, calm, call, tries, wire, pos, synced, told, entry>>
      BY <1>15 DEF Remove, TypeOK, Items, client
    <2>2. \A d \in Syncers : CallOK(d)' BY <1>0, <2>1, CallFrame
    <2> QED BY <2>1, <2>2 DEF TypeOK
  <1>16. ASSUME NEW r \in Requests, ServeLate(r) PROVE TypeOK'
    <2>1. /\ store' \in [Items -> Vals \cup Syncers \cup {NoVal}] /\ foreign' \subseteq Pushers
          /\ late' \subseteq Requests
          /\ UNCHANGED <<calm, call, tries, wire, pos, synced, told, entry>>
      BY <1>16, CarryOutFacts DEF ServeLate, TypeOK, client
    <2>2. \A d \in Syncers : CallOK(d)' BY <1>0, <2>1, CallFrame
    <2> QED BY <2>1, <2>2 DEF TypeOK
  <1>17. ASSUME CalmDown \/ UNCHANGED vars PROVE TypeOK'
    <2>1. /\ calm' \in BOOLEAN
          /\ UNCHANGED <<store, late, call, tries, wire, pos, synced, told, entry, foreign>>
      BY <1>17 DEF CalmDown, vars, TypeOK, client
    <2>2. \A d \in Syncers : CallOK(d)' BY <1>0, <2>1, CallFrame
    <2> QED BY <2>1, <2>2 DEF TypeOK
  <1> QED BY <1>1, <1>2, <1>3, <1>4, <1>5, <1>7, <1>8, <1>10, <1>11, <1>13, <1>14,
             <1>15, <1>16, <1>17, NextCases

-----------------------------------------------------------------------------
(* What a call is about: the tag its process stands at, or its own entity. *)
LEMMA CallItem ==
  ASSUME TypeOK, NEW s \in Syncers, wire[s] # "none"
  PROVE  /\ call[s] \in Requests
         /\ pos[s] # 0 => pos[s] \in Tags /\ call[s].item = pos[s] /\ call[s].val = s
         /\ pos[s] = 0 => s \in Pushers /\ call[s].item = s
         /\ call[s].item \in Tags => pos[s] = call[s].item
         /\ call[s].item \notin Tags => pos[s] = 0
  <1>1. call[s] \in Requests /\ CallOK(s) BY DEF TypeOK, CallOK
  <1>2. CASE pos[s] # 0
    <2>1. pos[s] \in Tags BY <1>2, ClientAssumption DEF TypeOK, Tags
    <2> QED BY <1>1, <1>2, <2>1, TagRequestKind DEF CallOK
  <1>3. CASE pos[s] = 0
    <2>1. s \in Pushers /\ call[s].item = s BY <1>1, <1>3, PushRequestKind DEF CallOK
    <2>2. s \notin Tags BY ClientAssumption DEF Tags
    <2> QED BY <1>1, <1>3, <2>1, <2>2
  <1> QED BY <1>2, <1>3

(* Every tag before the one a request is for exists.                       *)
Follows(r) == \A n, m \in Tags : r.item = n /\ m < n => Exists(m)

LEMMA CallFollows ==
  ASSUME TypeOK, OrderInv, NEW s \in Syncers, wire[s] # "none"
  PROVE  Follows(call[s])
  BY CallItem DEF Follows, OrderInv

LEMMA LateFollows ==
  ASSUME TypeOK, OrderInv, NEW s \in Syncers, Unanswered(s)
  PROVE  \A r \in late' : Follows(r)
  <1>1. wire[s] # "none" BY DEF Unanswered
  <1>2. \A r \in late' : r \in late \/ r = call[s] BY UnansweredType
  <1> QED BY <1>1, <1>2, CallFollows DEF OrderInv, Follows

(* Carrying out such a request leaves no gap.                              *)
LEMMA CarryOutOrder ==
  ASSUME TypeOK, OrderInv, NEW r \in Requests, Follows(r), CarryOut(r)
  PROVE  /\ \A n \in Tags : Exists(n) => Exists(n)'
         /\ \A n \in Tags : Exists(n)' => \A m \in 1 .. n : Exists(m)'
  <1>1. \A n \in Tags : Exists(n) => Exists(n)' BY CarryOutFacts
  <1>2. ASSUME NEW n \in Tags, Exists(n)', NEW m \in 1 .. n PROVE Exists(m)'
    <2>1. n \in Items /\ m \in Tags /\ n \in Int /\ m \in Int /\ m <= n
      BY ClientAssumption DEF Items, Tags
    <2>2. CASE Exists(n) BY <1>1, <2>1, <2>2 DEF OrderInv
    <2>3. CASE ~Exists(n)
      <3>1. n = r.item BY <1>2, <2>1, <2>3, CarryOutFacts DEF Exists
      <3>2. CASE m = n BY <1>2, <3>2
      <3>3. CASE m # n BY <1>1, <2>1, <3>1, <3>3 DEF Follows
      <3> QED BY <3>2, <3>3
    <2> QED BY <2>2, <2>3
  <1> QED BY <1>1, <1>2

LEMMA OrderStep == TypeOK /\ OrderInv /\ [Next]_vars => OrderInv'
  <1> SUFFICES ASSUME TypeOK, OrderInv, [Next]_vars PROVE OrderInv' OBVIOUS
  <1>0. /\ Pushers \subseteq Syncers
        /\ \A n \in Tags : n \in Int /\ n \notin Pushers /\ n \in Items
        /\ \A s \in Syncers : pos[s] \in Int
    BY ClientAssumption DEF Tags, Items, TypeOK
  (* A process starts to wait for an answer, or stops waiting.             *)
  <1>1. ASSUME NEW s \in Syncers, store' = store, \A r \in late' : Follows(r),
               \A d \in Syncers \ {s} : wire'[d] = wire[d] /\ pos'[d] = pos[d],
               wire'[s] \in {"none", "sent", "refused"},
               \A m \in Tags : m < pos'[s] => Exists(m),
               synced' # {} => \A n \in Tags : Exists(n)
        PROVE  OrderInv'
    <2>1. \A n \in Tags : Exists(n)' <=> Exists(n) BY <1>1 DEF Exists
    <2>2. \A n \in Tags : Exists(n)' => \A m \in 1 .. n : Exists(m)'
      BY <2>1, ClientAssumption DEF OrderInv, Tags
    <2>3. \A d \in Syncers : \A m \in Tags : m < pos'[d] => Exists(m)'
      BY <1>1, <2>1 DEF OrderInv
    <2>4. \A r \in late' : \A n, m \in Tags : r.item = n /\ m < n => Exists(m)'
      BY <1>1, <2>1 DEF Follows
    <2>5. \A d \in Syncers : pos'[d] # 0 /\ wire'[d] \in {"ok", "exists"} => Exists(pos[d])'
      <3> SUFFICES ASSUME NEW d \in Syncers, pos'[d] # 0, wire'[d] \in {"ok", "exists"}
                   PROVE  store'[pos'[d]] # NoVal
        BY <1>1 DEF Exists
      <3>1. d # s BY <1>1
      <3> QED BY <1>1, <3>1 DEF OrderInv, Exists
    <2> QED BY <1>1, <2>1, <2>2, <2>3, <2>4, <2>5 DEF OrderInv, Exists
  (* A request is carried out, and a process that waits for it answered.   *)
  <1>2. ASSUME NEW r \in Requests, Follows(r), CarryOut(r), late' \subseteq late,
               pos' = pos, synced' = synced,
               \A d \in Syncers : \/ wire'[d] = wire[d]
                                  \/ wire'[d] = Answer(r) /\ r = call[d] /\ wire[d] # "none"
        PROVE  OrderInv'
    <2>1. /\ \A n \in Tags : Exists(n) => Exists(n)'
          /\ \A n \in Tags : Exists(n)' => \A m \in 1 .. n : Exists(m)'
      BY <1>2, CarryOutOrder
    <2>2. ASSUME NEW d \in Syncers, pos[d] # 0, wire'[d] \in {"ok", "exists"}
          PROVE  store'[pos[d]] # NoVal
      <3>0. pos[d] \in Tags BY <2>2, ClientAssumption DEF TypeOK, Tags
      <3>1. CASE wire'[d] = wire[d] BY <2>1, <2>2, <3>0, <3>1 DEF OrderInv, Exists
      <3>2. CASE wire'[d] = Answer(r) /\ r = call[d] /\ wire[d] # "none"
        BY <1>2, <2>2, <3>0, <3>2, CallItem, CarryOutFacts
      <3> QED BY <1>2, <3>1, <3>2
    <2> QED BY <1>2, <2>1, <2>2 DEF OrderInv, Exists
  <1>3. \A r \in late : Follows(r) BY DEF OrderInv, Follows
  <1>4. ASSUME NEW s \in Syncers, SyncTags(s) PROVE OrderInv'
    <2>1. pos'[s] = 1 /\ wire'[s] = "sent" BY <1>4 DEF SyncTags, Send, TypeOK
    <2>2. \A m \in Tags : ~(m < 1) BY DEF Tags
    <2>3. \A d \in Syncers \ {s} : wire'[d] = wire[d] /\ pos'[d] = pos[d]
      BY <1>4 DEF SyncTags, Send, TypeOK
    <2>4. store' = store /\ late' = late /\ synced' = synced BY <1>4 DEF SyncTags
    <2> QED BY <1>1, <1>3, <2>1, <2>2, <2>3, <2>4 DEF OrderInv
  <1>5. ASSUME NEW s \in Syncers, Serve(s) PROVE OrderInv'
    <2>1. wire[s] # "none" /\ call[s] \in Requests /\ Follows(call[s])
      BY <1>5, CallItem, CallFollows DEF Serve
    <2>2. \A d \in Syncers : wire'[d] = IF d = s THEN Answer(call[s]) ELSE wire[d]
      BY <1>5 DEF Serve, TypeOK
    <2>3. CarryOut(call[s]) /\ late' = late /\ pos' = pos /\ synced' = synced
      BY <1>5 DEF Serve
    <2>4. \A d \in Syncers : \/ wire'[d] = wire[d]
                             \/ wire'[d] = Answer(call[s]) /\ call[s] = call[d] /\ wire[d] # "none"
      BY <2>1, <2>2
    <2>5. late' \subseteq late BY <2>3
    <2> HIDE DEF Follows, CarryOut, Answer
    <2> QED BY <1>2, <2>1, <2>3, <2>4, <2>5
  <1>6. ASSUME NEW r \in Requests, ServeLate(r) PROVE OrderInv'
    <2>1. /\ Follows(r) /\ CarryOut(r) /\ late' \subseteq late
          /\ pos' = pos /\ synced' = synced /\ wire' = wire
      BY <1>3, <1>6 DEF ServeLate, client
    <2> QED BY <1>2, <2>1
  <1>7. ASSUME NEW s \in Syncers, Refuse(s) PROVE OrderInv'
    <2>1. /\ wire'[s] = "refused"
          /\ \A d \in Syncers \ {s} : wire'[d] = wire[d] /\ pos'[d] = pos[d]
          /\ store' = store /\ late' = late /\ synced' = synced /\ pos' = pos
      BY <1>7 DEF Refuse, TypeOK
    <2> QED BY <1>1, <1>3, <2>1 DEF OrderInv
  <1>8. ASSUME NEW s \in Syncers, Retry(s) PROVE OrderInv'
    <2>1. /\ wire'[s] = "sent"
          /\ \A d \in Syncers \ {s} : wire'[d] = wire[d] /\ pos'[d] = pos[d]
          /\ store' = store /\ synced' = synced /\ pos' = pos
      BY <1>8 DEF Retry, TypeOK
    <2>2. \A r \in late' : Follows(r) BY <1>8, LateFollows DEF Retry
    <2> QED BY <1>1, <2>1, <2>2 DEF OrderInv
  <1>9. ASSUME NEW s \in Syncers, TagPosted(s) PROVE OrderInv'
    <2>1. /\ store' = store /\ late' = late
          /\ \A d \in Syncers \ {s} : wire'[d] = wire[d] /\ pos'[d] = pos[d]
          /\ wire'[s] \in {"none", "sent"}
      BY <1>9 DEF TagPosted, Send, Hangup, TypeOK
    <2>2. \A m \in Tags : m < pos[s] + 1 => Exists(m)
      <3>1. Exists(pos[s]) BY <1>9 DEF TagPosted, Accepted, OrderInv
      <3> QED BY <1>0, <3>1 DEF OrderInv
    <2>3. CASE pos[s] < NTags
      <3>1. pos'[s] = pos[s] + 1 /\ synced' = synced BY <1>9, <2>3 DEF TagPosted, TypeOK
      <3> QED BY <1>1, <1>3, <2>1, <2>2, <3>1 DEF OrderInv
    <2>4. CASE ~(pos[s] < NTags)
      <3>1. pos'[s] = 0 BY <1>9, <2>4 DEF TagPosted, TypeOK
      <3>2. \A m \in Tags : m < pos[s] + 1 BY <1>0, <2>4, ClientAssumption DEF Tags
      <3> QED BY <1>1, <1>3, <2>1, <2>2, <3>1, <3>2
    <2> QED BY <2>3, <2>4
  <1>10. ASSUME NEW s \in Syncers, SyncFails(s) \/ Restart(s) PROVE OrderInv'
    <2>1. /\ store' = store /\ pos'[s] = 0 /\ wire'[s] = "none" /\ synced' \subseteq synced
          /\ \A d \in Syncers \ {s} : wire'[d] = wire[d] /\ pos'[d] = pos[d]
      BY <1>10 DEF SyncFails, Restart, AnsweredBy, GivesUp, Hangup, TypeOK
    <2>2. \A r \in late' : Follows(r)
      BY <1>3, <1>10, LateFollows DEF SyncFails, Restart, AnsweredBy, GivesUp
    <2>3. \A m \in Tags : ~(m < 0) BY DEF Tags
    <2> QED BY <1>1, <2>1, <2>2, <2>3 DEF OrderInv
  <1>11. ASSUME NEW p \in Pushers, (\E v \in Vals : Push(p, v)) \/ PushStep(p) PROVE OrderInv'
    <2>1. /\ p \in Syncers /\ store' = store /\ pos' = pos /\ synced' = synced
          /\ wire'[p] \in {"none", "sent"}
          /\ \A d \in Syncers \ {p} : wire'[d] = wire[d] /\ pos'[d] = pos[d]
      BY <1>0, <1>11 DEF Push, PushStep, Pushed, PushExists, PushFails, AnsweredBy, GivesUp,
                         Send, Hangup, TypeOK
    <2>2. \A r \in late' : Follows(r)
      BY <1>0, <1>3, <1>11, LateFollows DEF Push, PushStep, Pushed, PushExists, PushFails, AnsweredBy, GivesUp
    <2> QED BY <1>1, <2>1, <2>2 DEF OrderInv
  <1>12. ASSUME NEW p \in Pushers, Remove(p) PROVE OrderInv'
    <2>1. \A n \in Tags : Exists(n)' <=> Exists(n)
      BY <1>0, <1>12 DEF Remove, Exists, TypeOK
    <2>2. UNCHANGED <<late, pos, wire, synced>> BY <1>12 DEF Remove, client
    <2>3. \A s \in Syncers : pos[s] # 0 => pos[s] \in Tags BY ClientAssumption DEF TypeOK, Tags
    <2>4. \A n \in Tags : \A m \in 1 .. n : m \in Tags BY ClientAssumption DEF Tags
    <2> QED BY <2>1, <2>2, <2>3, <2>4 DEF OrderInv, Exists
  <1>13. ASSUME CalmDown \/ UNCHANGED vars PROVE OrderInv'
    BY <1>13 DEF CalmDown, vars, client, OrderInv, Exists
  <1> QED BY <1>4, <1>5, <1>6, <1>7, <1>8, <1>9, <1>10, <1>11, <1>12, <1>13
          DEF Next, CallStep

-----------------------------------------------------------------------------
(* Steps of Next leave the value of an existing tag alone: what is carried *)
(* out of a tag is a POST, and the operator removes entities only.         *)
LEMMA TagsKept ==
  ASSUME TypeOK, [Next]_vars, NEW n \in Tags, Exists(n)
  PROVE  store'[n] = store[n]
  <1>1. ASSUME NEW s \in Syncers, Serve(s) PROVE store'[n] = store[n]
    <2>1. call[s] \in Requests /\ CarryOut(call[s]) BY <1>1, CallItem DEF Serve
    <2> QED BY <2>1, CarryOutFacts
  <1>2. ASSUME NEW r \in Requests, ServeLate(r) PROVE store'[n] = store[n]
    BY <1>2, CarryOutFacts DEF ServeLate
  <1>3. ASSUME NEW p \in Pushers, Remove(p) PROVE store'[n] = store[n]
    <2>1. n # p /\ n \in Items BY ClientAssumption DEF Tags, Items
    <2> QED BY <1>3, <2>1 DEF Remove, TypeOK
  <1>4. ASSUME NEW s \in Syncers,
               SyncTags(s) \/ Refuse(s) \/ Retry(s) \/ TagPosted(s) \/ SyncFails(s) \/ Restart(s)
        PROVE  store'[n] = store[n]
    BY <1>4 DEF SyncTags, Refuse, Retry, TagPosted, SyncFails, Restart
  <1>5. ASSUME NEW p \in Pushers, (\E v \in Vals : Push(p, v)) \/ PushStep(p)
        PROVE  store'[n] = store[n]
    BY <1>5 DEF Push, PushStep, Pushed, PushExists, PushFails
  <1>6. ASSUME CalmDown \/ UNCHANGED vars PROVE store'[n] = store[n]
    BY <1>6 DEF CalmDown, vars
  <1> QED BY <1>1, <1>2, <1>3, <1>4, <1>5, <1>6 DEF Next, CallStep

LEMMA CreatorStep == TypeOK /\ CreatorInv /\ [Next]_vars => CreatorInv'
  <1> SUFFICES ASSUME TypeOK, CreatorInv, [Next]_vars PROVE CreatorInv' OBVIOUS
  <1>0. Syncers \cap {NoVal} = {} /\ \A s \in Syncers : pos[s] # 0 => pos[s] \in Tags
    BY ClientAssumption DEF TypeOK, Tags
  (* A tag that is somebody's stays that one's.                            *)
  <1>1. \A n \in Tags : \A s \in Syncers : store[n] = s => store'[n] = s
    BY <1>0, TagsKept DEF Exists
  <1>2. \A n \in Tags : told[n] \subseteq Syncers BY DEF TypeOK
  <1>3. ASSUME told' = told,
               \A s \in Syncers : pos'[s] # 0 /\ wire'[s] = "ok" => pos'[s] = pos[s] /\ wire[s] = "ok"
        PROVE  CreatorInv'
    BY <1>0, <1>1, <1>2, <1>3 DEF CreatorInv
  <1>4. ASSUME NEW s \in Syncers, Serve(s) PROVE CreatorInv'
    <2>1. /\ call[s] \in Requests /\ CarryOut(call[s]) /\ wire' = [wire EXCEPT ![s] = Answer(call[s])]
          /\ told' = told /\ pos' = pos
          /\ pos[s] # 0 => call[s].item = pos[s] /\ call[s].val = s
      BY <1>4, CallItem DEF Serve
    <2>2. pos[s] # 0 /\ wire'[s] = "ok" => store'[pos[s]] = s
      BY <2>1, CarryOutFacts DEF TypeOK
    <2>3. \A d \in Syncers \ {s} : wire'[d] = wire[d] BY <2>1 DEF TypeOK
    <2>4. \A d \in Syncers : pos[d] # 0 /\ wire'[d] = "ok" => store'[pos[d]] = d
      BY <1>0, <1>1, <2>2, <2>3 DEF CreatorInv
    <2> QED BY <1>1, <1>2, <2>1, <2>4 DEF CreatorInv
  <1>5. ASSUME NEW s \in Syncers, TagPosted(s) PROVE CreatorInv'
    <2>1. /\ told' = IF wire[s] = "ok" THEN [told EXCEPT ![pos[s]] = @ \cup {s}] ELSE told
          /\ store' = store /\ pos[s] # 0 /\ wire'[s] \in {"none", "sent"}
          /\ \A d \in Syncers \ {s} : wire'[d] = wire[d] /\ pos'[d] = pos[d]
      BY <1>5 DEF TagPosted, NoteCreation, Success, Send, Hangup, TypeOK
    <2>2. \A n \in Tags : \A d \in told'[n] : store[n] = d
      BY <1>0, <2>1 DEF CreatorInv, TypeOK
    <2>3. \A d \in Syncers : pos'[d] # 0 /\ wire'[d] = "ok" => store[pos'[d]] = d
      BY <2>1 DEF CreatorInv
    <2> QED BY <2>1, <2>2, <2>3 DEF CreatorInv
  <1>6. ASSUME NEW s \in Syncers,
               SyncTags(s) \/ Refuse(s) \/ Retry(s) \/ SyncFails(s) \/ Restart(s)
        PROVE  CreatorInv'
    <2>1. /\ told' = told /\ wire'[s] # "ok"
          /\ \A d \in Syncers \ {s} : wire'[d] = wire[d] /\ pos'[d] = pos[d]
      BY <1>6 DEF SyncTags, Refuse, Retry, SyncFails, Restart, AnsweredBy, GivesUp, Send, Hangup, TypeOK
    <2> QED BY <1>3, <2>1
  <1>7. ASSUME NEW p \in Pushers, (\E v \in Vals : Push(p, v)) \/ PushStep(p) PROVE CreatorInv'
    <2>1. /\ told' = told /\ pos' = pos /\ p \in Syncers /\ wire'[p] # "ok"
          /\ \A d \in Syncers \ {p} : wire'[d] = wire[d]
      BY <1>7, ClientAssumption
         DEF Push, PushStep, Pushed, PushExists, PushFails, AnsweredBy, GivesUp, Send, Hangup, TypeOK
    <2> QED BY <1>3, <2>1
  <1>8. ASSUME \/ \E p \in Pushers : Remove(p)
               \/ \E r \in Requests : ServeLate(r)
               \/ CalmDown \/ UNCHANGED vars
        PROVE  CreatorInv'
    BY <1>3, <1>8 DEF Remove, ServeLate, CalmDown, vars, client
  <1> QED BY <1>4, <1>5, <1>6, <1>7, <1>8 DEF Next, CallStep

-----------------------------------------------------------------------------
LEMMA CacheStep == TypeOK /\ CacheInv /\ [Next]_vars => CacheInv'
  <1> SUFFICES ASSUME TypeOK, CacheInv, [Next]_vars PROVE CacheInv' OBVIOUS
  <1>0. /\ Pushers \subseteq Syncers
        /\ \A p \in Pushers : p \in Items /\ p \notin Tags
    BY ClientAssumption DEF Items, Tags
  <1> DEFINE
    Place(s) == /\ pos[s] # 0 => s \notin synced
                /\ pos[s] = 0 /\ call[s] # NoCall => s \in synced
    Fresh(p) == p \notin synced => entry[p] = NoVal
    Answered(p) == pos[p] = 0 /\ wire[p] = "ok" /\ p \notin foreign => store[p] = call[p].val
    Behind(p) == call[p] = NoCall /\ entry[p] # NoVal /\ p \notin foreign => store[p] = entry[p]
  <1>1. /\ \A s \in Syncers : Place(s)
        /\ \A p \in Pushers : Fresh(p) /\ Answered(p) /\ Behind(p)
    BY DEF CacheInv, CacheNeverAhead
  <1>2. ASSUME /\ \A s \in Syncers : Place(s)'
               /\ \A p \in Pushers : Fresh(p)' /\ Answered(p)' /\ Behind(p)'
        PROVE  CacheInv'
    BY <1>2 DEF CacheInv, CacheNeverAhead
  <1> HIDE DEF Place, Fresh, Answered, Behind
  (* A step of s: it concerns the call of s and what its cache holds.      *)
  <1>3. ASSUME NEW s \in Syncers, store' = store, foreign' = foreign,
               \A d \in Syncers \ {s} : /\ call'[d] = call[d] /\ wire'[d] = wire[d] /\ pos'[d] = pos[d]
                                        /\ d \in synced' <=> d \in synced,
               \A p \in Pushers \ {s} : entry'[p] = entry[p],
               wire'[s] # "ok",
               Place(s)', s \in Pushers => Fresh(s)' /\ Behind(s)'
        PROVE  CacheInv'
    <2>1. \A d \in Syncers : Place(d)' BY <1>1, <1>3 DEF Place
    <2>2. ASSUME NEW p \in Pushers PROVE Fresh(p)' /\ Answered(p)' /\ Behind(p)'
      <3>1. CASE p = s BY <1>3, <3>1 DEF Answered
      <3>2. CASE p # s BY <1>0, <1>1, <1>3, <3>2 DEF Fresh, Answered, Behind
      <3> QED BY <3>1, <3>2
    <2> QED BY <1>2, <2>1, <2>2
  <1>4. ASSUME NEW s \in Syncers, SyncTags(s) PROVE CacheInv'
    <2>1. /\ store' = store /\ foreign' = foreign /\ synced' = synced /\ entry' = entry
          /\ \A d \in Syncers \ {s} : call'[d] = call[d] /\ wire'[d] = wire[d] /\ pos'[d] = pos[d]
          /\ wire'[s] = "sent" /\ pos'[s] = 1 /\ s \notin synced
      BY <1>4 DEF SyncTags, Send, TypeOK
    <2>2. Place(s)' BY <2>1 DEF Place
    <2>3. s \in Pushers => entry[s] = NoVal BY <1>1, <2>1 DEF Fresh
    <2>4. s \in Pushers => Fresh(s)' /\ Behind(s)' BY <2>1, <2>3 DEF Fresh, Behind
    <2> QED BY <1>3, <2>1, <2>2, <2>4
  <1>5. ASSUME NEW s \in Syncers, Refuse(s) \/ Retry(s) PROVE CacheInv'
    <2>1. /\ store' = store /\ foreign' = foreign /\ synced' = synced /\ entry' = entry
          /\ \A d \in Syncers \ {s} : call'[d] = call[d] /\ wire'[d] = wire[d] /\ pos'[d] = pos[d]
          /\ wire'[s] \in {"sent", "refused"} /\ wire[s] # "none" /\ call' = call /\ pos' = pos
      BY <1>5 DEF Refuse, Retry, Unanswered, TypeOK
    <2>2. call[s] # NoCall BY <2>1 DEF TypeOK, CallOK
    <2>3. Place(s)' /\ (s \in Pushers => Fresh(s)' /\ Behind(s)')
      BY <1>1, <2>1, <2>2 DEF Place, Fresh, Behind
    <2> QED BY <1>3, <2>1, <2>3
  <1>6. ASSUME NEW s \in Syncers, TagPosted(s) PROVE CacheInv'
    <2>1. /\ store' = store /\ foreign' = foreign /\ entry' = entry
          /\ \A d \in Syncers \ {s} : /\ call'[d] = call[d] /\ wire'[d] = wire[d] /\ pos'[d] = pos[d]
                                      /\ d \in synced' <=> d \in synced
          /\ wire'[s] # "ok" /\ pos[s] # 0
      BY <1>6 DEF TagPosted, Send, Hangup, TypeOK
    <2>2. s \notin synced /\ (s \in Pushers => entry[s] = NoVal) BY <1>1, <2>1 DEF Place, Fresh
    <2>3. Place(s)'
      <3>1. CASE pos[s] < NTags
        <4>1. pos'[s] = pos[s] + 1 /\ synced' = synced BY <1>6, <3>1 DEF TagPosted, TypeOK
        <4>2. pos[s] + 1 # 0 BY ClientAssumption DEF TypeOK
        <4> QED BY <2>2, <4>1, <4>2 DEF Place
      <3>2. CASE ~(pos[s] < NTags)
        <4>1. pos'[s] = 0 /\ call'[s] = NoCall BY <1>6, <3>2 DEF TagPosted, Hangup, TypeOK
        <4> QED BY <4>1 DEF Place
      <3> QED BY <3>1, <3>2
    <2>4. s \in Pushers => Fresh(s)' /\ Behind(s)' BY <2>1, <2>2 DEF Fresh, Behind
    <2> QED BY <1>3, <2>1, <2>3, <2>4
  <1>7. ASSUME NEW s \in Syncers, SyncFails(s) PROVE CacheInv'
    <2>1. /\ store' = store /\ foreign' = foreign /\ entry' = entry /\ synced' = synced
          /\ \A d \in Syncers \ {s} : call'[d] = call[d] /\ wire'[d] = wire[d] /\ pos'[d] = pos[d]
          /\ wire'[s] = "none" /\ pos[s] # 0 /\ pos'[s] = 0 /\ call'[s] = NoCall
      BY <1>7 DEF SyncFails, AnsweredBy, GivesUp, Hangup, TypeOK
    <2>2. s \notin synced /\ (s \in Pushers => entry[s] = NoVal) BY <1>1, <2>1 DEF Place, Fresh
    <2>3. Place(s)' /\ (s \in Pushers => Fresh(s)' /\ Behind(s)')
      BY <2>1, <2>2 DEF Place, Fresh, Behind
    <2> QED BY <1>3, <2>1, <2>3
  <1>8. ASSUME NEW s \in Syncers, Restart(s) PROVE CacheInv'
    <2>1. /\ store' = store /\ foreign' = foreign
          /\ \A d \in Syncers \ {s} : /\ call'[d] = call[d] /\ wire'[d] = wire[d] /\ pos'[d] = pos[d]
                                      /\ d \in synced' <=> d \in synced
          /\ \A p \in Pushers \ {s} : entry'[p] = entry[p]
          /\ wire'[s] = "none" /\ pos'[s] = 0 /\ call'[s] = NoCall
          /\ s \in Pushers => entry'[s] = NoVal
      BY <1>8 DEF Restart, Hangup, TypeOK
    <2>2. Place(s)' /\ (s \in Pushers => Fresh(s)' /\ Behind(s)') BY <2>1 DEF Place, Fresh, Behind
    <2> QED BY <1>3, <2>1, <2>2
  <1>9. ASSUME NEW p \in Pushers, (\E v \in Vals : Push(p, v)) \/ PushExists(p) PROVE CacheInv'
    <2>1. /\ store' = store /\ foreign' = foreign /\ entry' = entry /\ synced' = synced /\ p \in Syncers
          /\ \A d \in Syncers \ {p} : call'[d] = call[d] /\ wire'[d] = wire[d] /\ pos'[d] = pos[d]
          /\ wire'[p] = "sent" /\ pos' = pos
      BY <1>0, <1>9 DEF Push, PushExists, Send, TypeOK
    <2>2. p \in synced
      <3>1. CASE \E v \in Vals : Push(p, v) BY <3>1 DEF Push
      <3>2. CASE PushExists(p)
        <4>1. pos[p] = 0 /\ call[p] # NoCall BY <2>1, <3>2 DEF PushExists, TypeOK, CallOK
        <4> QED BY <1>1, <2>1, <4>1 DEF Place
      <3> QED BY <1>9, <3>1, <3>2
    <2>3. call'[p] # NoCall BY <2>1, TypeStep DEF TypeOK, CallOK
    <2>4. Place(p)' /\ Fresh(p)' /\ Behind(p)' BY <1>1, <2>1, <2>2, <2>3 DEF Place, Fresh, Behind
    <2> QED BY <1>3, <2>1, <2>4
  <1>10. ASSUME NEW p \in Pushers, Pushed(p) \/ PushFails(p) PROVE CacheInv'
    <2>1. /\ store' = store /\ foreign' = foreign /\ synced' = synced /\ p \in Syncers
          /\ \A d \in Syncers \ {p} : call'[d] = call[d] /\ wire'[d] = wire[d] /\ pos'[d] = pos[d]
          /\ wire'[p] = "none" /\ call'[p] = NoCall /\ pos' = pos /\ pos[p] = 0 /\ wire[p] # "none"
          /\ \A q \in Pushers \ {p} : entry'[q] = entry[q]
      BY <1>0, <1>10 DEF Pushed, Success, PushFails, Forgets, AnsweredBy, GivesUp, Unanswered,
                         Hangup, Set, Delete, TypeOK
    <2>2. p \in synced
      <3>1. call[p] # NoCall BY <2>1 DEF TypeOK, CallOK
      <3> QED BY <1>1, <2>1, <3>1 DEF Place
    <2>3. Behind(p)'
      <3>1. CASE Pushed(p)
        <4>1. entry'[p] = call[p].val /\ wire[p] = "ok" BY <3>1 DEF Pushed, Set, Success, TypeOK
        <4> QED BY <1>1, <2>1, <4>1 DEF Answered, Behind
      <3>2. CASE PushFails(p)
        <4>1. entry'[p] = NoVal BY <3>2 DEF PushFails, Forgets, Delete, TypeOK
        <4> QED BY <4>1 DEF Behind
      <3> QED BY <1>10, <3>1, <3>2
    <2>4. Place(p)' /\ Fresh(p)' BY <2>1, <2>2 DEF Place, Fresh
    <2> QED BY <1>3, <2>1, <2>3, <2>4
  (* A step of the server or of somebody else.                             *)
  <1>11. ASSUME UNCHANGED <<call, pos, synced, entry>>,
                \A p \in Pushers : Answered(p)' /\ Behind(p)'
         PROVE  CacheInv'
    <2>1. \A s \in Syncers : Place(s)' BY <1>1, <1>11 DEF Place
    <2>2. \A p \in Pushers : Fresh(p)' BY <1>1, <1>11 DEF Fresh
    <2> QED BY <1>2, <1>11, <2>1, <2>2
  <1>12. ASSUME NEW s \in Syncers, Serve(s) PROVE CacheInv'
    <2>1. /\ call[s] \in Requests /\ CarryOut(call[s]) /\ wire' = [wire EXCEPT ![s] = Answer(call[s])]
          /\ UNCHANGED <<call, pos, synced, entry>> /\ wire[s] = "sent" /\ call[s] # NoCall
          /\ foreign' = IF Answer(call[s]) = "ok" THEN foreign \ {call[s].item} ELSE foreign
          /\ call[s].item \notin Tags => call[s].item = s
      BY <1>12, CallItem, RequestKinds DEF Serve
    <2>2. ASSUME NEW p \in Pushers PROVE Answered(p)' /\ Behind(p)'
      <3>1. CASE p = call[s].item
        <4>1. p = s BY <1>0, <2>1, <3>1
        <4>2. wire'[p] = "ok" => store'[p] = call[p].val
          BY <2>1, <3>1, <4>1, CarryOutFacts DEF TypeOK
        <4> QED BY <2>1, <4>1, <4>2 DEF Answered, Behind
      <3>2. CASE p # call[s].item
        <4>1. store'[p] = store[p] /\ (p \in foreign' <=> p \in foreign)
          BY <1>0, <2>1, <3>2, CarryOutFacts
        <4>2. p = s => pos[p] # 0 BY <2>1, <3>2, CallItem
        <4>3. p # s => wire'[p] = wire[p] BY <1>0, <2>1 DEF TypeOK
        <4> QED BY <1>1, <2>1, <4>1, <4>2, <4>3 DEF Answered, Behind
      <3> QED BY <3>1, <3>2
    <2> QED BY <1>11, <2>1, <2>2
  <1>13. ASSUME NEW r \in Requests, ServeLate(r) PROVE CacheInv'
    <2>1. /\ CarryOut(r) /\ UNCHANGED <<call, pos, synced, entry, wire>>
          /\ foreign' = IF Answer(r) = "ok" THEN foreign \cup ({r.item} \cap Pushers) ELSE foreign
      BY <1>13 DEF ServeLate, client
    <2>2. ASSUME NEW p \in Pushers PROVE Answered(p)' /\ Behind(p)'
      <3>1. p \notin foreign' => p \notin foreign /\ store'[p] = store[p]
        BY <1>0, <2>1, CarryOutFacts
      <3> QED BY <1>1, <2>1, <3>1 DEF Answered, Behind
    <2> QED BY <1>11, <2>1, <2>2
  <1>14. ASSUME NEW q \in Pushers, Remove(q) PROVE CacheInv'
    <2>1. /\ UNCHANGED <<call, pos, synced, entry, wire>> /\ foreign' = foreign \cup {q}
          /\ \A p \in Pushers \ {q} : store'[p] = store[p]
      BY <1>0, <1>14 DEF Remove, client, TypeOK
    <2>2. \A p \in Pushers : Answered(p)' /\ Behind(p)' BY <1>1, <2>1 DEF Answered, Behind
    <2> QED BY <1>11, <2>1, <2>2
  <1>15. ASSUME CalmDown \/ UNCHANGED vars PROVE CacheInv'
    <2>1. UNCHANGED <<store, call, wire, pos, synced, entry, foreign>>
      BY <1>15 DEF CalmDown, vars, client
    <2>2. \A p \in Pushers : Answered(p)' /\ Behind(p)' BY <1>1, <2>1 DEF Answered, Behind
    <2> QED BY <1>11, <2>1, <2>2
  <1> QED BY <1>4, <1>5, <1>6, <1>7, <1>8, <1>9, <1>10, <1>12, <1>13, <1>14, <1>15
          DEF Next, CallStep, PushStep

-----------------------------------------------------------------------------
THEOREM Invariance == Spec => []IInv
  <1>1. IInv /\ [Next]_vars => IInv'
    BY TypeStep, OrderStep, CreatorStep, CacheStep DEF IInv
  <1> QED BY <1>1, InitIInv, PTL DEF Spec

(* Every reachable state is of the right type: in particular no call is    *)
(* sent more than RetryMax times again, and SyncTags' call is always for   *)
(* the tag it stands at.                                                   *)
THEOREM TypeCorrect == Spec => []TypeOK
  <1>1. IInv => TypeOK BY DEF IInv
  <1> QED BY <1>1, Invariance, PTL

(* The tags that exist are the first ones of the file, all of them once    *)
(* SyncTags has returned nil (tags.go:94-97).                              *)
THEOREM TagsInOrder == Spec => []TagsExistInOrder
  <1>1. IInv => TagsExistInOrder BY DEF IInv, OrderInv, TagsExistInOrder, Exists
  <1> QED BY <1>1, Invariance, PTL

(* At most one process is told that it created a tag, and the tag is its   *)
(* own (client.go:184-199).                                                *)
THEOREM OneCreatorOnly == Spec => []OneCreator
  <1>1. IInv => OneCreator
    BY DEF IInv, CreatorInv, OneCreator, TypeOK
  <1> QED BY <1>1, Invariance, PTL

(* The cache is ahead of the Content API only after a late or foreign      *)
(* write (cache.go:39-49).                                                 *)
THEOREM CacheNotAhead == Spec => []CacheNeverAhead
  <1>1. IInv => CacheNeverAhead BY DEF IInv, CacheInv
  <1> QED BY <1>1, Invariance, PTL

(* No step replaces the definition of an existing tag (tags.go:71).        *)
THEOREM DefinitionsStay == Spec => FirstDefinitionStays
  <1>1. IInv /\ [Next]_vars
          => [\A n \in Tags : store[n] # NoVal => store'[n] = store[n]]_vars
    BY TagsKept DEF IInv, Exists
  <1> QED BY <1>1, Invariance, PTL DEF Spec, FirstDefinitionStays
=============================================================================
