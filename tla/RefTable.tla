------------------------------ MODULE RefTable ------------------------------
(***************************************************************************)
(* One reference table of ingest/reftable: an in-memory view of the        *)
(* compacted state of a collection in the raw data lake.                   *)
(*                                                                         *)
(* The refresher is a single goroutine (Table.run): it either re-reads the *)
(* whole collection page by page and swaps the result in (reconcile), or   *)
(* handles one change notification (handleNotification).  It runs against  *)
(* a collection that publishers keep changing, a bridge that may fail or   *)
(* accept a request and never answer it, and a queue that loses, repeats   *)
(* and reorders notifications.  Readers (Get, All, Len, Health) take the   *)
(* read lock and see one state of this module.                             *)
(*                                                                         *)
(* Names of variables and actions follow reftable.go.  A definition named  *)
(* X_Defect is X with a plausible defect; no specification uses it, and    *)
(* PROJECT.json names the property each of them breaks.                    *)
(***************************************************************************)
EXTENDS RefRecord, FiniteSets

CONSTANTS
  PageLimit,     \* Config.PageLimit: documents per page
  MaxWalkPages,  \* maxWalkPages: pages a walk may read
  StaleAfter     \* Config.StaleAfter, in ticks of the clock

ASSUME TableAssumption ==
  /\ IsFiniteSet(Keys)
  /\ PageLimit \in Nat \ {0}
  /\ MaxWalkPages \in Nat \ {0}
  /\ StaleAfter \in Nat

VARIABLES
  (* The collection, outside this program *)
  stored,    \* the documents in the collection
  newest,    \* per key, the document the compacted view serves
  hung,      \* the outstanding request was accepted and will never be answered
  (* The refresher goroutine *)
  pc,        \* where it stands
  cursor,    \* reconcile: the last key read, 0 before the first page
  pages,     \* reconcile: pages read
  next,      \* reconcile: the table being built beside the live one
  nextStamps,
  changed,   \* what reconcile returned: how many keys differ
  msg,       \* handleNotification: the document the message names
  (* The table, under t.mu *)
  data,      \* per key, the value served
  stamps,    \* per key, the event time of the document applied; 0 when there is none
  ready,
  readyCh,   \* the channel Ready returns is closed
  lastErr,   \* the last reconcile failed
  stale,
  age,       \* ticks since lastReconcile, at most PastBudget
  (* Telemetry, moved after the lock is released *)
  counted,   \* this table's share of reftable_stale
  delta,     \* the move of that counter the refresher still has to make
  (* History *)
  consumer,  \* the table as the consumer read it when last called back
  offered    \* per key, what the compacted view served since the walk began

bridge   == <<stored, newest, hung>>
walk     == <<cursor, pages, next, nextStamps>>
table    == <<data, stamps>>
health   == <<lastErr, stale, age>>
signals  == <<ready, readyCh>>
counter  == <<counted, delta>>
vars == <<bridge, pc, walk, changed, msg, table, signals, health, counter,
          consumer, offered>>

(* time.Since of a table that never reconciled is past every budget.       *)
PastBudget == StaleAfter + 1

-----------------------------------------------------------------------------
(* Readers, and what reconcile reports *)

CountChanges_NoRemovals(old, new) == Cardinality({k \in Keys : new[k] \notin {NoValue, old[k]}})

CountChanges(old, new) == Cardinality({k \in Keys : old[k] # new[k]})

Healthy == ready /\ age <= StaleAfter

-----------------------------------------------------------------------------
(* The collection and its bridge *)

(* A publisher writes a document, dated whenever it chose.  The compacted  *)
(* view serves the newest document of a key by event time.                 *)
Publish(r) ==
  LET prev == newest[r.key]
      wins == prev = NoRev \/ r.ts >= prev.ts IN
  /\ stored' = stored \cup {r}
  /\ newest' = IF wins THEN [newest EXCEPT ![r.key] = r] ELSE newest
  /\ offered' = IF wins /\ pc \in {"walk", "swap"}
                THEN [offered EXCEPT ![r.key] = @ \cup {r}] ELSE offered
  /\ UNCHANGED <<hung, pc, walk, changed, msg, table, signals, health, counter, consumer>>

(* An operator deletes a key's documents outright, without a tombstone.    *)
Remove(k) ==
  /\ newest[k] # NoRev
  /\ stored' = {r \in stored : r.key # k}
  /\ newest' = [newest EXCEPT ![k] = NoRev]
  /\ offered' = IF pc \in {"walk", "swap"}
                THEN [offered EXCEPT ![k] = @ \cup {NoRev}] ELSE offered
  /\ UNCHANGED <<hung, pc, walk, changed, msg, table, signals, health, counter, consumer>>

(* The bridge accepts the request under way and never answers it.          *)
Hang ==
  /\ pc = "fetch" \/ (pc = "walk" /\ pages < MaxWalkPages)
  /\ hung' = TRUE
  /\ UNCHANGED <<stored, newest, pc, walk, changed, msg, table, signals,
                 health, counter, consumer, offered>>

Tick ==
  /\ age < PastBudget
  /\ age' = age + 1
  /\ UNCHANGED <<bridge, pc, walk, changed, msg, table, signals, lastErr, stale,
                 counter, consumer, offered>>

-----------------------------------------------------------------------------
(* reconcile: read every page beside the live table, then swap *)

BeginWalk ==
  /\ cursor' = 0
  /\ pages' = 0
  /\ next' = Empty
  /\ nextStamps' = NoStamps
  /\ offered' = [k \in Keys |-> {newest[k]}]

EndWalk ==
  /\ cursor' = 0
  /\ pages' = 0
  /\ next' = Empty
  /\ nextStamps' = NoStamps
  /\ offered' = [k \in Keys |-> {}]

(* The ticker fired while the refresher was idle.                          *)
Refresh ==
  /\ pc = "idle"
  /\ pc' = "walk"
  /\ BeginWalk
  /\ UNCHANGED <<bridge, changed, msg, table, signals, health, counter, consumer>>

(* The keys with a document behind the cursor, and the page that serves    *)
(* the first PageLimit of them.                                            *)
Remaining == {k \in Keys : newest[k] # NoRev /\ k > cursor}
PageTo(last) == {k \in Remaining : k <= last}

TakePage_Restarts(page) ==
  /\ next' = [k \in Keys |-> IF k \in page THEN ValueOf(newest[k]) ELSE Empty[k]]
  /\ nextStamps' = [k \in Keys |-> IF k \in page THEN StampOf(newest[k]) ELSE NoStamps[k]]
  /\ pages' = pages + 1

TakePage(page) ==
  /\ next' = [k \in Keys |-> IF k \in page THEN ValueOf(newest[k]) ELSE next[k]]
  /\ nextStamps' = [k \in Keys |-> IF k \in page THEN StampOf(newest[k]) ELSE nextStamps[k]]
  /\ pages' = pages + 1

ReadPage ==
  /\ pc = "walk" /\ ~hung /\ pages < MaxWalkPages
  /\ Cardinality(Remaining) > PageLimit
  /\ \E last \in Remaining :
        /\ Cardinality(PageTo(last)) = PageLimit
        /\ TakePage(PageTo(last))
        /\ cursor' = last
  /\ UNCHANGED <<bridge, pc, changed, msg, table, signals, health, counter, consumer, offered>>

(* The last page comes with no next cursor.                                *)
ReadLastPage ==
  /\ pc = "walk" /\ ~hung /\ pages < MaxWalkPages
  /\ Cardinality(Remaining) <= PageLimit
  /\ TakePage(Remaining)
  /\ pc' = "swap"
  /\ UNCHANGED <<bridge, cursor, changed, msg, table, signals, health, counter, consumer, offered>>

(* reconcile returned an error.  In a bootstrap that fails Start and with  *)
(* it the process; later it is recorded and the table keeps serving.       *)
LeaveWalk ==
  /\ pc' = IF ready THEN "recordFailure" ELSE "failed"
  /\ hung' = FALSE
  /\ EndWalk
  /\ UNCHANGED <<stored, newest, changed, msg, table, signals, health, counter, consumer>>

(* The bridge answered with an error, its cursor did not advance, or its   *)
(* answer came later than ReconcileTimeout.                                *)
WalkFails == pc = "walk" /\ pages < MaxWalkPages /\ LeaveWalk

WalkExceedsPages == pc = "walk" /\ pages >= MaxWalkPages /\ LeaveWalk

(* context.WithTimeout ends a walk whose request is never answered.        *)
WalkTimesOut_Never == FALSE /\ LeaveWalk
WalkTimesOut == pc = "walk" /\ hung /\ LeaveWalk

(* Merging into the live table instead of replacing it.                    *)
Swap_Merges ==
  /\ pc = "swap"
  /\ changed' = CountChanges(data, next)
  /\ data' = [k \in Keys |-> IF next[k] = NoValue THEN data[k] ELSE next[k]]
  /\ stamps' = nextStamps
  /\ pc' = IF ready THEN "recordSuccess" ELSE "setReady"
  /\ EndWalk
  /\ UNCHANGED <<bridge, msg, signals, health, counter, consumer>>

Swap ==
  /\ pc = "swap"
  /\ changed' = CountChanges(data, next)
  /\ data' = next
  /\ stamps' = nextStamps
  /\ pc' = IF ready THEN "recordSuccess" ELSE "setReady"
  /\ EndWalk
  /\ UNCHANGED <<bridge, msg, signals, health, counter, consumer>>

(* bootstrap sets ready in a critical section of its own.                  *)
SetReady ==
  /\ pc = "setReady"
  /\ ready' = TRUE
  /\ pc' = "recordSuccess"
  /\ UNCHANGED <<bridge, walk, changed, msg, table, readyCh, health, counter, consumer, offered>>

RecordSuccess_KeepsStale ==
  /\ pc = "recordSuccess"
  /\ age' = 0
  /\ lastErr' = FALSE
  /\ delta' = IF stale THEN -1 ELSE 0
  /\ pc' = "count"
  /\ UNCHANGED <<bridge, walk, changed, msg, table, signals, stale, counted, consumer, offered>>

RecordSuccess ==
  /\ pc = "recordSuccess"
  /\ age' = 0
  /\ lastErr' = FALSE
  /\ stale' = FALSE
  /\ delta' = IF stale THEN -1 ELSE 0
  /\ pc' = "count"
  /\ UNCHANGED <<bridge, walk, changed, msg, table, signals, counted, consumer, offered>>

Crossed_Late == ~stale /\ age > PastBudget
Crossed      == ~stale /\ age > StaleAfter

RecordFailure ==
  /\ pc = "recordFailure"
  /\ lastErr' = TRUE
  /\ stale' = (stale \/ Crossed)
  /\ delta' = IF Crossed THEN 1 ELSE 0
  /\ changed' = 0
  /\ pc' = "count"
  /\ UNCHANGED <<bridge, walk, msg, table, signals, age, counted, consumer, offered>>

(* After the unlock: move the counter, then finish the bootstrap or the    *)
(* refresh.  OnChange is not called for a bootstrap, nor when nothing      *)
(* changed.                                                                *)
MoveCounter ==
  /\ pc = "count"
  /\ counted' = counted + delta
  /\ delta' = 0
  /\ pc' = IF ~readyCh THEN "closeReady" ELSE IF changed > 0 THEN "notify" ELSE "idle"
  /\ UNCHANGED <<bridge, walk, changed, msg, table, signals, health, consumer, offered>>

(* Start returns and the consumer makes its first read.                    *)
CloseReady ==
  /\ pc = "closeReady"
  /\ readyCh' = TRUE
  /\ consumer' = data
  /\ changed' = 0
  /\ pc' = "idle"
  /\ UNCHANGED <<bridge, walk, msg, table, ready, health, counter, offered>>

(* OnChange runs on the refresher; a panic in it is recovered.             *)
OnChange ==
  /\ pc = "notify"
  /\ consumer' = data
  /\ changed' = 0
  /\ msg' = NoRev
  /\ pc' = "idle"
  /\ UNCHANGED <<stored, newest, hung, walk, table, signals, health, counter, offered>>

-----------------------------------------------------------------------------
(* handleNotification: fetch the named document, then apply it *)

(* The queue may name any document at any time: notifications are lost,    *)
(* late, repeated and out of order, so nothing else is known of it.        *)
TakeNotification(r) ==
  /\ pc = "idle"
  /\ msg' = r
  /\ pc' = "fetch"
  /\ UNCHANGED <<bridge, walk, changed, table, signals, health, counter, consumer, offered>>

FetchReply ==
  /\ pc = "fetch" /\ ~hung
  /\ msg \in stored
  /\ pc' = IF ParseRecord(msg) /\ Accepts(msg) THEN "apply" ELSE "ack"
  /\ UNCHANGED <<bridge, walk, changed, msg, table, signals, health, counter, consumer, offered>>

(* No such document any more, or the bridge answered with an error, or the *)
(* notification did not parse.                                             *)
FetchFails ==
  /\ pc = "fetch" /\ ~hung
  /\ pc' = "ack"
  /\ UNCHANGED <<bridge, walk, changed, msg, table, signals, health, counter, consumer, offered>>

StampLeft_Forgets == IF IsDelete(msg) THEN 0 ELSE msg.ts
StampLeft        == msg.ts

Apply ==
  LET k == msg.key
      older == msg.ts < stamps[k] IN
  /\ pc = "apply"
  /\ IF older
     THEN UNCHANGED table /\ pc' = "ack"
     ELSE /\ data' = [data EXCEPT ![k] = AppliedValue(msg)]
          /\ stamps' = [stamps EXCEPT ![k] = StampLeft]
          /\ pc' = "notify"
  /\ UNCHANGED <<bridge, walk, changed, msg, signals, health, counter, consumer, offered>>

Ack ==
  /\ pc = "ack"
  /\ msg' = NoRev
  /\ pc' = "idle"
  /\ UNCHANGED <<stored, newest, hung, walk, changed, table, signals, health, counter,
                 consumer, offered>>

-----------------------------------------------------------------------------
(* New, then the bootstrap of Set.Start under way on an empty collection.  *)
Init ==
  /\ stored = {} /\ newest = [k \in Keys |-> NoRev] /\ hung = FALSE
  /\ pc = "walk" /\ cursor = 0 /\ pages = 0 /\ next = Empty /\ nextStamps = NoStamps
  /\ changed = 0 /\ msg = NoRev
  /\ data = Empty /\ stamps = NoStamps /\ ready = FALSE /\ readyCh = FALSE
  /\ lastErr = FALSE /\ stale = FALSE /\ age = PastBudget
  /\ counted = 0 /\ delta = 0
  /\ consumer = Empty /\ offered = [k \in Keys |-> {newest[k]}]

(* A new process: the table starts over.                                   *)
Restart ==
  /\ hung' = FALSE /\ pc' = "walk" /\ changed' = 0 /\ msg' = NoRev
  /\ data' = Empty /\ stamps' = NoStamps /\ ready' = FALSE /\ readyCh' = FALSE
  /\ lastErr' = FALSE /\ stale' = FALSE /\ age' = PastBudget
  /\ counted' = 0 /\ delta' = 0 /\ consumer' = Empty
  /\ UNCHANGED <<stored, newest>>
  /\ BeginWalk

(* What the refresher does by itself once it is running.                   *)
Refresher ==
  \/ Refresh \/ ReadPage \/ ReadLastPage \/ WalkExceedsPages \/ WalkTimesOut
  \/ Swap \/ SetReady \/ RecordSuccess \/ RecordFailure \/ MoveCounter
  \/ CloseReady \/ OnChange \/ FetchReply \/ Apply \/ Ack

(* What the surroundings may do to it at any time.                         *)
Disturbance ==
  \/ \E r \in Revisions : Publish(r) \/ TakeNotification(r)
  \/ \E k \in Keys : Remove(k)
  \/ Hang \/ WalkFails \/ FetchFails \/ Restart

Next ==
  \/ Refresher
  \/ Disturbance
  \/ Tick

Spec == Init /\ [][Next]_vars

(* The Go scheduler runs the refresher whenever it is not blocked,         *)
(* deadlines expire and time passes.  The ticker keeps a tick for an idle  *)
(* refresher and select picks at random among what is ready, so sweeps are *)
(* not starved by notifications.  A request that is not hung is answered.  *)
(* Nothing makes a publisher act, and nothing makes the bridge answer a    *)
(* request it left hanging.                                                *)
FairSpec ==
  /\ Spec
  /\ SF_vars(Refresh)
  /\ WF_vars(ReadPage \/ ReadLastPage)
  /\ WF_vars(WalkExceedsPages)
  /\ WF_vars(WalkTimesOut)
  /\ WF_vars(Swap) /\ WF_vars(SetReady)
  /\ WF_vars(RecordSuccess) /\ WF_vars(RecordFailure) /\ WF_vars(MoveCounter)
  /\ WF_vars(CloseReady) /\ WF_vars(OnChange)
  /\ WF_vars(FetchReply \/ FetchFails)
  /\ WF_vars(Apply) /\ WF_vars(Ack)
  /\ WF_vars(Tick)

-----------------------------------------------------------------------------
(* Properties *)

PCs == {"walk", "swap", "setReady", "recordSuccess", "recordFailure", "count",
        "closeReady", "notify", "idle", "fetch", "apply", "ack", "failed"}

(* Every variable holds a value of its kind.                               *)
TypeOK ==
  /\ stored \subseteq Revisions 
  /\ newest \in [Keys -> Revisions \cup {NoRev}]
  /\ hung \in BOOLEAN /\ pc \in PCs
  /\ cursor \in Nat /\ pages \in Nat
  /\ next \in [Keys -> Values \cup {NoValue}] /\ nextStamps \in [Keys -> Nat]
  /\ data \in [Keys -> Values \cup {NoValue}] /\ stamps \in [Keys -> Nat]
  /\ changed \in Nat
  /\ msg \in Revisions \cup {NoRev}
  /\ ready \in BOOLEAN /\ readyCh \in BOOLEAN
  /\ lastErr \in BOOLEAN /\ stale \in BOOLEAN /\ age \in 0 .. PastBudget
  /\ counted \in 0 .. 1 /\ delta \in -1 .. 1
  /\ consumer \in [Keys -> Values \cup {NoValue}]
  /\ offered \in [Keys -> SUBSET (Revisions \cup {NoRev})]

(* What reconcile is about to swap in is, for every key, one document the  *)
(* compacted view served for that key at some moment of this very walk:    *)
(* paging over a collection that changes underneath neither loses a key,   *)
(* nor keeps one that was gone all along, nor pairs a value with the event *)
(* time of another revision.                                               *)
SwapIsRegular ==
  pc = "swap" =>
    \A k \in Keys : \E r \in offered[k] :
       next[k] = ValueOf(r) /\ nextStamps[k] = StampOf(r)

(* The two maps under t.mu never tear: the value and the stamp of a key    *)
(* come from one document the table accepts, by whichever path it came; a  *)
(* stamp without a value is a tombstone the queue path applied.            *)
StampBelongsToValue ==
  \A k \in Keys :
     \/ data[k] = NoValue /\ stamps[k] = 0
     \/ \E r \in Revisions :
           /\ r.key = k /\ ParseRecord(r) /\ Accepts(r)
           /\ stamps[k] = r.ts /\ data[k] = AppliedValue(r)

(* A consumer that reads the table when Start returns and again in every   *)
(* OnChange holds exactly what the table serves whenever the refresher is  *)
(* not between a change and its callback.                                  *)
OnChangeMissesNothing ==
  readyCh /\ pc \in {"idle", "walk", "swap", "fetch", "apply", "ack", "recordFailure"}
    => consumer = data

(* A sweep calls OnChange only when it changed something, a bootstrap      *)
(* never.  The queue path calls it once per document it applied: what the  *)
(* table serves then is what the consumer last read with that one document *)
(* put in, and nothing else moved.  That may be no change, since a         *)
(* document of the event time already held is applied again.               *)
OnChangeOnlyForEdits ==
  pc = "notify" =>
    /\ readyCh
    /\ IF msg = NoRev
       THEN consumer # data
       ELSE /\ ParseRecord(msg) /\ Accepts(msg)
            /\ data = [consumer EXCEPT ![msg.key] = AppliedValue(msg)]
            /\ stamps[msg.key] = msg.ts

(* OnChange is called for every change, by sweep or notification, removals *)
(* included; by a sweep for nothing but a change, and by the queue path    *)
(* for nothing but a document it applied.                                  *)
OnChangeIsExact == OnChangeMissesNothing /\ OnChangeOnlyForEdits

(* OnChange is called for nothing but changes, on the queue path too.      *)
CallbacksAreEdits == pc = "notify" => consumer # data

(* This table's share of reftable_stale is 1 exactly while it is marked    *)
(* stale, except between the unlock and the move of the counter, and a     *)
(* table marked stale is one Health reports.                               *)
StaleIsCounted ==
  /\ counted + delta = (IF stale THEN 1 ELSE 0)
  /\ stale => ~Healthy /\ lastErr

(* Notifications arrive in any order and more than once; none of them      *)
(* takes a key back to an earlier event time, a key the queue path deleted *)
(* included.                                                               *)
QueueNeverRegresses ==
  [][pc = "apply" /\ pc' # "walk" => \A k \in Keys : stamps'[k] >= stamps[k]]_vars

(* "Event time decides which revision of a key wins": a key whose newest   *)
(* document is a tombstone, and which the table has dropped, is not        *)
(* brought back by the notification of an older document.                  *)
DeletedKeysStayDeleted ==
  [][pc = "apply" /\ pc' # "walk" =>
       \A k \in Keys :
          newest[k] # NoRev /\ newest[k].kind = "delete" /\ data[k] = NoValue
          /\ msg.ts < newest[k].ts
            => data'[k] = NoValue]_vars

(* Once publishers, faults and restarts cease, the table comes to serve    *)
(* the compacted view and stays there, whatever was lost, repeated,        *)
(* reordered or failed before.  (A process whose bootstrap failed has      *)
(* stopped, one whose notification fetch hangs is the subject of           *)
(* RefresherComesBack, and a collection of more pages than maxWalkPages is *)
(* refused.)                                                               *)
Agrees == data = [k \in Keys |-> ValueOf(newest[k])]
TooLarge == Cardinality({k \in Keys : newest[k] # NoRev}) > PageLimit * MaxWalkPages
Stuck  == pc = "failed" \/ (pc = "fetch" /\ hung)

Converges ==
  <>[][~Disturbance]_vars => <>[](Agrees \/ Stuck \/ TooLarge)

(* A walk ends, whatever the bridge does with the requests it gets, unless *)
(* the process is restarted over and over.                                 *)
WalkEnds == <>[][~Restart]_vars => (pc = "walk" ~> pc # "walk")

(* A table that stays past its budget while its refresher runs comes to be *)
(* counted, and stays so.                                                  *)
StaleEventuallyCounted ==
  <>[](ready /\ age > StaleAfter /\ ~Stuck) => <>[](counted = 1)

(* "A bridge that accepts the connection and never answers must not wedge  *)
(* the refresher."                                                         *)
RefresherComesBack == ready ~> (pc = "idle" \/ ~ready)

(* Readers are promised a view that is only ever replaced as a whole, by   *)
(* something the collection served during one refresh, or patched in one   *)
(* key: the comment on reconcile, "a reader never sees a half-built map".  *)
View == INSTANCE RefView WITH collection <- newest, view <- data
ViewSpec == View!Spec
=============================================================================
