---------------------------- MODULE Transformer ----------------------------
(***************************************************************************)
(* A transformer built on ingest/tr: tr.Tr (tr.go) or tr.CTr (ctr.go)      *)
(* takes one delivery at a time from its queue, fetches the raw document   *)
(* it names (Tr only), runs the consumer's handler and settles the         *)
(* delivery; the handler leaves unchanged entities out of its write with   *)
(* tr.Cache (cache.go).                                                    *)
(*                                                                         *)
(* The broker keeps a delivery until it is settled, hands out the next one *)
(* only then, and puts an unsettled one back at the head of the queue when *)
(* the connection or the process is lost.  Queues are consumed with        *)
(* WithNoRequeueOnNack(true): a Nack drops the message.                    *)
(*                                                                         *)
(* The handler is the consumer's.  It is modelled as the comments of       *)
(* cache.go tell a consumer to write one: Changes, then the write, then    *)
(* CommitAll once the write succeeded.  That it calls Forget after a write *)
(* that may have reached the target although it failed is assumed; the     *)
(* comments do not ask for it.                                             *)
(*                                                                         *)
(* X_Defect is X with a plausible defect, used by no specification.        *)
(***************************************************************************)
EXTENDS Naturals, Sequences

CONSTANTS
  Ids,       \* the entities a document lists
  Vals,      \* what an entity may look like
  NoVal,     \* no entry in the cache, nothing in the target
  Fetches,   \* TRUE for Tr, FALSE for CTr whose messages carry the document
  MaxQueue   \* bound: messages waiting when a publisher adds one

ASSUME TransformerAssumption ==
  /\ NoVal \notin Vals
  /\ Fetches \in BOOLEAN
  /\ MaxQueue \in Nat

VARIABLES
  (* The broker and its publisher *)
  queue,    \* deliveries to come
  held,     \* the broker holds the current delivery as unsettled
  newest,   \* the document published last
  missed,   \* that document was dropped by a Nack
  (* The consumer *)
  pc,       \* where the goroutine of Start stands
  current,  \* the delivery being handled
  failed,   \* handleDelivery returned an error for it
  span,     \* status of its consumer span
  (* The handler *)
  changes,  \* what Changes returned: the entities to write
  cache,    \* Cache.hashes; equal hashes stand for equal values
  target    \* what the target system holds

broker   == <<queue, held, newest, missed>>
consumer == <<pc, current, failed, span>>
vars == <<broker, consumer, changes, cache, target>>

Documents == [Ids -> Vals]
NoDocument == [i \in Ids |-> NoVal]

Message(kind, doc) == [kind |-> kind, doc |-> doc]
Garbled == {Message("garbled", NoDocument)}
BadUrn  == IF Fetches THEN {Message("badUrn", NoDocument)} ELSE {}
Messages == {Message("doc", d) : d \in Documents} \cup Garbled \cup BadUrn

-----------------------------------------------------------------------------
(* Cache *)

Empty == [i \in Ids |-> NoVal]

Changed_OnlyNew(i, v) == cache[i] = NoVal
Changed(i, v)         == cache[i] = NoVal \/ cache[i] # v

Changes(doc) == {i \in Ids : Changed(i, doc[i])}

CommitAll(doc, ids) == cache' = [i \in Ids |-> IF i \in ids THEN doc[i] ELSE cache[i]]
Forget_Nothing(ids) == UNCHANGED cache
Forget(ids)         == cache' = [i \in Ids |-> IF i \in ids THEN NoVal ELSE cache[i]]

-----------------------------------------------------------------------------
(* Publisher and broker *)

Publish(m) ==
  /\ Len(queue) < MaxQueue
  /\ queue' = Append(queue, m)
  /\ newest' = IF m.kind = "doc" THEN m.doc ELSE newest
  /\ missed' = (missed /\ m.kind # "doc")
  /\ UNCHANGED <<held, consumer, changes, cache, target>>

Deliver ==
  /\ pc = "idle" /\ ~held /\ queue # <<>>
  /\ current' = Head(queue) /\ queue' = Tail(queue) /\ held' = TRUE
  /\ failed' = FALSE /\ span' = "unset"
  /\ pc' = "parse"
  /\ UNCHANGED <<newest, missed, changes, cache, target>>

(* What the broker has and has not been told the fate of, in order.        *)
Unsettled == IF held THEN <<current>> \o queue ELSE queue

Requeue == queue' = Unsettled

(* The handler does not notice; settling the delivery has no effect later. *)
ConnectionLost ==
  /\ held
  /\ Requeue /\ held' = FALSE
  /\ UNCHANGED <<newest, missed, consumer, changes, cache, target>>

(* A new process: "a restarted transformer re-pushes everything once".     *)
Crash ==
  /\ Requeue /\ held' = FALSE
  /\ pc' = "idle" /\ failed' = FALSE /\ span' = "unset"
  /\ changes' = {} /\ cache' = Empty
  /\ UNCHANGED <<newest, missed, current, target>>

-----------------------------------------------------------------------------
(* handleDelivery *)

Parse ==
  /\ pc = "parse" /\ current.kind = "doc"
  /\ pc' = IF Fetches THEN "fetch" ELSE "handle"
  /\ UNCHANGED <<broker, current, failed, span, changes, cache, target>>

ParseFails ==
  /\ pc = "parse" /\ current.kind = "garbled"
  /\ pc' = "nack"
  /\ UNCHANGED <<broker, current, failed, span, changes, cache, target>>

(* "invalid urn format in mq message" returns without settling.            *)
UrnRejected ==
  /\ pc = "parse" /\ current.kind = "badUrn"
  /\ failed' = TRUE
  /\ pc' = "onError"
  /\ UNCHANGED <<broker, current, span, changes, cache, target>>

Fetch ==
  /\ pc = "fetch"
  /\ pc' = "handle"
  /\ UNCHANGED <<broker, current, failed, span, changes, cache, target>>

FetchFails ==
  /\ pc = "fetch"
  /\ pc' = "nack"
  /\ UNCHANGED <<broker, current, failed, span, changes, cache, target>>

Diff ==
  /\ pc = "handle"
  /\ changes' = Changes(current.doc)
  /\ pc' = IF Changes(current.doc) = {} THEN "ack" ELSE "push"
  /\ UNCHANGED <<broker, current, failed, span, cache, target>>

(* The handler, a middleware around it or Hash returned an error.          *)
HandlerFails ==
  /\ pc = "handle"
  /\ pc' = "nack"
  /\ UNCHANGED <<broker, current, failed, span, changes, cache, target>>

Written(ids) == [i \in Ids |-> IF i \in ids THEN current.doc[i] ELSE target[i]]

Push ==
  /\ pc = "push"
  /\ target' = Written(changes)
  /\ pc' = "commit"
  /\ UNCHANGED <<broker, current, failed, span, changes, cache>>

PushRefused ==
  /\ pc = "push"
  /\ changes' = {}
  /\ pc' = "nack"
  /\ UNCHANGED <<broker, current, failed, span, cache, target>>

(* The write failed after part of it, or all of it, reached the target.    *)
(* The consumer is assumed to Forget what it tried to write: one that did  *)
(* not would leave out a later change back to what is in the cache.        *)
PushTorn ==
  /\ pc = "push"
  /\ \E reached \in SUBSET changes : target' = Written(reached)
  /\ Forget(changes)
  /\ changes' = {}
  /\ pc' = "nack"
  /\ UNCHANGED <<broker, current, failed, span>>

Commit ==
  /\ pc = "commit"
  /\ CommitAll(current.doc, changes)
  /\ changes' = {}
  /\ pc' = "ack"
  /\ UNCHANGED <<broker, current, failed, span, target>>

Ack ==
  /\ pc = "ack"
  /\ held' = FALSE
  /\ pc' = "onSuccess"
  /\ UNCHANGED <<queue, newest, missed, current, failed, span, changes, cache, target>>

NewerQueued == \E n \in DOMAIN queue : queue[n].kind = "doc"

Nack_Unsettled ==
  /\ pc = "nack"
  /\ failed' = TRUE
  /\ pc' = "onError"
  /\ UNCHANGED <<broker, current, span, changes, cache, target>>

Nack ==
  /\ pc = "nack"
  /\ held' = FALSE
  /\ missed' = (missed \/ (held /\ current.kind = "doc" /\ ~NewerQueued))
  /\ failed' = TRUE
  /\ pc' = "onError"
  /\ UNCHANGED <<queue, newest, current, span, changes, cache, target>>

-----------------------------------------------------------------------------
(* Start, after handleDelivery returned *)

OnError ==
  /\ pc = "onError"
  /\ span' = "error"
  /\ pc' = "onSuccess"
  /\ UNCHANGED <<broker, current, failed, changes, cache, target>>

(* OnSuccess is called for every message; a span that is Ok stays Ok.      *)
OnSuccess ==
  /\ pc = "onSuccess"
  /\ span' = "ok"
  /\ pc' = "end"
  /\ UNCHANGED <<broker, current, failed, changes, cache, target>>

End ==
  /\ pc = "end"
  /\ pc' = "idle"
  /\ UNCHANGED <<broker, current, failed, span, changes, cache, target>>

(* The consumer may make the next rounds write an entity, or all of them.  *)
ForceRepush ==
  /\ pc = "idle"
  /\ cache' = Empty \/ \E i \in Ids : Forget({i})
  /\ UNCHANGED <<broker, consumer, changes, target>>

-----------------------------------------------------------------------------
Init ==
  /\ queue = <<>> /\ held = FALSE /\ newest = NoDocument /\ missed = FALSE
  /\ pc = "idle" /\ current = Message("garbled", NoDocument)
  /\ failed = FALSE /\ span = "unset"
  /\ changes = {} /\ cache = Empty /\ target \in [Ids -> Vals \cup {NoVal}]

Step ==
  \/ Deliver \/ Parse \/ ParseFails \/ UrnRejected \/ Fetch \/ Diff
  \/ Push \/ Commit \/ Ack \/ Nack \/ OnError \/ OnSuccess \/ End

Disturbance ==
  \/ \E m \in Messages : Publish(m)
  \/ ConnectionLost \/ Crash
  \/ FetchFails \/ HandlerFails \/ PushRefused \/ PushTorn \/ ForceRepush

Next == Step \/ Disturbance

Spec == Init /\ [][Next]_vars

(* The goroutine of Start runs, calls return, and the broker hands out     *)
(* what it holds; nobody has to publish, and nothing has to fail.          *)
FairSpec == Spec /\ WF_vars(Step)

-----------------------------------------------------------------------------
(* Properties *)

(* Every variable holds a value of its kind, and there is something to     *)
(* write only between Changes and the end of the write.                    *)
TypeOK ==
  /\ queue \in Seq(Messages) /\ held \in BOOLEAN
  /\ newest \in Documents \cup {NoDocument} /\ missed \in BOOLEAN
  /\ pc \in {"idle", "parse", "fetch", "handle", "push", "commit", "ack", "nack",
             "onError", "onSuccess", "end"}
  /\ current \in Messages /\ failed \in BOOLEAN /\ span \in {"unset", "error", "ok"}
  /\ changes \subseteq Ids /\ (changes # {} <=> pc \in {"push", "commit"})
  /\ cache \in [Ids -> Vals \cup {NoVal}] /\ target \in [Ids -> Vals \cup {NoVal}]

(* "Committing before the write succeeds would remember a state that never *)
(* reached the target": what the cache remembers of an entity is what the  *)
(* target holds, whatever writes fail, tear or are repeated; only between  *)
(* a write and its commit may the cache be behind.                         *)
CacheNeverAhead ==
  \A i \in Ids : cache[i] # NoVal /\ ~(pc = "commit" /\ i \in changes) => cache[i] = target[i]

(* A message is acknowledged only when the target holds every entity of    *)
(* its document, those left out of the write as unchanged included, and    *)
(* also when the message is delivered again.                               *)
AckedIsWritten == pc = "ack" => target = current.doc

(* The newest document is never lost without a Nack, nor overwritten by an *)
(* older one, however often connections break, deliveries are repeated and *)
(* processes die: as long as the target does not hold it, it is unsettled. *)
NewestIsKept ==
  \/ newest = NoDocument \/ missed \/ target = newest
  \/ \E n \in DOMAIN Unsettled : Unsettled[n].kind = "doc" /\ Unsettled[n].doc = newest

(* Once publishing and faults cease, the target comes to hold the newest   *)
(* document, unless a Nack dropped it or a message whose URN does not      *)
(* parse keeps the broker from delivering anything else.                   *)
Wedged == pc = "idle" /\ held /\ current.kind = "badUrn"

CatchesUp ==
  <>[][~Disturbance]_vars
    => <>[](target = newest \/ newest = NoDocument \/ missed \/ Wedged)

(* OnError "logs the error and set span status to error": a message whose  *)
(* handling failed leaves a span that says so.                             *)
FailedSpansSayError == pc = "end" /\ failed => span = "error"
=============================================================================
