---------------------------- MODULE IngestProofs ----------------------------
(***************************************************************************)
(* Proofs about what a transformer does with a message: Transformer, for   *)
(* any entities, values, queue bound and either kind of transformer, and   *)
(* Merge, for any documents, records and tables, of any depth and length.  *)
(*                                                                         *)
(* CacheNeverAhead alone says nothing of a write under way, so IInv adds   *)
(* what Changes established: an entity left out of the write is one whose  *)
(* cached value is the one the message carries.                            *)
(*                                                                         *)
(* Of Merge, MergeInv follows the references.  A record that no rule has   *)
(* shared is as it was decoded because nothing in the target, and nothing  *)
(* MergePatch builds, leads into one (Shielded, CallsInv); what is read    *)
(* from it is a scalar, or an object that is merged and so copied, member  *)
(* by member (Copied).  A document is a heap, so facts about a path are    *)
(* proved from one step of it to the next (UpTo).                          *)
(***************************************************************************)
EXTENDS Transformer, Merge, SequenceTheorems, FiniteSetTheorems, WellFoundedInduction, TLAPS

-----------------------------------------------------------------------------
(* Transformer *)

HandlingInv ==
  pc \in {"fetch", "handle", "push", "commit", "ack"} => current.doc \in Documents

WriteInv ==
  /\ pc \in {"push", "commit"} => \A i \in Ids \ changes : cache[i] = current.doc[i]
  /\ pc = "commit" => \A i \in changes : target[i] = current.doc[i]

IInv == TypeOK /\ HandlingInv /\ WriteInv /\ CacheNeverAhead /\ AckedIsWritten

(* What a message is: its fields and the kinds of documents it carries.    *)
LEMMA MessageFields ==
  ASSUME NEW m \in Messages
  PROVE  /\ m.doc \in Documents \cup {NoDocument}
         /\ m.kind = "doc" => m.doc \in Documents
BY DEF Messages, Message, Garbled, BadUrn

(* Taking from the head, adding at the end and putting back at the head    *)
(* leave a sequence of messages.                                           *)
LEMMA QueueKinds ==
  ASSUME NEW q \in Seq(Messages), NEW m \in Messages
  PROVE  /\ Append(q, m) \in Seq(Messages)
         /\ <<m>> \o q \in Seq(Messages)
         /\ q # <<>> => Head(q) \in Messages /\ Tail(q) \in Seq(Messages)
OBVIOUS

LEMMA InitIInv == Init => IInv
<1> SUFFICES ASSUME Init PROVE IInv
  OBVIOUS
<1> USE DEF Init, Empty
<1>1. current \in Messages
  BY DEF Messages, Garbled
<1>2. queue \in Seq(Messages)
  OBVIOUS
<1>3. cache \in [Ids -> Vals \cup {NoVal}] /\ newest \in Documents \cup {NoDocument}
  OBVIOUS
<1>4. TypeOK
  BY <1>1, <1>2, <1>3 DEF TypeOK
<1> QED
  BY <1>4 DEF IInv, HandlingInv, WriteInv, CacheNeverAhead, AckedIsWritten

(* The handling of a delivery: these steps are the ones that can disturb   *)
(* the cache, the target or what is to be written.                         *)
LEMMA DiffKeeps == IInv /\ Diff => IInv'
<1> SUFFICES ASSUME IInv, Diff PROVE IInv'
  OBVIOUS
<1> USE TransformerAssumption DEF IInv, Diff, broker
<1>1. current.doc \in Documents
  BY DEF HandlingInv
<1>2. \A i \in Ids : i \in changes' <=> cache[i] = NoVal \/ cache[i] # current.doc[i]
  BY DEF Changes, Changed
<1>3. changes' \subseteq Ids
  BY DEF Changes
<1>4. TypeOK'
  BY <1>3 DEF TypeOK
<1>5. HandlingInv'
  BY <1>1 DEF HandlingInv
<1>6. WriteInv'
  BY <1>2 DEF WriteInv
<1>7. CacheNeverAhead'
  BY DEF CacheNeverAhead
<1>8. AckedIsWritten'
  <2> SUFFICES ASSUME pc' = "ack" PROVE target' = current'.doc
    BY DEF AckedIsWritten
  <2>1. changes' = {}
    OBVIOUS
  <2>2. \A i \in Ids : cache[i] = current.doc[i] /\ cache[i] # NoVal
    BY <2>1, <1>2
  <2>3. \A i \in Ids : target[i] = current.doc[i]
    BY <2>2 DEF CacheNeverAhead
  <2>4. target \in [Ids -> Vals \cup {NoVal}] /\ current.doc \in [Ids -> Vals]
    BY <1>1 DEF TypeOK, Documents
  <2>5. target = current.doc
    BY <2>3, <2>4
  <2> QED
    BY <2>5
<1> QED
  BY <1>4, <1>5, <1>6, <1>7, <1>8

LEMMA PushKeeps == IInv /\ Push => IInv'
<1> SUFFICES ASSUME IInv, Push PROVE IInv'
  OBVIOUS
<1> USE TransformerAssumption DEF IInv, Push, broker
<1>1. current.doc \in [Ids -> Vals]
  BY DEF HandlingInv, Documents
<1>2. \A i \in Ids : target'[i] = IF i \in changes THEN current.doc[i] ELSE target[i]
  BY DEF Written
<1>3. target' \in [Ids -> Vals \cup {NoVal}]
  BY <1>1 DEF Written, TypeOK
<1>4. TypeOK'
  BY <1>3 DEF TypeOK
<1>5. HandlingInv' /\ AckedIsWritten'
  BY <1>1 DEF HandlingInv, AckedIsWritten, Documents
<1>6. WriteInv'
  BY <1>2 DEF WriteInv, TypeOK
<1>7. CacheNeverAhead'
  BY <1>2 DEF CacheNeverAhead
<1> QED
  BY <1>4, <1>5, <1>6, <1>7

LEMMA PushTornKeeps == IInv /\ PushTorn => IInv'
<1> SUFFICES ASSUME IInv, PushTorn PROVE IInv'
  OBVIOUS
<1> USE TransformerAssumption DEF IInv, PushTorn, broker
<1>1. current.doc \in [Ids -> Vals]
  BY DEF HandlingInv, Documents
<1>2. PICK reached \in SUBSET changes : target' = Written(reached)
  OBVIOUS
<1>3. \A i \in Ids : target'[i] = IF i \in reached THEN current.doc[i] ELSE target[i]
  BY <1>2 DEF Written
<1>4. \A i \in Ids : cache'[i] = IF i \in changes THEN NoVal ELSE cache[i]
  BY DEF Forget
<1>5. target' \in [Ids -> Vals \cup {NoVal}] /\ cache' \in [Ids -> Vals \cup {NoVal}]
  BY <1>1, <1>2 DEF Written, Forget, TypeOK
<1>6. TypeOK'
  BY <1>5 DEF TypeOK
<1>7. HandlingInv' /\ WriteInv' /\ AckedIsWritten'
  BY DEF HandlingInv, WriteInv, AckedIsWritten
<1>8. CacheNeverAhead'
  BY <1>2, <1>3, <1>4 DEF CacheNeverAhead
<1> QED
  BY <1>6, <1>7, <1>8

LEMMA CommitKeeps == IInv /\ Commit => IInv'
<1> SUFFICES ASSUME IInv, Commit PROVE IInv'
  OBVIOUS
<1> USE TransformerAssumption DEF IInv, Commit, broker
<1>1. current.doc \in [Ids -> Vals]
  BY DEF HandlingInv, Documents
<1>2. \A i \in Ids : cache'[i] = IF i \in changes THEN current.doc[i] ELSE cache[i]
  BY DEF CommitAll
<1>3. cache' \in [Ids -> Vals \cup {NoVal}]
  BY <1>1 DEF CommitAll, TypeOK
<1>4. TypeOK'
  BY <1>3 DEF TypeOK
<1>5. \A i \in Ids : cache'[i] = target[i] /\ target[i] = current.doc[i]
  <2> TAKE i \in Ids
  <2>1. CASE i \in changes
    BY <2>1, <1>2 DEF WriteInv
  <2>2. CASE i \notin changes
    <3>1. cache[i] = current.doc[i] /\ cache[i] # NoVal
      BY <2>2, <1>1 DEF WriteInv
    <3> QED
      BY <2>2, <3>1, <1>2 DEF CacheNeverAhead
  <2> QED
    BY <2>1, <2>2
<1>6. target = current.doc
  BY <1>1, <1>5 DEF TypeOK
<1>7. HandlingInv' /\ WriteInv' /\ AckedIsWritten'
  BY <1>1, <1>6 DEF HandlingInv, WriteInv, AckedIsWritten, Documents
<1>8. CacheNeverAhead'
  BY <1>5 DEF CacheNeverAhead
<1> QED
  BY <1>4, <1>7, <1>8

(* A crash empties the cache, a forced re-push part of it.                 *)
LEMMA ResetKeeps == IInv /\ (Crash \/ ForceRepush) => IInv'
<1> SUFFICES ASSUME IInv, Crash \/ ForceRepush PROVE IInv'
  OBVIOUS
<1> USE TransformerAssumption DEF IInv, broker, consumer
<1>1. \A i \in Ids : cache'[i] \in {cache[i], NoVal}
  BY DEF Crash, ForceRepush, Empty, Forget
<1>2. cache' \in [Ids -> Vals \cup {NoVal}]
  BY DEF Crash, ForceRepush, Empty, Forget, TypeOK
<1>3. queue' \in Seq(Messages)
  <2>1. CASE Crash
    BY <2>1, QueueKinds DEF Crash, Requeue, Unsettled, TypeOK
  <2>2. CASE ForceRepush
    BY <2>2 DEF ForceRepush, TypeOK
  <2> QED
    BY <2>1, <2>2
<1>4. pc' = "idle" /\ target' = target
  BY DEF Crash, ForceRepush
<1>5. TypeOK'
  BY <1>2, <1>3 DEF Crash, ForceRepush, TypeOK
<1>6. HandlingInv' /\ WriteInv' /\ AckedIsWritten'
  BY <1>4 DEF HandlingInv, WriteInv, AckedIsWritten
<1>7. CacheNeverAhead'
  <2>1. CASE Crash
    BY <2>1 DEF Crash, Empty, CacheNeverAhead
  <2>2. CASE ForceRepush
    BY <2>2, <1>1, <1>4 DEF ForceRepush, CacheNeverAhead
  <2> QED
    BY <2>1, <2>2
<1> QED
  BY <1>5, <1>6, <1>7

(* Every other step leaves the cache and the target alone.                 *)
LEMMA RestKeeps ==
  IInv /\ (\/ Deliver \/ Parse \/ ParseFails \/ UrnRejected \/ Fetch \/ Ack \/ Nack
           \/ OnError \/ OnSuccess \/ End \/ ConnectionLost \/ FetchFails \/ HandlerFails
           \/ PushRefused \/ \E m \in Messages : Publish(m))
    => IInv'
<1> SUFFICES ASSUME IInv,
                    \/ Deliver \/ Parse \/ ParseFails \/ UrnRejected \/ Fetch \/ Ack \/ Nack
                    \/ OnError \/ OnSuccess \/ End \/ ConnectionLost \/ FetchFails
                    \/ HandlerFails \/ PushRefused \/ \E m \in Messages : Publish(m)
             PROVE  IInv'
  OBVIOUS
<1> USE TransformerAssumption DEF IInv, broker, consumer
<1>1. CASE Deliver
  BY <1>1, QueueKinds DEF Deliver, TypeOK, HandlingInv, WriteInv, CacheNeverAhead, AckedIsWritten
<1>2. CASE Parse
  <2>1. current.doc \in Documents
    BY <1>2, MessageFields DEF Parse, TypeOK
  <2> QED
    BY <1>2, <2>1 DEF Parse, TypeOK, HandlingInv, WriteInv, CacheNeverAhead, AckedIsWritten
<1>3. CASE ParseFails \/ UrnRejected \/ Fetch \/ FetchFails \/ HandlerFails
  BY <1>3 DEF ParseFails, UrnRejected, Fetch, FetchFails, HandlerFails,
              TypeOK, HandlingInv, WriteInv, CacheNeverAhead, AckedIsWritten
<1>4. CASE Ack \/ Nack \/ OnError \/ OnSuccess \/ End \/ PushRefused
  BY <1>4 DEF Ack, Nack, OnError, OnSuccess, End, PushRefused,
              TypeOK, HandlingInv, WriteInv, CacheNeverAhead, AckedIsWritten
<1>5. CASE ConnectionLost
  BY <1>5, QueueKinds DEF ConnectionLost, Requeue, Unsettled, TypeOK, HandlingInv, WriteInv,
              CacheNeverAhead, AckedIsWritten
<1>6. CASE \E m \in Messages : Publish(m)
  <2>1. PICK m \in Messages : Publish(m)
    BY <1>6
  <2>2. newest' \in Documents \cup {NoDocument} /\ queue' \in Seq(Messages)
    BY <2>1, MessageFields, QueueKinds DEF Publish, TypeOK
  <2>3. missed' \in BOOLEAN
    BY <2>1 DEF Publish
  <2> QED
    BY <2>1, <2>2, <2>3 DEF Publish, TypeOK, HandlingInv, WriteInv, CacheNeverAhead,
              AckedIsWritten
<1> QED
  BY <1>1, <1>2, <1>3, <1>4, <1>5, <1>6

LEMMA StutterKeeps == IInv /\ UNCHANGED vars => IInv'
BY DEF IInv, vars, broker, consumer, TypeOK, HandlingInv, WriteInv, CacheNeverAhead,
       AckedIsWritten

(* The inductive invariant holds in every behaviour.                       *)
THEOREM Invariance == Spec => []IInv
<1>1. Init => IInv
  BY InitIInv
<1>2. IInv /\ [Next]_vars => IInv'
  BY DiffKeeps, PushKeeps, PushTornKeeps, CommitKeeps, ResetKeeps, RestKeeps, StutterKeeps
     DEF Next, Step, Disturbance
<1> QED
  BY <1>1, <1>2, PTL DEF Spec

(* Every variable of the transformer keeps its type.                       *)
THEOREM TypeCorrect == Spec => []TypeOK
<1>1. IInv => TypeOK
  BY DEF IInv
<1> QED
  BY <1>1, Invariance, PTL

(* tr.Cache never remembers of an entity what the target does not hold.    *)
THEOREM CacheIsNeverAhead == Spec => []CacheNeverAhead
<1>1. IInv => CacheNeverAhead
  BY DEF IInv
<1> QED
  BY <1>1, Invariance, PTL

(* handleDelivery acknowledges a message only when its document is         *)
(* completely in the target.                                               *)
THEOREM AckedMeansWritten == Spec => []AckedIsWritten
<1>1. IInv => AckedIsWritten
  BY DEF IInv
<1> QED
  BY <1>1, Invariance, PTL

-----------------------------------------------------------------------------
(* The newest document *)

Docs(q) == {n \in DOMAIN q : q[n].kind = "doc"}

(* The last document in q, if any, is d.                                   *)
EndsWith(q, d) ==
  Docs(q) # {} => \E n \in Docs(q) : q[n].doc = d /\ \A k \in Docs(q) : k <= n

KindInv ==
  pc \in {"fetch", "handle", "push", "commit", "ack"} => current.kind = "doc"

(* A handler writes only while its document, or a newer one, is unsettled, *)
(* so what it writes is not the last word; once no document is unsettled,  *)
(* the last word was the newest one's, unless it was dropped.              *)
FateInv ==
  /\ EndsWith(Unsettled, newest)
  /\ pc \in {"parse", "fetch", "handle", "push", "commit", "ack", "nack"} /\ current.kind = "doc"
       => Docs(Unsettled) # {}
  /\ Docs(Unsettled) = {} => newest = NoDocument \/ missed \/ target = newest

NewestInv == IInv /\ KindInv /\ FateInv

LEMMA AppendedDocs ==
  ASSUME NEW q \in Seq(Messages), NEW m \in Messages, NEW d, EndsWith(q, d)
  PROVE  /\ m.kind # "doc" => Docs(Append(q, m)) = Docs(q) /\ EndsWith(Append(q, m), d)
         /\ m.kind = "doc" => Docs(Append(q, m)) # {} /\ EndsWith(Append(q, m), m.doc)
<1> DEFINE r == Append(q, m)
           last == Len(q) + 1
<1>1. /\ Len(q) \in Nat /\ DOMAIN q = 1 .. Len(q) /\ DOMAIN r = 1 .. last
      /\ \A n \in 1 .. Len(q) : r[n] = q[n]
      /\ r[last] = m
  OBVIOUS
<1> HIDE DEF r
<1>2. CASE m.kind # "doc"
  <2>1. Docs(r) = Docs(q)
    BY <1>1, <1>2 DEF Docs
  <2>2. \A n \in Docs(q) : r[n] = q[n]
    BY <1>1 DEF Docs
  <2> QED
    BY <1>2, <2>1, <2>2 DEF EndsWith, r
<1>3. CASE m.kind = "doc"
  <2>1. last \in Docs(r) /\ \A k \in Docs(r) : k <= last
    BY <1>1, <1>3 DEF Docs
  <2> QED
    BY <1>1, <1>3, <2>1 DEF EndsWith, r
<1> QED
  BY <1>2, <1>3

LEMMA DocsBehindHead ==
  ASSUME NEW q \in Seq(Messages), NEW m \in Messages, NEW d, EndsWith(<<m>> \o q, d)
  PROVE  /\ EndsWith(q, d)
         /\ Docs(<<m>> \o q) = {} <=> m.kind # "doc" /\ Docs(q) = {}
         /\ m.kind = "doc" /\ Docs(q) = {} => m.doc = d
<1> DEFINE r == <<m>> \o q
<1>1. /\ Len(q) \in Nat /\ DOMAIN q = 1 .. Len(q) /\ DOMAIN r = 1 .. Len(q) + 1
      /\ \A n \in 1 .. Len(q) : r[n + 1] = q[n]
      /\ r[1] = m
  OBVIOUS
<1> HIDE DEF r
<1>2. \A n \in 1 .. Len(q) : n \in Docs(q) <=> n + 1 \in Docs(r)
  BY <1>1 DEF Docs
<1>3. Docs(q) \subseteq 1 .. Len(q) /\ Docs(r) \subseteq 1 .. Len(q) + 1
  BY <1>1 DEF Docs
<1>4. 1 \in Docs(r) <=> m.kind = "doc"
  BY <1>1 DEF Docs
<1>5. \A k \in Docs(r) : k # 1 => k - 1 \in 1 .. Len(q) /\ k - 1 \in Docs(q) /\ r[k] = q[k - 1]
  <2> TAKE k \in Docs(r)
  <2> HAVE k # 1
  <2>1. k - 1 \in 1 .. Len(q) /\ (k - 1) + 1 = k
    BY <1>1, <1>3
  <2> QED
    BY <1>1, <1>2, <2>1
<1>6. Docs(r) = {} <=> m.kind # "doc" /\ Docs(q) = {}
  BY <1>2, <1>3, <1>4, <1>5
<1>7. ASSUME Docs(r) # {}
      PROVE  \E n \in Docs(r) : r[n].doc = d /\ \A k \in Docs(r) : k <= n
  BY <1>7 DEF EndsWith, r
<1>8. m.kind = "doc" /\ Docs(q) = {} => m.doc = d
  <2> SUFFICES ASSUME m.kind = "doc", Docs(q) = {} PROVE m.doc = d
    OBVIOUS
  <2>1. Docs(r) = {1}
    BY <1>4, <1>5
  <2> QED
    BY <1>1, <1>7, <2>1
<1>9. EndsWith(q, d)
  <2> SUFFICES ASSUME Docs(q) # {}
               PROVE  \E n \in Docs(q) : q[n].doc = d /\ \A k \in Docs(q) : k <= n
    BY DEF EndsWith
  <2>1. PICK n \in Docs(r) : r[n].doc = d /\ \A k \in Docs(r) : k <= n
    BY <1>6, <1>7
  <2>2. PICK i \in Docs(q) : i \in 1 .. Len(q)
    BY <1>3
  <2>3. n # 1
    BY <1>1, <1>2, <1>3, <2>1, <2>2
  <2>4. n - 1 \in Docs(q) /\ q[n - 1].doc = d
    BY <1>5, <2>1, <2>3
  <2>5. \A k \in Docs(q) : k <= n - 1
    BY <1>1, <1>2, <1>3, <2>1
  <2> QED
    BY <2>4, <2>5
<1> QED
  BY <1>6, <1>8, <1>9 DEF r

LEMMA UnsettledKind == TypeOK => Unsettled \in Seq(Messages) /\ queue \in Seq(Messages)
<1> SUFFICES ASSUME TypeOK PROVE Unsettled \in Seq(Messages)
  BY DEF TypeOK
<1> QED
  BY QueueKinds DEF TypeOK, Unsettled

LEMMA InitNewest == Init => NewestInv
<1> SUFFICES ASSUME Init PROVE NewestInv
  OBVIOUS
<1>1. Unsettled = <<>> /\ Docs(Unsettled) = {}
  BY DEF Init, Unsettled, Docs
<1> QED
  BY <1>1, InitIInv DEF Init, NewestInv, KindInv, FateInv, EndsWith

(* A step of the handling that leaves the fate of all messages open.       *)
LEMMA OpenKeeps ==
  ASSUME NewestInv, Unsettled' = Unsettled, newest' = newest, missed' = missed,
         target' = target \/ pc \in {"push", "commit"},
         pc' \in {"parse", "fetch", "handle", "push", "commit", "ack", "nack"}
           /\ current'.kind = "doc" => Docs(Unsettled) # {}
  PROVE  FateInv'
<1>1. EndsWith(Unsettled, newest)'
  BY DEF NewestInv, FateInv, EndsWith, Docs
<1>2. pc \in {"push", "commit"} => Docs(Unsettled) # {}
  BY DEF NewestInv, FateInv, KindInv
<1> QED
  BY <1>1, <1>2 DEF NewestInv, FateInv, Docs

LEMMA HandlingFate ==
  ASSUME NewestInv,
         \/ Parse \/ ParseFails \/ UrnRejected \/ Fetch \/ Diff \/ Push \/ Commit
         \/ OnError \/ OnSuccess \/ End
         \/ FetchFails \/ HandlerFails \/ PushRefused \/ PushTorn \/ ForceRepush
  PROVE  KindInv' /\ FateInv'
<1> USE DEF Parse, ParseFails, UrnRejected, Fetch, Diff, Push, Commit, OnError, OnSuccess,
            End, FetchFails, HandlerFails, PushRefused, PushTorn, ForceRepush, broker, consumer
<1>1. KindInv'
  BY DEF NewestInv, KindInv
<1>2. Unsettled' = Unsettled /\ newest' = newest /\ missed' = missed
  BY DEF Unsettled
<1>3. target' = target \/ pc \in {"push", "commit"}
  OBVIOUS
<1>4. /\ current' = current
      /\ pc' \in {"parse", "fetch", "handle", "push", "commit", "ack", "nack"}
           => pc \in {"parse", "fetch", "handle", "push", "commit", "ack", "nack"}
  OBVIOUS
<1>5. pc' \in {"parse", "fetch", "handle", "push", "commit", "ack", "nack"}
        /\ current'.kind = "doc" => Docs(Unsettled) # {}
  BY <1>4 DEF NewestInv, FateInv
<1> QED
  BY <1>1, <1>2, <1>3, <1>5, OpenKeeps

(* Losing the connection or the process puts back what is not settled, and *)
(* the broker delivers the first of it.                                    *)
LEMMA RedeliveryFate ==
  ASSUME NewestInv, Deliver \/ ConnectionLost \/ Crash
  PROVE  KindInv' /\ FateInv'
<1>1. TypeOK
  BY DEF NewestInv, IInv
<1>2. CASE Deliver
  <2>1. /\ queue \in Seq(Messages) /\ queue # <<>>
        /\ current' = Head(queue) /\ queue' = Tail(queue) /\ held' /\ ~held
    BY <1>1, <1>2 DEF Deliver, TypeOK
  <2>2. queue = <<Head(queue)>> \o Tail(queue)
    BY <2>1
  <2>3. Unsettled' = Unsettled
    BY <2>1, <2>2 DEF Unsettled
  <2>4. current'.kind = "doc" => Docs(Unsettled) # {}
    BY <2>1 DEF Unsettled, Docs
  <2> QED
    BY <1>2, <2>3, <2>4, OpenKeeps DEF Deliver, KindInv
<1>3. CASE ConnectionLost
  <2>1. Unsettled' = Unsettled /\ UNCHANGED <<pc, current, newest, missed, target>>
    BY <1>3 DEF ConnectionLost, Requeue, Unsettled, consumer
  <2>2. pc' \in {"parse", "fetch", "handle", "push", "commit", "ack", "nack"}
          /\ current'.kind = "doc" => Docs(Unsettled) # {}
    BY <2>1 DEF NewestInv, FateInv
  <2> QED
    BY <2>1, <2>2, OpenKeeps DEF NewestInv, KindInv
<1>4. CASE Crash
  <2>1. Unsettled' = Unsettled /\ pc' = "idle" /\ UNCHANGED <<newest, missed, target>>
    BY <1>4 DEF Crash, Requeue, Unsettled
  <2> QED
    BY <2>1, OpenKeeps DEF KindInv
<1> QED
  BY <1>2, <1>3, <1>4

LEMMA PublishFate ==
  ASSUME NewestInv, NEW m \in Messages, Publish(m)
  PROVE  KindInv' /\ FateInv'
<1>1. TypeOK /\ Unsettled \in Seq(Messages) /\ queue \in Seq(Messages) /\ current \in Messages
  BY UnsettledKind DEF NewestInv, IInv, TypeOK
<1>2. UNCHANGED <<held, pc, current, target>> /\ queue' = Append(queue, m)
  BY DEF Publish, consumer
<1>3. Unsettled' = Append(Unsettled, m)
  <2>1. CASE held
    <3>1. Append(<<current>> \o queue, m) = <<current>> \o Append(queue, m)
      BY <1>1
    <3> QED
      BY <1>2, <2>1, <3>1 DEF Unsettled
  <2>2. CASE ~held
    BY <1>2, <2>2 DEF Unsettled
  <2> QED
    BY <2>1, <2>2
<1>4. EndsWith(Unsettled, newest)
  BY DEF NewestInv, FateInv
<1>5. CASE m.kind = "doc"
  <2>1. newest' = m.doc
    BY <1>5 DEF Publish
  <2>2. Docs(Unsettled') # {} /\ EndsWith(Unsettled', newest')
    BY <1>1, <1>3, <1>4, <1>5, <2>1, AppendedDocs
  <2> QED
    BY <1>2, <2>2 DEF NewestInv, KindInv, FateInv, EndsWith, Docs
<1>6. CASE m.kind # "doc"
  <2>1. newest' = newest /\ missed' = missed
    BY <1>1, <1>6 DEF Publish, TypeOK
  <2>2. Docs(Unsettled') = Docs(Unsettled) /\ EndsWith(Unsettled', newest')
    BY <1>1, <1>3, <1>4, <1>6, <2>1, AppendedDocs
  <2> QED
    BY <1>2, <2>1, <2>2 DEF NewestInv, KindInv, FateInv, EndsWith, Docs
<1> QED
  BY <1>5, <1>6

(* Settling a message drops the first of what is unsettled: nothing is     *)
(* lost if the target holds it, or if a later document follows.            *)
LEMMA SettlementFate ==
  ASSUME NewestInv, Ack \/ Nack
  PROVE  KindInv' /\ FateInv'
<1>1. TypeOK /\ queue \in Seq(Messages) /\ current \in Messages
  BY DEF NewestInv, IInv, TypeOK
<1>2. /\ UNCHANGED <<queue, newest, current, target>> /\ held' = FALSE
      /\ pc' \in {"onSuccess", "onError"} /\ pc \in {"ack", "nack"}
  BY DEF Ack, Nack
<1>3. KindInv'
  BY <1>2 DEF KindInv
<1>4. CASE ~held
  <2>1. Unsettled' = Unsettled
    BY <1>2, <1>4 DEF Unsettled
  <2>2. missed' = missed
    BY <1>1, <1>4 DEF Ack, Nack, TypeOK
  <2> QED
    BY <1>2, <1>3, <2>1, <2>2, OpenKeeps
<1>5. CASE held
  <2>1. Unsettled' = queue /\ Unsettled = <<current>> \o queue
    BY <1>2, <1>5 DEF Unsettled
  <2>2. EndsWith(<<current>> \o queue, newest)
    BY <2>1 DEF NewestInv, FateInv
  <2>3. /\ EndsWith(queue, newest)
        /\ Docs(<<current>> \o queue) = {} <=> current.kind # "doc" /\ Docs(queue) = {}
        /\ current.kind = "doc" /\ Docs(queue) = {} => current.doc = newest
    BY <1>1, <2>2, DocsBehindHead
  <2>4. Docs(queue) = {} => newest = NoDocument \/ missed' \/ target = newest
    <3> SUFFICES ASSUME Docs(queue) = {} PROVE newest = NoDocument \/ missed' \/ target = newest
      OBVIOUS
    <3>1. CASE current.kind # "doc"
      <4>1. Docs(Unsettled) = {}
        BY <2>1, <2>3, <3>1
      <4>2. newest = NoDocument \/ missed \/ target = newest
        BY <4>1 DEF NewestInv, FateInv
      <4>3. missed => missed'
        BY <1>1 DEF Ack, Nack, TypeOK
      <4> QED
        BY <4>2, <4>3
    <3>2. CASE current.kind = "doc" /\ Ack
      <4>1. target = current.doc
        BY <3>2 DEF Ack, NewestInv, IInv, AckedIsWritten
      <4> QED
        BY <2>3, <3>2, <4>1
    <3>3. CASE current.kind = "doc" /\ Nack
      <4>1. ~NewerQueued
        BY DEF NewerQueued, Docs
      <4> QED
        BY <1>5, <3>3, <4>1 DEF Nack
    <3> QED
      BY <3>1, <3>2, <3>3
  <2>5. EndsWith(queue, newest)' /\ Docs(queue)' = Docs(queue)
    BY <1>2, <2>3 DEF EndsWith, Docs
  <2> QED
    BY <1>2, <1>3, <2>1, <2>3, <2>4, <2>5 DEF FateInv, EndsWith, Docs
<1> QED
  BY <1>4, <1>5

(* tr never loses the newest document without a Nack, and never leaves an  *)
(* older one in its place, whatever breaks, dies or is delivered again.    *)
THEOREM NewestIsNotLost == Spec => []NewestIsKept
<1>1. Init => NewestInv
  BY InitNewest
<1>2. NewestInv /\ [Next]_vars => NewestInv'
  <2> SUFFICES ASSUME NewestInv, [Next]_vars PROVE NewestInv'
    OBVIOUS
  <2>1. IInv'
    BY DiffKeeps, PushKeeps, PushTornKeeps, CommitKeeps, ResetKeeps, RestKeeps, StutterKeeps
       DEF NewestInv, Next, Step, Disturbance
  <2>2. CASE UNCHANGED vars
    <3>1. Unsettled' = Unsettled /\ UNCHANGED <<pc, current, newest, missed, target>>
      BY <2>2 DEF vars, broker, consumer, Unsettled
    <3>2. pc \in {"parse", "fetch", "handle", "push", "commit", "ack", "nack"}
            /\ current.kind = "doc" => Docs(Unsettled) # {}
      BY DEF NewestInv, FateInv
    <3>3. KindInv' /\ FateInv'
      BY <3>1, <3>2, OpenKeeps DEF NewestInv, KindInv
    <3> QED
      BY <2>1, <3>3 DEF NewestInv
  <2>3. CASE Next
    <3>1. KindInv' /\ FateInv'
      BY <2>3, HandlingFate, RedeliveryFate, PublishFate, SettlementFate DEF Next, Step, Disturbance
    <3> QED
      BY <2>1, <3>1 DEF NewestInv
  <2> QED
    BY <2>2, <2>3
<1>3. NewestInv => NewestIsKept
  BY DEF NewestInv, FateInv, EndsWith, Docs, NewestIsKept
<1> QED
  BY <1>1, <1>2, <1>3, PTL DEF Spec

-----------------------------------------------------------------------------
(* Merge *)

(* The sources whose records no rule has shared with the target.           *)
Kept == {i \in DOMAIN tables : ~(i \in present /\ Shared(i))}

(* A value that may be in the target, and what looking for one may find.   *)
Fit(h, v) == v # Absent /\ (IsRef(v) => v \in DOMAIN h /\ v.doc \notin Kept)
Found(h, v) == v = Absent \/ Fit(h, v)

(* There is a document number that is free.                                *)
Bounded(h) == \E n \in Nat : \A a \in DOMAIN h : a.doc <= n

(* A kept record is as it was decoded, and nothing outside leads into one. *)
Shielded(h) ==
  /\ \A i \in Kept : \A a \in Cells(i, given[i]) :
       a \in DOMAIN h /\ h[a] = Content(i, given[i], a.node)
  /\ \A a \in DOMAIN h : a.doc \notin Kept => \A s \in DOMAIN h[a] : Fit(h, h[a][s])

HeapInv(h) ==
  /\ HeapOK(h) /\ Bounded(h) /\ Shielded(h)
  /\ \A n \in DOMAIN given : Root(n) \in DOMAIN h

(* An object of the kept record of the rule under way, to be copied.       *)
Copied(v) ==
  /\ src \in Kept
  /\ \E p \in DOMAIN given[src] :
       /\ given[src][p] = Object /\ v = Decoded(src, given[src], p)
       /\ IsPrefix(Rule.src, p)

CallsInv ==
  /\ calls # <<>> => src \in present
  /\ \A n \in DOMAIN calls :
       /\ calls[n].into.doc \notin Kept
       /\ calls[n].patch.doc \notin Kept \/ Copied(calls[n].patch)

RulesInv ==
  /\ \A i \in DOMAIN tables : tables[i] # <<>>
  /\ src \notin present => nr = 1

MergeInv == MergeTypeOK /\ RulesInv /\ HeapInv(heap) /\ CallsInv /\ OnlyNestedArraysPanic

InputsOK ==
  /\ DOMAIN given = 0 .. Len(tables) /\ present \subseteq DOMAIN tables
  /\ tables \in Seq(Seq(RuleKind))
  /\ \A n \in DOMAIN given : IsDocument(given[n])

Later(h, g) == HeapInv(g) /\ DOMAIN h \subseteq DOMAIN g

-----------------------------------------------------------------------------
(* Numbers *)

(* What holds of 0 and of the successor of each holds up to n.             *)
LEMMA UpTo ==
  ASSUME NEW n \in Nat, NEW G, 0 \in G, \A i \in 0 .. n : i \in G /\ i # n => i + 1 \in G
  PROVE  0 .. n \subseteq G
<1> DEFINE S == {i \in 0 .. n : i \notin G}
<1>1. SUFFICES ASSUME S # {} PROVE FALSE
  OBVIOUS
<1>2. S \subseteq Nat
  OBVIOUS
<1>3. PICK m \in S : \A y \in S : ~ (<<y, m>> \in OpToRel(<, Nat))
  BY <1>1, <1>2, NatLessThanWellFounded, WFMin
<1>4. \A y \in S : ~ (y < m)
  BY <1>2, <1>3 DEF OpToRel
<1>5. m # 0 /\ m \in 0 .. n
  OBVIOUS
<1>6. m - 1 \in 0 .. n /\ m - 1 < m /\ m - 1 # n /\ (m - 1) + 1 = m
  BY <1>5
<1>7. m - 1 \in G
  BY <1>4, <1>6
<1>8. m \in G
  BY <1>6, <1>7
<1> QED
  BY <1>8

LEMMA GreatestIsOne ==
  ASSUME NEW S, S \subseteq Nat, S # {}, NEW n \in Nat, \A x \in S : x <= n
  PROVE  Max(S) \in S /\ \A x \in S : x <= Max(S)
<1> DEFINE T == {n - x : x \in S}
<1>1. T \subseteq Nat /\ T # {}
  <2>1. \A x \in S : n - x \in Nat
    OBVIOUS
  <2>2. PICK x \in S : TRUE
    OBVIOUS
  <2>3. n - x \in T
    OBVIOUS
  <2> QED
    BY <2>1, <2>3
<1>2. PICK least \in T : \A y \in T : ~ (<<y, least>> \in OpToRel(<, Nat))
  BY <1>1, NatLessThanWellFounded, WFMin
<1>3. PICK x \in S : least = n - x
  OBVIOUS
<1>4. \A y \in S : ~ (n - y < n - x)
  BY <1>1, <1>2, <1>3 DEF OpToRel
<1>5. \A y \in S : x >= y
  BY <1>4
<1> QED
  BY <1>5 DEF Max

(* A row of n elements has n elements.                                     *)
LEMMA RowOf ==
  ASSUME NEW n \in Nat
  PROVE  LET row == {Index(i) : i \in 0 .. n} IN
         IsRow(row) /\ Cardinality(row) = n + 1
<1> DEFINE row == {Index(i) : i \in 0 .. n}
           f == [i \in 0 .. n |-> Index(i)]
<1>1. \A i, j \in 0 .. n : Index(i) = Index(j) => i = j
  <2> SUFFICES ASSUME NEW i \in 0 .. n, NEW j \in 0 .. n, Index(i) = Index(j) PROVE i = j
    OBVIOUS
  <2>1. Index(i).index = i /\ Index(j).index = j
    BY DEF Index
  <2> QED
    BY <2>1
<1>2. f \in Bijection(0 .. n, row)
  BY <1>1 DEF Bijection, Injection, Surjection, IsInjective
<1>3. ExistsBijection(0 .. n, row)
  BY <1>2 DEF ExistsBijection
<1>4. IsFiniteSet(0 .. n) /\ Cardinality(0 .. n) = n + 1
  BY FS_Interval
<1>5. IsFiniteSet(row) /\ Cardinality(row) = n + 1
  BY <1>3, <1>4, FS_Bijection
<1> HIDE DEF f
<1>6. 0 .. Cardinality(row) - 1 = 0 .. n
  BY <1>5
<1> QED
  BY <1>5, <1>6 DEF IsRow

-----------------------------------------------------------------------------
(* Heaps *)

LEMMA StepKinds ==
  ASSUME NEW s \in Steps
  PROVE  /\ IsIndex(s) => s.index \in Nat /\ s = Index(s.index)
         /\ IsIndex(s) <=> Holder(s).kind = "array"
         /\ ~ IsIndex(s) <=> Holder(s).kind = "object"
<1>1. CASE s \in [name : STRING]
  <2>1. PICK n \in STRING : s = [name |-> n]
    BY <1>1
  <2>2. ~ IsIndex(s)
    BY <2>1 DEF IsIndex
  <2> QED
    BY <2>2 DEF Holder, Object
<1>2. CASE s \in [index : Nat]
  <2>1. PICK i \in Nat : s = [index |-> i]
    BY <1>2
  <2>2. IsIndex(s) /\ s.index = i
    BY <2>1 DEF IsIndex
  <2> QED
    BY <2>1, <2>2 DEF Holder, Array, Index
<1> QED
  BY <1>1, <1>2 DEF Steps

(* A reference is told from Absent and Nil by its kind.                    *)
LEMMA Kinds ==
  ASSUME NEW h, HeapOK(h), NEW a \in DOMAIN h
  PROVE  /\ IsRef(a) /\ a # Absent /\ a # Nil /\ a.doc \in Nat /\ a.kind \in {"object", "array"}
         /\ ~ IsRef(Absent) /\ ~ IsRef(Nil) /\ Absent # Nil
BY DEF HeapOK, IsRef, Absent, Nil

LEMMA NoneIsRef == ~ IsRef(Absent) /\ ~ IsRef(Nil) /\ Absent # Nil
BY DEF IsRef, Absent, Nil

LEMMA CellsAreTheirs ==
  ASSUME NEW i, NEW doc, NEW a \in Cells(i, doc)
  PROVE  a.doc = i /\ a.node \in DOMAIN doc
<1>1. PICK p \in DOMAIN doc : doc[p] \in {Object, Array} /\ a = Decoded(i, doc, p)
  BY DEF Cells
<1>2. a = Ref(doc[p].kind, i, p)
  BY <1>1 DEF Decoded
<1> QED
  BY <1>2 DEF Ref

LEMMA FitLater ==
  ASSUME NEW h, NEW g, DOMAIN h \subseteq DOMAIN g, NEW v
  PROVE  /\ Fit(h, v) => Fit(g, v)
         /\ Found(h, v) => Found(g, v)
BY DEF Fit, Found

(* The child of a value that may be in the target is another one.          *)
LEMMA ChildFound ==
  ASSUME NEW h, HeapInv(h), NEW v, Found(h, v), NEW s
  PROVE  /\ Found(h, Child(h, v, s))
         /\ IsRef(v) /\ s \in DOMAIN h[v] => Child(h, v, s) # Absent
<1>1. CASE IsRef(v) /\ s \in DOMAIN h[v]
  <2>1. v \in DOMAIN h /\ v.doc \notin Kept
    BY <1>1, NoneIsRef DEF Found, Fit
  <2>2. Fit(h, h[v][s])
    BY <2>1, <1>1 DEF HeapInv, Shielded
  <2> QED
    BY <2>2, <1>1 DEF Child, Found, Fit
<1>2. CASE ~ (IsRef(v) /\ s \in DOMAIN h[v])
  BY <1>2 DEF Child, Found
<1> QED
  BY <1>1, <1>2

(* Writing a cell outside the kept records keeps the heap in order.        *)
LEMMA WriteKeeps ==
  ASSUME NEW h, HeapInv(h), NEW v \in DOMAIN h, v.doc \notin Kept, NEW cell,
         DOMAIN cell \subseteq Steps, v.kind = "array" => IsRow(DOMAIN cell),
         \A s \in DOMAIN cell : Fit(h, cell[s])
  PROVE  Later(h, [h EXCEPT ![v] = cell])
<1> DEFINE g == [h EXCEPT ![v] = cell]
<1>1. DOMAIN g = DOMAIN h /\ g[v] = cell /\ \A a \in DOMAIN h : a # v => g[a] = h[a]
  OBVIOUS
<1> HIDE DEF g
<1>2. HeapOK(g)
  <2>1. \A a \in DOMAIN h : a # v =>
          /\ DOMAIN g[a] \subseteq Steps
          /\ a.kind = "array" => IsRow(DOMAIN g[a])
          /\ \A s \in DOMAIN g[a] : g[a][s] # Absent /\ (IsRef(g[a][s]) => g[a][s] \in DOMAIN g)
    BY <1>1 DEF HeapInv, HeapOK
  <2>2. /\ DOMAIN g[v] \subseteq Steps
        /\ v.kind = "array" => IsRow(DOMAIN g[v])
        /\ \A s \in DOMAIN g[v] : g[v][s] # Absent /\ (IsRef(g[v][s]) => g[v][s] \in DOMAIN g)
    BY <1>1 DEF Fit
  <2> QED
    BY <1>1, <2>1, <2>2 DEF HeapInv, HeapOK
<1>3. Bounded(g)
  BY <1>1 DEF HeapInv, Bounded
<1>4. Shielded(g)
  <2>1. ASSUME NEW i \in Kept, NEW a \in Cells(i, given[i])
        PROVE  a \in DOMAIN g /\ g[a] = Content(i, given[i], a.node)
    BY <2>1, <1>1, CellsAreTheirs DEF HeapInv, Shielded
  <2>2. ASSUME NEW a \in DOMAIN g, a.doc \notin Kept, NEW s \in DOMAIN g[a]
        PROVE  Fit(g, g[a][s])
    <3>1. Fit(h, g[a][s])
      BY <2>2, <1>1 DEF HeapInv, Shielded
    <3> QED
      BY <3>1, <1>1, FitLater
  <2> QED
    BY <2>1, <2>2 DEF Shielded
<1> QED
  BY <1>1, <1>2, <1>3, <1>4 DEF Later, HeapInv, g

LEMMA StoreKeeps ==
  ASSUME NEW h, HeapInv(h), NEW v \in DOMAIN h, v.doc \notin Kept,
         NEW step \in Steps, v.kind = "array" => step \in DOMAIN h[v],
         NEW value, Fit(h, value)
  PROVE  /\ Later(h, Store(h, v, step, value))
         /\ DOMAIN Store(h, v, step, value) = DOMAIN h
<1> DEFINE cell == Over([s \in {step} |-> value], h[v])
<1>1. DOMAIN cell = DOMAIN h[v] \cup {step}
  BY DEF Over
<1>2. \A s \in DOMAIN cell : cell[s] = IF s = step THEN value ELSE h[v][s]
  BY DEF Over
<1>3. Store(h, v, step, value) = [h EXCEPT ![v] = cell]
  BY DEF Store
<1> HIDE DEF cell
<1>4. DOMAIN cell \subseteq Steps
  BY <1>1 DEF HeapInv, HeapOK
<1>5. v.kind = "array" => IsRow(DOMAIN cell)
  <2> SUFFICES ASSUME v.kind = "array" PROVE IsRow(DOMAIN cell)
    OBVIOUS
  <2>1. DOMAIN cell = DOMAIN h[v]
    BY <1>1
  <2>2. IsRow(DOMAIN h[v])
    BY DEF HeapInv, HeapOK
  <2> QED
    BY <2>1, <2>2
<1>6. \A s \in DOMAIN cell : Fit(h, cell[s])
  BY <1>1, <1>2 DEF HeapInv, Shielded
<1>7. Later(h, [h EXCEPT ![v] = cell])
  BY <1>4, <1>5, <1>6, WriteKeeps
<1> QED
  BY <1>3, <1>7

LEMMA DropKeeps ==
  ASSUME NEW h, HeapInv(h), NEW v \in DOMAIN h, v.doc \notin Kept, v.kind = "object",
         NEW step
  PROVE  Later(h, Drop(h, v, step))
<1> DEFINE cell == [s \in DOMAIN h[v] \ {step} |-> h[v][s]]
<1>1. Drop(h, v, step) = [h EXCEPT ![v] = cell]
  BY DEF Drop
<1>2. DOMAIN cell \subseteq DOMAIN h[v] /\ \A s \in DOMAIN cell : cell[s] = h[v][s]
  OBVIOUS
<1> HIDE DEF cell
<1>3. DOMAIN cell \subseteq Steps
  BY <1>2 DEF HeapInv, HeapOK
<1>4. \A s \in DOMAIN cell : Fit(h, cell[s])
  BY <1>2 DEF HeapInv, Shielded
<1>5. Later(h, [h EXCEPT ![v] = cell])
  BY <1>3, <1>4, WriteKeeps
<1> QED
  BY <1>1, <1>5

(* A new cell has an address of its own, which is no record's.             *)
LEMMA NewKeeps ==
  ASSUME InputsOK, NEW h, HeapInv(h), NEW kind \in {"object", "array"}, NEW cell,
         DOMAIN cell \subseteq Steps, kind = "array" => IsRow(DOMAIN cell),
         \A s \in DOMAIN cell : Fit(h, cell[s])
  PROVE  LET new == New(h, kind, cell) IN
         /\ Later(h, new.heap) /\ Fit(new.heap, new.val)
         /\ new.val.kind = kind /\ new.heap[new.val] = cell
         /\ \A a \in DOMAIN h : new.heap[a] = h[a]
<1> DEFINE docs == {a.doc : a \in DOMAIN h}
           ref == Ref(kind, 1 + Max(docs), <<>>)
           g == Over([a \in {ref} |-> cell], h)
<1>1. docs \subseteq Nat
  BY Kinds DEF HeapInv
<1>2. \A n \in DOMAIN given : n \in docs
  <2>1. \A n \in DOMAIN given : Root(n) \in DOMAIN h
    BY DEF HeapInv
  <2>2. \A n : Root(n).doc = n
    BY DEF Root, Ref
  <2> QED
    BY <2>1, <2>2
<1>3. 0 \in docs
  BY <1>2 DEF InputsOK
<1>4. PICK n \in Nat : \A a \in DOMAIN h : a.doc <= n
  BY DEF HeapInv, Bounded
<1>5. \A x \in docs : x <= n
  BY <1>4
<1> HIDE DEF docs
<1>6. Max(docs) \in docs /\ \A x \in docs : x <= Max(docs)
  BY <1>1, <1>3, <1>5, GreatestIsOne
<1>7. Max(docs) \in Nat /\ \A x \in docs : x < 1 + Max(docs)
  <2>1. ASSUME NEW m, m \in docs, NEW x \in docs, x <= m PROVE m \in Nat /\ x < 1 + m
    BY <1>1, <2>1
  <2> QED
    BY <1>6, <2>1
<1>8. ref.doc = 1 + Max(docs) /\ ref.kind = kind /\ ref.node = <<>>
  BY DEF Ref
<1>9. ref \notin DOMAIN h /\ \A a \in DOMAIN h : a.doc < 1 + Max(docs)
  <2>1. \A a \in DOMAIN h : a.doc \in docs
    BY DEF docs
  <2>2. \A a \in DOMAIN h : a.doc < 1 + Max(docs)
    BY <1>7, <2>1
  <2>3. ~ (1 + Max(docs) < 1 + Max(docs))
    BY <1>7
  <2> QED
    BY <1>8, <2>2, <2>3
<1>10. ref.doc \notin Kept
  <2>1. Kept \subseteq DOMAIN given
    BY DEF Kept, InputsOK
  <2> QED
    BY <2>1, <1>2, <1>7, <1>8
<1>11. /\ DOMAIN g = DOMAIN h \cup {ref} /\ g[ref] = cell
       /\ \A a \in DOMAIN h : g[a] = h[a]
  BY <1>9 DEF Over
<1>12. ref \in [kind : {"object", "array"}, doc : Nat, node : Paths]
  <2>1. <<>> \in Paths
    BY DEF Paths
  <2>2. 1 + Max(docs) \in Nat
    BY <1>7
  <2> QED
    BY <2>1, <2>2 DEF Ref
<1>13. ref # Absent
  BY <1>8 DEF Absent
<1>14. New(h, kind, cell) = [heap |-> g, val |-> ref]
  BY DEF New, docs
<1> HIDE DEF g, ref
<1>15. HeapOK(g)
  <2>1. DOMAIN g \subseteq [kind : {"object", "array"}, doc : Nat, node : Paths]
    BY <1>11, <1>12 DEF HeapInv, HeapOK
  <2>2. ASSUME NEW a \in DOMAIN h
        PROVE  /\ DOMAIN g[a] \subseteq Steps
               /\ a.kind = "array" => IsRow(DOMAIN g[a])
               /\ \A s \in DOMAIN g[a] : g[a][s] # Absent /\ (IsRef(g[a][s]) => g[a][s] \in DOMAIN g)
    BY <1>11 DEF HeapInv, HeapOK
  <2>3. /\ DOMAIN g[ref] \subseteq Steps
        /\ ref.kind = "array" => IsRow(DOMAIN g[ref])
        /\ \A s \in DOMAIN g[ref] : g[ref][s] # Absent /\ (IsRef(g[ref][s]) => g[ref][s] \in DOMAIN g)
    BY <1>8, <1>11 DEF Fit
  <2> QED
    BY <1>11, <2>1, <2>2, <2>3 DEF HeapOK
<1>16. Bounded(g)
  <2>1. \A a \in DOMAIN g : a.doc <= 1 + Max(docs)
    <3>1. \A a \in DOMAIN h : a.doc \in Nat
      BY Kinds DEF HeapInv
    <3> QED
      BY <1>7, <1>8, <1>9, <1>11, <3>1
  <2>2. 1 + Max(docs) \in Nat
    BY <1>7
  <2> QED
    BY <2>1, <2>2 DEF Bounded
<1>17. Shielded(g)
  <2>1. ASSUME NEW i \in Kept, NEW a \in Cells(i, given[i])
        PROVE  a \in DOMAIN g /\ g[a] = Content(i, given[i], a.node)
    BY <2>1, <1>11 DEF HeapInv, Shielded
  <2>2. ASSUME NEW a \in DOMAIN g, a.doc \notin Kept, NEW s \in DOMAIN g[a]
        PROVE  Fit(g, g[a][s])
    <3>1. Fit(h, g[a][s])
      BY <2>2, <1>11 DEF HeapInv, Shielded
    <3>2. DOMAIN h \subseteq DOMAIN g
      BY <1>11
    <3> QED
      BY <3>1, <3>2, FitLater
  <2> QED
    BY <2>1, <2>2 DEF Shielded
<1>18. Later(h, g)
  BY <1>11, <1>15, <1>16, <1>17 DEF Later, HeapInv
<1>19. Fit(g, ref)
  BY <1>10, <1>11, <1>13 DEF Fit
<1> QED
  BY <1>8, <1>11, <1>14, <1>18, <1>19

(* The empty object or array that Filled and MergePatch make.              *)
LEMMA NewEmptyKeeps ==
  ASSUME InputsOK, NEW h, HeapInv(h), NEW kind \in {"object", "array"}
  PROVE  LET new == New(h, kind, NoMembers) IN
         /\ Later(h, new.heap) /\ Fit(new.heap, new.val)
         /\ new.val.kind = kind /\ new.val \in DOMAIN new.heap
         /\ \A a \in DOMAIN h : new.heap[a] = h[a]
<1>1. DOMAIN NoMembers = {}
  BY DEF NoMembers
<1>2. IsRow({})
  <2>1. IsFiniteSet({}) /\ Cardinality({}) = 0
    BY FS_EmptySet
  <2>2. 0 .. Cardinality({}) - 1 = {}
    BY <2>1
  <2> QED
    BY <2>1, <2>2 DEF IsRow
<1> DEFINE new == New(h, kind, NoMembers)
<1>3. /\ Later(h, new.heap) /\ Fit(new.heap, new.val) /\ new.val.kind = kind
      /\ \A a \in DOMAIN h : new.heap[a] = h[a]
  BY <1>1, <1>2, NewKeeps
<1> HIDE DEF new
<1>4. new.val \in DOMAIN new.heap
  BY <1>3 DEF Fit, IsRef
<1> QED
  BY <1>3, <1>4 DEF new

(* Growing an array gives it the element in question, and it keeps those   *)
(* it has.                                                                 *)
LEMMA GrownKeeps ==
  ASSUME InputsOK, NEW h, HeapInv(h), NEW v, Fit(h, v), v.kind = "array", NEW i \in Nat
  PROVE  LET grown == Grown(h, v, i) IN
         /\ Later(h, grown.heap) /\ Fit(grown.heap, grown.val)
         /\ grown.val.kind = "array" /\ Index(i) \in DOMAIN grown.heap[grown.val]
         /\ \A a \in DOMAIN h : grown.heap[a] = h[a]
         /\ \/ grown.val = v
            \/ \A s \in DOMAIN h[v] :
                 s \in DOMAIN grown.heap[grown.val] /\ grown.heap[grown.val][s] = h[v][s]
<1> DEFINE c == Cardinality(DOMAIN h[v])
           row == {Index(j) : j \in 0 .. i}
           cell == Over(h[v], [s \in row |-> Nil])
<1>1. v \in DOMAIN h /\ v.doc \notin Kept
  BY DEF Fit, IsRef
<1>2. IsRow(DOMAIN h[v])
  BY <1>1 DEF HeapInv, HeapOK
<1>3. c \in Nat /\ DOMAIN h[v] = {Index(j) : j \in 0 .. c - 1}
  BY <1>2, FS_CardinalityType DEF IsRow
<1>4. CASE c > i
  <2>1. Grown(h, v, i) = [heap |-> h, val |-> v]
    BY <1>4 DEF Grown
  <2>2. i \in 0 .. c - 1
    BY <1>3, <1>4
  <2>3. Index(i) \in DOMAIN h[v]
    BY <1>3, <2>2
  <2> QED
    BY <2>1, <2>3 DEF Later
<1>5. CASE ~ (c > i)
  <2>1. Grown(h, v, i) = New(h, "array", cell)
    BY <1>5 DEF Grown
  <2>2. DOMAIN cell = DOMAIN h[v] \cup row
    BY DEF Over
  <2>3. \A s \in DOMAIN cell : cell[s] = IF s \in DOMAIN h[v] THEN h[v][s] ELSE Nil
    BY DEF Over
  <2>4. DOMAIN h[v] \subseteq row
    <3>1. 0 .. c - 1 \subseteq 0 .. i
      BY <1>3, <1>5
    <3> QED
      BY <1>3, <3>1
  <2>5. DOMAIN cell = row
    BY <2>2, <2>4
  <2>6. IsRow(row)
    BY RowOf
  <2>7. row \subseteq Steps
    BY DEF Steps, Index
  <2>8. Index(i) \in row
    OBVIOUS
  <2> HIDE DEF cell, row, c
  <2>9. Fit(h, Nil)
    BY NoneIsRef DEF Fit
  <2>10. \A s \in DOMAIN cell : Fit(h, cell[s])
    BY <1>1, <2>3, <2>9 DEF HeapInv, Shielded
  <2> DEFINE new == New(h, "array", cell)
  <2>11. /\ Later(h, new.heap) /\ Fit(new.heap, new.val)
         /\ new.val.kind = "array" /\ new.heap[new.val] = cell
         /\ \A a \in DOMAIN h : new.heap[a] = h[a]
    BY <2>5, <2>6, <2>7, <2>10, NewKeeps
  <2>12. \A s \in DOMAIN h[v] : s \in DOMAIN cell /\ cell[s] = h[v][s]
    BY <2>3, <2>4, <2>5
  <2> HIDE DEF new
  <2> QED
    BY <2>1, <2>5, <2>8, <2>11, <2>12 DEF new
<1> QED
  BY <1>3, <1>4, <1>5

-----------------------------------------------------------------------------
(* Paths *)

LEMMA ObjectsAndArrays ==
  ASSUME NEW h, NEW v, Found(h, v), v.kind \in {"object", "array"}
  PROVE  Fit(h, v) /\ v \in DOMAIN h /\ v.doc \notin Kept /\ IsRef(v)
BY NoneIsRef DEF Found, Fit, IsRef

LEMMA FilledKeeps ==
  ASSUME InputsOK, NEW h, HeapInv(h), NEW v, Found(h, v), NEW step \in Steps, NEW next \in Steps,
         v.kind = Holder(step).kind, ~ (IsIndex(step) /\ Child(h, v, step) = Absent)
  PROVE  LET filled == Filled(h, v, step, next) IN
         /\ Later(h, filled.heap) /\ Fit(filled.heap, filled.val)
<1>1. Holder(step).kind \in {"object", "array"} /\ Holder(next).kind \in {"object", "array"}
  BY StepKinds
<1>2. v \in DOMAIN h /\ v.doc \notin Kept /\ IsRef(v)
  BY <1>1, ObjectsAndArrays
<1>3. CASE Child(h, v, step) \in {Absent, Nil}
  <2> DEFINE new == New(h, Holder(next).kind, NoMembers)
  <2>1. Filled(h, v, step, next) = [heap |-> Store(new.heap, v, step, new.val), val |-> new.val]
    BY <1>3 DEF Filled
  <2>2. /\ Later(h, new.heap) /\ Fit(new.heap, new.val)
        /\ \A a \in DOMAIN h : new.heap[a] = h[a]
    BY <1>1, NewEmptyKeeps
  <2> HIDE DEF new
  <2>3. v.kind = "array" => step \in DOMAIN new.heap[v]
    <3> SUFFICES ASSUME v.kind = "array" PROVE step \in DOMAIN new.heap[v]
      OBVIOUS
    <3>1. IsIndex(step)
      BY StepKinds
    <3>2. step \in DOMAIN h[v]
      BY <3>1, <1>2 DEF Child
    <3> QED
      BY <3>2, <1>2, <2>2
  <2>4. v \in DOMAIN new.heap /\ HeapInv(new.heap)
    BY <1>2, <2>2 DEF Later
  <2> DEFINE g == Store(new.heap, v, step, new.val)
  <2>5. Later(new.heap, g)
    BY <1>2, <2>2, <2>3, <2>4, StoreKeeps
  <2> HIDE DEF g
  <2>6. DOMAIN new.heap \subseteq DOMAIN g
    BY <2>5 DEF Later
  <2>7. Later(h, g) /\ Fit(g, new.val)
    BY <2>2, <2>5, <2>6, FitLater DEF Later
  <2> QED
    BY <2>1, <2>7 DEF g
<1>4. CASE Child(h, v, step) \notin {Absent, Nil}
  <2>1. Filled(h, v, step, next) = [heap |-> h, val |-> Child(h, v, step)]
    BY <1>4 DEF Filled
  <2>2. Found(h, Child(h, v, step))
    BY ChildFound
  <2> QED
    BY <1>4, <2>1, <2>2 DEF Later, Found
<1> QED
  BY <1>3, <1>4

(* A step down a path: an index after a name finds its element there.      *)
LEMMA DescendKeeps ==
  ASSUME InputsOK, NEW h, HeapInv(h), NEW v, Found(h, v), NEW step \in Steps, NEW next \in Steps
  PROVE  LET below == Descend(h, v, step, next) IN
         /\ Later(h, below.heap) /\ Found(below.heap, below.val)
         /\ ~ IsIndex(step) /\ IsIndex(next) /\ below.val # Absent =>
              Child(below.heap, below.val, next) # Absent
<1> DEFINE filled == Filled(h, v, step, next)
           grown == Grown(filled.heap, filled.val, next.index)
           below == Descend(h, v, step, next)
<1>1. CASE Stops(h, v, step)
  <2>1. below = [heap |-> h, val |-> Absent]
    BY <1>1 DEF Descend, Stuck
  <2> QED
    BY <2>1 DEF Later, Found
<1>2. CASE ~ Stops(h, v, step)
  <2>1. Later(h, filled.heap) /\ Fit(filled.heap, filled.val)
    BY <1>2, FilledKeeps DEF Stops
  <2> HIDE DEF filled
  <2>2. CASE IsIndex(step) \/ ~ IsIndex(next)
    <3>1. below = filled
      BY <1>2, <2>2 DEF Descend, filled
    <3> HIDE DEF below
    <3> QED
      BY <2>1, <2>2, <3>1 DEF Found, below
  <2>3. CASE ~ (IsIndex(step) \/ ~ IsIndex(next)) /\ filled.val.kind # "array"
    <3>1. below = [heap |-> filled.heap, val |-> Absent]
      BY <1>2, <2>3 DEF Descend, Stuck, filled
    <3> HIDE DEF below
    <3>2. Later(h, below.heap) /\ Found(below.heap, below.val) /\ below.val = Absent
      BY <2>1, <3>1 DEF Found
    <3> QED
      BY <3>2 DEF below
  <2>4. CASE ~ (IsIndex(step) \/ ~ IsIndex(next)) /\ filled.val.kind = "array"
    <3>1. below = [heap |-> Store(grown.heap, v, step, grown.val), val |-> grown.val]
      BY <1>2, <2>4 DEF Descend, filled
    <3>2. next.index \in Nat /\ next = Index(next.index)
      BY <2>4, StepKinds
    <3>3. HeapInv(filled.heap) /\ DOMAIN h \subseteq DOMAIN filled.heap
      BY <2>1 DEF Later
    <3>4. /\ Later(filled.heap, grown.heap) /\ Fit(grown.heap, grown.val)
          /\ grown.val.kind = "array" /\ next \in DOMAIN grown.heap[grown.val]
      BY <2>1, <2>4, <3>2, <3>3, GrownKeeps
    <3> HIDE DEF grown
    <3>5. v.kind = "object"
      BY <1>2, <2>4, StepKinds DEF Stops
    <3>6. v \in DOMAIN h /\ v.doc \notin Kept
      BY <3>5, ObjectsAndArrays
    <3>7. HeapInv(grown.heap) /\ v \in DOMAIN grown.heap
      BY <3>3, <3>4, <3>6 DEF Later
    <3> DEFINE g == Store(grown.heap, v, step, grown.val)
    <3>8. Later(grown.heap, g) /\ DOMAIN g = DOMAIN grown.heap
      BY <3>4, <3>5, <3>6, <3>7, StoreKeeps
    <3>9. grown.val # v
      BY <3>4, <3>5
    <3>10. g[grown.val] = grown.heap[grown.val]
      BY <3>9 DEF Store
    <3> HIDE DEF g
    <3>11. Fit(g, grown.val)
      BY <3>4, <3>8, FitLater
    <3>12. Found(g, grown.val) /\ IsRef(grown.val)
      BY <3>4, <3>11 DEF Found, IsRef
    <3>13. Child(g, grown.val, next) # Absent
      BY <3>4, <3>8, <3>10, <3>12, ChildFound DEF Later
    <3>14. Later(h, g)
      BY <3>3, <3>4, <3>8 DEF Later
    <3>15. below.heap = g /\ below.val = grown.val
      BY <3>1 DEF g
    <3> HIDE DEF below
    <3>16. /\ Later(h, below.heap) /\ Found(below.heap, below.val)
           /\ Child(below.heap, below.val, next) # Absent
      BY <3>12, <3>13, <3>14, <3>15
    <3> QED
      BY <3>16 DEF below
  <2> QED
    BY <2>2, <2>3, <2>4
<1> QED
  BY <1>1, <1>2

(* Get follows a path one child at a time.                                 *)
GoesBy(h, path, v, at) ==
  /\ DOMAIN at = 0 .. Len(path) /\ at[0] = v
  /\ \A i \in 1 .. Len(path) : at[i] = Child(h, at[i - 1], path[i])
  /\ Get(h, path, v) = at[Len(path)]

LEMMA GetSteps ==
  ASSUME NEW h, NEW path \in Paths, NEW v
  PROVE  \E at : GoesBy(h, path, v, at)
<1> DEFINE Follows(f, k) ==
             f = [i \in 0 .. k |-> IF i = 0 THEN v ELSE Child(h, f[i - 1], path[i])]
           G == {k \in 0 .. Len(path) : \E f : Follows(f, k)}
<1>1. Len(path) \in Nat
  BY DEF Paths
<1>2. 0 \in G
  <2> DEFINE f == [i \in 0 .. 0 |-> v]
  <2>1. Follows(f, 0)
    OBVIOUS
  <2>2. 0 \in 0 .. Len(path)
    BY <1>1
  <2> HIDE DEF Follows, f
  <2> QED
    BY <2>1, <2>2
<1>3. ASSUME NEW k \in 0 .. Len(path), k \in G, k # Len(path)
      PROVE  k + 1 \in G
  <2>1. PICK f : Follows(f, k)
    BY <1>3
  <2> DEFINE g == [i \in 0 .. k + 1 |-> IF i <= k THEN f[i] ELSE Child(h, f[k], path[k + 1])]
  <2>2. k \in Nat /\ k + 1 \in 0 .. Len(path)
    BY <1>1, <1>3
  <2>3. ASSUME NEW i \in 0 .. k + 1
        PROVE  g[i] = IF i = 0 THEN v ELSE Child(h, g[i - 1], path[i])
    <3>1. CASE i = 0
      BY <2>1, <2>2, <3>1
    <3>2. CASE i # 0 /\ i <= k
      <4>1. i - 1 \in 0 .. k /\ i \in 0 .. k /\ i - 1 \in 0 .. k + 1 /\ i - 1 <= k
        BY <2>2, <3>2
      <4>2. f[i] = Child(h, f[i - 1], path[i])
        BY <2>1, <3>2, <4>1
      <4> QED
        BY <3>2, <4>1, <4>2
    <3>3. CASE i = k + 1
      <4>1. i # 0 /\ ~ (i <= k) /\ i - 1 = k /\ k \in 0 .. k + 1
        BY <2>2, <3>3
      <4>2. g[k] = f[k] /\ g[i] = Child(h, f[k], path[k + 1])
        BY <2>2, <4>1, <3>3
      <4> QED
        BY <3>3, <4>1, <4>2
    <3> QED
      BY <2>2, <3>1, <3>2, <3>3
  <2>4. Follows(g, k + 1)
    <3>1. g = [i \in 0 .. k + 1 |-> g[i]]
      OBVIOUS
    <3> HIDE DEF g
    <3> QED
      BY <2>3, <3>1
  <2> HIDE DEF Follows, g
  <2> QED
    BY <2>2, <2>4
<1> HIDE DEF G
<1>4. Len(path) \in G
  <2>1. \A k \in 0 .. Len(path) : k \in G /\ k # Len(path) => k + 1 \in G
    BY <1>3
  <2>2. 0 .. Len(path) \subseteq G
    BY ONLY <1>1, <1>2, <2>1, UpTo
  <2> QED
    BY <1>1, <2>2
<1>5. \E g : Follows(g, Len(path))
  BY <1>4 DEF G
<1> DEFINE at == CHOOSE f : Follows(f, Len(path))
<1>6. Follows(at, Len(path))
  BY <1>5
<1>7. Get(h, path, v) = at[Len(path)]
  BY DEF Get
<1> HIDE DEF at
<1>8. DOMAIN at = 0 .. Len(path)
  BY <1>6
<1>9. at[0] = v
  BY <1>1, <1>6
<1>10. ASSUME NEW i \in 1 .. Len(path) PROVE at[i] = Child(h, at[i - 1], path[i])
  <2>1. i \in 0 .. Len(path) /\ i # 0
    BY <1>1
  <2> QED
    BY <1>6, <2>1
<1>11. GoesBy(h, path, v, at)
  BY <1>7, <1>8, <1>9, <1>10 DEF GoesBy
<1> QED
  BY <1>11

LEMMA GetFound ==
  ASSUME NEW h, HeapInv(h), NEW path \in Paths, NEW v, Found(h, v)
  PROVE  Found(h, Get(h, path, v))
<1>1. Len(path) \in Nat
  BY DEF Paths
<1> PICK at : GoesBy(h, path, v, at)
  BY GetSteps
<1>2. /\ at[0] = v /\ Get(h, path, v) = at[Len(path)]
      /\ \A i \in 1 .. Len(path) : at[i] = Child(h, at[i - 1], path[i])
  BY DEF GoesBy
<1> DEFINE G == {i \in 0 .. Len(path) : Found(h, at[i])}
<1>3. 0 \in G
  BY <1>1, <1>2
<1>4. ASSUME NEW i \in 0 .. Len(path), i \in G, i # Len(path)
      PROVE  i + 1 \in G
  <2>1. i + 1 \in 1 .. Len(path) /\ i + 1 \in 0 .. Len(path) /\ (i + 1) - 1 = i
    BY <1>1, <1>4
  <2>2. at[i + 1] = Child(h, at[i], path[i + 1])
    BY <1>2, <2>1
  <2>3. Found(h, at[i])
    BY <1>4
  <2>4. Found(h, Child(h, at[i], path[i + 1]))
    BY <2>3, ChildFound
  <2> QED
    BY <2>1, <2>2, <2>4
<1>5. Len(path) \in G
  <2>1. \A i \in 0 .. Len(path) : i \in G /\ i # Len(path) => i + 1 \in G
    BY <1>4
  <2> HIDE DEF G
  <2>2. 0 .. Len(path) \subseteq G
    BY ONLY <1>1, <1>3, <2>1, UpTo
  <2> QED
    BY <1>1, <2>2
<1> QED
  BY <1>2, <1>5

(* Walked follows a path up to its last step, making what is missing.      *)
WalksBy(h, path, root, at) ==
  /\ DOMAIN at = 0 .. Len(path) - 1 /\ at[0] = [heap |-> h, val |-> root]
  /\ \A i \in 1 .. Len(path) - 1 :
       at[i] = Descend(at[i - 1].heap, at[i - 1].val, path[i], path[i + 1])
  /\ Walked(h, path, root) = at[Len(path) - 1]

LEMMA WalkedSteps ==
  ASSUME NEW h, NEW path \in Paths, path # <<>>, NEW root
  PROVE  \E at : WalksBy(h, path, root, at)
<1> DEFINE n == Len(path) - 1
           Follows(f, k) ==
             f = [i \in 0 .. k |->
                    IF i = 0 THEN [heap |-> h, val |-> root]
                    ELSE Descend(f[i - 1].heap, f[i - 1].val, path[i], path[i + 1])]
           G == {k \in 0 .. n : \E f : Follows(f, k)}
<1>1. n \in Nat
  BY DEF Paths
<1>2. 0 \in G
  <2> DEFINE f == [i \in 0 .. 0 |-> [heap |-> h, val |-> root]]
  <2>1. Follows(f, 0)
    OBVIOUS
  <2>2. 0 \in 0 .. n
    BY <1>1
  <2> HIDE DEF Follows, f, n
  <2> QED
    BY <2>1, <2>2
<1> HIDE DEF n
<1>3. ASSUME NEW k \in 0 .. n, k \in G, k # n
      PROVE  k + 1 \in G
  <2>1. PICK f : Follows(f, k)
    BY <1>3
  <2> DEFINE g == [i \in 0 .. k + 1 |->
                     IF i <= k THEN f[i]
                     ELSE Descend(f[k].heap, f[k].val, path[k + 1], path[(k + 1) + 1])]
  <2>2. k \in Nat /\ k + 1 \in 0 .. n
    BY <1>1, <1>3
  <2>3. ASSUME NEW i \in 0 .. k + 1
        PROVE  g[i] = IF i = 0 THEN [heap |-> h, val |-> root]
                      ELSE Descend(g[i - 1].heap, g[i - 1].val, path[i], path[i + 1])
    <3>1. CASE i = 0
      BY <2>1, <2>2, <3>1
    <3>2. CASE i # 0 /\ i <= k
      <4>1. i - 1 \in 0 .. k /\ i \in 0 .. k /\ i - 1 \in 0 .. k + 1 /\ i - 1 <= k
        BY <2>2, <3>2
      <4>2. f[i] = Descend(f[i - 1].heap, f[i - 1].val, path[i], path[i + 1])
        BY <2>1, <3>2, <4>1
      <4> QED
        BY <3>2, <4>1, <4>2
    <3>3. CASE i = k + 1
      <4>1. i # 0 /\ ~ (i <= k) /\ i - 1 = k /\ k \in 0 .. k + 1
        BY <2>2, <3>3
      <4>2. g[k] = f[k] /\ g[i] = Descend(f[k].heap, f[k].val, path[k + 1], path[(k + 1) + 1])
        BY <2>2, <4>1, <3>3
      <4> QED
        BY <3>3, <4>1, <4>2
    <3> QED
      BY <2>2, <3>1, <3>2, <3>3
  <2>4. Follows(g, k + 1)
    <3>1. g = [i \in 0 .. k + 1 |-> g[i]]
      OBVIOUS
    <3> HIDE DEF g
    <3> QED
      BY <2>3, <3>1
  <2> HIDE DEF Follows, g
  <2> QED
    BY <2>2, <2>4
<1> HIDE DEF G
<1>4. n \in G
  <2>1. \A k \in 0 .. n : k \in G /\ k # n => k + 1 \in G
    BY <1>3
  <2>2. 0 .. n \subseteq G
    BY ONLY <1>1, <1>2, <2>1, UpTo
  <2> QED
    BY <1>1, <2>2
<1>5. \E g : Follows(g, n)
  BY <1>4 DEF G
<1> DEFINE at == CHOOSE f : Follows(f, n)
<1>6. Follows(at, n)
  BY <1>5
<1>7. Walked(h, path, root) = at[n]
  BY DEF Walked, n
<1> HIDE DEF at
<1>8. DOMAIN at = 0 .. n
  BY <1>6
<1>9. at[0] = [heap |-> h, val |-> root]
  BY <1>1, <1>6
<1>10. ASSUME NEW i \in 1 .. n
       PROVE  at[i] = Descend(at[i - 1].heap, at[i - 1].val, path[i], path[i + 1])
  <2>1. i \in 0 .. n /\ i # 0
    BY <1>1
  <2> QED
    BY <1>6, <2>1
<1>11. WalksBy(h, path, root, at)
  BY <1>7, <1>8, <1>9, <1>10 DEF WalksBy, n
<1> QED
  BY <1>11

(* The container at the end of a path: one for an index has the element,   *)
(* unless it is the path's second index in a row.                          *)
LEMMA WalkedKeeps ==
  ASSUME InputsOK, NEW h, HeapInv(h), NEW path \in Paths, path # <<>>, NEW root,
         Found(h, root), root.kind = "object"
  PROVE  LET walked == Walked(h, path, root)
             last   == path[Len(path)] IN
         /\ Later(h, walked.heap) /\ Found(walked.heap, walked.val)
         /\ walked.val.kind = Holder(last).kind /\ IsIndex(last) =>
              \/ Child(walked.heap, walked.val, last) # Absent
              \/ \E i \in 2 .. Len(path) : IsIndex(path[i - 1]) /\ IsIndex(path[i])
<1> DEFINE n == Len(path) - 1
<1>1. n \in Nat /\ Len(path) = n + 1 /\ \A i \in 1 .. Len(path) : path[i] \in Steps
  BY DEF Paths
<1> PICK at : WalksBy(h, path, root, at)
  BY WalkedSteps
<1>2. /\ at[0] = [heap |-> h, val |-> root] /\ Walked(h, path, root) = at[n]
      /\ \A i \in 1 .. n :
           at[i] = Descend(at[i - 1].heap, at[i - 1].val, path[i], path[i + 1])
  BY DEF WalksBy
<1> HIDE DEF n
<1> DEFINE Good(s, i) ==
             /\ Later(h, s.heap) /\ Found(s.heap, s.val)
             /\ i > 0 => (~ IsIndex(path[i]) /\ IsIndex(path[i + 1]) /\ s.val # Absent =>
                            Child(s.heap, s.val, path[i + 1]) # Absent)
           G == {i \in 0 .. n : Good(at[i], i)}
<1>3. 0 \in G
  <2>1. Later(h, h)
    BY DEF Later
  <2>2. Good(at[0], 0)
    BY <1>2, <2>1
  <2> HIDE DEF Good
  <2> QED
    BY <1>1, <2>2
<1>4. ASSUME NEW i \in 0 .. n, i \in G, i # n
      PROVE  i + 1 \in G
  <2>1. /\ i + 1 \in 1 .. n /\ i + 1 \in 0 .. n /\ (i + 1) - 1 = i
        /\ i + 1 \in 1 .. Len(path) /\ (i + 1) + 1 \in 1 .. Len(path) /\ i + 1 > 0
    BY <1>1, <1>4
  <2> DEFINE was == at[i]
             is == at[i + 1]
  <2>2. is = Descend(was.heap, was.val, path[i + 1], path[(i + 1) + 1])
    BY <1>2, <2>1
  <2>3. Later(h, was.heap) /\ Found(was.heap, was.val)
    BY <1>4
  <2>4. path[i + 1] \in Steps /\ path[(i + 1) + 1] \in Steps
    BY <1>1, <2>1
  <2> HIDE DEF was, is
  <2>5. HeapInv(was.heap)
    BY <2>3 DEF Later
  <2>6. /\ Later(was.heap, is.heap) /\ Found(is.heap, is.val)
        /\ ~ IsIndex(path[i + 1]) /\ IsIndex(path[(i + 1) + 1]) /\ is.val # Absent =>
             Child(is.heap, is.val, path[(i + 1) + 1]) # Absent
    BY <2>2, <2>3, <2>4, <2>5, DescendKeeps
  <2>7. Later(h, is.heap)
    BY <2>3, <2>6 DEF Later
  <2>8. Good(is, i + 1)
    BY <2>6, <2>7
  <2> HIDE DEF Good
  <2> QED
    BY <2>1, <2>8 DEF is
<1>5. n \in G
  <2>1. \A i \in 0 .. n : i \in G /\ i # n => i + 1 \in G
    BY <1>4
  <2> HIDE DEF G
  <2>2. 0 .. n \subseteq G
    BY ONLY <1>1, <1>3, <2>1, UpTo
  <2> QED
    BY <1>1, <2>2
<1> DEFINE walked == at[n]
           last == path[Len(path)]
<1>6. Good(walked, n)
  BY <1>5
<1>7. last = path[n + 1] /\ last \in Steps
  BY <1>1
<1>8. ASSUME walked.val.kind = Holder(last).kind, IsIndex(last)
      PROVE  \/ Child(walked.heap, walked.val, last) # Absent
             \/ \E i \in 2 .. Len(path) : IsIndex(path[i - 1]) /\ IsIndex(path[i])
  <2>1. walked.val.kind = "array"
    BY <1>7, <1>8, StepKinds
  <2>2. n > 0
    <3>1. n # 0
      BY <1>2, <2>1
    <3> QED
      BY <1>1, <3>1
  <2>3. walked.val # Absent
    BY <2>1 DEF Absent
  <2>4. CASE IsIndex(path[n])
    <3>1. Len(path) \in 2 .. Len(path) /\ path[Len(path) - 1] = path[n]
      BY <1>1, <2>2
    <3> QED
      BY <1>8, <2>4, <3>1
  <2>5. CASE ~ IsIndex(path[n])
    BY <1>6, <1>7, <1>8, <2>2, <2>3, <2>5
  <2> QED
    BY <2>4, <2>5
<1>9. Later(h, walked.heap) /\ Found(walked.heap, walked.val)
  BY <1>6
<1>10. walked = Walked(h, path, root)
  BY <1>2
<1> HIDE DEF walked, last
<1> QED
  BY <1>8, <1>9, <1>10 DEF last

LEMMA TargetIsFit ==
  ASSUME InputsOK, NEW h, HeapInv(h)
  PROVE  /\ Root(0) \in DOMAIN h /\ Root(0).kind = "object" /\ Root(0).doc \notin Kept
         /\ Fit(h, Root(0)) /\ Found(h, Root(0))
<1>1. 0 \in DOMAIN given /\ 0 \notin Kept
  BY DEF InputsOK, Kept
<1>2. Root(0).kind = "object" /\ Root(0).doc = 0
  BY DEF Root, Ref
<1>3. Root(0) \in DOMAIN h
  BY <1>1 DEF HeapInv
<1>4. Root(0) # Absent
  BY <1>2 DEF Absent
<1> QED
  BY <1>1, <1>2, <1>3, <1>4 DEF Fit, Found

(* Storing at a path keeps the heap in order, and panics only where the    *)
(* path has two indices in a row.                                          *)
LEMMA SetKeeps ==
  ASSUME InputsOK, NEW h, HeapInv(h), NEW path \in Paths, NEW value, Fit(h, value)
  PROVE  LET set == Set(h, path, Root(0), value) IN
         /\ Later(h, set.heap) /\ set.end \in {"ok", "failed", "panicked"}
         /\ set.end = "panicked" =>
              \E i \in 2 .. Len(path) : IsIndex(path[i - 1]) /\ IsIndex(path[i])
<1> DEFINE root == Root(0)
           set == Set(h, path, root, value)
<1>1. root \in DOMAIN h /\ root.kind = "object" /\ root.doc \notin Kept /\ Found(h, root)
  BY TargetIsFit
<1> HIDE DEF root
<1>2. Later(h, h)
  BY DEF Later
<1>3. CASE path = <<>> /\ value.kind # "object"
  <2>1. set = [heap |-> h, end |-> "failed"]
    BY <1>3 DEF Set
  <2> QED
    BY <2>1, <1>2 DEF root
<1>4. CASE path = <<>> /\ value.kind = "object"
  <2> DEFINE cell == Over(h[value], h[root])
             g == [h EXCEPT ![root] = cell]
  <2>1. set = [heap |-> g, end |-> "ok"]
    BY <1>4 DEF Set
  <2>2. value \in DOMAIN h /\ value.doc \notin Kept
    BY <1>4, ObjectsAndArrays DEF Found
  <2>3. DOMAIN cell = DOMAIN h[value] \cup DOMAIN h[root]
    BY DEF Over
  <2>4. \A s \in DOMAIN cell : cell[s] = IF s \in DOMAIN h[value] THEN h[value][s] ELSE h[root][s]
    BY DEF Over
  <2> HIDE DEF cell
  <2>5. DOMAIN cell \subseteq Steps
    BY <1>1, <2>2, <2>3 DEF HeapInv, HeapOK
  <2>6. \A s \in DOMAIN cell : Fit(h, cell[s])
    BY <1>1, <2>2, <2>3, <2>4 DEF HeapInv, Shielded
  <2>7. Later(h, g)
    BY <1>1, <2>5, <2>6, WriteKeeps
  <2> HIDE DEF g
  <2> QED
    BY <2>1, <2>7 DEF root
<1>5. CASE path # <<>>
  <2> DEFINE parent == Walked(h, path, root)
             last == path[Len(path)]
             stored == Store(parent.heap, parent.val, last, value)
  <2>1. /\ Later(h, parent.heap) /\ Found(parent.heap, parent.val)
        /\ parent.val.kind = Holder(last).kind /\ IsIndex(last) =>
             \/ Child(parent.heap, parent.val, last) # Absent
             \/ \E i \in 2 .. Len(path) : IsIndex(path[i - 1]) /\ IsIndex(path[i])
    BY <1>1, <1>5, WalkedKeeps
  <2>2. last \in Steps
    BY <1>5 DEF Paths
  <2>3. set = IF parent.val.kind # Holder(last).kind
                THEN [heap |-> parent.heap, end |-> "failed"]
              ELSE IF IsIndex(last) /\ Child(parent.heap, parent.val, last) = Absent
                THEN [heap |-> parent.heap, end |-> "panicked"]
              ELSE [heap |-> stored, end |-> "ok"]
    BY <1>5 DEF Set
  <2> HIDE DEF parent, last, set
  <2>4. CASE parent.val.kind # Holder(last).kind
    <3>1. set.heap = parent.heap /\ set.end = "failed"
      BY <2>3, <2>4
    <3> QED
      BY <3>1, <2>1 DEF set, root
  <2>5. CASE parent.val.kind = Holder(last).kind /\ IsIndex(last)
             /\ Child(parent.heap, parent.val, last) = Absent
    <3>1. set.heap = parent.heap /\ set.end = "panicked"
      BY <2>3, <2>5
    <3> QED
      BY <3>1, <2>1, <2>5 DEF set, root
  <2>6. CASE parent.val.kind = Holder(last).kind
             /\ ~ (IsIndex(last) /\ Child(parent.heap, parent.val, last) = Absent)
    <3>1. set.heap = stored /\ set.end = "ok"
      BY <2>3, <2>6
    <3>2. parent.val.kind \in {"object", "array"}
      BY <2>2, <2>6, StepKinds
    <3>3. parent.val \in DOMAIN parent.heap /\ parent.val.doc \notin Kept /\ IsRef(parent.val)
      BY <2>1, <3>2, ObjectsAndArrays
    <3>4. parent.val.kind = "array" => last \in DOMAIN parent.heap[parent.val]
      BY <2>2, <2>6, <3>3, StepKinds DEF Child
    <3>5. HeapInv(parent.heap) /\ Fit(parent.heap, value)
      BY <2>1, FitLater DEF Later
    <3>6. Later(parent.heap, stored)
      BY <2>2, <3>3, <3>4, <3>5, StoreKeeps
    <3> HIDE DEF stored
    <3>7. Later(h, stored)
      BY <2>1, <3>6 DEF Later
    <3> QED
      BY <3>1, <3>7 DEF set, root
  <2> QED
    BY <2>4, <2>5, <2>6
<1> QED
  BY <1>3, <1>4, <1>5

LEMMA FrontOfAPath ==
  ASSUME NEW path \in Paths, path # <<>>
  PROVE  /\ Front(path) \in Paths /\ Last(path) \in Steps
         /\ path = Append(Front(path), Last(path))
<1>1. Len(path) \in Nat /\ Len(path) >= 1 /\ path[Len(path)] \in Steps
  BY DEF Paths
<1>2. Front(path) \in Seq(Steps) /\ Len(Front(path)) = Len(path) - 1
      /\ \A i \in 1 .. Len(path) - 1 : Front(path)[i] = path[i]
  <2> DEFINE n == Len(path) - 1
  <2>1. n \in Nat /\ \A i \in 1 .. n : path[i] \in Steps
    BY <1>1 DEF Paths
  <2>2. Front(path) = SubSeq(path, 1, n)
    BY DEF Front
  <2> HIDE DEF n
  <2>3. /\ SubSeq(path, 1, n) \in Seq(Steps)
        /\ Len(SubSeq(path, 1, n)) = IF 1 <= n THEN n - 1 + 1 ELSE 0
        /\ \A i \in 1 .. n - 1 + 1 : SubSeq(path, 1, n)[i] = path[1 + i - 1]
    BY <2>1, SubSeqProperties
  <2>4. n - 1 + 1 = n /\ \A i \in 1 .. n : 1 + i - 1 = i
    BY <2>1
  <2> QED
    BY <2>1, <2>2, <2>3, <2>4 DEF n
<1> DEFINE whole == Append(Front(path), Last(path))
<1>3. whole \in Seq(Steps) /\ Len(whole) = Len(path)
      /\ \A i \in 1 .. Len(path) : whole[i] = path[i]
  BY <1>1, <1>2 DEF Last
<1>4. whole = path
  BY <1>3, SeqEqual DEF Paths
<1> QED
  BY <1>1, <1>2, <1>4 DEF Last, Paths

LEMMA DeleteKeeps ==
  ASSUME InputsOK, NEW h, HeapInv(h), NEW path \in Paths
  PROVE  Later(h, Delete(h, path, Root(0)))
<1> DEFINE container == Get(h, Front(path), Root(0))
<1>1. CASE path = <<>> \/ IsIndex(Last(path)) \/ container.kind # "object"
  BY <1>1 DEF Delete, Later
<1>2. CASE ~ (path = <<>> \/ IsIndex(Last(path)) \/ container.kind # "object")
  <2>1. Delete(h, path, Root(0)) = Drop(h, container, Last(path))
    BY <1>2 DEF Delete
  <2>2. Found(h, container)
    BY <1>2, FrontOfAPath, TargetIsFit, GetFound
  <2> HIDE DEF container
  <2>3. container \in DOMAIN h /\ container.doc \notin Kept
    BY <1>2, <2>2, ObjectsAndArrays
  <2> QED
    BY <1>2, <2>1, <2>3, DropKeeps
<1> QED
  BY <1>1, <1>2

-----------------------------------------------------------------------------
(* Records *)

LEMMA PrefixGrows ==
  ASSUME NEW path \in Paths, NEW i \in 0 .. Len(path), i # Len(path)
  PROVE  /\ SubSeq(path, 1, i) \in Paths /\ path[i + 1] \in Steps
         /\ SubSeq(path, 1, i + 1) = Append(SubSeq(path, 1, i), path[i + 1])
<1> DEFINE short == SubSeq(path, 1, i)
           long == SubSeq(path, 1, i + 1)
<1>1. /\ Len(path) \in Nat /\ i \in Nat /\ i + 1 \in 1 .. Len(path)
      /\ \A j \in 1 .. Len(path) : path[j] \in Steps
  BY DEF Paths
<1>2. short \in Seq(Steps) /\ Len(short) = i /\ \A j \in 1 .. i : short[j] = path[j]
  <2>1. \A j \in 1 .. i : path[j] \in Steps
    BY <1>1
  <2>2. /\ short \in Seq(Steps) /\ Len(short) = IF 1 <= i THEN i - 1 + 1 ELSE 0
        /\ \A j \in 1 .. i - 1 + 1 : short[j] = path[1 + j - 1]
    BY <1>1, <2>1, SubSeqProperties
  <2>3. i - 1 + 1 = i /\ \A j \in 1 .. i : 1 + j - 1 = j
    BY <1>1
  <2> HIDE DEF short
  <2> QED
    BY <1>1, <2>2, <2>3
<1>3. long \in Seq(Steps) /\ Len(long) = i + 1 /\ \A j \in 1 .. i + 1 : long[j] = path[j]
  <2> DEFINE n == i + 1
  <2>1. n \in Nat /\ \A j \in 1 .. n : path[j] \in Steps
    BY <1>1
  <2> HIDE DEF n
  <2>2. /\ SubSeq(path, 1, n) \in Seq(Steps)
        /\ Len(SubSeq(path, 1, n)) = IF 1 <= n THEN n - 1 + 1 ELSE 0
        /\ \A j \in 1 .. n - 1 + 1 : SubSeq(path, 1, n)[j] = path[1 + j - 1]
    BY <2>1, SubSeqProperties
  <2>3. n - 1 + 1 = n /\ \A j \in 1 .. n : 1 + j - 1 = j
    BY <2>1
  <2> HIDE DEF long
  <2>4. long = SubSeq(path, 1, n)
    BY DEF long, n
  <2>5. long \in Seq(Steps) /\ Len(long) = n /\ \A j \in 1 .. n : long[j] = path[j]
    BY <2>1, <2>2, <2>3, <2>4
  <2> QED
    BY <2>5 DEF n
<1> HIDE DEF short, long
<1> DEFINE whole == Append(short, path[i + 1])
<1>4. whole \in Seq(Steps) /\ Len(whole) = i + 1
      /\ \A j \in 1 .. i + 1 : whole[j] = IF j = i + 1 THEN path[i + 1] ELSE short[j]
  BY <1>1, <1>2
<1> HIDE DEF whole
<1>5. \A j \in 1 .. i + 1 : whole[j] = path[j]
  <2>1. \A j \in 1 .. i + 1 : j # i + 1 => j \in 1 .. i
    BY <1>1
  <2> QED
    BY <1>2, <1>4, <2>1
<1>6. long = whole
  BY <1>3, <1>4, <1>5, SeqEqual
<1> QED
  BY <1>1, <1>2, <1>6 DEF whole, short, long, Paths

LEMMA PrefixesOfAppend ==
  ASSUME NEW q \in Paths, NEW p \in Paths, IsPrefix(q, p), NEW s
  PROVE  IsPrefix(q, Append(p, s))
<1>1. Len(q) \in Nat /\ Len(p) \in Nat /\ Len(q) <= Len(p)
  BY DEF Paths, IsPrefix
<1>2. Len(Append(p, s)) = Len(p) + 1 /\ \A i \in 1 .. Len(p) : Append(p, s)[i] = p[i]
  BY DEF Paths
<1> DEFINE longer == Append(p, s)
           m == Len(q)
<1>3. SubSeq(longer, 1, m) = SubSeq(p, 1, m)
  <2>1. \A i \in 1 .. m : p[i] \in Steps /\ longer[i] = p[i]
    BY <1>1, <1>2 DEF Paths
  <2> HIDE DEF longer
  <2>2. m \in Nat /\ \A i \in 1 .. m : longer[i] \in Steps
    BY <1>1, <2>1
  <2> HIDE DEF m
  <2>3. /\ SubSeq(longer, 1, m) \in Seq(Steps)
        /\ Len(SubSeq(longer, 1, m)) = IF 1 <= m THEN m - 1 + 1 ELSE 0
        /\ \A i \in 1 .. m - 1 + 1 : SubSeq(longer, 1, m)[i] = longer[1 + i - 1]
    BY <2>2, SubSeqProperties
  <2>4. /\ SubSeq(p, 1, m) \in Seq(Steps)
        /\ Len(SubSeq(p, 1, m)) = IF 1 <= m THEN m - 1 + 1 ELSE 0
        /\ \A i \in 1 .. m - 1 + 1 : SubSeq(p, 1, m)[i] = p[1 + i - 1]
    BY <2>1, <2>2, SubSeqProperties
  <2>5. m - 1 + 1 = m /\ \A i \in 1 .. m : 1 + i - 1 = i
    BY <2>2
  <2> DEFINE s1 == SubSeq(longer, 1, m)
             s2 == SubSeq(p, 1, m)
  <2>6. s1 \in Seq(Steps) /\ s2 \in Seq(Steps) /\ Len(s1) = Len(s2) /\ Len(s1) = m
    BY <2>2, <2>3, <2>4, <2>5
  <2>7. \A i \in 1 .. m : s1[i] = longer[i] /\ s2[i] = p[i]
    BY <2>3, <2>4, <2>5
  <2> HIDE DEF s1, s2
  <2>8. s1 = s2
    BY <2>1, <2>6, <2>7, SeqEqual
  <2> QED
    BY <2>8 DEF s1, s2
<1>4. Len(q) <= Len(longer)
  BY <1>1, <1>2
<1> QED
  BY <1>3, <1>4 DEF IsPrefix

LEMMA DecodedKinds ==
  ASSUME NEW n, NEW doc, IsDocument(doc), NEW p \in DOMAIN doc
  PROVE  LET v == Decoded(n, doc, p) IN
         /\ p \in Paths
         /\ IsRef(v) <=> doc[p] \in {Object, Array}
         /\ IsRef(v) => v = Ref(doc[p].kind, n, p) /\ v \in Cells(n, doc) /\ v.node = p /\ v.doc = n
         /\ v.kind = "object" <=> doc[p] = Object
         /\ v.kind = "array" <=> doc[p] = Array
<1>1. p \in Paths /\ (doc[p] \in {Object, Array, Nil} \/ doc[p].kind = "leaf")
  BY DEF IsDocument
<1>2. CASE doc[p] \in {Object, Array}
  <2>1. Decoded(n, doc, p) = Ref(doc[p].kind, n, p)
    BY <1>2 DEF Decoded
  <2>2. Decoded(n, doc, p) \in Cells(n, doc)
    BY <1>2 DEF Cells
  <2>3. doc[p].kind \in {"object", "array"} /\ (doc[p] = Object <=> doc[p].kind = "object")
        /\ (doc[p] = Array <=> doc[p].kind = "array")
    BY <1>2 DEF Object, Array
  <2> QED
    BY <1>1, <1>2, <2>1, <2>2, <2>3 DEF Ref, IsRef, Absent
<1>3. CASE doc[p] \notin {Object, Array}
  <2>1. Decoded(n, doc, p) = doc[p]
    BY <1>3 DEF Decoded
  <2>2. doc[p].kind \in {"nil", "leaf"}
    BY <1>1, <1>3 DEF Nil
  <2> QED
    BY <1>1, <1>3, <2>1, <2>2 DEF IsRef, Absent
<1> QED
  BY <1>2, <1>3

LEMMA DecodedIsOne ==
  ASSUME NEW n, NEW doc, IsDocument(doc), NEW p \in DOMAIN doc
  PROVE  Decoded(n, doc, p) # Absent
<1>1. doc[p] \in {Object, Array, Nil} \/ doc[p].kind = "leaf"
  BY DEF IsDocument
<1> DEFINE v == Decoded(n, doc, p)
<1>2. v = IF doc[p] \in {Object, Array} THEN Ref(doc[p].kind, n, p) ELSE doc[p]
  BY DEF Decoded
<1>3. v.kind \in {"object", "array", "nil", "leaf"}
  BY <1>1, <1>2 DEF Ref, Object, Array, Nil
<1>4. Absent.kind = "absent"
  BY DEF Absent
<1> HIDE DEF v
<1>5. v # Absent
  BY <1>3, <1>4
<1> QED
  BY <1>5 DEF v

LEMMA KeptChild ==
  ASSUME InputsOK, NEW h, HeapInv(h), NEW n \in Kept, NEW p \in DOMAIN given[n], NEW s
  PROVE  LET child == Child(h, Decoded(n, given[n], p), s) IN
         \/ child = Absent
         \/ Append(p, s) \in DOMAIN given[n] /\ child = Decoded(n, given[n], Append(p, s))
<1> DEFINE doc == given[n]
           v == Decoded(n, doc, p)
<1>1. IsDocument(doc)
  BY DEF InputsOK, Kept
<1>2. IsRef(v) => v \in Cells(n, doc) /\ v.node = p
  BY <1>1, DecodedKinds
<1> HIDE DEF v
<1>3. CASE IsRef(v) /\ s \in DOMAIN h[v]
  <2>1. h[v] = Content(n, doc, p)
    BY <1>2, <1>3 DEF HeapInv, Shielded
  <2>2. s \in StepsFrom(doc, p) /\ h[v][s] = Decoded(n, doc, Append(p, s))
    BY <1>3, <2>1 DEF Content
  <2>3. Append(p, s) \in DOMAIN doc
    BY <2>2 DEF StepsFrom
  <2> QED
    BY <1>3, <2>2, <2>3 DEF Child, v
<1>4. CASE ~ (IsRef(v) /\ s \in DOMAIN h[v])
  BY <1>4 DEF Child, v
<1> QED
  BY <1>3, <1>4

(* Looking into a kept record finds what was decoded.                      *)
LEMMA KeptGet ==
  ASSUME InputsOK, NEW h, HeapInv(h), NEW n \in Kept, NEW path \in Paths
  PROVE  LET value == Get(h, path, Root(n)) IN
         \/ value = Absent
         \/ path \in DOMAIN given[n] /\ value = Decoded(n, given[n], path)
<1> DEFINE doc == given[n]
<1>1. Len(path) \in Nat /\ IsDocument(doc)
  BY DEF Paths, InputsOK, Kept
<1> PICK at : GoesBy(h, path, Root(n), at)
  BY GetSteps
<1>2. /\ at[0] = Root(n) /\ Get(h, path, Root(n)) = at[Len(path)]
      /\ \A i \in 1 .. Len(path) : at[i] = Child(h, at[i - 1], path[i])
  BY DEF GoesBy
<1> DEFINE Read(v, p) == v = Absent \/ (p \in DOMAIN doc /\ v = Decoded(n, doc, p))
           G == {i \in 0 .. Len(path) : Read(at[i], SubSeq(path, 1, i))}
<1>3. 0 \in G
  <2>1. SubSeq(path, 1, 0) = <<>>
    BY SubSeqEmpty
  <2>2. <<>> \in DOMAIN doc /\ doc[<<>>] = Object
    BY <1>1 DEF IsDocument
  <2>3. Root(n) = Decoded(n, doc, <<>>)
    BY <2>2 DEF Root, Decoded, Object
  <2>4. Read(at[0], SubSeq(path, 1, 0))
    BY <1>2, <2>1, <2>2, <2>3
  <2> HIDE DEF Read
  <2> QED
    BY <1>1, <2>4
<1>4. ASSUME NEW i \in 0 .. Len(path), i \in G, i # Len(path)
      PROVE  i + 1 \in G
  <2>1. i + 1 \in 1 .. Len(path) /\ i + 1 \in 0 .. Len(path) /\ (i + 1) - 1 = i
    BY <1>1, <1>4
  <2> DEFINE v == at[i]
             p == SubSeq(path, 1, i)
             s == path[i + 1]
  <2>2. at[i + 1] = Child(h, v, s)
    BY <1>2, <2>1
  <2>3. Read(v, p)
    BY <1>4
  <2>4. SubSeq(path, 1, i + 1) = Append(p, s)
    BY <1>4, PrefixGrows
  <2> HIDE DEF v, p, s
  <2>5. Read(at[i + 1], Append(p, s))
    <3>1. CASE v = Absent
      BY <2>2, <3>1, NoneIsRef DEF Child
    <3>2. CASE v # Absent
      <4>1. p \in DOMAIN given[n] /\ v = Decoded(n, given[n], p)
        BY <2>3, <3>2
      <4> QED
        BY <2>2, <4>1, KeptChild
    <3> QED
      BY <3>1, <3>2
  <2> HIDE DEF Read
  <2> QED
    BY <2>1, <2>4, <2>5
<1>5. Len(path) \in G
  <2>1. \A i \in 0 .. Len(path) : i \in G /\ i # Len(path) => i + 1 \in G
    BY <1>4
  <2> HIDE DEF G
  <2>2. 0 .. Len(path) \subseteq G
    BY ONLY <1>1, <1>3, <2>1, UpTo
  <2> QED
    BY <1>1, <2>2
<1>6. SubSeq(path, 1, Len(path)) = path
  BY SubSeqFull DEF Paths
<1>7. Read(at[Len(path)], path)
  BY <1>5, <1>6
<1> QED
  BY <1>2, <1>7

LEMMA TypesOfInputs == MergeTypeOK => InputsOK
BY DEF MergeTypeOK, InputsOK

LEMMA RuleIsOne ==
  MergeTypeOK => /\ Rule \in RuleKind /\ Rule.src \in Paths /\ Rule.dst \in Paths
                 /\ src \in DOMAIN given /\ src \in DOMAIN tables /\ nr \in DOMAIN tables[src]
                 /\ Len(tables) \in Nat /\ DOMAIN tables = 1 .. Len(tables)
                 /\ Len(tables[src]) \in Nat /\ DOMAIN tables[src] = 1 .. Len(tables[src])
<1> SUFFICES ASSUME MergeTypeOK
             PROVE  /\ Rule \in RuleKind /\ Rule.src \in Paths /\ Rule.dst \in Paths
                    /\ src \in DOMAIN given /\ src \in DOMAIN tables /\ nr \in DOMAIN tables[src]
                    /\ Len(tables) \in Nat /\ DOMAIN tables = 1 .. Len(tables)
                    /\ Len(tables[src]) \in Nat /\ DOMAIN tables[src] = 1 .. Len(tables[src])
  OBVIOUS
<1>1. /\ tables \in Seq(Seq(RuleKind)) /\ src \in DOMAIN tables /\ nr \in DOMAIN tables[src]
      /\ DOMAIN given = 0 .. Len(tables)
  BY DEF MergeTypeOK
<1>2. Len(tables) \in Nat /\ DOMAIN tables = 1 .. Len(tables) /\ tables[src] \in Seq(RuleKind)
  BY <1>1
<1>3. Rule \in RuleKind /\ Len(tables[src]) \in Nat /\ DOMAIN tables[src] = 1 .. Len(tables[src])
  BY <1>1, <1>2 DEF Rule
<1>4. src \in DOMAIN given
  BY <1>1, <1>2
<1>5. Rule.src \in Paths /\ Rule.dst \in Paths
  BY <1>3 DEF RuleKind
<1> QED
  BY <1>1, <1>2, <1>3, <1>4, <1>5

(* What a rule reads may be in the target, or it is an object of a kept    *)
(* record, and then it is merged.                                          *)
LEMMA ValueKinds ==
  ASSUME MergeTypeOK, HeapInv(heap), src \in present
  PROVE  \/ Found(heap, Value)
         \/ Copied(Value) /\ ~ Outright
<1>1. InputsOK /\ Rule.src \in Paths /\ src \in DOMAIN given /\ nr \in DOMAIN tables[src]
  BY TypesOfInputs, RuleIsOne
<1>2. CASE src \notin Kept
  <2>1. Root(src) \in DOMAIN heap /\ Root(src).doc = src
    BY <1>1 DEF HeapInv, Root, Ref
  <2>2. Found(heap, Root(src))
    BY <1>2, <2>1, Kinds DEF Found, Fit, HeapInv
  <2> QED
    BY <1>1, <2>2, GetFound DEF Value
<1>3. CASE src \in Kept /\ Value # Absent
  <2> DEFINE doc == given[src]
             p == Rule.src
  <2>1. p \in DOMAIN doc /\ Value = Decoded(src, doc, p)
    BY <1>1, <1>3, KeptGet DEF Value
  <2>2. IsDocument(doc)
    BY <1>1 DEF InputsOK
  <2>3. /\ IsRef(Value) <=> doc[p] \in {Object, Array}
        /\ Value.kind = "object" <=> doc[p] = Object
    BY <2>1, <2>2, DecodedKinds
  <2>4. IsPrefix(p, p)
    BY <1>1 DEF IsPrefix, Paths
  <2>5. ~ Shared(src)
    BY <1>3 DEF Kept
  <2>6. doc[p] # Array /\ (doc[p] = Object => tables[src][nr].policy # "replace")
    BY <1>1, <2>1, <2>4, <2>5 DEF Shared, Rule
  <2>7. CASE doc[p] = Object
    <3>1. Copied(Value)
      BY <1>3, <2>1, <2>4, <2>7 DEF Copied
    <3>2. ~ Outright
      BY <2>3, <2>6, <2>7 DEF Outright, Rule
    <3> QED
      BY <3>1, <3>2
  <2>8. CASE doc[p] # Object
    BY <1>3, <2>3, <2>6, <2>8 DEF Found, Fit
  <2> QED
    BY <2>7, <2>8
<1> QED
  BY <1>2, <1>3 DEF Found

(* The same of a member of what is merged.                                 *)
LEMMA MemberKinds ==
  ASSUME MergeTypeOK, HeapInv(heap), src \in present, NEW patch \in DOMAIN heap,
         patch.doc \notin Kept \/ Copied(patch), NEW k \in Steps
  PROVE  LET member == Child(heap, patch, k) IN
         Found(heap, member) \/ (Copied(member) /\ member.kind = "object")
<1>1. InputsOK /\ Rule.src \in Paths /\ src \in DOMAIN given /\ nr \in DOMAIN tables[src]
  BY TypesOfInputs, RuleIsOne
<1>2. CASE patch.doc \notin Kept
  <2>1. Found(heap, patch)
    BY <1>2, Kinds DEF Found, Fit, HeapInv
  <2> QED
    BY <2>1, ChildFound
<1>3. CASE patch.doc \in Kept
  <2> DEFINE doc == given[src]
             member == Child(heap, patch, k)
  <2>1. PICK p \in DOMAIN doc :
          doc[p] = Object /\ patch = Decoded(src, doc, p) /\ IsPrefix(Rule.src, p)
    BY <1>3 DEF Copied
  <2>2. IsDocument(doc)
    BY <1>1 DEF InputsOK
  <2>3. patch.doc = src /\ p \in Paths
    BY <2>1, <2>2, DecodedKinds
  <2>4. src \in Kept
    BY <1>3, <2>3
  <2>5. CASE member = Absent
    BY <2>5 DEF Found
  <2>6. CASE member # Absent
    <3> DEFINE q == Append(p, k)
    <3>1. q \in DOMAIN doc /\ member = Decoded(src, doc, q)
      BY <1>1, <2>1, <2>4, <2>6, KeptChild
    <3>2. IsPrefix(Rule.src, q)
      BY <1>1, <2>1, <2>3, PrefixesOfAppend
    <3> HIDE DEF q, member
    <3>3. /\ IsRef(member) <=> doc[q] \in {Object, Array}
          /\ member.kind = "object" <=> doc[q] = Object
      BY <2>2, <3>1, DecodedKinds
    <3>4. ~ Shared(src)
      BY <2>4, <1>1 DEF Kept
    <3>5. doc[q] # Array
      BY <1>1, <3>1, <3>2, <3>4 DEF Shared, Rule
    <3>6. CASE doc[q] = Object
      <4>1. Copied(member)
        BY <2>4, <3>1, <3>2, <3>6 DEF Copied
      <4> QED
        BY <3>3, <3>6, <4>1 DEF member
    <3>7. CASE doc[q] # Object
      BY <2>6, <3>3, <3>5, <3>7 DEF Found, Fit, member
    <3> QED
      BY <3>6, <3>7
  <2> QED
    BY <2>5, <2>6
<1> QED
  BY <1>2, <1>3

-----------------------------------------------------------------------------
(* The calls of MergePatch *)

Frames(h) == [into : DOMAIN h, patch : DOMAIN h, left : SUBSET Steps, for : Steps \cup {Absent}]

FrameOK(c) ==
  /\ c.into.kind = "object" /\ c.into.doc \notin Kept
  /\ c.patch.kind = "object" /\ (c.patch.doc \notin Kept \/ Copied(c.patch))

StackOK(h, stack) ==
  /\ stack \in Seq(Frames(h))
  /\ \A n \in DOMAIN stack :
       FrameOK(stack[n]) /\ (n < Len(stack) => stack[n].for # Absent)

LEMMA CallsAreAStack == MergeInv => StackOK(heap, calls)
BY DEF MergeInv, MergeTypeOK, CallsInv, StackOK, FrameOK, Frames, IsObject

LEMMA StackLater ==
  ASSUME NEW h, NEW g, DOMAIN h \subseteq DOMAIN g, NEW stack, StackOK(h, stack)
  PROVE  StackOK(g, stack)
<1>1. Frames(h) \subseteq Frames(g)
  BY DEF Frames
<1>2. stack \in Seq(Frames(g))
  BY <1>1, SeqMonotonic DEF StackOK
<1> QED
  BY <1>2 DEF StackOK

LEMMA PushKeepsStack ==
  ASSUME NEW h, NEW stack, StackOK(h, stack), NEW c \in Frames(h), FrameOK(c),
         stack # <<>> => c.for # Absent
  PROVE  StackOK(h, <<c>> \o stack)
<1> DEFINE longer == <<c>> \o stack
<1>1. stack \in Seq(Frames(h)) /\ Len(stack) \in Nat /\ DOMAIN stack = 1 .. Len(stack)
  BY DEF StackOK
<1>2. /\ longer \in Seq(Frames(h)) /\ Len(longer) = Len(stack) + 1
      /\ DOMAIN longer = 1 .. Len(stack) + 1 /\ longer[1] = c
      /\ \A n \in 2 .. Len(stack) + 1 : longer[n] = stack[n - 1]
  BY <1>1
<1> HIDE DEF longer
<1>3. ASSUME NEW n \in DOMAIN longer
      PROVE  FrameOK(longer[n]) /\ (n < Len(longer) => longer[n].for # Absent)
  <2>1. CASE n = 1
    <3>1. n < Len(longer) => stack # <<>>
      BY <1>1, <1>2, <2>1
    <3> QED
      BY <1>2, <2>1, <3>1
  <2>2. CASE n # 1
    <3>1. n \in 2 .. Len(stack) + 1 /\ n - 1 \in DOMAIN stack
          /\ (n < Len(longer) => n - 1 < Len(stack))
      BY <1>1, <1>2, <2>2
    <3>2. FrameOK(stack[n - 1]) /\ (n - 1 < Len(stack) => stack[n - 1].for # Absent)
      BY <3>1 DEF StackOK
    <3> QED
      BY <1>2, <3>1, <3>2
  <2> QED
    BY <2>1, <2>2
<1> QED
  BY <1>2, <1>3 DEF StackOK, longer

LEMMA PopKeepsStack ==
  ASSUME NEW h, NEW stack, StackOK(h, stack), stack # <<>>
  PROVE  /\ StackOK(h, Tail(stack))
         /\ Head(stack) \in Frames(h) /\ FrameOK(Head(stack))
         /\ Tail(stack) # <<>> => Head(stack).for # Absent
<1> DEFINE shorter == Tail(stack)
<1>1. stack \in Seq(Frames(h)) /\ Len(stack) \in Nat /\ Len(stack) >= 1
      /\ DOMAIN stack = 1 .. Len(stack)
  BY DEF StackOK
<1>2. /\ shorter \in Seq(Frames(h)) /\ Len(shorter) = Len(stack) - 1
      /\ DOMAIN shorter = 1 .. Len(stack) - 1
      /\ \A n \in 1 .. Len(stack) - 1 : shorter[n] = stack[n + 1]
  BY <1>1
<1>3. Head(stack) = stack[1] /\ 1 \in DOMAIN stack
  BY <1>1
<1> HIDE DEF shorter
<1>4. ASSUME NEW n \in DOMAIN shorter
      PROVE  FrameOK(shorter[n]) /\ (n < Len(shorter) => shorter[n].for # Absent)
  <2>1. n + 1 \in DOMAIN stack /\ (n < Len(shorter) => n + 1 < Len(stack))
    BY <1>1, <1>2
  <2>2. FrameOK(stack[n + 1]) /\ (n + 1 < Len(stack) => stack[n + 1].for # Absent)
    BY <2>1 DEF StackOK
  <2> QED
    BY <1>2, <2>1, <2>2
<1>5. StackOK(h, shorter)
  BY <1>2, <1>4 DEF StackOK
<1>6. shorter # <<>> => 1 < Len(stack)
  BY <1>1, <1>2
<1>7. FrameOK(stack[1]) /\ (1 < Len(stack) => stack[1].for # Absent)
  BY <1>3 DEF StackOK
<1>8. Head(stack) \in Frames(h)
  BY <1>1, <1>3
<1> QED
  BY <1>3, <1>5, <1>6, <1>7, <1>8 DEF shorter

-----------------------------------------------------------------------------
(* The steps *)

LEMMA HeapMoves ==
  ASSUME MergeInv, UNCHANGED inputs, Later(heap, heap')
  PROVE  /\ HeapInv(heap)' /\ Kept' = Kept
         /\ (\A n \in DOMAIN given : IsDocument(given[n]) /\ IsObject(Root(n)))'
<1>1. tables' = tables /\ present' = present /\ given' = given
  BY DEF inputs
<1>2. Kept' = Kept
  BY <1>1 DEF Kept, Shared
<1>3. HeapInv(heap')
  BY DEF Later
<1>4. HeapInv(heap)'
  BY <1>1, <1>2, <1>3 DEF HeapInv, Bounded, Shielded, Fit
<1>5. (\A n \in DOMAIN given : IsDocument(given[n]) /\ IsObject(Root(n)))'
  <2>1. \A n \in DOMAIN given : IsDocument(given[n]) /\ Root(n) \in DOMAIN heap'
    BY <1>3 DEF MergeInv, MergeTypeOK, HeapInv
  <2>2. \A n : Root(n).kind = "object"
    BY DEF Root, Ref
  <2> QED
    BY <1>1, <2>1, <2>2 DEF IsObject
<1> QED
  BY <1>2, <1>4, <1>5

LEMMA StepKeeps ==
  ASSUME MergeInv, UNCHANGED inputs, Later(heap, heap'),
         src' \in DOMAIN tables, nr' \in DOMAIN tables[src'], src' \notin present => nr' = 1,
         outcome' \in {"applying", "done", "failed", "panicked"}, OnlyNestedArraysPanic',
         \/ calls' = <<>>
         \/ StackOK(heap', calls') /\ src \in present /\ src' = src /\ nr' = nr
  PROVE  MergeInv'
<1>1. tables' = tables /\ present' = present /\ given' = given
  BY DEF inputs
<1>2. /\ HeapInv(heap)' /\ Kept' = Kept
      /\ (\A n \in DOMAIN given : IsDocument(given[n]) /\ IsObject(Root(n)))'
  BY HeapMoves
<1>3. HeapOK(heap)'
  BY <1>2 DEF HeapInv
<1>4. RulesInv'
  BY <1>1 DEF MergeInv, RulesInv
<1>5. /\ calls' \in Seq([into : DOMAIN heap', patch : DOMAIN heap', left : SUBSET Steps,
                         for : Steps \cup {Absent}])
      /\ (\A n \in DOMAIN calls :
            /\ IsObject(calls[n].into) /\ IsObject(calls[n].patch)
            /\ n < Len(calls) => calls[n].for # Absent)'
      /\ CallsInv'
  <2>1. CASE calls' = <<>>
    BY <2>1 DEF CallsInv
  <2>2. CASE StackOK(heap', calls') /\ src \in present /\ src' = src /\ nr' = nr
    <3>1. calls' \in Seq(Frames(heap'))
      BY <2>2 DEF StackOK
    <3>2. \A n \in DOMAIN calls' : calls'[n].into \in DOMAIN heap' /\ calls'[n].patch \in DOMAIN heap'
      <4>1. \A n \in DOMAIN calls' : calls'[n] \in Frames(heap')
        BY <3>1
      <4>2. \A c \in Frames(heap') : c.into \in DOMAIN heap' /\ c.patch \in DOMAIN heap'
        BY DEF Frames
      <4> QED
        BY <4>1, <4>2
    <3>3. \A n \in DOMAIN calls' :
            FrameOK(calls'[n]) /\ (n < Len(calls') => calls'[n].for # Absent)
      BY <2>2 DEF StackOK
    <3>4. CallsInv'
      <4>1. calls' # <<>> => src' \in present'
        BY <1>1, <2>2
      <4>2. \A n \in DOMAIN calls' :
              /\ calls'[n].into.doc \notin Kept'
              /\ calls'[n].patch.doc \notin Kept' \/ Copied(calls'[n].patch)
        BY <1>2, <3>3 DEF FrameOK
      <4>3. \A n \in DOMAIN calls' :
              /\ calls'[n].into.doc \notin Kept'
              /\ calls'[n].patch.doc \notin Kept' \/ Copied(calls[n].patch)'
        BY <1>1, <1>2, <2>2, <4>2 DEF Copied, Rule
      <4> QED
        BY <4>1, <4>3 DEF CallsInv
    <3>5. (\A n \in DOMAIN calls :
             /\ IsObject(calls[n].into) /\ IsObject(calls[n].patch)
             /\ n < Len(calls) => calls[n].for # Absent)'
      BY <3>2, <3>3 DEF FrameOK, IsObject
    <3> QED
      BY <3>1, <3>4, <3>5 DEF Frames
  <2> QED
    BY <2>1, <2>2
<1>6. MergeTypeOK'
  BY <1>1, <1>2, <1>3, <1>5 DEF MergeTypeOK, MergeInv
<1> QED
  BY <1>2, <1>4, <1>5, <1>6 DEF MergeInv

LEMMA AdvanceKeeps ==
  ASSUME MergeInv, outcome = "applying", src \in present, UNCHANGED inputs,
         Later(heap, heap'), calls' = <<>>, NextRule
  PROVE  MergeInv'
<1>1. /\ src \in DOMAIN tables /\ nr \in DOMAIN tables[src] /\ Len(tables) \in Nat
      /\ DOMAIN tables = 1 .. Len(tables)
      /\ Len(tables[src]) \in Nat /\ DOMAIN tables[src] = 1 .. Len(tables[src])
  BY RuleIsOne DEF MergeInv
<1>2. outcome' # "panicked" => OnlyNestedArraysPanic'
  BY DEF OnlyNestedArraysPanic
<1>3. CASE nr < Len(tables[src])
  <2>1. nr' = nr + 1 /\ src' = src /\ outcome' = outcome
    BY <1>3 DEF NextRule
  <2>2. nr' \in DOMAIN tables[src']
    BY <1>1, <1>3, <2>1
  <2> QED
    BY <1>1, <1>2, <2>1, <2>2, StepKeeps
<1>4. CASE ~ (nr < Len(tables[src])) /\ src < Len(tables)
  <2>1. nr' = 1 /\ src' = src + 1 /\ outcome' = outcome
    BY <1>4 DEF NextRule
  <2>2. src' \in DOMAIN tables
    BY <1>1, <1>4, <2>1
  <2>3. tables[src'] \in Seq(RuleKind) /\ tables[src'] # <<>>
    BY <2>2 DEF MergeInv, MergeTypeOK, RulesInv
  <2>4. nr' \in DOMAIN tables[src']
    BY <2>1, <2>3
  <2> QED
    BY <1>2, <2>1, <2>2, <2>4, StepKeeps
<1>5. CASE ~ (nr < Len(tables[src])) /\ ~ (src < Len(tables))
  <2>1. nr' = 1 /\ src' = src /\ outcome' = "done"
    BY <1>5 DEF NextRule
  <2>2. nr' \in DOMAIN tables[src']
    BY <1>1, <2>1
  <2> QED
    BY <1>1, <1>2, <2>1, <2>2, StepKeeps
<1> QED
  BY <1>3, <1>4, <1>5

LEMMA AssignKeeps ==
  ASSUME MergeInv, outcome = "applying", src \in present, UNCHANGED inputs, calls' = <<>>,
         NEW value, Fit(heap, value), Assign(value)
  PROVE  MergeInv'
<1> DEFINE set == Set(heap, Rule.dst, Root(0), value)
<1>1. InputsOK /\ HeapInv(heap) /\ Rule.dst \in Paths
  BY TypesOfInputs, RuleIsOne DEF MergeInv
<1>2. /\ Later(heap, set.heap) /\ set.end \in {"ok", "failed", "panicked"}
      /\ set.end = "panicked" =>
           \E i \in 2 .. Len(Rule.dst) : IsIndex(Rule.dst[i - 1]) /\ IsIndex(Rule.dst[i])
  BY <1>1, SetKeeps
<1>3. /\ heap' = set.heap
      /\ IF set.end = "ok" THEN NextRule ELSE outcome' = set.end /\ UNCHANGED <<src, nr>>
  BY DEF Assign
<1> HIDE DEF set
<1>4. Later(heap, heap')
  BY <1>2, <1>3
<1>5. CASE set.end = "ok"
  BY <1>3, <1>4, <1>5, AdvanceKeeps
<1>6. CASE set.end # "ok"
  <2>1. outcome' = set.end /\ src' = src /\ nr' = nr
    BY <1>3, <1>6
  <2>2. src \in DOMAIN tables /\ nr \in DOMAIN tables[src]
    BY RuleIsOne DEF MergeInv
  <2>3. Rule' = Rule
    BY <2>1 DEF Rule, inputs
  <2>4. OnlyNestedArraysPanic'
    BY <1>2, <2>1, <2>3 DEF OnlyNestedArraysPanic
  <2>5. src' \in DOMAIN tables /\ nr' \in DOMAIN tables[src'] /\ src' \in present
    BY <2>1, <2>2
  <2>6. outcome' \in {"applying", "done", "failed", "panicked"}
    <3>1. set.end \in {"ok", "failed", "panicked"}
      BY <1>2
    <3> QED
      BY <1>6, <2>1, <3>1
  <2> QED
    BY <1>4, <2>4, <2>5, <2>6, StepKeeps
<1> QED
  BY <1>5, <1>6

(* A step that stays at its rule.                                          *)
LEMMA StayKeeps ==
  ASSUME MergeInv, outcome = "applying", src \in present, UNCHANGED inputs, UNCHANGED place,
         Later(heap, heap'), StackOK(heap', calls')
  PROVE  MergeInv'
<1>1. src' = src /\ nr' = nr /\ outcome' = outcome
  BY DEF place
<1>2. src \in DOMAIN tables /\ nr \in DOMAIN tables[src]
  BY RuleIsOne DEF MergeInv
<1>3. OnlyNestedArraysPanic'
  BY <1>1 DEF OnlyNestedArraysPanic
<1> QED
  BY <1>1, <1>2, <1>3, StepKeeps

LEMMA CallKeeps ==
  ASSUME MergeInv, outcome = "applying", src \in present, UNCHANGED inputs, UNCHANGED place,
         NEW dest, Found(heap, dest),
         NEW patch, patch \in DOMAIN heap, patch.kind = "object",
         patch.doc \notin Kept \/ Copied(patch),
         NEW callers, StackOK(heap, callers),
         NEW for, for \in Steps \cup {Absent}, callers # <<>> => for # Absent,
         Call(dest, patch, for, callers)
  PROVE  MergeInv'
<1> DEFINE made == New(heap, "object", NoMembers)
           Frame(into) == [into |-> into, patch |-> patch, left |-> DOMAIN heap[patch], for |-> for]
<1>1. InputsOK /\ HeapInv(heap)
  BY TypesOfInputs DEF MergeInv
<1>2. DOMAIN heap[patch] \subseteq Steps
  BY <1>1 DEF HeapInv, HeapOK
<1>3. CASE dest.kind = "object"
  <2>1. calls' = <<Frame(dest)>> \o callers /\ heap' = heap
    BY <1>3 DEF Call
  <2>2. dest \in DOMAIN heap /\ dest.doc \notin Kept
    BY <1>3, ObjectsAndArrays
  <2>3. Frame(dest) \in Frames(heap) /\ FrameOK(Frame(dest)) /\ Frame(dest).for = for
    BY <1>2, <1>3, <2>2 DEF Frames, FrameOK
  <2> HIDE DEF Frame
  <2>4. StackOK(heap', calls')
    BY <2>1, <2>3, PushKeepsStack
  <2> QED
    BY <1>1, <2>1, <2>4, StayKeeps DEF Later
<1>4. CASE dest.kind # "object"
  <2>1. calls' = <<Frame(made.val)>> \o callers /\ heap' = made.heap
    BY <1>4 DEF Call
  <2>2. /\ Later(heap, made.heap) /\ Fit(made.heap, made.val)
        /\ made.val.kind = "object" /\ made.val \in DOMAIN made.heap
    BY <1>1, NewEmptyKeeps
  <2> HIDE DEF made
  <2>3. DOMAIN heap \subseteq DOMAIN made.heap
    BY <2>2 DEF Later
  <2>4. made.val.doc \notin Kept
    BY <2>2 DEF Fit, IsRef
  <2>5. /\ Frame(made.val) \in Frames(made.heap) /\ FrameOK(Frame(made.val))
        /\ Frame(made.val).for = for
    BY <1>2, <2>2, <2>3, <2>4 DEF Frames, FrameOK
  <2> HIDE DEF Frame
  <2>6. StackOK(made.heap, callers)
    BY <2>3, StackLater
  <2>7. StackOK(heap', calls')
    BY <2>1, <2>5, <2>6, PushKeepsStack
  <2> QED
    BY <2>1, <2>2, <2>7, StayKeeps
<1> QED
  BY <1>3, <1>4

LEMMA SkipSourceKeeps == MergeInv /\ SkipSource => MergeInv'
<1> SUFFICES ASSUME MergeInv, SkipSource PROVE MergeInv'
  OBVIOUS
<1>1. /\ outcome = "applying" /\ src \notin present /\ UNCHANGED inputs
      /\ heap' = heap /\ nr' = nr /\ calls' = calls
  BY DEF SkipSource
<1>2. calls' = <<>> /\ nr = 1
  BY <1>1 DEF MergeInv, CallsInv, RulesInv
<1>3. Later(heap, heap')
  BY <1>1 DEF MergeInv, Later
<1>4. /\ src \in DOMAIN tables /\ nr \in DOMAIN tables[src] /\ Len(tables) \in Nat
      /\ DOMAIN tables = 1 .. Len(tables)
  BY RuleIsOne DEF MergeInv
<1>5. CASE src < Len(tables)
  <2>1. src' = src + 1 /\ outcome' = outcome
    BY <1>5 DEF SkipSource
  <2>2. src' \in DOMAIN tables
    BY <1>4, <1>5, <2>1
  <2>3. tables[src'] \in Seq(RuleKind) /\ tables[src'] # <<>>
    BY <2>2 DEF MergeInv, MergeTypeOK, RulesInv
  <2>4. nr' = 1 /\ nr' \in DOMAIN tables[src']
    BY <1>1, <1>2, <2>3
  <2>5. OnlyNestedArraysPanic'
    BY <1>1, <2>1 DEF OnlyNestedArraysPanic
  <2> QED
    BY <1>1, <1>2, <1>3, <2>1, <2>2, <2>4, <2>5, StepKeeps
<1>6. CASE ~ (src < Len(tables))
  <2>1. src' = src /\ outcome' = "done"
    BY <1>6 DEF SkipSource
  <2>2. OnlyNestedArraysPanic'
    BY <2>1 DEF OnlyNestedArraysPanic
  <2>3. nr' = 1 /\ nr' \in DOMAIN tables[src']
    BY <1>1, <1>2, <1>4, <2>1
  <2> QED
    BY <1>1, <1>2, <1>3, <1>4, <2>1, <2>2, <2>3, StepKeeps
<1> QED
  BY <1>5, <1>6

LEMMA SkipRuleKeeps == MergeInv /\ SkipRule => MergeInv'
<1> SUFFICES ASSUME MergeInv, SkipRule PROVE MergeInv'
  OBVIOUS
<1>1. /\ outcome = "applying" /\ src \in present /\ UNCHANGED inputs
      /\ heap' = heap /\ calls' = <<>> /\ NextRule
  BY DEF SkipRule, Applying
<1>2. Later(heap, heap')
  BY <1>1 DEF MergeInv, Later
<1> QED
  BY <1>1, <1>2, AdvanceKeeps

LEMMA ClearKeeps == MergeInv /\ Clear => MergeInv'
<1> SUFFICES ASSUME MergeInv, Clear PROVE MergeInv'
  OBVIOUS
<1>1. /\ outcome = "applying" /\ src \in present /\ UNCHANGED inputs
      /\ heap' = Delete(heap, Rule.dst, Root(0)) /\ calls' = <<>> /\ NextRule
  BY DEF Clear, Applying
<1>2. InputsOK /\ HeapInv(heap) /\ Rule.dst \in Paths
  BY TypesOfInputs, RuleIsOne DEF MergeInv
<1>3. Later(heap, heap')
  BY <1>1, <1>2, DeleteKeeps
<1> QED
  BY <1>1, <1>3, AdvanceKeeps

LEMMA ReplaceKeeps == MergeInv /\ Replace => MergeInv'
<1> SUFFICES ASSUME MergeInv, Replace PROVE MergeInv'
  OBVIOUS
<1>1. /\ outcome = "applying" /\ src \in present /\ UNCHANGED inputs
      /\ calls' = <<>> /\ Assign(Value) /\ Value # Absent /\ Outright
  BY DEF Replace, Applying
<1>2. Found(heap, Value)
  BY <1>1, ValueKinds DEF MergeInv
<1>3. Fit(heap, Value)
  BY <1>1, <1>2 DEF Found
<1> QED
  BY <1>1, <1>3, AssignKeeps

(* What is copied is a cell of the heap.                                   *)
LEMMA CopiedIsACell ==
  ASSUME MergeTypeOK, HeapInv(heap), NEW v, Copied(v) \/ Found(heap, v), v.kind = "object"
  PROVE  v \in DOMAIN heap /\ (v.doc \notin Kept \/ Copied(v))
<1>1. CASE Found(heap, v)
  BY <1>1, ObjectsAndArrays
<1>2. CASE ~ Found(heap, v)
  <2> DEFINE doc == given[src]
  <2>1. PICK p \in DOMAIN doc : doc[p] = Object /\ v = Decoded(src, doc, p)
    BY <1>2 DEF Copied
  <2>2. IsDocument(doc) /\ src \in DOMAIN tables
    BY RuleIsOne, TypesOfInputs DEF InputsOK
  <2>3. v \in Cells(src, doc)
    BY <2>1, <2>2, DecodedKinds
  <2>4. src \in Kept
    BY <1>2 DEF Copied
  <2> QED
    BY <1>2, <2>3, <2>4 DEF HeapInv, Shielded
<1> QED
  BY <1>1, <1>2

LEMMA MergeObjectKeeps == MergeInv /\ MergeObject => MergeInv'
<1> SUFFICES ASSUME MergeInv, MergeObject PROVE MergeInv'
  OBVIOUS
<1> DEFINE dest == Get(heap, Rule.dst, Root(0))
<1>1. /\ outcome = "applying" /\ src \in present /\ UNCHANGED inputs /\ UNCHANGED place
      /\ calls = <<>> /\ ~ Outright /\ Call(dest, Value, Absent, <<>>)
  BY DEF MergeObject, Applying
<1>2. /\ MergeTypeOK /\ HeapInv(heap) /\ InputsOK /\ Rule.dst \in Paths
  BY TypesOfInputs, RuleIsOne DEF MergeInv
<1>3. Value.kind = "object"
  BY <1>1 DEF Outright
<1>4. Value \in DOMAIN heap /\ (Value.doc \notin Kept \/ Copied(Value))
  BY <1>1, <1>2, <1>3, ValueKinds, CopiedIsACell
<1>5. Found(heap, dest)
  BY <1>2, TargetIsFit, GetFound
<1>6. StackOK(heap, <<>>)
  BY DEF StackOK
<1> HIDE DEF dest
<1> QED
  BY <1>1, <1>3, <1>4, <1>5, <1>6, CallKeeps

LEMMA MergeMemberKeeps ==
  ASSUME NEW k, MergeInv, Merging, k \in Head(calls).left, MergeMember(k)
  PROVE  MergeInv'
<1> DEFINE call == Head(calls)
           member == Child(heap, call.patch, k)
           dest == Child(heap, call.into, k)
           less == [call EXCEPT !.left = @ \ {k}]
           callers == <<less>> \o Tail(calls)
<1>1. MergeTypeOK /\ HeapInv(heap) /\ InputsOK
  BY TypesOfInputs DEF MergeInv
<1>2. outcome = "applying" /\ calls # <<>> /\ src \in present
  BY DEF Merging, MergeInv, CallsInv
<1>3. UNCHANGED inputs /\ UNCHANGED place
  BY DEF MergeMember
<1>4. /\ StackOK(heap, Tail(calls)) /\ call \in Frames(heap) /\ FrameOK(call)
      /\ Tail(calls) # <<>> => call.for # Absent
  BY <1>2, CallsAreAStack, PopKeepsStack
<1>5. /\ \/ member.kind = "object" /\ Call(dest, member, k, callers)
         \/ /\ member.kind # "object" /\ calls' = callers
            /\ heap' = CASE member = Absent -> heap
                         [] member = Nil    -> Drop(heap, call.into, k)
                         [] OTHER           -> Store(heap, call.into, k, member)
  BY DEF MergeMember
<1>6. /\ call.into \in DOMAIN heap /\ call.patch \in DOMAIN heap /\ call.left \subseteq Steps
      /\ call.into.kind = "object" /\ call.into.doc \notin Kept
      /\ call.patch.kind = "object" /\ (call.patch.doc \notin Kept \/ Copied(call.patch))
  BY <1>4 DEF Frames, FrameOK
<1>7. k \in Steps /\ k # Absent
  <2>1. k \in Steps
    BY <1>6
  <2>2. \A s \in Steps : s # Absent
    <3>1. \A n : [name |-> n] # Absent
      <4>1. \A n : DOMAIN [name |-> n] = {"name"}
        OBVIOUS
      <4>2. DOMAIN Absent = {"kind"}
        BY DEF Absent
      <4> QED
        BY <4>1, <4>2
    <3>2. \A n : [index |-> n] # Absent
      <4>1. \A n : DOMAIN [index |-> n] = {"index"}
        OBVIOUS
      <4>2. DOMAIN Absent = {"kind"}
        BY DEF Absent
      <4> QED
        BY <4>1, <4>2
    <3> QED
      BY <3>1, <3>2 DEF Steps
  <2> QED
    BY <2>1, <2>2
<1>8. less \in Frames(heap) /\ FrameOK(less) /\ less.for = call.for
  BY <1>4 DEF Frames, FrameOK
<1> HIDE DEF less, call
<1>9. StackOK(heap, callers)
  BY <1>4, <1>8, PushKeepsStack
<1> HIDE DEF callers
<1>10. Found(heap, member) \/ (Copied(member) /\ member.kind = "object")
  BY <1>1, <1>2, <1>6, <1>7, MemberKinds
<1> HIDE DEF member
<1>11. CASE member.kind = "object"
  <2>1. Found(heap, call.into)
    BY <1>1, <1>6, Kinds DEF Found, Fit, HeapInv
  <2>2. Found(heap, dest)
    BY <1>1, <2>1, ChildFound
  <2> HIDE DEF dest
  <2>3. member \in DOMAIN heap /\ (member.doc \notin Kept \/ Copied(member))
    BY <1>1, <1>10, <1>11, CopiedIsACell
  <2>4. Call(dest, member, k, callers)
    BY <1>5, <1>11
  <2> QED
    BY <1>2, <1>3, <1>7, <1>9, <1>11, <2>2, <2>3, <2>4, CallKeeps
<1>12. CASE member.kind # "object"
  <2>1. calls' = callers
    BY <1>5, <1>12
  <2>2. Later(heap, heap')
    <3>1. CASE member = Absent
      <4>1. heap' = heap
        BY <1>5, <1>12, <3>1, NoneIsRef
      <4> QED
        BY <1>1, <4>1 DEF Later
    <3>2. CASE member = Nil
      <4>1. heap' = Drop(heap, call.into, k)
        BY <1>5, <1>12, <3>2, NoneIsRef
      <4> QED
        BY <1>1, <1>6, <4>1, DropKeeps
    <3>3. CASE member # Absent /\ member # Nil
      <4>1. heap' = Store(heap, call.into, k, member)
        BY <1>5, <1>12, <3>3
      <4>2. Fit(heap, member)
        BY <1>10, <1>12, <3>3 DEF Found
      <4> QED
        BY <1>1, <1>6, <1>7, <4>1, <4>2, StoreKeeps
    <3> QED
      BY <3>1, <3>2, <3>3
  <2>3. StackOK(heap', calls')
    BY <1>9, <2>1, <2>2, StackLater DEF Later
  <2> QED
    BY <1>2, <1>3, <2>2, <2>3, StayKeeps
<1> QED
  BY <1>11, <1>12

LEMMA ReturnKeeps == MergeInv /\ Return => MergeInv'
<1> SUFFICES ASSUME MergeInv, Return PROVE MergeInv'
  OBVIOUS
<1> DEFINE call == Head(calls)
           rest == Tail(calls)
           caller == Head(rest)
<1>1. HeapInv(heap)
  BY DEF MergeInv
<1>2. outcome = "applying" /\ calls # <<>> /\ src \in present /\ UNCHANGED inputs /\ calls' = rest
  BY DEF Return, Merging, MergeInv, CallsInv
<1>3. /\ StackOK(heap, rest) /\ call \in Frames(heap) /\ FrameOK(call)
      /\ rest # <<>> => call.for # Absent
  BY <1>2, CallsAreAStack, PopKeepsStack
<1>4. IF rest = <<>> THEN Assign(call.into)
      ELSE heap' = Store(heap, caller.into, call.for, call.into) /\ UNCHANGED place
  BY <1>2 DEF Return
<1> HIDE DEF rest
<1>5. call.into \in DOMAIN heap /\ call.for \in Steps \cup {Absent} /\ call.into.doc \notin Kept
  BY <1>3 DEF Frames, FrameOK
<1> HIDE DEF call
<1>6. Fit(heap, call.into)
  BY <1>1, <1>5, Kinds DEF Fit, HeapInv
<1>7. CASE rest = <<>>
  BY <1>2, <1>4, <1>6, <1>7, AssignKeeps
<1>8. CASE rest # <<>>
  <2>1. caller \in Frames(heap) /\ FrameOK(caller)
    BY <1>3, <1>8, PopKeepsStack
  <2> HIDE DEF caller
  <2>2. caller.into \in DOMAIN heap /\ caller.into.kind = "object" /\ caller.into.doc \notin Kept
    BY <2>1 DEF Frames, FrameOK
  <2>3. call.for \in Steps
    BY <1>3, <1>5, <1>8
  <2>4. heap' = Store(heap, caller.into, call.for, call.into)
    BY <1>4, <1>8
  <2>5. Later(heap, heap')
    BY <1>1, <1>6, <2>2, <2>3, <2>4, StoreKeeps
  <2>6. StackOK(heap', calls')
    BY <1>2, <1>3, <2>5, StackLater DEF Later
  <2>7. UNCHANGED place
    BY <1>4, <1>8
  <2> QED
    BY <1>2, <2>5, <2>6, <2>7, StayKeeps
<1> QED
  BY <1>7, <1>8

(* Decoding gives every document cells of its own.                         *)
LEMMA InitInv == MergeInit => MergeInv
<1> SUFFICES ASSUME MergeInit PROVE MergeInv
  OBVIOUS
<1>1. /\ tables \in Compiled /\ present \in SUBSET DOMAIN Tables /\ heap = Decode(given)
      /\ src = 1 /\ nr = 1 /\ calls = <<>> /\ outcome = "applying"
  BY DEF MergeInit
<1>2. /\ Tables \in Seq(SUBSET Seq(RuleKind)) /\ Tables # <<>>
      /\ DOMAIN Tables \subseteq DOMAIN Records
      /\ \A doc \in Targets : IsDocument(doc)
      /\ \A i \in DOMAIN Records : \A doc \in Records[i] : IsDocument(doc)
  BY MergeAssumption
<1>3. Len(Tables) \in Nat /\ Len(Tables) >= 1 /\ DOMAIN Tables = 1 .. Len(Tables)
  BY <1>2
<1>4. /\ DOMAIN tables = DOMAIN Tables
      /\ \A i \in DOMAIN Tables : tables[i] \in Tables[i] /\ Compiles(tables[i])
      /\ tables = [i \in DOMAIN Tables |-> tables[i]]
  BY <1>1 DEF Compiled, OneOfEach
<1>5. /\ \A i \in DOMAIN Tables : tables[i] \in Seq(RuleKind) /\ tables[i] # <<>>
      /\ tables \in Seq(Seq(RuleKind)) /\ Len(tables) = Len(Tables)
  <2>1. ASSUME NEW i \in DOMAIN Tables PROVE tables[i] \in Seq(RuleKind) /\ tables[i] # <<>>
    <3>1. Tables[i] \subseteq Seq(RuleKind)
      BY <1>2
    <3> QED
      BY <1>4, <3>1 DEF Compiles
  <2>2. tables \in [1 .. Len(Tables) -> Seq(RuleKind)]
    BY <1>3, <1>4, <2>1
  <2> QED
    BY <1>3, <2>1, <2>2
<1>6. /\ DOMAIN given = 0 .. Len(tables)
      /\ \A n \in DOMAIN given : IsDocument(given[n])
  <2>1. PICK dest \in Targets, records \in Held :
          given = [i \in 0 .. Len(Tables) |-> IF i = 0 THEN dest ELSE records[i]]
    BY DEF MergeInit
  <2>2. DOMAIN given = 0 .. Len(Tables)
        /\ \A i \in 0 .. Len(Tables) : given[i] = IF i = 0 THEN dest ELSE records[i]
    BY <2>1
  <2>3. \A i \in DOMAIN Records : records[i] \in Records[i]
    BY DEF Held, OneOfEach
  <2>4. ASSUME NEW n \in 0 .. Len(Tables) PROVE IsDocument(given[n])
    <3>1. CASE n = 0
      BY <1>2, <2>2, <3>1
    <3>2. CASE n # 0
      <4>1. n \in DOMAIN Records
        BY <1>2, <1>3, <3>2
      <4> QED
        BY <1>2, <2>2, <2>3, <3>2, <4>1
    <3> QED
      BY <3>1, <3>2
  <2> QED
    BY <1>5, <2>2, <2>4
<1>7. /\ DOMAIN heap = UNION {Cells(n, given[n]) : n \in DOMAIN given}
      /\ \A a \in DOMAIN heap : heap[a] = Content(a.doc, given[a.doc], a.node)
  BY <1>1 DEF Decode
<1>8. ASSUME NEW a \in DOMAIN heap
      PROVE  \E n \in DOMAIN given : \E p \in DOMAIN given[n] :
               /\ given[n][p] \in {Object, Array} /\ a = Ref(given[n][p].kind, n, p)
               /\ p \in Paths /\ a.doc = n /\ a.node = p /\ a \in Cells(n, given[n])
  <2>1. PICK n \in DOMAIN given : a \in Cells(n, given[n])
    BY <1>7
  <2>2. PICK p \in DOMAIN given[n] :
          given[n][p] \in {Object, Array} /\ a = Decoded(n, given[n], p)
    BY <2>1 DEF Cells
  <2>3. a = Ref(given[n][p].kind, n, p)
    BY <2>2 DEF Decoded
  <2>4. a.doc = n /\ a.node = p
    BY <2>3 DEF Ref
  <2>5. p \in Paths
    BY <1>6, <2>2 DEF IsDocument
  <2> QED
    BY <2>1, <2>2, <2>3, <2>4, <2>5
<1>9. ASSUME NEW a \in DOMAIN heap, NEW s \in DOMAIN heap[a]
      PROVE  /\ s \in Steps /\ heap[a][s] # Absent
             /\ IsRef(heap[a][s]) => heap[a][s] \in DOMAIN heap /\ heap[a][s].doc = a.doc
  <2>1. PICK n \in DOMAIN given : \E p \in DOMAIN given[n] : a.doc = n /\ a.node = p
    BY <1>8
  <2> DEFINE doc == given[n]
             p == a.node
             q == Append(p, s)
  <2>2. heap[a] = [t \in StepsFrom(doc, p) |-> Decoded(n, doc, Append(p, t))]
    BY <1>7, <2>1 DEF Content
  <2>3. s \in StepsFrom(doc, p) /\ heap[a][s] = Decoded(n, doc, q)
    BY <2>2
  <2>4. q \in DOMAIN doc /\ \E r \in DOMAIN doc \ {<<>>} : s = Last(r)
    BY <2>3 DEF StepsFrom
  <2>5. s \in Steps
    <3>1. PICK r \in DOMAIN doc \ {<<>>} : s = Last(r)
      BY <2>4
    <3>2. r \in Paths
      BY <1>6 DEF IsDocument
    <3> QED
      BY <3>1, <3>2, FrontOfAPath
  <2>6. IsDocument(doc)
    BY <1>6
  <2> HIDE DEF q
  <2> DEFINE v == Decoded(n, doc, q)
  <2>7. v # Absent /\ (IsRef(v) => v \in Cells(n, doc) /\ v.doc = n)
    <3>1. q \in DOMAIN doc
      BY <2>4
    <3> HIDE DEF doc
    <3>2. v # Absent
      BY <2>6, <3>1, DecodedIsOne
    <3>3. IsRef(v) => v \in Cells(n, doc)
      BY ONLY <2>6, <3>1, DecodedKinds
    <3>4. IsRef(v) => v.doc = n
      BY ONLY <2>6, <3>1, DecodedKinds
    <3> QED
      BY <3>2, <3>3, <3>4
  <2> HIDE DEF v, p
  <2>8. IsRef(v) => v \in DOMAIN heap
    BY <1>7, <2>7
  <2> QED
    BY <2>1, <2>3, <2>5, <2>7, <2>8 DEF v
<1>10. HeapOK(heap)
  <2>1. ASSUME NEW a \in DOMAIN heap
        PROVE  /\ a \in [kind : {"object", "array"}, doc : Nat, node : Paths]
               /\ a.kind = "array" => IsRow(DOMAIN heap[a])
    <3>1. PICK n \in DOMAIN given : \E p \in DOMAIN given[n] :
            /\ given[n][p] \in {Object, Array} /\ a = Ref(given[n][p].kind, n, p)
            /\ p \in Paths /\ a.doc = n /\ a.node = p
      BY <1>8
    <3>2. PICK p \in DOMAIN given[n] :
            /\ given[n][p] \in {Object, Array} /\ a = Ref(given[n][p].kind, n, p)
            /\ p \in Paths /\ a.doc = n /\ a.node = p
      BY <3>1
    <3>3. a.kind = given[n][p].kind /\ n \in Nat
      BY <1>5, <1>6, <1>3, <3>2 DEF Ref
    <3>4. a \in [kind : {"object", "array"}, doc : Nat, node : Paths]
      BY <3>2, <3>3 DEF Ref, Object, Array
    <3>5. a.kind = "array" => given[n][p] = Array
      <4>1. Object.kind = "object"
        BY DEF Object
      <4> QED
        BY <3>2, <3>3, <4>1
    <3>6. DOMAIN heap[a] = StepsFrom(given[n], p)
      BY <1>7, <3>2 DEF Content
    <3>7. given[n][p] = Array => IsRow(StepsFrom(given[n], p))
      BY <1>6 DEF IsDocument
    <3> QED
      BY <3>4, <3>5, <3>6, <3>7
  <2> QED
    BY <1>9, <2>1 DEF HeapOK
<1>11. Bounded(heap)
  <2>1. \A a \in DOMAIN heap : a.doc \in 0 .. Len(Tables)
    BY <1>5, <1>6, <1>8
  <2> QED
    BY <1>3, <2>1 DEF Bounded
<1>12. Shielded(heap)
  <2>1. ASSUME NEW i \in Kept, NEW a \in Cells(i, given[i])
        PROVE  a \in DOMAIN heap /\ heap[a] = Content(i, given[i], a.node)
    <3>1. i \in DOMAIN given
      BY <1>3, <1>4, <1>5, <1>6 DEF Kept
    <3>2. a \in DOMAIN heap
      BY <1>7, <3>1
    <3> QED
      BY <1>7, <3>2, CellsAreTheirs
  <2>2. ASSUME NEW a \in DOMAIN heap, a.doc \notin Kept, NEW s \in DOMAIN heap[a]
        PROVE  Fit(heap, heap[a][s])
    BY <2>2, <1>9 DEF Fit
  <2> QED
    BY <2>1, <2>2 DEF Shielded
<1>13. \A n \in DOMAIN given : Root(n) \in DOMAIN heap /\ Root(n).kind = "object"
  <2> SUFFICES ASSUME NEW n \in DOMAIN given
               PROVE  Root(n) \in DOMAIN heap /\ Root(n).kind = "object"
    OBVIOUS
  <2>1. <<>> \in DOMAIN given[n] /\ given[n][<<>>] = Object
    BY <1>6 DEF IsDocument
  <2>2. Root(n) = Decoded(n, given[n], <<>>) /\ Root(n).kind = "object"
    BY <2>1 DEF Root, Decoded, Object, Ref
  <2>3. Root(n) \in Cells(n, given[n])
    BY <2>1, <2>2 DEF Cells
  <2> QED
    BY <1>7, <2>2, <2>3
<1>14. MergeTypeOK
  <2>1. src \in DOMAIN tables /\ nr \in DOMAIN tables[src]
    BY <1>1, <1>3, <1>4, <1>5
  <2>2. \A n \in DOMAIN given : IsDocument(given[n]) /\ IsObject(Root(n))
    BY <1>6, <1>13 DEF IsObject
  <2>3. present \subseteq DOMAIN tables
    BY <1>1, <1>4
  <2>4. calls \in Seq([into : DOMAIN heap, patch : DOMAIN heap, left : SUBSET Steps,
                       for : Steps \cup {Absent}]) /\ DOMAIN calls = {}
    BY <1>1
  <2> QED
    BY <1>1, <1>5, <1>6, <1>10, <2>1, <2>2, <2>3, <2>4 DEF MergeTypeOK
<1>15. RulesInv /\ CallsInv /\ OnlyNestedArraysPanic
  BY <1>1, <1>4, <1>5 DEF RulesInv, CallsInv, OnlyNestedArraysPanic
<1> QED
  BY <1>10, <1>11, <1>12, <1>13, <1>14, <1>15 DEF MergeInv, HeapInv

LEMMA StutterKeepsInv == MergeInv /\ UNCHANGED mergeVars => MergeInv'
<1> SUFFICES ASSUME MergeInv, UNCHANGED mergeVars PROVE MergeInv'
  OBVIOUS
<1>1. /\ heap' = heap /\ tables' = tables /\ present' = present /\ src' = src /\ nr' = nr
      /\ calls' = calls /\ outcome' = outcome /\ given' = given
  BY DEF mergeVars
<1>2. /\ src \in DOMAIN tables /\ nr \in DOMAIN tables[src]
      /\ outcome' \in {"applying", "done", "failed", "panicked"}
  BY <1>1 DEF MergeInv, MergeTypeOK
<1>3. Later(heap, heap') /\ StackOK(heap', calls') /\ UNCHANGED inputs
  BY <1>1, CallsAreAStack DEF MergeInv, Later, inputs
<1>4. OnlyNestedArraysPanic'
  BY <1>1 DEF MergeInv, OnlyNestedArraysPanic, Rule
<1>5. calls' = <<>> \/ src \in present
  BY <1>1 DEF MergeInv, CallsInv
<1>6. src' \notin present => nr' = 1
  BY <1>1 DEF MergeInv, RulesInv
<1> QED
  BY <1>1, <1>2, <1>3, <1>4, <1>5, <1>6, StepKeeps

(* Every step of an overlay keeps the references apart: the target, and    *)
(* what MergePatch builds, never lead into a record that nothing shared.   *)
THEOREM MergeInvariance == MergeSpec => []MergeInv
<1>1. MergeInit => MergeInv
  BY InitInv
<1>2. MergeInv /\ [MergeNext]_mergeVars => MergeInv'
  <2> SUFFICES ASSUME MergeInv, [MergeNext]_mergeVars PROVE MergeInv'
    OBVIOUS
  <2>1. CASE SkipSource
    BY <2>1, SkipSourceKeeps
  <2>2. CASE SkipRule
    BY <2>2, SkipRuleKeeps
  <2>3. CASE Clear
    BY <2>3, ClearKeeps
  <2>4. CASE Replace
    BY <2>4, ReplaceKeeps
  <2>5. CASE MergeObject
    BY <2>5, MergeObjectKeeps
  <2>6. CASE Return
    BY <2>6, ReturnKeeps
  <2>7. CASE Merging /\ \E k \in Head(calls).left : MergeMember(k)
    BY <2>7, MergeMemberKeeps
  <2>8. CASE UNCHANGED mergeVars
    BY <2>8, StutterKeepsInv
  <2> QED
    BY <2>1, <2>2, <2>3, <2>4, <2>5, <2>6, <2>7, <2>8 DEF MergeNext
<1> QED
  BY <1>1, <1>2, PTL DEF MergeSpec

(* Set, Delete and MergePatch leave a heap in which every reference is to  *)
(* a cell and no array has a gap, and MergePatch works on objects only.    *)
THEOREM MergeTypeCorrect == MergeSpec => []MergeTypeOK
<1>1. MergeInv => MergeTypeOK
  BY DEF MergeInv
<1> QED
  BY <1>1, MergeInvariance, PTL

(* Apply changes a record only through an object or array that a rule has  *)
(* stored in the target as it was; all other records, which the reference  *)
(* tables go on serving, are as they were decoded, down to the last cell.  *)
THEOREM OnlyWhatIsSharedChanges == MergeSpec => []OnlySharedRecordsChange
<1>1. MergeInv => OnlySharedRecordsChange
  BY DEF MergeInv, HeapInv, Shielded, Kept, OnlySharedRecordsChange, Untouched
<1> QED
  BY <1>1, MergeInvariance, PTL

(* Set indexes out of range only where an index follows an index: else     *)
(* descend has grown the array before its element is stored.               *)
THEOREM PanicsAreNestedArrays == MergeSpec => []OnlyNestedArraysPanic
<1>1. MergeInv => OnlyNestedArraysPanic
  BY DEF MergeInv
<1> QED
  BY <1>1, MergeInvariance, PTL

-----------------------------------------------------------------------------
(* What stops a walk *)

(* Following a path for i steps meets nothing missing and nothing null,    *)
(* and ends at v.                                                          *)
Reaches(h, path, root, i, v) ==
  \E g : /\ GoesBy(h, path, root, g) /\ g[i] = v
         /\ \A m \in 0 .. i : Fit(h, g[m]) /\ g[m] # Nil

(* Looking up the first i steps of a path leads where the walk is after i. *)
LEMMA GetOfPrefix ==
  ASSUME NEW h, NEW path \in Paths, NEW v, NEW g, GoesBy(h, path, v, g),
         NEW i \in 0 .. Len(path)
  PROVE  Get(h, SubSeq(path, 1, i), v) = g[i]
<1> DEFINE short == SubSeq(path, 1, i)
<1>1. Len(path) \in Nat /\ i \in Nat /\ i <= Len(path)
  BY DEF Paths
<1>2. short \in Paths /\ Len(short) = i /\ \A j \in 1 .. i : short[j] = path[j]
  <2>1. \A j \in 1 .. i : path[j] \in Steps
    BY <1>1 DEF Paths
  <2>2. /\ short \in Seq(Steps) /\ Len(short) = IF 1 <= i THEN i - 1 + 1 ELSE 0
        /\ \A j \in 1 .. i - 1 + 1 : short[j] = path[1 + j - 1]
    BY <1>1, <2>1, SubSeqProperties
  <2>3. i - 1 + 1 = i /\ \A j \in 1 .. i : 1 + j - 1 = j
    BY <1>1
  <2> HIDE DEF short
  <2> QED
    BY <1>1, <2>2, <2>3 DEF Paths
<1> HIDE DEF short
<1> PICK f : GoesBy(h, short, v, f)
  BY <1>2, GetSteps
<1>3. /\ f[0] = v /\ Get(h, short, v) = f[i]
      /\ \A j \in 1 .. i : f[j] = Child(h, f[j - 1], path[j])
  BY <1>2 DEF GoesBy
<1>4. /\ g[0] = v
      /\ \A j \in 1 .. i : g[j] = Child(h, g[j - 1], path[j])
  BY <1>1 DEF GoesBy
<1> DEFINE G == {j \in 0 .. i : f[j] = g[j]}
<1>5. 0 \in G
  BY <1>1, <1>3, <1>4
<1>6. ASSUME NEW j \in 0 .. i, j \in G, j # i
      PROVE  j + 1 \in G
  <2>1. j + 1 \in 1 .. i /\ j + 1 \in 0 .. i /\ (j + 1) - 1 = j
    BY <1>1, <1>6
  <2>2. f[j] = g[j]
    BY <1>6
  <2>3. f[j + 1] = Child(h, f[j], path[j + 1]) /\ g[j + 1] = Child(h, g[j], path[j + 1])
    BY <1>3, <1>4, <2>1
  <2> QED
    BY <2>1, <2>2, <2>3
<1>7. i \in G
  <2>1. \A j \in 0 .. i : j \in G /\ j # i => j + 1 \in G
    BY <1>6
  <2> HIDE DEF G
  <2>2. 0 .. i \subseteq G
    BY ONLY <1>1, <1>5, <2>1, UpTo
  <2> QED
    BY <1>1, <2>2
<1> QED
  BY <1>3, <1>7 DEF short

(* Storing at the end of a walk does not lead the walk elsewhere: what was *)
(* missing or null was not passed on the way, and an array is replaced by  *)
(* one that has its elements.                                              *)
LEMMA RewriteReaches ==
  ASSUME NEW h, HeapInv(h), NEW path \in Paths, NEW root, NEW i \in 0 .. Len(path) - 1,
         NEW v, Reaches(h, path, root, i, v),
         NEW g, Later(h, g), NEW new, Fit(g, new), new # Nil,
         Child(g, v, path[i + 1]) = new,
         \A a, s : Fit(h, a) => Child(g, a, s) = Child(h, a, s) \/ (a = v /\ s = path[i + 1]),
         LET old == Child(h, v, path[i + 1]) IN
           \/ old \in {Absent, Nil} \/ new = old
           \/ old # v /\ \A s : Child(h, old, s) # Absent => Child(g, new, s) = Child(h, old, s)
  PROVE  Reaches(g, path, root, i, v) /\ Reaches(g, path, root, i + 1, new)
<1> DEFINE step == path[i + 1]
           old == Child(h, v, step)
<1>1. /\ Len(path) \in Nat /\ i \in Nat /\ i + 1 \in 1 .. Len(path) /\ (i + 1) - 1 = i
      /\ \A m \in 0 .. i : m # i => m + 1 \in 1 .. Len(path) /\ m + 1 \in 0 .. i
  BY DEF Paths
<1> HIDE DEF step, old
<1>2. PICK was : /\ GoesBy(h, path, root, was) /\ was[i] = v
                 /\ \A m \in 0 .. i : Fit(h, was[m]) /\ was[m] # Nil
  BY DEF Reaches
<1> PICK is : GoesBy(g, path, root, is)
  BY GetSteps
<1>3. was[0] = root /\ \A m \in 1 .. Len(path) : was[m] = Child(h, was[m - 1], path[m])
  BY <1>2 DEF GoesBy
<1>4. is[0] = root /\ \A m \in 1 .. Len(path) : is[m] = Child(g, is[m - 1], path[m])
  BY DEF GoesBy
<1> DEFINE Same(m) == is[m] = was[m] \/ (was[m] = old /\ is[m] = new)
           G == {m \in 0 .. i : Same(m)}
<1>5. 0 \in G
  BY <1>1, <1>3, <1>4
<1>6. ASSUME NEW m \in 0 .. i, m \in G, m # i
      PROVE  m + 1 \in G
  <2> DEFINE s == path[m + 1]
  <2>1. m + 1 \in 1 .. Len(path) /\ m + 1 \in 0 .. i /\ (m + 1) - 1 = m
    BY <1>1, <1>6
  <2>2. was[m + 1] = Child(h, was[m], s) /\ is[m + 1] = Child(g, is[m], s)
    BY <1>3, <1>4, <2>1
  <2>3. Fit(h, was[m]) /\ Fit(h, was[m + 1]) /\ was[m + 1] # Nil /\ was[m + 1] # Absent
    BY <1>2, <2>1 DEF Fit
  <2> HIDE DEF s
  <2>4. CASE is[m] = was[m] /\ ~ (was[m] = v /\ s = step)
    <3>1. Child(g, was[m], s) = Child(h, was[m], s)
      BY <2>3, <2>4 DEF step
    <3> QED
      BY <2>1, <2>2, <2>4, <3>1
  <2>5. CASE is[m] = was[m] /\ was[m] = v /\ s = step
    <3>1. was[m + 1] = old /\ is[m + 1] = new
      BY <2>2, <2>5 DEF old, step
    <3> QED
      BY <2>1, <3>1
  <2>6. CASE was[m] = old /\ is[m] = new /\ new # old
    <3>1. old # Nil /\ old # Absent
      BY <1>2, <2>3, <2>6 DEF Fit
    <3>2. \A t : Child(h, old, t) # Absent => Child(g, new, t) = Child(h, old, t)
      BY <2>6, <3>1 DEF old, step
    <3>3. Child(g, new, s) = Child(h, old, s)
      BY <2>2, <2>3, <2>6, <3>2
    <3> QED
      BY <2>1, <2>2, <2>6, <3>3
  <2>7. Same(m)
    BY <1>6
  <2> QED
    BY <2>4, <2>5, <2>6, <2>7
<1>7. 0 .. i \subseteq G
  <2>1. \A m \in 0 .. i : m \in G /\ m # i => m + 1 \in G
    BY <1>6
  <2> HIDE DEF G
  <2> QED
    BY ONLY <1>1, <1>5, <2>1, UpTo
<1>8. \A m \in 0 .. i : Fit(g, is[m]) /\ is[m] # Nil
  <2> SUFFICES ASSUME NEW m \in 0 .. i PROVE Fit(g, is[m]) /\ is[m] # Nil
    OBVIOUS
  <2>1. Same(m) /\ Fit(h, was[m]) /\ was[m] # Nil
    BY <1>2, <1>7
  <2>2. Fit(g, was[m])
    BY <2>1, FitLater DEF Later
  <2> QED
    BY <2>1, <2>2
<1>9. is[i] = v
  <2>1. Same(i) /\ was[i] = v /\ Fit(h, v) /\ v # Nil
    BY <1>1, <1>2, <1>7
  <2>2. CASE was[i] = old /\ is[i] = new /\ new # old
    <3>1. old # Absent /\ old # Nil
      BY <2>1, <2>2 DEF Fit
    <3> QED
      BY <2>1, <2>2, <3>1 DEF old, step
  <2> QED
    BY <2>1, <2>2
<1>10. is[i + 1] = new
  BY <1>1, <1>4, <1>9
<1>11. Reaches(g, path, root, i, v)
  BY <1>8, <1>9 DEF Reaches
<1>12. Reaches(g, path, root, i + 1, new)
  <2>1. \A m \in 0 .. i + 1 : Fit(g, is[m]) /\ is[m] # Nil
    <3>1. \A m \in 0 .. i + 1 : m \in 0 .. i \/ m = i + 1
      BY <1>1
    <3> QED
      BY <1>8, <1>10, <3>1
  <2> QED
    BY <1>10, <2>1 DEF Reaches
<1> QED
  BY <1>11, <1>12

(* Filled leads one step on, and what it makes is what the next step needs. *)
LEMMA FilledReaches ==
  ASSUME InputsOK, NEW h, HeapInv(h), NEW path \in Paths, NEW root,
         NEW i \in 0 .. Len(path) - 1, i + 1 < Len(path),
         NEW v, Reaches(h, path, root, i, v), Fit(h, v), ~ Stops(h, v, path[i + 1])
  PROVE  LET filled == Filled(h, v, path[i + 1], path[i + 2]) IN
         /\ Reaches(filled.heap, path, root, i, v)
         /\ Reaches(filled.heap, path, root, i + 1, filled.val)
         /\ filled.val.kind # Holder(path[i + 2]).kind => filled.heap = h
<1> DEFINE step == path[i + 1]
           next == path[i + 2]
           filled == Filled(h, v, step, next)
<1>1. step \in Steps /\ next \in Steps
  BY DEF Paths
<1> HIDE DEF step, next
<1>2. Holder(step).kind \in {"object", "array"} /\ Holder(next).kind \in {"object", "array"}
  BY <1>1, StepKinds
<1>3. v.kind = Holder(step).kind /\ ~ (IsIndex(step) /\ Child(h, v, step) = Absent)
  BY DEF Stops, step
<1>4. Later(h, filled.heap) /\ Fit(filled.heap, filled.val)
  BY <1>1, <1>3, FilledKeeps DEF Found
<1>5. IsRef(v) /\ v \in DOMAIN h
  BY <1>2, <1>3 DEF Fit, IsRef
<1>6. \A a : Fit(h, a) /\ IsRef(a) => a \in DOMAIN h
  BY DEF Fit
<1>7. CASE Child(h, v, step) \in {Absent, Nil}
  <2> DEFINE new == New(h, Holder(next).kind, NoMembers)
             g == Store(new.heap, v, step, new.val)
  <2>1. filled.heap = g /\ filled.val = new.val
    BY <1>7 DEF Filled
  <2>2. /\ Later(h, new.heap) /\ Fit(new.heap, new.val)
        /\ new.val.kind = Holder(next).kind /\ new.val \in DOMAIN new.heap
        /\ \A a \in DOMAIN h : new.heap[a] = h[a]
    BY <1>2, NewEmptyKeeps
  <2> HIDE DEF new, filled
  <2>3. v \in DOMAIN new.heap
    BY <1>5, <2>2 DEF Later
  <2>4. g = [new.heap EXCEPT ![v] = Over([s \in {step} |-> new.val], new.heap[v])]
    BY DEF Store
  <2>5. /\ DOMAIN g = DOMAIN new.heap /\ g[v] = Over([s \in {step} |-> new.val], new.heap[v])
        /\ \A a \in DOMAIN h : a # v => g[a] = h[a]
    BY <2>2, <2>3, <2>4
  <2> HIDE DEF g
  <2>6. /\ DOMAIN g[v] = {step} \cup DOMAIN h[v] /\ g[v][step] = new.val
        /\ \A s \in DOMAIN h[v] : s # step => g[v][s] = h[v][s]
    BY <1>5, <2>2, <2>5 DEF Over
  <2>7. Child(g, v, step) = new.val
    BY <1>5, <2>6 DEF Child
  <2>8. ASSUME NEW a, NEW s, Fit(h, a), ~ (a = v /\ s = step)
        PROVE  Child(g, a, s) = Child(h, a, s)
    <3>1. CASE ~ IsRef(a)
      BY <3>1 DEF Child
    <3>2. CASE IsRef(a) /\ a # v
      BY <1>6, <2>5, <2>8, <3>2 DEF Child
    <3>3. CASE IsRef(a) /\ a = v /\ s # step
      BY <2>6, <3>3 DEF Child
    <3> QED
      BY <2>8, <3>1, <3>2, <3>3
  <2>9. new.val # Nil
    BY <1>2, <2>2 DEF Nil
  <2>10. Later(h, g) /\ Fit(g, new.val)
    BY <1>4, <2>1
  <2>11. /\ Reaches(g, path, root, i, v)
         /\ Reaches(g, path, root, i + 1, new.val)
    BY <1>7, <2>7, <2>8, <2>9, <2>10, RewriteReaches DEF step
  <2> QED
    BY <2>1, <2>2, <2>11 DEF filled, step, next
<1>8. CASE Child(h, v, step) \notin {Absent, Nil}
  <2> DEFINE child == Child(h, v, step)
  <2>1. filled.heap = h /\ filled.val = child
    BY <1>8 DEF Filled
  <2>2. Later(h, h) /\ Fit(h, child) /\ child # Nil
    BY <1>4, <1>8, <2>1
  <2> HIDE DEF filled
  <2>3. Reaches(h, path, root, i + 1, child)
    BY <2>2, RewriteReaches DEF step
  <2> QED
    BY <2>1, <2>3 DEF filled, step, next
<1> QED
  BY <1>7, <1>8

(* The last step of a walk leads from where it was before.                 *)
LEMMA ReachedIsChild ==
  ASSUME NEW h, NEW path \in Paths, NEW root, NEW i \in 0 .. Len(path) - 1,
         NEW v, NEW w, Reaches(h, path, root, i, v), Reaches(h, path, root, i + 1, w)
  PROVE  Child(h, v, path[i + 1]) = w
<1>1. Len(path) \in Nat /\ i \in 0 .. Len(path) /\ i + 1 \in 0 .. Len(path)
      /\ i + 1 \in 1 .. Len(path) /\ (i + 1) - 1 = i
  BY DEF Paths
<1>2. PICK f : GoesBy(h, path, root, f) /\ f[i] = v
  BY DEF Reaches
<1>3. PICK g : GoesBy(h, path, root, g) /\ g[i + 1] = w
  BY DEF Reaches
<1>4. f[i] = g[i]
  <2>1. Get(h, SubSeq(path, 1, i), root) = f[i]
    BY <1>1, <1>2, GetOfPrefix
  <2>2. Get(h, SubSeq(path, 1, i), root) = g[i]
    BY <1>1, <1>3, GetOfPrefix
  <2> QED
    BY <2>1, <2>2
<1>5. g[i + 1] = Child(h, g[i], path[i + 1])
  BY <1>1, <1>3 DEF GoesBy
<1> QED
  BY <1>2, <1>3, <1>4, <1>5

(* A walk goes on, or it is stopped where it is or one step on.            *)
LEMMA DescendReaches ==
  ASSUME InputsOK, NEW h, HeapInv(h), NEW path \in Paths, NEW root,
         NEW i \in 0 .. Len(path) - 1, i + 1 < Len(path),
         NEW v, Reaches(h, path, root, i, v), Fit(h, v)
  PROVE  LET below == Descend(h, v, path[i + 1], path[i + 2]) IN
         \/ below.val # Absent /\ Reaches(below.heap, path, root, i + 1, below.val)
         \/ /\ below.val = Absent
            /\ \E k \in {i, i + 1} : \E u :
                 Reaches(below.heap, path, root, k, u) /\ Stops(below.heap, u, path[k + 1])
<1> DEFINE step == path[i + 1]
           next == path[i + 2]
           filled == Filled(h, v, step, next)
           grown == Grown(filled.heap, filled.val, next.index)
           below == Descend(h, v, step, next)
<1>1. step \in Steps /\ next \in Steps /\ (i + 1) + 1 = i + 2
  BY DEF Paths
<1>2. CASE Stops(h, v, step)
  <2>1. below.heap = h /\ below.val = Absent
    BY <1>2 DEF Descend, Stuck
  <2> HIDE DEF below
  <2>2. Reaches(below.heap, path, root, i, v) /\ Stops(below.heap, v, path[i + 1])
    BY <1>2, <2>1
  <2> QED
    BY <2>1, <2>2 DEF below
<1>3. CASE ~ Stops(h, v, step)
  <2>1. v.kind = Holder(step).kind /\ ~ (IsIndex(step) /\ Child(h, v, step) = Absent)
    BY <1>3 DEF Stops
  <2>2. Later(h, filled.heap) /\ Fit(filled.heap, filled.val)
    BY <1>1, <2>1, FilledKeeps DEF Found
  <2>3. /\ Reaches(filled.heap, path, root, i, v)
        /\ Reaches(filled.heap, path, root, i + 1, filled.val)
        /\ filled.val.kind # Holder(next).kind => filled.heap = h
    BY <1>3, FilledReaches
  <2> HIDE DEF filled, step, next
  <2>4. CASE IsIndex(step) \/ ~ IsIndex(next)
    <3>1. below = filled
      BY <1>3, <2>4 DEF Descend, filled
    <3>2. filled.val # Absent
      BY <2>2 DEF Fit
    <3> HIDE DEF below
    <3> QED
      BY <2>3, <3>1, <3>2 DEF below, step, next
  <2>5. CASE ~ (IsIndex(step) \/ ~ IsIndex(next)) /\ filled.val.kind # "array"
    <3>1. below.heap = filled.heap /\ below.val = Absent
      BY <1>3, <2>5 DEF Descend, Stuck, filled
    <3> HIDE DEF below
    <3>2. Stops(below.heap, filled.val, next)
      BY <1>1, <2>5, StepKinds DEF Stops
    <3>3. \E k \in {i, i + 1} : \E u :
            Reaches(below.heap, path, root, k, u) /\ Stops(below.heap, u, path[k + 1])
      BY <1>1, <2>3, <3>1, <3>2 DEF next
    <3> QED
      BY <3>1, <3>3 DEF below, step, next
  <2>6. CASE ~ (IsIndex(step) \/ ~ IsIndex(next)) /\ filled.val.kind = "array"
    <3> DEFINE f == filled.heap
               g == Store(grown.heap, v, step, grown.val)
    <3>1. below.heap = g /\ below.val = grown.val
      BY <1>3, <2>6 DEF Descend, filled
    <3>2. next.index \in Nat /\ v.kind = "object"
      BY <1>1, <2>1, <2>6, StepKinds
    <3>3. HeapInv(f) /\ Fit(f, v)
      BY <2>2, FitLater DEF Later
    <3>4. v \in DOMAIN f /\ v.doc \notin Kept /\ IsRef(v)
      BY <3>2, <3>3 DEF Fit, IsRef
    <3>5. /\ Later(f, grown.heap) /\ Fit(grown.heap, grown.val) /\ grown.val.kind = "array"
          /\ \A a \in DOMAIN f : grown.heap[a] = f[a]
          /\ \/ grown.val = filled.val
             \/ \A s \in DOMAIN f[filled.val] :
                  s \in DOMAIN grown.heap[grown.val] /\ grown.heap[grown.val][s] = f[filled.val][s]
      BY <2>2, <2>6, <3>2, <3>3, GrownKeeps
    <3> HIDE DEF grown, below
    <3>6. v \in DOMAIN grown.heap /\ HeapInv(grown.heap) /\ grown.val # v
      BY <3>2, <3>4, <3>5 DEF Later
    <3>7. g = [grown.heap EXCEPT ![v] = Over([s \in {step} |-> grown.val], grown.heap[v])]
      BY DEF Store
    <3>8. Later(grown.heap, g)
      BY <1>1, <3>2, <3>4, <3>5, <3>6, StoreKeeps
    <3>9. /\ DOMAIN g = DOMAIN grown.heap
          /\ g[v] = Over([s \in {step} |-> grown.val], grown.heap[v])
          /\ \A a \in DOMAIN grown.heap : a # v => g[a] = grown.heap[a]
      BY <3>6, <3>7
    <3> HIDE DEF g
    <3>10. /\ DOMAIN g[v] = {step} \cup DOMAIN f[v] /\ g[v][step] = grown.val
           /\ \A s \in DOMAIN f[v] : s # step => g[v][s] = f[v][s]
      BY <3>4, <3>5, <3>9 DEF Over
    <3>11. Child(g, v, step) = grown.val
      BY <3>4, <3>10 DEF Child
    <3>12. DOMAIN f \subseteq DOMAIN grown.heap
      BY <3>5 DEF Later
    <3>13. ASSUME NEW a, NEW s, Fit(f, a), ~ (a = v /\ s = step)
           PROVE  Child(g, a, s) = Child(f, a, s)
      <4>1. CASE ~ IsRef(a)
        BY <4>1 DEF Child
      <4>2. CASE IsRef(a) /\ a # v
        <5>1. a \in DOMAIN f
          BY <3>13, <4>2 DEF Fit
        <5>2. g[a] = f[a]
          BY <3>5, <3>9, <3>12, <4>2, <5>1
        <5> QED
          BY <5>2 DEF Child
      <4>3. CASE IsRef(a) /\ a = v /\ s # step
        BY <3>10, <4>3 DEF Child
      <4> QED
        BY <3>13, <4>1, <4>2, <4>3
    <3>14. Child(f, v, step) = filled.val
      BY <2>3, ReachedIsChild DEF step
    <3>15. \/ grown.val = filled.val
           \/ filled.val # v /\ \A s : Child(f, filled.val, s) # Absent =>
                                         Child(g, grown.val, s) = Child(f, filled.val, s)
      <4> SUFFICES ASSUME grown.val # filled.val
                   PROVE  filled.val # v /\ \A s : Child(f, filled.val, s) # Absent =>
                                         Child(g, grown.val, s) = Child(f, filled.val, s)
        OBVIOUS
      <4>1. filled.val # v /\ IsRef(filled.val) /\ IsRef(grown.val)
        BY <2>6, <3>2, <3>5 DEF IsRef
      <4>2. grown.val \in DOMAIN grown.heap
        BY <3>5, <4>1 DEF Fit
      <4>3. g[grown.val] = grown.heap[grown.val]
        BY <3>6, <3>9, <4>2
      <4>4. \A s \in DOMAIN f[filled.val] :
              s \in DOMAIN g[grown.val] /\ g[grown.val][s] = f[filled.val][s]
        BY <3>5, <4>3
      <4> QED
        BY <4>1, <4>4 DEF Child
    <3>16. grown.val # Nil /\ grown.val # Absent
      BY <3>5 DEF Nil, Absent
    <3>17. Later(f, g) /\ Fit(g, grown.val)
      BY <3>5, <3>8, <3>12, FitLater DEF Later
    <3> HIDE DEF f
    <3>18. Reaches(f, path, root, i, v)
      BY <2>3 DEF f
    <3>19. Reaches(g, path, root, i + 1, grown.val)
      BY <3>3, <3>11, <3>13, <3>14, <3>15, <3>16, <3>17, <3>18, RewriteReaches DEF step
    <3> QED
      BY <3>1, <3>16, <3>19 DEF below, step, next
  <2> QED
    BY <2>4, <2>5, <2>6
<1> QED
  BY <1>2, <1>3

Stopped(h, path, root) ==
  \E k \in 0 .. Len(path) - 1 : \E u :
    Reaches(h, path, root, k, u) /\ Stops(h, u, path[k + 1])

(* A walk reaches the end of its path, or something on the path stops it.  *)
LEMMA WalkedReaches ==
  ASSUME InputsOK, NEW h, HeapInv(h), NEW path \in Paths, path # <<>>, NEW root,
         Fit(h, root), root # Nil
  PROVE  LET walked == Walked(h, path, root) IN
         \/ walked.val # Absent /\ Reaches(walked.heap, path, root, Len(path) - 1, walked.val)
         \/ walked.val = Absent /\ Stopped(walked.heap, path, root)
<1> DEFINE n == Len(path) - 1
<1>1. n \in Nat /\ Len(path) = n + 1 /\ \A i \in 1 .. Len(path) : path[i] \in Steps
  BY DEF Paths
<1> PICK at : WalksBy(h, path, root, at)
  BY WalkedSteps
<1>2. /\ at[0] = [heap |-> h, val |-> root] /\ Walked(h, path, root) = at[n]
      /\ \A i \in 1 .. n :
           at[i] = Descend(at[i - 1].heap, at[i - 1].val, path[i], path[i + 1])
  BY DEF WalksBy
<1> HIDE DEF n
<1> DEFINE Good(s, i) ==
             /\ Later(h, s.heap) /\ Found(s.heap, s.val)
             /\ \/ s.val # Absent /\ Reaches(s.heap, path, root, i, s.val)
                \/ s.val = Absent /\ Stopped(s.heap, path, root)
           G == {i \in 0 .. n : Good(at[i], i)}
<1>3. 0 \in G
  <2> PICK g : GoesBy(h, path, root, g)
    BY GetSteps
  <2>1. g[0] = root
    BY DEF GoesBy
  <2>2. \A m \in 0 .. 0 : Fit(h, g[m]) /\ g[m] # Nil
    BY <2>1
  <2>3. Reaches(h, path, root, 0, root)
    BY <2>1, <2>2 DEF Reaches
  <2>4. Later(h, h) /\ Found(h, root) /\ root # Absent
    BY DEF Later, Found, Fit
  <2>5. at[0].heap = h /\ at[0].val = root
    BY <1>2
  <2>6. Good(at[0], 0)
    BY <2>3, <2>4, <2>5
  <2> HIDE DEF Good
  <2> QED
    BY <1>1, <2>6
<1>4. ASSUME NEW i \in 0 .. n, i \in G, i # n
      PROVE  i + 1 \in G
  <2> DEFINE was == at[i]
             is == at[i + 1]
  <2>1. /\ i + 1 \in 1 .. n /\ i + 1 \in 0 .. n /\ (i + 1) - 1 = i /\ (i + 1) + 1 = i + 2
        /\ i \in 0 .. Len(path) - 1 /\ i + 1 \in 0 .. Len(path) - 1 /\ i + 1 < Len(path)
        /\ path[i + 1] \in Steps /\ path[i + 2] \in Steps
    BY <1>1, <1>4
  <2>2. is = Descend(was.heap, was.val, path[i + 1], path[i + 2])
    BY <1>2, <2>1
  <2>3. Good(was, i)
    BY <1>4
  <2> HIDE DEF was, is
  <2>4. HeapInv(was.heap)
    BY <2>3 DEF Later
  <2>5. Later(was.heap, is.heap) /\ Found(is.heap, is.val)
    BY <2>1, <2>2, <2>3, <2>4, DescendKeeps
  <2>6. Later(h, is.heap)
    BY <2>3, <2>5 DEF Later
  <2>7. CASE was.val = Absent
    <3>1. Stops(was.heap, Absent, path[i + 1])
      <4>1. Absent.kind = "absent"
        BY DEF Absent
      <4>2. Holder(path[i + 1]).kind \in {"object", "array"}
        BY <2>1, StepKinds
      <4> QED
        BY <4>1, <4>2 DEF Stops
    <3>2. is = [heap |-> was.heap, val |-> Absent]
      BY <2>2, <2>7, <3>1 DEF Descend, Stuck
    <3>3. Stopped(is.heap, path, root) /\ is.val = Absent
      BY <2>3, <2>7, <3>2
    <3>4. Good(is, i + 1)
      BY <2>5, <2>6, <3>3
    <3> HIDE DEF Good
    <3> QED
      BY <2>1, <3>4 DEF is
  <2>8. CASE was.val # Absent
    <3>1. Reaches(was.heap, path, root, i, was.val) /\ Fit(was.heap, was.val)
      BY <2>3, <2>8 DEF Found
    <3>2. \/ is.val # Absent /\ Reaches(is.heap, path, root, i + 1, is.val)
          \/ /\ is.val = Absent
             /\ \E k \in {i, i + 1} : \E u :
                  Reaches(is.heap, path, root, k, u) /\ Stops(is.heap, u, path[k + 1])
      BY <2>1, <2>2, <2>4, <3>1, DescendReaches
    <3>3. \/ is.val # Absent /\ Reaches(is.heap, path, root, i + 1, is.val)
          \/ is.val = Absent /\ Stopped(is.heap, path, root)
      BY <2>1, <3>2 DEF Stopped
    <3>4. Good(is, i + 1)
      BY <2>5, <2>6, <3>3
    <3> HIDE DEF Good
    <3> QED
      BY <2>1, <3>4 DEF is
  <2> QED
    BY <2>7, <2>8
<1>5. n \in G
  <2>1. \A i \in 0 .. n : i \in G /\ i # n => i + 1 \in G
    BY <1>4
  <2> HIDE DEF G
  <2>2. 0 .. n \subseteq G
    BY ONLY <1>1, <1>3, <2>1, UpTo
  <2> QED
    BY <1>1, <2>2
<1>6. Good(at[n], n)
  BY <1>5
<1> QED
  BY <1>2, <1>6 DEF n

(* Storing fails only at something on the path.                            *)
LEMMA SetFails ==
  ASSUME InputsOK, NEW h, HeapInv(h), NEW path \in Paths, path # <<>>, NEW value,
         Set(h, path, Root(0), value).end = "failed"
  PROVE  Stopped(Set(h, path, Root(0), value).heap, path, Root(0))
<1> DEFINE root == Root(0)
           set == Set(h, path, root, value)
           parent == Walked(h, path, root)
           last == path[Len(path)]
<1>1. Fit(h, root) /\ root # Nil
  BY TargetIsFit DEF Nil
<1>2. \/ parent.val # Absent /\ Reaches(parent.heap, path, root, Len(path) - 1, parent.val)
      \/ parent.val = Absent /\ Stopped(parent.heap, path, root)
  BY <1>1, WalkedReaches
<1>3. set = IF parent.val.kind # Holder(last).kind
              THEN [heap |-> parent.heap, end |-> "failed"]
            ELSE IF IsIndex(last) /\ Child(parent.heap, parent.val, last) = Absent
              THEN [heap |-> parent.heap, end |-> "panicked"]
            ELSE [heap |-> Store(parent.heap, parent.val, last, value), end |-> "ok"]
  BY DEF Set
<1>4. set.end = "failed"
  OBVIOUS
<1>5. Len(path) - 1 \in 0 .. Len(path) - 1 /\ (Len(path) - 1) + 1 = Len(path)
  BY DEF Paths
<1> HIDE DEF set, parent, root, last
<1>6. parent.val.kind # Holder(last).kind /\ set.heap = parent.heap
  BY <1>3, <1>4
<1>7. CASE parent.val # Absent
  <2>1. Stops(parent.heap, parent.val, path[(Len(path) - 1) + 1])
    BY <1>5, <1>6 DEF Stops, last
  <2> QED
    BY <1>2, <1>5, <1>6, <1>7, <2>1 DEF Stopped, set, root
<1>8. CASE parent.val = Absent
  BY <1>2, <1>6, <1>8 DEF set, root
<1> QED
  BY <1>7, <1>8

(* What stops a walk in the heap obstructs the path of a rule.             *)
LEMMA StoppedIsObstructed ==
  ASSUME NEW path \in Paths, Stopped(heap', path, Root(0))
  PROVE  Obstructed(path)'
<1>0. PICK k \in 0 .. Len(path) - 1 :
        \E u : Reaches(heap', path, Root(0), k, u) /\ Stops(heap', u, path[k + 1])
  BY DEF Stopped
<1>1. PICK u : Reaches(heap', path, Root(0), k, u) /\ Stops(heap', u, path[k + 1])
  BY <1>0
<1> DEFINE p == SubSeq(path, 1, k)
<1>2. PICK g : /\ GoesBy(heap', path, Root(0), g) /\ g[k] = u
               /\ \A m \in 0 .. k : Fit(heap', g[m]) /\ g[m] # Nil
  BY <1>1 DEF Reaches
<1>3. Len(path) \in Nat /\ k \in Nat /\ k \in 0 .. k /\ k \in 0 .. Len(path)
  BY DEF Paths
<1>4. Get(heap', p, Root(0)) = u
  BY <1>2, <1>3, GetOfPrefix
<1>5. u # Absent /\ u # Nil
  BY <1>2, <1>3 DEF Fit
<1>6. p \in Ancestors(path)
  BY DEF Ancestors
<1>7. Len(p) = k
  <2>1. \A i \in 1 .. k : path[i] \in Steps
    BY <1>3 DEF Paths
  <2>2. Len(p) = IF 1 <= k THEN k - 1 + 1 ELSE 0
    BY <1>3, <2>1, SubSeqProperties
  <2> HIDE DEF p
  <2> QED
    BY <1>3, <2>2
<1>8. StepFrom(p, path) = path[k + 1]
  BY <1>7 DEF StepFrom
<1> HIDE DEF p
<1> QED
  BY <1>1, <1>4, <1>5, <1>6, <1>8 DEF Obstructed

(* A rule that fails stays the rule to be applied.                         *)
LEMMA FailedStays ==
  ASSUME outcome = "applying", UNCHANGED inputs,
         NEW value, Assign(value), outcome' = "failed"
  PROVE  UNCHANGED <<src, nr, tables>>
<1>1. NextRule => outcome' \in {"done", outcome}
  BY DEF NextRule
<1> QED
  BY <1>1 DEF Assign, inputs

LEMMA AssignFails ==
  ASSUME MergeInv, outcome = "applying", src \in present, UNCHANGED inputs,
         NEW value, Fit(heap, value), Assign(value), outcome' = "failed"
  PROVE  IF Rule.dst = <<>> THEN value.kind # "object" /\ heap' = heap
         ELSE Obstructed(Rule.dst)'
<1> DEFINE set == Set(heap, Rule.dst, Root(0), value)
<1>1. InputsOK /\ HeapInv(heap) /\ Rule.dst \in Paths
  BY TypesOfInputs, RuleIsOne DEF MergeInv
<1>2. /\ heap' = set.heap
      /\ IF set.end = "ok" THEN NextRule ELSE outcome' = set.end /\ UNCHANGED <<src, nr>>
  BY DEF Assign
<1>3. set.end = "failed" /\ src' = src /\ nr' = nr
  <2>1. NextRule => outcome' \in {"applying", "done"}
    BY DEF NextRule
  <2> QED
    BY <1>2, <2>1
<1>4. CASE Rule.dst = <<>>
  <2>1. set = IF value.kind = "object"
                THEN [heap |-> [heap EXCEPT ![Root(0)] = Over(heap[value], @)], end |-> "ok"]
                ELSE [heap |-> heap, end |-> "failed"]
    BY <1>4 DEF Set
  <2> HIDE DEF set
  <2> QED
    BY <1>2, <1>3, <1>4, <2>1
<1>5. CASE Rule.dst # <<>>
  <2>1. Stopped(set.heap, Rule.dst, Root(0))
    BY <1>1, <1>3, <1>5, SetFails
  <2>2. Stopped(heap', Rule.dst, Root(0))
    BY <1>2, <2>1
  <2>3. Obstructed(Rule.dst)'
    <3> DEFINE path == Rule.dst
    <3>1. path' = path
      BY <1>3 DEF Rule, inputs
    <3> QED
      BY <1>1, <2>2, <3>1, StoppedIsObstructed
  <2> QED
    BY <1>5, <2>3
<1> QED
  BY <1>4, <1>5

LEMMA ReplaceFails ==
  ASSUME MergeInv, Replace, outcome' = "failed"
  PROVE  FailsWhereBlocked'
<1>1. /\ outcome = "applying" /\ src \in present /\ UNCHANGED inputs
      /\ Assign(Value) /\ Value # Absent /\ Outright
  BY DEF Replace, Applying
<1>2. Fit(heap, Value)
  BY <1>1, ValueKinds DEF MergeInv, Found
<1>3. IF Rule.dst = <<>> THEN Value.kind # "object" /\ heap' = heap ELSE Obstructed(Rule.dst)'
  BY <1>1, <1>2, AssignFails
<1>4. UNCHANGED <<src, nr, tables>>
  BY <1>1, FailedStays
<1>5. Rule' = Rule
  BY <1>4 DEF Rule
<1>6. heap' = heap => Value' = Value
  BY <1>4, <1>5 DEF Value
<1> QED
  BY <1>3, <1>5, <1>6 DEF FailsWhereBlocked

(* What MergePatch has built is an object, so it may become the document.  *)
LEMMA ReturnFails ==
  ASSUME MergeInv, Return, outcome' = "failed"
  PROVE  FailsWhereBlocked'
<1> DEFINE call == Head(calls)
<1>1. outcome = "applying" /\ calls # <<>> /\ src \in present /\ UNCHANGED inputs
  BY DEF Return, Merging, MergeInv, CallsInv
<1>2. call \in Frames(heap) /\ FrameOK(call)
  BY <1>1, CallsAreAStack, PopKeepsStack
<1>3. Assign(call.into)
  <2>1. IF calls' = <<>> THEN Assign(call.into) ELSE UNCHANGED place
    BY DEF Return
  <2> QED
    BY <1>1, <2>1 DEF place
<1> HIDE DEF call
<1>4. call.into \in DOMAIN heap /\ call.into.kind = "object" /\ call.into.doc \notin Kept
  BY <1>2 DEF Frames, FrameOK
<1>5. Fit(heap, call.into)
  BY <1>4, Kinds DEF Fit, HeapInv, MergeInv
<1>6. Rule.dst # <<>> /\ Obstructed(Rule.dst)'
  <2>1. IF Rule.dst = <<>> THEN call.into.kind # "object" /\ heap' = heap
        ELSE Obstructed(Rule.dst)'
    BY <1>1, <1>3, <1>5, AssignFails
  <2> QED
    BY <1>4, <2>1
<1>7. UNCHANGED <<src, nr, tables>>
  BY <1>1, <1>3, FailedStays
<1>8. Rule' = Rule
  BY <1>7 DEF Rule
<1> QED
  BY <1>6, <1>8 DEF FailsWhereBlocked

(* ApplyAll returns an error only where the target is in the way of the    *)
(* destination, or where no object is to become the document.  What        *)
(* stopped the walk of Set is there to be seen in the target that the      *)
(* failed rule leaves behind, all that the walk itself filled and grew     *)
(* included.                                                               *)
LEMMA BlockedFailures == MergeSpec => []FailsWhereBlocked
<1>1. MergeInit => FailsWhereBlocked
  BY DEF MergeInit, FailsWhereBlocked
<1>2. MergeInv /\ FailsWhereBlocked /\ [MergeNext]_mergeVars => FailsWhereBlocked'
  <2> SUFFICES ASSUME MergeInv, FailsWhereBlocked, [MergeNext]_mergeVars, outcome' = "failed"
               PROVE  FailsWhereBlocked'
    BY DEF FailsWhereBlocked
  <2>1. CASE UNCHANGED mergeVars
    BY <2>1 DEF FailsWhereBlocked, Obstructed, Rule, Value, mergeVars
  <2>2. NextRule /\ outcome = "applying" => FALSE
    BY DEF NextRule
  <2>3. CASE SkipSource
    BY <2>3 DEF SkipSource
  <2>4. CASE SkipRule \/ Clear
    BY <2>2, <2>4 DEF SkipRule, Clear, Applying
  <2>5. CASE Replace
    BY <2>5, ReplaceFails
  <2>6. CASE MergeObject
    BY <2>6 DEF MergeObject, Applying, place
  <2>7. CASE Return
    BY <2>7, ReturnFails
  <2>8. CASE Merging /\ \E k \in Head(calls).left : MergeMember(k)
    BY <2>8 DEF Merging, MergeMember, place
  <2> QED
    BY <2>1, <2>3, <2>4, <2>5, <2>6, <2>7, <2>8 DEF MergeNext
<1> QED
  BY <1>1, <1>2, MergeInvariance, PTL DEF MergeSpec

(* ApplyAll fails only for what BlockedFailures names, and panics only     *)
(* where a destination has an index directly after an index.               *)
THEOREM FailuresAreExplained == MergeSpec => []FailureIsExplained
  BY BlockedFailures, PanicsAreNestedArrays, PTL DEF FailureIsExplained

-----------------------------------------------------------------------------
(* The order of rules *)

(* A path with none of the roots before it.                                *)
Off(roots, x) == \A r \in roots : ~ IsPrefix(r, x)

LEMMA PrefixIs ==
  ASSUME NEW p \in Paths, NEW x \in Paths
  PROVE  IsPrefix(p, x) <=> Len(p) <= Len(x) /\ \A i \in 1 .. Len(p) : p[i] = x[i]
<1> DEFINE m == Len(p)
           s1 == SubSeq(p, 1, m)
           s2 == SubSeq(x, 1, m)
<1>1. m \in Nat /\ Len(x) \in Nat
  BY DEF Paths
<1>2. s1 = p
  BY SubSeqFull DEF Paths
<1>3. CASE m <= Len(x)
  <2>1. \A i \in 1 .. m : x[i] \in Steps
    BY <1>1, <1>3 DEF Paths
  <2>2. p \in Seq(Steps) /\ Len(p) = m
    BY DEF Paths
  <2> HIDE DEF m
  <2>3. /\ s2 \in Seq(Steps) /\ Len(s2) = IF 1 <= m THEN m - 1 + 1 ELSE 0
        /\ \A i \in 1 .. m - 1 + 1 : s2[i] = x[1 + i - 1]
    BY <1>1, <2>1, SubSeqProperties
  <2>4. m - 1 + 1 = m /\ \A i \in 1 .. m : 1 + i - 1 = i
    BY <1>1
  <2>5. s2 \in Seq(Steps) /\ Len(s2) = m /\ \A i \in 1 .. m : s2[i] = x[i]
    BY <1>1, <2>3, <2>4
  <2> HIDE DEF s2
  <2>6. p = s2 <=> \A i \in 1 .. m : p[i] = s2[i]
    BY <2>2, <2>5, SeqEqual
  <2>7. IsPrefix(p, x) <=> p = s2
    BY <1>2, <1>3 DEF IsPrefix, m, s2
  <2>8. (\A i \in 1 .. m : p[i] = s2[i]) <=> \A i \in 1 .. m : p[i] = x[i]
    BY <2>5
  <2> QED
    BY <1>3, <2>6, <2>7, <2>8 DEF m
<1>4. CASE ~ (m <= Len(x))
  BY <1>4 DEF IsPrefix
<1> QED
  BY <1>3, <1>4

LEMMA PrefixOrder ==
  /\ \A p \in Paths : IsPrefix(p, p)
  /\ \A p, q, x \in Paths : IsPrefix(p, q) /\ IsPrefix(q, x) => IsPrefix(p, x)
  /\ \A p, q, x \in Paths : IsPrefix(p, x) /\ IsPrefix(q, x) => IsPrefix(p, q) \/ IsPrefix(q, p)
<1>1. \A p \in Paths : Len(p) \in Nat
  BY DEF Paths
<1>2. \A p \in Paths : IsPrefix(p, p)
  BY <1>1, PrefixIs
<1>3. ASSUME NEW p \in Paths, NEW q \in Paths, NEW x \in Paths, IsPrefix(p, q), IsPrefix(q, x)
      PROVE  IsPrefix(p, x)
  <2>1. Len(p) <= Len(q) /\ \A i \in 1 .. Len(p) : p[i] = q[i]
    BY <1>3, PrefixIs
  <2>2. Len(q) <= Len(x) /\ \A i \in 1 .. Len(q) : q[i] = x[i]
    BY <1>3, PrefixIs
  <2>3. Len(p) <= Len(x) /\ \A i \in 1 .. Len(p) : p[i] = x[i]
    BY <1>1, <2>1, <2>2
  <2> QED
    BY <2>3, PrefixIs
<1>4. ASSUME NEW p \in Paths, NEW q \in Paths, NEW x \in Paths, IsPrefix(p, x), IsPrefix(q, x)
      PROVE  IsPrefix(p, q) \/ IsPrefix(q, p)
  <2>1. \A i \in 1 .. Len(p) : p[i] = x[i]
    BY <1>4, PrefixIs
  <2>2. \A i \in 1 .. Len(q) : q[i] = x[i]
    BY <1>4, PrefixIs
  <2>3. CASE Len(p) <= Len(q)
    BY <1>1, <2>1, <2>2, <2>3, PrefixIs
  <2>4. CASE Len(q) <= Len(p)
    BY <1>1, <2>1, <2>2, <2>4, PrefixIs
  <2> QED
    BY <1>1, <2>3, <2>4
<1> QED
  BY <1>2, <1>3, <1>4

LEMMA Joined ==
  ASSUME NEW p \in Paths, NEW q \in Paths
  PROVE  p \o q \in Paths /\ IsPrefix(p, p \o q)
<1>1. p \o q \in Paths /\ Len(p \o q) = Len(p) + Len(q) /\ Len(p) \in Nat /\ Len(q) \in Nat
  BY DEF Paths
<1>2. \A i \in 1 .. Len(p) : (p \o q)[i] = p[i]
  BY <1>1 DEF Paths
<1> DEFINE x == p \o q
<1> HIDE DEF x
<1>3. Len(p) <= Len(x) /\ \A i \in 1 .. Len(p) : p[i] = x[i]
  BY <1>1, <1>2 DEF x
<1>4. x \in Paths
  BY <1>1 DEF x
<1>5. IsPrefix(p, x)
  BY <1>3, <1>4, PrefixIs
<1> QED
  BY <1>4, <1>5 DEF x

LEMMA AncestorsAre ==
  ASSUME NEW p \in Paths, NEW r \in Ancestors(p)
  PROVE  r \in Paths /\ IsPrefix(r, p) /\ StepFrom(r, p) \in Steps
<1>1. PICK k \in 0 .. Len(p) - 1 : r = SubSeq(p, 1, k)
  BY DEF Ancestors
<1>2. Len(p) \in Nat /\ k \in Nat /\ k \in 0 .. Len(p) /\ k # Len(p)
  BY DEF Paths
<1>3. r \in Paths /\ p[k + 1] \in Steps
  BY <1>1, <1>2, PrefixGrows
<1>4. Len(r) = k /\ \A i \in 1 .. k : r[i] = p[i]
  <2>1. \A i \in 1 .. k : p[i] \in Steps
    BY <1>2 DEF Paths
  <2>2. /\ Len(SubSeq(p, 1, k)) = IF 1 <= k THEN k - 1 + 1 ELSE 0
        /\ \A i \in 1 .. k - 1 + 1 : SubSeq(p, 1, k)[i] = p[1 + i - 1]
    BY <1>2, <2>1, SubSeqProperties
  <2>3. k - 1 + 1 = k /\ \A i \in 1 .. k : 1 + i - 1 = i
    BY <1>2
  <2> QED
    BY <1>1, <1>2, <2>2, <2>3
<1>5. IsPrefix(r, p)
  BY <1>2, <1>3, <1>4, PrefixIs
<1> QED
  BY <1>3, <1>4, <1>5 DEF StepFrom

(* What an array is grown with beside a path lies at another path, if at   *)
(* all, not below it.                                                      *)
LEMMA PaddedBeside ==
  ASSUME NEW p \in Paths, NEW q \in Paths, Apart(p, q), NEW x \in DOMAIN Padding(p)
  PROVE  x \in Paths /\ (IsPrefix(q, x) => x = q) /\ Padding(p)[x] = Nil
<1>1. PICK r \in Ancestors(p) : \E i \in 0 .. StepFrom(r, p).index :
        IsIndex(StepFrom(r, p)) /\ x = Append(r, Index(i))
  BY DEF Padding
<1>2. PICK i \in 0 .. StepFrom(r, p).index :
        IsIndex(StepFrom(r, p)) /\ x = Append(r, Index(i))
  BY <1>1
<1>3. r \in Paths /\ IsPrefix(r, p) /\ StepFrom(r, p) \in Steps
  BY AncestorsAre
<1>4. i \in Nat
  BY <1>2, <1>3, StepKinds
<1>5. Index(i) \in Steps
  BY <1>4 DEF Index, Steps
<1> DEFINE s == Index(i)
<1> HIDE DEF s
<1>6. x = Append(r, s) /\ s \in Steps
  BY <1>2, <1>5 DEF s
<1>7. /\ x \in Paths /\ Len(x) = Len(r) + 1 /\ Len(r) \in Nat /\ Len(q) \in Nat
      /\ \A j \in 1 .. Len(r) : x[j] = r[j]
  BY <1>3, <1>6 DEF Paths
<1>8. ASSUME IsPrefix(q, x) PROVE x = q
  <2>1. Len(q) <= Len(x) /\ \A j \in 1 .. Len(q) : q[j] = x[j]
    BY <1>7, <1>8, PrefixIs
  <2>2. CASE Len(q) <= Len(r)
    <3>1. \A j \in 1 .. Len(q) : q[j] = r[j]
      BY <1>7, <2>1, <2>2
    <3>2. IsPrefix(q, r)
      BY <1>3, <2>2, <3>1, PrefixIs
    <3>3. IsPrefix(q, p)
      BY <1>3, <3>2, PrefixOrder
    <3> QED
      BY <3>3 DEF Apart
  <2>3. CASE Len(q) = Len(x)
    BY <1>7, <2>1, <2>3, SeqEqual DEF Paths
  <2> QED
    BY <1>7, <2>1, <2>2, <2>3
<1>9. Padding(p)[x] = Nil
  BY DEF Padding
<1> QED
  BY <1>7, <1>8, <1>9

LEMMA LayersAre ==
  ASSUME NEW u, NEW c, NEW n, NEW doc, NEW roots
  PROVE  LET f == Over(u, Over(c, Over(Without(doc, roots), n))) IN
         /\ f = [x \in DOMAIN f |-> f[x]]
         /\ \A x : /\ x \in DOMAIN f <=>
                        \/ x \in DOMAIN u \cup DOMAIN c \cup DOMAIN n
                        \/ x \in DOMAIN doc /\ Off(roots, x)
                   /\ x \in DOMAIN f =>
                        f[x] = IF x \in DOMAIN u THEN u[x] ELSE IF x \in DOMAIN c THEN c[x]
                               ELSE IF x \in DOMAIN doc /\ Off(roots, x) THEN doc[x] ELSE n[x]
<1> DEFINE f == Over(u, Over(c, Over(Without(doc, roots), n)))
<1>1. f = [x \in DOMAIN f |-> f[x]]
  BY DEF Over
<1>2. \A x : /\ x \in DOMAIN f <=>
                  \/ x \in DOMAIN u \cup DOMAIN c \cup DOMAIN n
                  \/ x \in DOMAIN doc /\ Off(roots, x)
             /\ x \in DOMAIN f =>
                  f[x] = IF x \in DOMAIN u THEN u[x] ELSE IF x \in DOMAIN c THEN c[x]
                         ELSE IF x \in DOMAIN doc /\ Off(roots, x) THEN doc[x] ELSE n[x]
  BY DEF Over, Without, Off
<1> QED
  BY <1>1, <1>2

(* Four layers that each have a place of their own can be laid in either   *)
(* order: what the one lays the other does not remove.                     *)
LEMMA LayersCommute ==
  ASSUME NEW doc, NEW u, NEW c, NEW n, NEW roots, NEW v, NEW d, NEW m, NEW others,
         \A x \in DOMAIN u \cup DOMAIN c : Off(others, x) /\ x \notin DOMAIN v,
         \A x \in DOMAIN v \cup DOMAIN d : Off(roots, x) /\ x \notin DOMAIN u,
         \A x \in DOMAIN n : Off(others, x) \/ x \in DOMAIN v,
         \A x \in DOMAIN m : Off(roots, x) \/ x \in DOMAIN u,
         \A x \in DOMAIN c \cap DOMAIN d : c[x] = d[x],
         \A x \in DOMAIN n : n[x] = Nil,
         \A x \in DOMAIN m : m[x] = Nil
  PROVE  LET one(e)   == Over(u, Over(c, Over(Without(e, roots), n)))
             other(e) == Over(v, Over(d, Over(Without(e, others), m)))
         IN  one(other(doc)) = other(one(doc))
<1> DEFINE one(e)   == Over(u, Over(c, Over(Without(e, roots), n)))
           other(e) == Over(v, Over(d, Over(Without(e, others), m)))
           f == one(other(doc))
           g == other(one(doc))
<1>1. \A e, x : /\ x \in DOMAIN one(e) <=>
                     \/ x \in DOMAIN u \cup DOMAIN c \cup DOMAIN n
                     \/ x \in DOMAIN e /\ Off(roots, x)
                /\ x \in DOMAIN one(e) =>
                     one(e)[x] = IF x \in DOMAIN u THEN u[x] ELSE IF x \in DOMAIN c THEN c[x]
                                 ELSE IF x \in DOMAIN e /\ Off(roots, x) THEN e[x] ELSE n[x]
  BY DEF Over, Without, Off
<1>2. \A e, x : /\ x \in DOMAIN other(e) <=>
                     \/ x \in DOMAIN v \cup DOMAIN d \cup DOMAIN m
                     \/ x \in DOMAIN e /\ Off(others, x)
                /\ x \in DOMAIN other(e) =>
                     other(e)[x] = IF x \in DOMAIN v THEN v[x] ELSE IF x \in DOMAIN d THEN d[x]
                                   ELSE IF x \in DOMAIN e /\ Off(others, x) THEN e[x] ELSE m[x]
  BY DEF Over, Without, Off
<1>3. f = [x \in DOMAIN f |-> f[x]] /\ g = [x \in DOMAIN g |-> g[x]]
  BY DEF Over
<1> HIDE DEF one, other
<1>4. \A x : x \in DOMAIN f <=>
               \/ x \in DOMAIN u \cup DOMAIN c \cup DOMAIN n
               \/ x \in DOMAIN v \cup DOMAIN d \cup DOMAIN m
               \/ x \in DOMAIN doc /\ Off(roots, x) /\ Off(others, x)
  BY <1>1, <1>2
<1>5. \A x : x \in DOMAIN g <=>
               \/ x \in DOMAIN u \cup DOMAIN c \cup DOMAIN n
               \/ x \in DOMAIN v \cup DOMAIN d \cup DOMAIN m
               \/ x \in DOMAIN doc /\ Off(roots, x) /\ Off(others, x)
  BY <1>1, <1>2
<1>6. DOMAIN f = DOMAIN g
  BY <1>4, <1>5
<1>7. ASSUME NEW x \in DOMAIN f PROVE f[x] = g[x]
  <2>0. x \in DOMAIN g
    BY <1>6
  <2>1. CASE x \in DOMAIN u
    BY <1>1, <1>2, <2>0, <2>1
  <2>2. CASE x \in DOMAIN v
    BY <1>1, <1>2, <2>0, <2>2
  <2>3. CASE x \notin DOMAIN u /\ x \notin DOMAIN v /\ x \in DOMAIN c
    BY <1>1, <1>2, <2>0, <2>3
  <2>4. CASE x \notin DOMAIN u /\ x \notin DOMAIN v /\ x \notin DOMAIN c /\ x \in DOMAIN d
    BY <1>1, <1>2, <2>0, <2>4
  <2>5. CASE x \notin DOMAIN u /\ x \notin DOMAIN v /\ x \notin DOMAIN c /\ x \notin DOMAIN d
    <3>1. CASE x \in DOMAIN doc /\ Off(roots, x) /\ Off(others, x)
      BY <1>1, <1>2, <2>0, <2>5, <3>1
    <3>2. CASE ~ (x \in DOMAIN doc /\ Off(roots, x) /\ Off(others, x))
      BY <1>1, <1>2, <2>0, <2>5, <3>2
    <3> QED
      BY <3>1, <3>2
  <2> QED
    BY <2>1, <2>2, <2>3, <2>4, <2>5
<1>8. f = g
  BY <1>3, <1>6, <1>7
<1> QED
  BY <1>8 DEF one, other

(* What a graft lays lies at or below its path, or leads there.            *)
LEMMA LaidBeside ==
  ASSUME NEW p \in Paths, NEW q \in Paths, Apart(p, q),
         NEW part, DOMAIN part \subseteq Paths
  PROVE  \A x \in DOMAIN Under(p, part) \cup DOMAIN Containers(p) :
           x \in Paths /\ ~ IsPrefix(q, x)
<1> SUFFICES ASSUME NEW x \in DOMAIN Under(p, part) \cup DOMAIN Containers(p)
             PROVE  x \in Paths /\ ~ IsPrefix(q, x)
  OBVIOUS
<1>1. CASE x \in DOMAIN Under(p, part)
  <2>1. PICK y \in DOMAIN part : x = p \o y
    BY <1>1 DEF Under
  <2>2. x \in Paths /\ IsPrefix(p, x)
    BY <2>1, Joined
  <2> QED
    BY <2>2, PrefixOrder DEF Apart
<1>2. CASE x \in DOMAIN Containers(p)
  <2>1. x \in Ancestors(p)
    BY <1>2 DEF Containers
  <2>2. x \in Paths /\ IsPrefix(x, p)
    BY <2>1, AncestorsAre
  <2> QED
    BY <2>2, PrefixOrder DEF Apart
<1> QED
  BY <1>1, <1>2
LEMMA GraftedBeside ==
  ASSUME NEW p \in Paths, NEW q \in Paths, Apart(p, q),
         NEW part, DOMAIN part \subseteq Paths,
         NEW other, <<>> \in DOMAIN other, DOMAIN other \subseteq Paths,
         NEW others, \A r \in others : r \in Paths /\ IsPrefix(q, r)
  PROVE  /\ \A x \in DOMAIN Under(p, part) \cup DOMAIN Containers(p) :
              x \in Paths /\ ~ IsPrefix(q, x) /\ Off(others, x) /\ x \notin DOMAIN Under(q, other)
         /\ \A x \in DOMAIN Padding(p) :
              x \in Paths /\ (Off(others, x) \/ x \in DOMAIN Under(q, other))
<1>1. \A y \in DOMAIN other : q \o y \in Paths /\ IsPrefix(q, q \o y)
  BY Joined
<1>2. q \in DOMAIN Under(q, other) /\ \A x \in DOMAIN Under(q, other) : IsPrefix(q, x)
  <2>1. DOMAIN Under(q, other) = {q \o y : y \in DOMAIN other}
    BY DEF Under
  <2>2. q \o <<>> = q
    BY DEF Paths
  <2> QED
    BY <1>1, <2>1, <2>2
<1>3. \A x \in DOMAIN Under(p, part) \cup DOMAIN Containers(p) : x \in Paths /\ ~ IsPrefix(q, x)
  BY LaidBeside
<1>4. \A x \in Paths : ~ IsPrefix(q, x) => Off(others, x)
  BY PrefixOrder DEF Off
<1>5. ASSUME NEW x \in DOMAIN Padding(p)
      PROVE  x \in Paths /\ (Off(others, x) \/ x \in DOMAIN Under(q, other))
  <2>1. x \in Paths /\ (IsPrefix(q, x) => x = q)
    BY PaddedBeside
  <2> QED
    BY <1>2, <1>4, <2>1
<1> QED
  BY <1>2, <1>3, <1>4, <1>5

LEMMA GraftsCommute ==
  ASSUME NEW p \in Paths, NEW q \in Paths, Apart(p, q), Alike(p, q), NEW doc,
         NEW part, <<>> \in DOMAIN part, DOMAIN part \subseteq Paths,
         NEW roots, \A r \in roots : r \in Paths /\ IsPrefix(p, r),
         NEW other, <<>> \in DOMAIN other, DOMAIN other \subseteq Paths,
         NEW others, \A r \in others : r \in Paths /\ IsPrefix(q, r)
  PROVE  Graft(Graft(doc, q, other, others), p, part, roots)
           = Graft(Graft(doc, p, part, roots), q, other, others)
<1> DEFINE u == Under(p, part)
           c == Containers(p)
           n == Padding(p)
           v == Under(q, other)
           d == Containers(q)
           m == Padding(q)
<1>1. Apart(q, p)
  BY DEF Apart
<1>2. /\ \A x \in DOMAIN u \cup DOMAIN c : Off(others, x) /\ x \notin DOMAIN v
      /\ \A x \in DOMAIN n : Off(others, x) \/ x \in DOMAIN v
  BY GraftedBeside
<1>3. /\ \A x \in DOMAIN v \cup DOMAIN d : Off(roots, x) /\ x \notin DOMAIN u
      /\ \A x \in DOMAIN m : Off(roots, x) \/ x \in DOMAIN u
  BY <1>1, GraftedBeside
<1>4. \A x \in DOMAIN c \cap DOMAIN d : c[x] = d[x]
  BY DEF Containers, Alike
<1>5. \A x \in DOMAIN n : n[x] = Nil
  BY PaddedBeside
<1>6. \A x \in DOMAIN m : m[x] = Nil
  BY <1>1, PaddedBeside
<1>7. /\ \A e : Graft(e, p, part, roots) = Over(u, Over(c, Over(Without(e, roots), n)))
      /\ \A e : Graft(e, q, other, others) = Over(v, Over(d, Over(Without(e, others), m)))
  BY DEF Graft
<1> HIDE DEF u, c, n, v, d, m
<1>8. LET one(e)   == Over(u, Over(c, Over(Without(e, roots), n)))
          another(e) == Over(v, Over(d, Over(Without(e, others), m)))
      IN  one(another(doc)) = another(one(doc))
  BY <1>2, <1>3, <1>4, <1>5, <1>6, LayersCommute
<1> QED
  BY <1>7, <1>8

LEMMA ClearsCommute ==
  ASSUME NEW doc, NEW roots, NEW others
  PROVE  Without(Without(doc, others), roots) = Without(Without(doc, roots), others)
BY DEF Without

LEMMA ClearAndGraftCommute ==
  ASSUME NEW p \in Paths, p # <<>>, ~ IsIndex(Last(p)), NEW q \in Paths, Apart(p, q), NEW doc,
         NEW part, DOMAIN part \subseteq Paths, NEW roots
  PROVE  Graft(Without(doc, {p}), q, part, roots) = Without(Graft(doc, q, part, roots), {p})
<1> DEFINE u == Under(q, part)
           c == Containers(q)
           n == Padding(q)
           cut == Without(doc, {p})
           whole == Over(u, Over(c, Over(Without(doc, roots), n)))
           f == Over(u, Over(c, Over(Without(cut, roots), n)))
           g == Without(whole, {p})
<1>1. Apart(q, p)
  BY DEF Apart
<1>2. \A x \in DOMAIN u \cup DOMAIN c : ~ IsPrefix(p, x)
  BY <1>1, LaidBeside
<1>3. ASSUME NEW x \in DOMAIN n PROVE ~ IsPrefix(p, x)
  <2>1. x \in Paths /\ (IsPrefix(p, x) => x = p)
    BY <1>1, PaddedBeside
  <2>2. PICK r \in Ancestors(q) : \E i \in 0 .. StepFrom(r, q).index :
          IsIndex(StepFrom(r, q)) /\ x = Append(r, Index(i))
    BY DEF Padding
  <2>3. PICK i \in 0 .. StepFrom(r, q).index : x = Append(r, Index(i))
    BY <2>2
  <2>4. r \in Seq(Steps)
    BY AncestorsAre DEF Paths
  <2>5. Last(x) = Index(i)
    BY <2>3, <2>4 DEF Last
  <2>6. IsIndex(Last(x))
    BY <2>5 DEF IsIndex, Index
  <2> QED
    BY <2>1, <2>6
<1>4. /\ \A x : x \in DOMAIN cut <=> x \in DOMAIN doc /\ ~ IsPrefix(p, x)
      /\ \A x \in DOMAIN cut : cut[x] = doc[x]
  BY DEF Without
<1>5. /\ \A x : x \in DOMAIN g <=> x \in DOMAIN whole /\ ~ IsPrefix(p, x)
      /\ \A x \in DOMAIN g : g[x] = whole[x]
      /\ g = [x \in DOMAIN g |-> g[x]]
  BY DEF Without
<1>6. /\ Graft(cut, q, part, roots) = f
      /\ Graft(doc, q, part, roots) = whole
  BY DEF Graft
<1> HIDE DEF u, c, n, cut, g
<1>7. /\ f = [x \in DOMAIN f |-> f[x]]
      /\ \A x : /\ x \in DOMAIN f <=>
                     \/ x \in DOMAIN u \cup DOMAIN c \cup DOMAIN n
                     \/ x \in DOMAIN cut /\ Off(roots, x)
                /\ x \in DOMAIN f =>
                     f[x] = IF x \in DOMAIN u THEN u[x] ELSE IF x \in DOMAIN c THEN c[x]
                            ELSE IF x \in DOMAIN cut /\ Off(roots, x) THEN cut[x] ELSE n[x]
  BY LayersAre
<1>8. \A x : /\ x \in DOMAIN whole <=>
                  \/ x \in DOMAIN u \cup DOMAIN c \cup DOMAIN n
                  \/ x \in DOMAIN doc /\ Off(roots, x)
             /\ x \in DOMAIN whole =>
                  whole[x] = IF x \in DOMAIN u THEN u[x] ELSE IF x \in DOMAIN c THEN c[x]
                             ELSE IF x \in DOMAIN doc /\ Off(roots, x) THEN doc[x] ELSE n[x]
  BY LayersAre
<1> HIDE DEF f, whole
<1>9. \A x : x \in DOMAIN f <=> x \in DOMAIN g
  BY <1>2, <1>3, <1>4, <1>5, <1>7, <1>8
<1>10. \A x \in DOMAIN f : f[x] = g[x]
  BY <1>2, <1>3, <1>4, <1>5, <1>7, <1>8, <1>9
<1>11. f = g
  BY <1>5, <1>7, <1>9, <1>10
<1> QED
  BY <1>6, <1>11 DEF cut, g

(* The members of a patch that a merge looks at, and the objects among     *)
(* them that meet an object.                                               *)
Named(patch) == {q \in DOMAIN patch : \A r \in Ancestors(q) : patch[r] = Object}
Met(doc, path, patch) ==
  {q \in Named(patch) : /\ patch[q] = Object
                        /\ path \o q \in DOMAIN doc /\ doc[path \o q] = Object}
Nulls(patch) == {q \in Named(patch) : patch[q] = Nil}

(* What a rule lays, and what it removes to make place for it.             *)
Part(rule, value) ==
  IF rule.policy = "replace" THEN value ELSE Without(value, Nulls(value))
Place(doc, rule, value) ==
  IF rule.policy = "replace" THEN {rule.dst}
  ELSE {rule.dst \o q : q \in Named(value) \ Met(doc, rule.dst, value)}

LEMMA FrontOfAppend ==
  ASSUME NEW p \in Paths, NEW s \in Steps
  PROVE  Front(Append(p, s)) = p
<1> DEFINE long == Append(p, s)
           front == Front(long)
<1>1. long \in Paths /\ Len(long) = Len(p) + 1 /\ Len(p) \in Nat
      /\ \A i \in 1 .. Len(p) : long[i] = p[i]
  BY DEF Paths
<1> HIDE DEF long
<1>2. long # <<>>
  BY <1>1
<1>3. front \in Paths /\ long = Append(front, Last(long))
  BY <1>1, <1>2, FrontOfAPath
<1> HIDE DEF front
<1>4. Len(long) = Len(front) + 1 /\ Len(front) \in Nat
      /\ \A i \in 1 .. Len(front) : long[i] = front[i]
  BY <1>3 DEF Paths
<1>5. Len(front) = Len(p) /\ \A i \in 1 .. Len(p) : front[i] = p[i]
  BY <1>1, <1>4
<1>6. front = p
  BY <1>3, <1>5, SeqEqual DEF Paths
<1> QED
  BY <1>6 DEF front, long

LEMMA ValueOfARecord ==
  ASSUME NEW record, IsDocument(record), NEW path \in Paths
  PROVE  LET value == At(record, path) IN
         /\ DOMAIN value \subseteq Paths
         /\ value = <<>> \/ <<>> \in DOMAIN value
<1> DEFINE value == At(record, path)
           below == {p \in DOMAIN record : IsPrefix(path, p)}
<1>1. DOMAIN record \subseteq Paths /\ Len(path) \in Nat
  BY DEF IsDocument, Paths
<1>2. DOMAIN value = {SubSeq(p, Len(path) + 1, Len(p)) : p \in below}
  BY DEF At
<1>3. DOMAIN value \subseteq Paths
  <2> SUFFICES ASSUME NEW p \in below PROVE SubSeq(p, Len(path) + 1, Len(p)) \in Paths
    BY <1>2
  <2>1. p \in Seq(Steps) /\ Len(p) \in Nat /\ \A i \in 1 .. Len(p) : p[i] \in Steps
    BY <1>1 DEF Paths
  <2>2. \A i \in Len(path) + 1 .. Len(p) : p[i] \in Steps
    BY <1>1, <2>1
  <2> DEFINE first == Len(path) + 1
  <2>3. first \in Nat
    BY <1>1
  <2> HIDE DEF first
  <2>4. \A i \in first .. Len(p) : p[i] \in Steps
    BY <2>2 DEF first
  <2>5. SubSeq(p, first, Len(p)) \in Seq(Steps)
    BY <2>1, <2>3, <2>4, SubSeqProperties
  <2> QED
    BY <2>5 DEF first, Paths
<1>4. ASSUME below # {} PROVE path \in DOMAIN record
  <2>1. PICK p \in below : TRUE
    BY <1>4
  <2>2. p \in Paths /\ p \in DOMAIN record /\ IsPrefix(path, p)
    BY <1>1
  <2> DEFINE n == Len(p)
             G == {i \in 0 .. n : SubSeq(p, 1, n - i) \in DOMAIN record}
  <2>3. n \in Nat /\ Len(path) <= n /\ SubSeq(p, 1, Len(path)) = path
    <3>1. SubSeq(path, 1, Len(path)) = path
      BY SubSeqFull DEF Paths
    <3> QED
      BY <2>2, <3>1 DEF IsPrefix, Paths
  <2>4. SubSeq(p, 1, n) = p
    BY <2>2, SubSeqFull DEF Paths
  <2>5. 0 \in G
    <3>1. n - 0 = n /\ 0 \in 0 .. n
      BY <2>3
    <3> QED
      BY <2>2, <2>4, <3>1
  <2>6. ASSUME NEW i \in 0 .. n, i \in G, i # n PROVE i + 1 \in G
    <3> DEFINE k == n - (i + 1)
    <3>1. k \in 0 .. Len(p) /\ k # Len(p) /\ k + 1 = n - i /\ i + 1 \in 0 .. n
      BY <2>3, <2>6
    <3> HIDE DEF k
    <3> DEFINE long == SubSeq(p, 1, k + 1)
               short == SubSeq(p, 1, k)
    <3>2. short \in Paths /\ p[k + 1] \in Steps /\ long = Append(short, p[k + 1])
      BY <2>2, <3>1, PrefixGrows
    <3>3. long \in DOMAIN record
      BY <2>6, <3>1
    <3> HIDE DEF long, short
    <3>4. long # <<>> /\ long \in Paths /\ Len(long) = Len(short) + 1
      BY <1>1, <3>2, <3>3 DEF Paths
    <3>5. Front(long) \in DOMAIN record
      BY <3>3, <3>4 DEF IsDocument
    <3>6. Front(long) = short
      BY <3>2, FrontOfAppend
    <3>7. SubSeq(p, 1, n - (i + 1)) \in DOMAIN record
      BY <3>5, <3>6 DEF short, k
    <3> QED
      BY <3>1, <3>7
  <2>7. n - Len(path) \in 0 .. n /\ n - (n - Len(path)) = Len(path)
    BY <1>1, <2>3
  <2>8. \A i \in 0 .. n : i \in G /\ i # n => i + 1 \in G
    BY <2>6
  <2> HIDE DEF G, n
  <2>9. 0 .. n \subseteq G
    BY ONLY <2>3, <2>5, <2>8, UpTo
  <2> QED
    BY <2>3, <2>7, <2>9 DEF G
<1>5. CASE below = {}
  <2>1. DOMAIN value = {}
    BY <1>2, <1>5
  <2>2. value = [x \in {} |-> record[path \o x]]
    BY <1>5 DEF At
  <2>3. value = <<>>
    BY <2>2
  <2> QED
    BY <1>3, <2>3
<1>6. CASE below # {}
  <2>1. path \in below
    <3>1. IsPrefix(path, path)
      BY PrefixOrder
    <3> QED
      BY <1>4, <1>6, <3>1
  <2>2. SubSeq(path, Len(path) + 1, Len(path)) = <<>>
    BY <1>1, SubSeqEmpty
  <2> QED
    BY <1>2, <1>3, <2>1, <2>2
<1> QED
  BY <1>5, <1>6

(* The objects a document has below a path.                                *)
SameObjects(doc, e, p) ==
  \A x \in Paths : IsPrefix(p, x) =>
    (x \in DOMAIN e /\ e[x] = Object <=> x \in DOMAIN doc /\ doc[x] = Object)

LEMMA PlaceStays ==
  ASSUME NEW rule \in RuleKind, NEW value, DOMAIN value \subseteq Paths,
         NEW doc, NEW e, SameObjects(doc, e, rule.dst)
  PROVE  Place(e, rule, value) = Place(doc, rule, value)
<1>1. rule.dst \in Paths
  BY DEF RuleKind
<1>2. \A q \in Named(value) : rule.dst \o q \in Paths /\ IsPrefix(rule.dst, rule.dst \o q)
  BY <1>1, Joined DEF Named
<1>3. Met(e, rule.dst, value) = Met(doc, rule.dst, value)
  BY <1>2 DEF Met, SameObjects
<1> QED
  BY <1>3 DEF Place

LEMMA GraftKeepsObjects ==
  ASSUME NEW p \in Paths, NEW q \in Paths, Apart(p, q), NEW doc,
         NEW part, DOMAIN part \subseteq Paths,
         NEW roots, \A r \in roots : r \in Paths /\ IsPrefix(p, r)
  PROVE  SameObjects(doc, Graft(doc, p, part, roots), q)
<1> SUFFICES ASSUME NEW x \in Paths, IsPrefix(q, x)
             PROVE  LET e == Graft(doc, p, part, roots) IN
                    x \in DOMAIN e /\ e[x] = Object <=> x \in DOMAIN doc /\ doc[x] = Object
  BY DEF SameObjects
<1> DEFINE u == Under(p, part)
           c == Containers(p)
           n == Padding(p)
           e == Over(u, Over(c, Over(Without(doc, roots), n)))
<1>1. x \notin DOMAIN u /\ x \notin DOMAIN c
  BY LaidBeside
<1>2. x \in DOMAIN n => n[x] = Nil
  BY PaddedBeside
<1>3. Off(roots, x)
  <2>1. ASSUME NEW r \in roots, IsPrefix(r, x) PROVE FALSE
    <3>1. IsPrefix(p, x)
      BY <2>1, PrefixOrder
    <3> QED
      BY <3>1, PrefixOrder DEF Apart
  <2> QED
    BY <2>1 DEF Off
<1>4. Graft(doc, p, part, roots) = e
  BY DEF Graft
<1> HIDE DEF u, c, n
<1>5. /\ x \in DOMAIN e <=> x \in DOMAIN n \/ x \in DOMAIN doc
      /\ x \in DOMAIN e => e[x] = IF x \in DOMAIN doc THEN doc[x] ELSE n[x]
  BY <1>1, <1>3 DEF Over, Without, Off
<1>6. Nil # Object
  BY DEF Nil, Object
<1> HIDE DEF e
<1> QED
  BY <1>2, <1>4, <1>5, <1>6

LEMMA ClearKeepsObjects ==
  ASSUME NEW p \in Paths, NEW q \in Paths, Apart(p, q), NEW doc
  PROVE  SameObjects(doc, Without(doc, {p}), q)
<1>1. \A x \in Paths : IsPrefix(q, x) => ~ IsPrefix(p, x)
  BY PrefixOrder DEF Apart
<1> QED
  BY <1>1 DEF SameObjects, Without

LEMMA RuledIs ==
  ASSUME NEW doc, NEW rule, NEW record
  PROVE  LET value == At(record, rule.src) IN
         Ruled(doc, rule, record) =
           IF value = <<>> THEN doc
           ELSE IF value[<<>>] = Nil THEN Cleared(doc, rule.dst)
           ELSE Graft(doc, rule.dst, Part(rule, value), Place(doc, rule, value))
BY DEF Ruled, Replaced, Merged, Part, Place, Named, Met, Nulls

LEMMA LaidParts ==
  ASSUME NEW rule \in RuleKind, NEW value, DOMAIN value \subseteq Paths,
         <<>> \in DOMAIN value, value[<<>>] # Nil
  PROVE  /\ <<>> \in DOMAIN Part(rule, value) /\ DOMAIN Part(rule, value) \subseteq Paths
         /\ \A doc : \A r \in Place(doc, rule, value) : r \in Paths /\ IsPrefix(rule.dst, r)
<1>1. rule.dst \in Paths
  BY DEF RuleKind
<1>2. \A r \in Nulls(value) : ~ IsPrefix(r, <<>>)
  <2> SUFFICES ASSUME NEW r \in Nulls(value), IsPrefix(r, <<>>) PROVE FALSE
    OBVIOUS
  <2>1. r \in Paths /\ value[r] = Nil
    BY DEF Nulls, Named
  <2>2. Len(r) <= 0
    BY DEF IsPrefix
  <2>3. r = <<>>
    BY <2>1, <2>2 DEF Paths
  <2> QED
    BY <2>1, <2>3
<1>3. <<>> \in DOMAIN Part(rule, value) /\ DOMAIN Part(rule, value) \subseteq Paths
  BY <1>2 DEF Part, Without
<1>4. \A q \in Named(value) : rule.dst \o q \in Paths /\ IsPrefix(rule.dst, rule.dst \o q)
  BY <1>1, Joined DEF Named
<1>5. IsPrefix(rule.dst, rule.dst)
  BY <1>1, PrefixOrder
<1>6. \A doc : \A r \in Place(doc, rule, value) : r \in Paths /\ IsPrefix(rule.dst, r)
  BY <1>1, <1>4, <1>5 DEF Place
<1> QED
  BY <1>3, <1>6

(* "Because destinations are unique, the order rules are listed in does    *)
(* not affect the result", of what merge is to compute: two rules of one   *)
(* source or of two can trade places, whatever the document, the records   *)
(* and the policies are, if neither destination leads through the other    *)
(* and they agree on what is an object and what an array where both lead.  *)
(* By such trades any order of a table becomes any other.  That the        *)
(* destinations differ, all that Compile asks for, is not enough.          *)
THEOREM ApartRulesCommute ==
  ASSUME NEW doc, NEW one \in RuleKind, NEW two \in RuleKind,
         Apart(one.dst, two.dst), Alike(one.dst, two.dst),
         NEW r, IsDocument(r), NEW s, IsDocument(s)
  PROVE  Ruled(Ruled(doc, one, r), two, s) = Ruled(Ruled(doc, two, s), one, r)
<1> DEFINE p == one.dst
           q == two.dst
           v == At(r, one.src)
           w == At(s, two.src)
           a == Ruled(doc, one, r)
           b == Ruled(doc, two, s)
           ab == Ruled(b, one, r)
           ba == Ruled(a, two, s)
<1>1. /\ p \in Paths /\ q \in Paths /\ one.src \in Paths /\ two.src \in Paths
      /\ Apart(p, q) /\ Apart(q, p) /\ Alike(p, q)
  BY DEF RuleKind, Apart
<1>2. /\ DOMAIN v \subseteq Paths /\ (v = <<>> \/ <<>> \in DOMAIN v)
      /\ DOMAIN w \subseteq Paths /\ (w = <<>> \/ <<>> \in DOMAIN w)
  BY <1>1, ValueOfARecord
<1> DEFINE idleA == v = <<>> \/ (v[<<>>] = Nil /\ (p = <<>> \/ IsIndex(Last(p))))
           idleB == w = <<>> \/ (w[<<>>] = Nil /\ (q = <<>> \/ IsIndex(Last(q))))
           clearA == v # <<>> /\ v[<<>>] = Nil /\ p # <<>> /\ ~ IsIndex(Last(p))
           clearB == w # <<>> /\ w[<<>>] = Nil /\ q # <<>> /\ ~ IsIndex(Last(q))
           laysA == v # <<>> /\ v[<<>>] # Nil
           laysB == w # <<>> /\ w[<<>>] # Nil
<1>5. (idleA \/ clearA \/ laysA) /\ (idleB \/ clearB \/ laysB)
  OBVIOUS
<1>6. /\ idleA => a = doc /\ ab = b
      /\ clearA => a = Without(doc, {p}) /\ ab = Without(b, {p})
      /\ laysA => /\ a = Graft(doc, p, Part(one, v), Place(doc, one, v))
                  /\ ab = Graft(b, p, Part(one, v), Place(b, one, v))
  <2> HIDE DEF b
  <2> QED
    BY RuledIs DEF Cleared
<1>7. /\ idleB => b = doc /\ ba = a
      /\ clearB => b = Without(doc, {q}) /\ ba = Without(a, {q})
      /\ laysB => /\ b = Graft(doc, q, Part(two, w), Place(doc, two, w))
                  /\ ba = Graft(a, q, Part(two, w), Place(a, two, w))
  <2> HIDE DEF a
  <2> QED
    BY RuledIs DEF Cleared
<1> SUFFICES ba = ab
  OBVIOUS
<1> HIDE DEF a, b, ab, ba
<1>8. ASSUME laysA
      PROVE  /\ <<>> \in DOMAIN Part(one, v) /\ DOMAIN Part(one, v) \subseteq Paths
             /\ \A x \in Place(doc, one, v) : x \in Paths /\ IsPrefix(p, x)
             /\ SameObjects(doc, a, q)
  <2>1. /\ <<>> \in DOMAIN Part(one, v) /\ DOMAIN Part(one, v) \subseteq Paths
        /\ \A x \in Place(doc, one, v) : x \in Paths /\ IsPrefix(p, x)
    BY <1>2, <1>8, LaidParts
  <2> QED
    BY <1>1, <1>6, <1>8, <2>1, GraftKeepsObjects
<1>9. ASSUME laysB
      PROVE  /\ <<>> \in DOMAIN Part(two, w) /\ DOMAIN Part(two, w) \subseteq Paths
             /\ \A x \in Place(doc, two, w) : x \in Paths /\ IsPrefix(q, x)
             /\ SameObjects(doc, b, p)
  <2>1. /\ <<>> \in DOMAIN Part(two, w) /\ DOMAIN Part(two, w) \subseteq Paths
        /\ \A x \in Place(doc, two, w) : x \in Paths /\ IsPrefix(q, x)
    BY <1>2, <1>9, LaidParts
  <2> QED
    BY <1>1, <1>7, <1>9, <2>1, GraftKeepsObjects
<1>10. /\ clearA => SameObjects(doc, a, q)
       /\ clearB => SameObjects(doc, b, p)
  BY <1>1, <1>6, <1>7, ClearKeepsObjects
<1> HIDE DEF v, w, idleA, idleB
<1>11. CASE idleA \/ idleB
  <2>1. CASE idleA
    BY <1>5, <1>6, <1>7, <2>1
  <2>2. CASE idleB
    BY <1>5, <1>6, <1>7, <2>2
  <2> QED
    BY <1>11, <2>1, <2>2
<1>12. CASE clearA /\ clearB
  <2>1. Without(Without(doc, {q}), {p}) = Without(Without(doc, {p}), {q})
    BY ClearsCommute
  <2> QED
    BY <1>6, <1>7, <1>12, <2>1
<1>13. CASE clearA /\ laysB
  <2>1. Place(a, two, w) = Place(doc, two, w)
    BY <1>2, <1>10, <1>13, PlaceStays
  <2>2. Graft(Without(doc, {p}), q, Part(two, w), Place(doc, two, w))
          = Without(Graft(doc, q, Part(two, w), Place(doc, two, w)), {p})
    BY <1>1, <1>9, <1>13, ClearAndGraftCommute
  <2> QED
    BY <1>6, <1>7, <1>13, <2>1, <2>2
<1>14. CASE laysA /\ clearB
  <2>1. Place(b, one, v) = Place(doc, one, v)
    BY <1>2, <1>10, <1>14, PlaceStays
  <2>2. Graft(Without(doc, {q}), p, Part(one, v), Place(doc, one, v))
          = Without(Graft(doc, p, Part(one, v), Place(doc, one, v)), {q})
    BY <1>1, <1>8, <1>14, ClearAndGraftCommute
  <2> QED
    BY <1>6, <1>7, <1>14, <2>1, <2>2
<1>15. CASE laysA /\ laysB
  <2>1. Place(b, one, v) = Place(doc, one, v)
    BY <1>2, <1>9, <1>15, PlaceStays
  <2>2. Place(a, two, w) = Place(doc, two, w)
    BY <1>2, <1>8, <1>15, PlaceStays
  <2>3. Graft(Graft(doc, q, Part(two, w), Place(doc, two, w)), p, Part(one, v), Place(doc, one, v))
          = Graft(Graft(doc, p, Part(one, v), Place(doc, one, v)),
                  q, Part(two, w), Place(doc, two, w))
    BY <1>1, <1>8, <1>9, <1>15, GraftsCommute
  <2> QED
    BY <1>6, <1>7, <1>15, <2>1, <2>2, <2>3
<1> QED
  BY <1>5, <1>11, <1>12, <1>13, <1>14, <1>15
=============================================================================
