--------------------------- MODULE RefTableProofs ---------------------------
(***************************************************************************)
(* Proofs of the safety properties of RefTable, for every set of keys,     *)
(* values and documents, every page size and every staleness budget.       *)
(*                                                                         *)
(* The properties are not inductive by themselves.  IInv adds where the    *)
(* refresher can be with which flags (ControlInv), what a walk has read so *)
(* far (WalkInv), and that between a change and its callback the number    *)
(* reconcile returned tells whether the consumer is behind (ConsumerInv).  *)
(***************************************************************************)
EXTENDS RefTable, FiniteSetTheorems, TLAPS

(* Where the refresher stands, the bootstrap flags and the message being   *)
(* handled go together.                                                    *)
ControlInv ==
  /\ readyCh => ready
  /\ pc = "setReady" => ~ready
  /\ pc = "recordFailure" => readyCh
  /\ pc = "walk" /\ ready => readyCh
  /\ pc = "swap" /\ ready => readyCh
  /\ pc \in {"idle", "fetch", "apply", "ack", "notify"} => readyCh
  /\ pc \in {"closeReady", "setReady", "failed"} => ~readyCh
  /\ pc \in {"recordSuccess", "count", "closeReady"} => ready
  /\ pc \in {"fetch", "apply", "ack"} => msg # NoRev
  /\ pc \in {"walk", "swap", "setReady", "recordSuccess", "recordFailure", "count",
             "closeReady", "idle", "failed"} => msg = NoRev
  /\ pc = "apply" => ParseRecord(msg) /\ Accepts(msg)

(* The counter of stale tables moves only between unlock and return.       *)
CounterInv ==
  /\ pc # "count" => delta = 0
  /\ counted + delta = (IF stale THEN 1 ELSE 0)
  /\ stale => age > StaleAfter /\ lastErr

(* A document served for a key carries that key.                           *)
KeyInv ==
  \A k \in Keys :
    /\ newest[k] # NoRev => newest[k].key = k
    /\ \A r \in offered[k] : r # NoRev => r.key = k

Read(k) == \E r \in offered[k] : next[k] = ValueOf(r) /\ nextStamps[k] = StampOf(r)

(* A walk has read every key up to its cursor and none beyond it.          *)
WalkInv ==
  \A k \in Keys :
    /\ pc \in {"walk", "swap"} => newest[k] \in offered[k]
    /\ pc = "walk" => IF k <= cursor THEN Read(k) ELSE next[k] = NoValue /\ nextStamps[k] = 0
    /\ pc = "swap" => Read(k)

(* The count reconcile returned tells whether the consumer is behind.      *)
ConsumerInv ==
  /\ readyCh /\ pc \in {"recordSuccess", "count"} => (changed = 0 <=> consumer = data)
  /\ OnChangeMissesNothing
  /\ OnChangeOnlyForEdits

IInv == TypeOK /\ ControlInv /\ CounterInv /\ KeyInv /\ WalkInv /\ StampBelongsToValue /\ ConsumerInv

-----------------------------------------------------------------------------
(* Facts about the operators of the model *)

(* What a document contributes is a value or no value, and an event time.  *)
LEMMA ContributionType ==
  ASSUME NEW r \in Revisions \cup {NoRev}
  PROVE  /\ ValueOf(r) \in Values \cup {NoValue}
         /\ StampOf(r) \in Nat
  BY RecordAssumption DEF ValueOf, StampOf, Installs, Revision

(* A key without a document contributes nothing.                           *)
LEMMA NoRevContributesNothing == ValueOf(NoRev) = NoValue /\ StampOf(NoRev) = 0
  BY DEF ValueOf, StampOf, Installs

(* CountChanges returns a number, which is 0 exactly when the two versions *)
(* of the table are the same.                                              *)
LEMMA CountChangesCounts ==
  ASSUME NEW S, NEW old \in [Keys -> S], NEW new \in [Keys -> S]
  PROVE  /\ CountChanges(old, new) \in Nat
         /\ CountChanges(old, new) = 0 <=> old = new
<1> DEFINE D == {k \in Keys : old[k] # new[k]}
<1>1. IsFiniteSet(D)
  BY TableAssumption, FS_Subset
<1>2. Cardinality(D) \in Nat /\ (Cardinality(D) = 0 <=> D = {})
  BY <1>1, FS_CardinalityType, FS_EmptySet
<1>3. D = {} <=> old = new
  OBVIOUS
<1> QED
  BY <1>2, <1>3 DEF CountChanges

-----------------------------------------------------------------------------
(* Types, control and the counter of stale tables *)

CoreInv == TypeOK /\ ControlInv /\ CounterInv

LEMMA CoreInit == Init => CoreInv
<1> SUFFICES ASSUME Init PROVE CoreInv
  OBVIOUS
<1> USE RecordAssumption, TableAssumption DEF Init
<1>1. TypeOK
  <2>1. newest \in [Keys -> Revisions \cup {NoRev}]
    OBVIOUS
  <2>2. offered \in [Keys -> SUBSET (Revisions \cup {NoRev})]
    BY <2>1
  <2>3. age \in 0 .. PastBudget /\ counted \in 0 .. 1 /\ delta \in -1 .. 1
    BY DEF PastBudget
  <2> QED
    BY <2>1, <2>2, <2>3 DEF TypeOK, PCs, Empty, NoStamps
<1>2. ControlInv
  BY DEF ControlInv
<1>3. CounterInv
  BY DEF CounterInv
<1> QED
  BY <1>1, <1>2, <1>3 DEF CoreInv

(* Each step keeps the types, the control state and the counter in order.  *)
LEMMA CoreStep == CoreInv /\ [Next]_vars => CoreInv'
<1> SUFFICES ASSUME CoreInv, [Next]_vars PROVE CoreInv'
  OBVIOUS
<1> USE RecordAssumption, TableAssumption
    DEF CoreInv, TypeOK, ControlInv, CounterInv, PCs, PastBudget, Empty, NoStamps,
        bridge, walk, table, signals, health, counter
<1>1. CASE Refresh
  BY <1>1 DEF Refresh, BeginWalk
<1>2. CASE ReadPage
  <2>1. TypeOK'
    <3>1. /\ next' \in [Keys -> Values \cup {NoValue}]
          /\ nextStamps' \in [Keys -> Nat]
      BY <1>2, ContributionType DEF ReadPage, TakePage
    <3>2. cursor' \in Nat /\ pages' \in Nat
      BY <1>2 DEF ReadPage, TakePage, Remaining
    <3> QED
      BY <1>2, <3>1, <3>2 DEF ReadPage
  <2>2. ControlInv'
    BY <1>2 DEF ReadPage, TakePage
  <2>3. CounterInv'
    BY <1>2 DEF ReadPage, TakePage
  <2> QED
    BY <2>1, <2>2, <2>3
<1>3. CASE ReadLastPage
  BY <1>3, ContributionType DEF ReadLastPage, TakePage
<1>4. CASE WalkExceedsPages
  BY <1>4 DEF WalkExceedsPages, LeaveWalk, EndWalk
<1>5. CASE WalkTimesOut
  BY <1>5 DEF WalkTimesOut, LeaveWalk, EndWalk
<1>6. CASE Swap
  BY <1>6, CountChangesCounts DEF Swap, EndWalk
<1>7. CASE SetReady
  BY <1>7 DEF SetReady
<1>8. CASE RecordSuccess
  <2>1. TypeOK'
    <3>1. age' \in 0 .. PastBudget /\ counted' \in 0 .. 1 /\ delta' \in -1 .. 1
      BY <1>8 DEF RecordSuccess
    <3> QED
      BY <1>8, <3>1 DEF RecordSuccess
  <2>2. ControlInv'
    BY <1>8 DEF RecordSuccess
  <2>3. CounterInv'
    BY <1>8 DEF RecordSuccess
  <2> QED
    BY <2>1, <2>2, <2>3
<1>9. CASE RecordFailure
  <2>1. TypeOK'
    BY <1>9, SMTT(30) DEF RecordFailure, Crossed
  <2>2. ControlInv'
    BY <1>9 DEF RecordFailure, Crossed
  <2>3. CounterInv'
    <3>1. CASE Crossed
      <4>1. stale' = TRUE /\ stale = FALSE /\ age > StaleAfter
        BY <1>9, <3>1 DEF RecordFailure, Crossed
      <4>2. delta' = 1 /\ delta = 0 /\ lastErr' /\ UNCHANGED <<counted, age>>
        BY <1>9, <3>1 DEF RecordFailure
      <4>3. counted = 0 /\ pc' = "count"
        BY <1>9, <4>1, <4>2 DEF RecordFailure
      <4> QED
        BY <4>1, <4>2, <4>3
    <3>2. CASE ~Crossed
      <4>1. stale' = stale /\ delta' = 0 /\ delta = 0
        BY <1>9, <3>2 DEF RecordFailure
      <4> QED
        BY <1>9, <4>1 DEF RecordFailure
    <3> QED
      BY <3>1, <3>2
  <2> QED
    BY <2>1, <2>2, <2>3
<1>10. CASE MoveCounter
  BY <1>10 DEF MoveCounter
<1>11. CASE CloseReady
  <2>1. TypeOK'
    BY <1>11, SMTT(30) DEF CloseReady
  <2>2. ControlInv'
    BY <1>11 DEF CloseReady
  <2>3. CounterInv'
    BY <1>11 DEF CloseReady
  <2> QED
    BY <2>1, <2>2, <2>3
<1>12. CASE OnChange
  BY <1>12 DEF OnChange
<1>13. CASE FetchReply
  BY <1>13 DEF FetchReply
<1>14. CASE Apply
  BY <1>14 DEF Apply, StampLeft, AppliedValue, Revision
<1>15. CASE Ack
  BY <1>15 DEF Ack
<1>16. CASE Hang
  BY <1>16 DEF Hang
<1>17. CASE WalkFails
  BY <1>17 DEF WalkFails, LeaveWalk, EndWalk
<1>18. CASE FetchFails
  BY <1>18 DEF FetchFails
<1>19. CASE Restart
  <2>1. TypeOK'
    <3>1. offered' \in [Keys -> SUBSET (Revisions \cup {NoRev})]
      BY <1>19 DEF Restart, BeginWalk
    <3>2. age' \in 0 .. PastBudget /\ counted' \in 0 .. 1 /\ delta' \in -1 .. 1
      BY <1>19 DEF Restart
    <3> QED
      BY <1>19, <3>1, <3>2 DEF Restart, BeginWalk
  <2>2. ControlInv'
    BY <1>19 DEF Restart, BeginWalk
  <2>3. CounterInv'
    BY <1>19 DEF Restart, BeginWalk
  <2> QED
    BY <2>1, <2>2, <2>3
<1>20. CASE Tick
  BY <1>20 DEF Tick
<1>21. CASE \E r \in Revisions : Publish(r)
  <2> PICK r \in Revisions : Publish(r)
    BY <1>21
  <2>1. r \in Revision
    OBVIOUS
  <2>2. r.key \in Keys
    BY <2>1 DEF Revision
  <2> QED
    BY <2>2 DEF Publish
<1>22. CASE \E r \in Revisions : TakeNotification(r)
  BY <1>22 DEF TakeNotification
<1>23. CASE \E k \in Keys : Remove(k)
  BY <1>23 DEF Remove
<1>24. CASE UNCHANGED vars
  BY <1>24 DEF vars
<1> QED
  BY <1>1, <1>2, <1>3, <1>4, <1>5, <1>6, <1>7, <1>8, <1>9, <1>10, <1>11, <1>12, <1>13, <1>14, <1>15, <1>16, <1>17, <1>18, <1>19, <1>20, <1>21, <1>22, <1>23, <1>24 DEF Next, Refresher, Disturbance
-----------------------------------------------------------------------------
(* The collection and the walk *)

LEMMA WalkInit == Init => KeyInv /\ WalkInv
  BY RecordAssumption DEF Init, KeyInv, WalkInv, Read, ValueOf, StampOf, Installs, Empty, NoStamps

(* The view of the collection and what a walk was offered stay keyed.      *)
LEMMA KeyStep == TypeOK /\ KeyInv /\ [Next]_vars => KeyInv'
<1> SUFFICES ASSUME TypeOK, KeyInv, [Next]_vars PROVE KeyInv'
  OBVIOUS
<1> USE RecordAssumption
    DEF TypeOK, KeyInv, bridge, walk, table, signals, health, counter
<1>1. CASE Refresh
  BY <1>1 DEF Refresh, BeginWalk
<1>2. CASE ReadPage
  BY <1>2 DEF ReadPage, TakePage
<1>3. CASE ReadLastPage
  BY <1>3 DEF ReadLastPage, TakePage
<1>4. CASE WalkExceedsPages
  BY <1>4 DEF WalkExceedsPages, LeaveWalk, EndWalk
<1>5. CASE WalkTimesOut
  BY <1>5 DEF WalkTimesOut, LeaveWalk, EndWalk
<1>6. CASE Swap
  BY <1>6 DEF Swap, EndWalk
<1>7. CASE SetReady
  BY <1>7 DEF SetReady
<1>8. CASE RecordSuccess
  BY <1>8 DEF RecordSuccess
<1>9. CASE RecordFailure
  BY <1>9 DEF RecordFailure, Crossed
<1>10. CASE MoveCounter
  BY <1>10 DEF MoveCounter
<1>11. CASE CloseReady
  BY <1>11 DEF CloseReady
<1>12. CASE OnChange
  BY <1>12 DEF OnChange
<1>13. CASE FetchReply
  BY <1>13 DEF FetchReply
<1>14. CASE Apply
  BY <1>14 DEF Apply, StampLeft, AppliedValue
<1>15. CASE Ack
  BY <1>15 DEF Ack
<1>16. CASE Hang
  BY <1>16 DEF Hang
<1>17. CASE WalkFails
  BY <1>17 DEF WalkFails, LeaveWalk, EndWalk
<1>18. CASE FetchFails
  BY <1>18 DEF FetchFails
<1>19. CASE Restart
  BY <1>19 DEF Restart, BeginWalk
<1>20. CASE Tick
  BY <1>20 DEF Tick
<1>21. CASE \E r \in Revisions : Publish(r)
  <2> PICK r \in Revisions : Publish(r)
    BY <1>21
  <2>1. r \in Revision /\ r # NoRev
    OBVIOUS
  <2>2. r.key \in Keys
    BY <2>1 DEF Revision
  <2> QED
    BY <2>1, <2>2 DEF Publish
<1>22. CASE \E r \in Revisions : TakeNotification(r)
  BY <1>22 DEF TakeNotification
<1>23. CASE \E k \in Keys : Remove(k)
  <2> PICK k \in Keys : Remove(k)
    BY <1>23
  <2> QED
    BY DEF Remove
<1>24. CASE UNCHANGED vars
  BY <1>24 DEF vars
<1> QED
  BY <1>1, <1>2, <1>3, <1>4, <1>5, <1>6, <1>7, <1>8, <1>9, <1>10, <1>11, <1>12, <1>13, <1>14, <1>15, <1>16, <1>17, <1>18, <1>19, <1>20, <1>21, <1>22, <1>23, <1>24 DEF Next, Refresher, Disturbance

(* Nothing but the pages read so far is in the table a walk builds, and    *)
(* all of it was offered while the walk was going on.                      *)
LEMMA WalkStep == TypeOK /\ WalkInv /\ [Next]_vars => WalkInv'
<1> SUFFICES ASSUME TypeOK, WalkInv, [Next]_vars PROVE WalkInv'
  OBVIOUS
<1> USE RecordAssumption
    DEF TypeOK, WalkInv, Read, bridge, walk, table, signals, health, counter
<1>1. CASE Refresh
  BY <1>1 DEF Refresh, BeginWalk, Empty, NoStamps
<1>2. CASE ReadPage
  <2>1. PICK last \in Remaining : TakePage(PageTo(last)) /\ cursor' = last
    BY <1>2 DEF ReadPage
  <2>2. last \in Keys /\ last > cursor /\ UNCHANGED <<newest, offered>> /\ pc = "walk" /\ pc' = "walk"
    BY <1>2 DEF ReadPage, Remaining
  <2>3. ASSUME NEW k \in Keys, k <= last PROVE Read(k)'
    <3>1. CASE k <= cursor
      BY <2>1, <2>2, <3>1 DEF TakePage, PageTo, Remaining
    <3>2. CASE k > cursor /\ newest[k] # NoRev
      BY <2>1, <2>2, <2>3, <3>2 DEF TakePage, PageTo, Remaining
    <3>3. CASE k > cursor /\ newest[k] = NoRev
      BY <2>1, <2>2, <3>3, NoRevContributesNothing DEF TakePage, PageTo, Remaining
    <3>4. k <= cursor \/ k > cursor
      OBVIOUS
    <3> QED
      BY <3>1, <3>2, <3>3, <3>4
  <2>4. ASSUME NEW k \in Keys, ~(k <= last)
        PROVE  next'[k] = NoValue /\ nextStamps'[k] = 0
    BY <2>1, <2>2, <2>4 DEF TakePage, PageTo
  <2> QED
    BY <2>1, <2>2, <2>3, <2>4
<1>3. CASE ReadLastPage
  <2>1. TakePage(Remaining) /\ UNCHANGED <<newest, offered>> /\ pc = "walk" /\ pc' = "swap"
    BY <1>3 DEF ReadLastPage
  <2>2. ASSUME NEW k \in Keys PROVE Read(k)'
    <3>1. CASE k <= cursor
      BY <2>1, <3>1 DEF TakePage, Remaining
    <3>2. CASE k > cursor /\ newest[k] # NoRev
      BY <2>1, <3>2 DEF TakePage, Remaining
    <3>3. CASE k > cursor /\ newest[k] = NoRev
      BY <2>1, <3>3, NoRevContributesNothing DEF TakePage, Remaining
    <3> QED
      BY <3>1, <3>2, <3>3
  <2> QED
    BY <2>1, <2>2
<1>4. CASE WalkExceedsPages
  BY <1>4 DEF WalkExceedsPages, LeaveWalk, EndWalk
<1>5. CASE WalkTimesOut
  BY <1>5 DEF WalkTimesOut, LeaveWalk, EndWalk
<1>6. CASE Swap
  BY <1>6 DEF Swap, EndWalk
<1>7. CASE SetReady
  BY <1>7 DEF SetReady
<1>8. CASE RecordSuccess
  BY <1>8 DEF RecordSuccess
<1>9. CASE RecordFailure
  BY <1>9 DEF RecordFailure, Crossed
<1>10. CASE MoveCounter
  BY <1>10 DEF MoveCounter
<1>11. CASE CloseReady
  BY <1>11 DEF CloseReady
<1>12. CASE OnChange
  BY <1>12 DEF OnChange
<1>13. CASE FetchReply
  BY <1>13 DEF FetchReply
<1>14. CASE Apply
  BY <1>14 DEF Apply, StampLeft, AppliedValue
<1>15. CASE Ack
  BY <1>15 DEF Ack
<1>16. CASE Hang
  BY <1>16 DEF Hang
<1>17. CASE WalkFails
  BY <1>17 DEF WalkFails, LeaveWalk, EndWalk
<1>18. CASE FetchFails
  BY <1>18 DEF FetchFails
<1>19. CASE Restart
  <2>1. \A k \in Keys : newest'[k] \in offered'[k] /\ k > 0
    BY <1>19 DEF Restart, BeginWalk
  <2> QED
    BY <1>19, <2>1 DEF Restart, BeginWalk, Empty, NoStamps
<1>20. CASE Tick
  BY <1>20 DEF Tick
<1>21. CASE \E r \in Revisions : Publish(r)
  <2> PICK r \in Revisions : Publish(r)
    BY <1>21
  <2>1. r \in Revision /\ r # NoRev
    OBVIOUS
  <2>2. r.key \in Keys
    BY <2>1 DEF Revision
  <2> QED
    BY <2>1, <2>2 DEF Publish
<1>22. CASE \E r \in Revisions : TakeNotification(r)
  BY <1>22 DEF TakeNotification
<1>23. CASE \E k \in Keys : Remove(k)
  <2> PICK k \in Keys : Remove(k)
    BY <1>23
  <2> QED
    BY DEF Remove
<1>24. CASE UNCHANGED vars
  BY <1>24 DEF vars
<1> QED
  BY <1>1, <1>2, <1>3, <1>4, <1>5, <1>6, <1>7, <1>8, <1>9, <1>10, <1>11, <1>12, <1>13, <1>14, <1>15, <1>16, <1>17, <1>18, <1>19, <1>20, <1>21, <1>22, <1>23, <1>24 DEF Next, Refresher, Disturbance

-----------------------------------------------------------------------------
(* Values and their stamps *)

LEMMA StampInit == Init => StampBelongsToValue
  BY DEF Init, StampBelongsToValue, Empty, NoStamps

(* A swap installs what the walk read, and apply one accepted document.    *)
LEMMA StampStep ==
  TypeOK /\ ControlInv /\ KeyInv /\ WalkInv /\ StampBelongsToValue /\ [Next]_vars
    => StampBelongsToValue'
<1> SUFFICES ASSUME TypeOK, ControlInv, KeyInv, WalkInv, StampBelongsToValue, [Next]_vars
             PROVE  StampBelongsToValue'
  OBVIOUS
<1> USE RecordAssumption
    DEF TypeOK, StampBelongsToValue, bridge, walk, table, signals, health, counter
<1>1. CASE Refresh
  BY <1>1 DEF Refresh, BeginWalk
<1>2. CASE ReadPage
  BY <1>2 DEF ReadPage, TakePage
<1>3. CASE ReadLastPage
  BY <1>3 DEF ReadLastPage, TakePage
<1>4. CASE WalkExceedsPages
  BY <1>4 DEF WalkExceedsPages, LeaveWalk, EndWalk
<1>5. CASE WalkTimesOut
  BY <1>5 DEF WalkTimesOut, LeaveWalk, EndWalk
<1>6. CASE Swap
  <2>1. ASSUME NEW k \in Keys
        PROVE  \/ data'[k] = NoValue /\ stamps'[k] = 0
               \/ \E r \in Revisions :
                     /\ r.key = k /\ ParseRecord(r) /\ Accepts(r)
                     /\ stamps'[k] = r.ts /\ data'[k] = AppliedValue(r)
    <3>1. PICK r \in offered[k] : next[k] = ValueOf(r) /\ nextStamps[k] = StampOf(r)
      BY <1>6 DEF Swap, WalkInv, Read
    <3>2. r # NoRev => r \in Revisions /\ r.key = k
      BY DEF KeyInv
    <3> QED
      BY <1>6, <3>1, <3>2 DEF Swap, ValueOf, StampOf, Installs, AppliedValue
  <2> QED
    BY <2>1
<1>7. CASE SetReady
  BY <1>7 DEF SetReady
<1>8. CASE RecordSuccess
  BY <1>8 DEF RecordSuccess
<1>9. CASE RecordFailure
  BY <1>9 DEF RecordFailure, Crossed
<1>10. CASE MoveCounter
  BY <1>10 DEF MoveCounter
<1>11. CASE CloseReady
  BY <1>11 DEF CloseReady
<1>12. CASE OnChange
  BY <1>12 DEF OnChange
<1>13. CASE FetchReply
  BY <1>13 DEF FetchReply
<1>14. CASE Apply
  <2>1. msg \in Revisions /\ msg.key \in Keys /\ ParseRecord(msg) /\ Accepts(msg)
    BY <1>14 DEF Apply, ControlInv, Revision
  <2> QED
    BY <1>14, <2>1 DEF Apply, StampLeft
<1>15. CASE Ack
  BY <1>15 DEF Ack
<1>16. CASE Hang
  BY <1>16 DEF Hang
<1>17. CASE WalkFails
  BY <1>17 DEF WalkFails, LeaveWalk, EndWalk
<1>18. CASE FetchFails
  BY <1>18 DEF FetchFails
<1>19. CASE Restart
  BY <1>19 DEF Restart, Empty, NoStamps
<1>20. CASE Tick
  BY <1>20 DEF Tick
<1>21. CASE \E r \in Revisions : Publish(r)
  BY <1>21 DEF Publish
<1>22. CASE \E r \in Revisions : TakeNotification(r)
  BY <1>22 DEF TakeNotification
<1>23. CASE \E k \in Keys : Remove(k)
  <2> PICK k \in Keys : Remove(k)
    BY <1>23
  <2> QED
    BY DEF Remove
<1>24. CASE UNCHANGED vars
  BY <1>24 DEF vars
<1> QED
  BY <1>1, <1>2, <1>3, <1>4, <1>5, <1>6, <1>7, <1>8, <1>9, <1>10, <1>11, <1>12, <1>13, <1>14, <1>15, <1>16, <1>17, <1>18, <1>19, <1>20, <1>21, <1>22, <1>23, <1>24 DEF Next, Refresher, Disturbance

-----------------------------------------------------------------------------
(* The consumer *)

LEMMA ConsumerInit == Init => ConsumerInv
  BY DEF Init, ConsumerInv, OnChangeMissesNothing, OnChangeOnlyForEdits

(* The consumer falls behind only in Swap and Apply, and both lead to its  *)
(* callback.                                                               *)
LEMMA ConsumerStep ==
  TypeOK /\ ControlInv /\ ConsumerInv /\ [Next]_vars => ConsumerInv'
<1> SUFFICES ASSUME TypeOK, ControlInv, ConsumerInv, [Next]_vars PROVE ConsumerInv'
  OBVIOUS
<1> USE DEF TypeOK, ControlInv, ConsumerInv, OnChangeMissesNothing, OnChangeOnlyForEdits,
        bridge, walk, table, signals, health, counter
<1>1. CASE Refresh
  BY <1>1 DEF Refresh, BeginWalk
<1>2. CASE ReadPage
  BY <1>2 DEF ReadPage, TakePage
<1>3. CASE ReadLastPage
  BY <1>3 DEF ReadLastPage, TakePage
<1>4. CASE WalkExceedsPages
  BY <1>4 DEF WalkExceedsPages, LeaveWalk, EndWalk
<1>5. CASE WalkTimesOut
  BY <1>5 DEF WalkTimesOut, LeaveWalk, EndWalk
<1>6. CASE Swap
  <2>1. changed' \in Nat /\ (changed' = 0 <=> data = next)
    BY <1>6, CountChangesCounts DEF Swap
  <2>2. readyCh => consumer = data
    BY <1>6 DEF Swap
  <2> QED
    BY <1>6, <2>1, <2>2 DEF Swap
<1>7. CASE SetReady
  BY <1>7 DEF SetReady
<1>8. CASE RecordSuccess
  BY <1>8 DEF RecordSuccess
<1>9. CASE RecordFailure
  BY <1>9 DEF RecordFailure, Crossed
<1>10. CASE MoveCounter
  BY <1>10 DEF MoveCounter
<1>11. CASE CloseReady
  BY <1>11 DEF CloseReady
<1>12. CASE OnChange
  BY <1>12 DEF OnChange
<1>13. CASE FetchReply
  BY <1>13 DEF FetchReply
<1>14. CASE Apply
  <2>1. /\ consumer = data /\ readyCh /\ ParseRecord(msg) /\ Accepts(msg)
        /\ msg \in Revisions /\ msg.key \in Keys /\ msg # NoRev
    BY <1>14, RecordAssumption DEF Apply, Revision
  <2>2. /\ UNCHANGED <<msg, consumer, readyCh>> /\ pc' \in {"ack", "notify"}
        /\ pc' = "ack" => UNCHANGED table
        /\ pc' = "notify" => /\ data' = [data EXCEPT ![msg.key] = AppliedValue(msg)]
                             /\ stamps' = [stamps EXCEPT ![msg.key] = msg.ts]
    BY <1>14 DEF Apply, StampLeft
  <2>3. CASE pc' = "ack"
    BY <2>1, <2>2, <2>3
  <2>4. CASE pc' = "notify"
    <3>1. /\ msg' = msg /\ consumer' = consumer /\ readyCh' = readyCh
          /\ data' = [consumer EXCEPT ![msg.key] = AppliedValue(msg)]
          /\ stamps'[msg.key] = msg.ts
      BY <2>1, <2>2, <2>4
    <3>2. /\ AppliedValue(msg)' = AppliedValue(msg)
          /\ ParseRecord(msg)' = ParseRecord(msg) /\ Accepts(msg)' = Accepts(msg)
      BY <3>1 DEF AppliedValue, IsDelete, ParseRecord, Accepts
    <3>3. OnChangeOnlyForEdits'
      BY <2>1, <3>1, <3>2, Zenon DEF OnChangeOnlyForEdits
    <3> QED
      BY <2>4, <3>3
  <2> QED
    BY <2>2, <2>3, <2>4
<1>15. CASE Ack
  BY <1>15 DEF Ack
<1>16. CASE Hang
  BY <1>16 DEF Hang
<1>17. CASE WalkFails
  BY <1>17 DEF WalkFails, LeaveWalk, EndWalk
<1>18. CASE FetchFails
  BY <1>18 DEF FetchFails
<1>19. CASE Restart
  BY <1>19 DEF Restart, BeginWalk
<1>20. CASE Tick
  BY <1>20 DEF Tick
<1>21. CASE \E r \in Revisions : Publish(r)
  BY <1>21 DEF Publish
<1>22. CASE \E r \in Revisions : TakeNotification(r)
  BY <1>22 DEF TakeNotification
<1>23. CASE \E k \in Keys : Remove(k)
  <2> PICK k \in Keys : Remove(k)
    BY <1>23
  <2> QED
    BY DEF Remove
<1>24. CASE UNCHANGED vars
  BY <1>24 DEF vars
<1> QED
  BY <1>1, <1>2, <1>3, <1>4, <1>5, <1>6, <1>7, <1>8, <1>9, <1>10, <1>11, <1>12, <1>13, <1>14, <1>15, <1>16, <1>17, <1>18, <1>19, <1>20, <1>21, <1>22, <1>23, <1>24 DEF Next, Refresher, Disturbance

-----------------------------------------------------------------------------
(* The invariant and the properties *)

THEOREM Invariance == Spec => []IInv
<1>1. Init => IInv
  BY CoreInit, WalkInit, StampInit, ConsumerInit DEF IInv, CoreInv
<1>2. IInv /\ [Next]_vars => IInv'
  BY CoreStep, KeyStep, WalkStep, StampStep, ConsumerStep DEF IInv, CoreInv
<1> QED
  BY <1>1, <1>2, PTL DEF Spec

(* Every variable keeps its type, the counter of stale tables included.    *)
THEOREM TypeCorrect == Spec => []TypeOK
  BY Invariance, PTL DEF IInv

(* Every table that is swapped in is one the collection served, key by     *)
(* key, during the walk that built it.                                     *)
THEOREM SwapsAreRegular == Spec => []SwapIsRegular
<1>1. IInv => SwapIsRegular
  BY DEF IInv, WalkInv, Read, SwapIsRegular
<1> QED
  BY <1>1, Invariance, PTL

(* The value and the event time held for a key are of one document.        *)
THEOREM StampsBelongToValues == Spec => []StampBelongsToValue
  BY Invariance, PTL DEF IInv

(* A consumer that reads the table in each OnChange is never behind it; a  *)
(* sweep calls it only when the table changed, and the queue path only     *)
(* when a document it accepted was put into the table, and nothing else.   *)
THEOREM ConsumerIsNeverBehind == Spec => []OnChangeIsExact
  BY Invariance, PTL DEF IInv, ConsumerInv, OnChangeIsExact

(* reftable_stale counts exactly the tables marked stale, and Health       *)
(* reports each of them.                                                   *)
THEOREM StaleTablesAreCounted == Spec => []StaleIsCounted
<1>1. IInv => StaleIsCounted
  BY TableAssumption DEF IInv, TypeOK, CounterInv, StaleIsCounted, Healthy
<1> QED
  BY <1>1, Invariance, PTL

(* A notification never takes a key back to an earlier event time.         *)
THEOREM NotificationsNeverRegress == Spec => QueueNeverRegresses
<1> DEFINE P == pc = "apply" /\ pc' # "walk" => \A k \in Keys : stamps'[k] >= stamps[k]
<1>1. ASSUME IInv, [Next]_vars PROVE P
  <2> SUFFICES ASSUME pc = "apply", pc' # "walk", NEW k \in Keys
               PROVE  stamps'[k] >= stamps[k]
    OBVIOUS
  <2>1. stamps[k] \in Nat /\ msg.ts \in Nat /\ stamps \in [Keys -> Nat]
    <3>1. msg \in Revision
      BY <1>1, RecordAssumption DEF IInv, TypeOK, ControlInv
    <3> QED
      BY <1>1, <3>1 DEF IInv, TypeOK, Revision
  <2>2. CASE Apply
    BY <2>1, <2>2 DEF Apply, StampLeft, table
  <2>3. CASE UNCHANGED stamps
    BY <2>1, <2>3
  <2>4. Apply \/ UNCHANGED stamps
    BY <1>1 DEF Next, Refresher, Disturbance, Refresh, ReadPage, ReadLastPage,
       WalkExceedsPages, WalkTimesOut, WalkFails, Swap, SetReady, RecordSuccess,
       RecordFailure, MoveCounter, CloseReady, OnChange, FetchReply, FetchFails, Ack,
       Publish, Remove, TakeNotification, Hang, Restart, Tick, vars, table
  <2> QED
    BY <2>2, <2>3, <2>4
<1>2. IInv /\ [Next]_vars => [P]_vars
  BY <1>1
<1> QED
  BY <1>2, Invariance, PTL DEF Spec, QueueNeverRegresses

-----------------------------------------------------------------------------
(* RefTable implements RefView *)

LEMMA ViewInit == Init => View!Init
  BY DEF Init, View!Init, View!Begun, View!Empty, Empty

(* Every step of the refresher and of the collection is one of the view's, *)
(* or does not change it.                                                  *)
LEMMA ViewStep == IInv /\ [Next]_vars => [View!Next]_View!vars
<1> SUFFICES ASSUME IInv, [Next]_vars PROVE View!Next \/ UNCHANGED View!vars
  BY DEF View!vars
<1> USE DEF View!vars, bridge, walk, table, signals, health, counter
<1>1. CASE Refresh \/ Restart
  BY <1>1 DEF Refresh, Restart, BeginWalk, View!Begin, View!Restart, View!Begun, View!Empty,
     Empty, View!Next
<1>2. CASE WalkExceedsPages \/ WalkTimesOut \/ WalkFails
  BY <1>2 DEF WalkExceedsPages, WalkTimesOut, WalkFails, LeaveWalk, EndWalk,
     View!Abandon, View!NothingOffered, View!Next
<1>3. CASE Swap
  <2>1. \A k \in Keys : \E r \in offered[k] : data'[k] = ValueOf(r)
    BY <1>3 DEF Swap, IInv, WalkInv, Read
  <2>2. data' \in [Keys -> Values \cup {NoValue}]
    BY <1>3 DEF Swap, IInv, TypeOK
  <2>3. View!Install
    BY <1>3, <2>1, <2>2 DEF Swap, EndWalk, View!Install, View!NothingOffered,
       ValueOf, Installs, ParseRecord, Accepts, IsDelete,
       View!ValueOf, View!Installs, View!ParseRecord, View!Accepts, View!IsDelete
  <2> QED
    BY <2>3 DEF View!Next
<1>4. CASE Apply
  <2>1. msg \in Revisions /\ msg.key \in Keys /\ ParseRecord(msg) /\ Accepts(msg)
    BY <1>4, RecordAssumption DEF Apply, IInv, TypeOK, ControlInv, Revision
  <2>2. View!Patch(msg.key, msg) \/ UNCHANGED View!vars
    BY <1>4, <2>1 DEF Apply, View!Patch, AppliedValue, ParseRecord, Accepts, IsDelete,
       View!AppliedValue, View!ParseRecord, View!Accepts, View!IsDelete
  <2> QED
    BY <2>1, <2>2 DEF View!Next
<1>5. CASE \E r \in Revisions : Publish(r)
  <2> PICK r \in Revisions : Publish(r)
    BY <1>5
  <2>1. r.key \in Keys
    BY RecordAssumption DEF Revision
  <2>2. View!Change(r.key, r) \/ UNCHANGED View!vars
    BY DEF Publish, View!Change
  <2> QED
    BY <2>1, <2>2 DEF View!Next
<1>6. CASE \E k \in Keys : Remove(k)
  <2> PICK k \in Keys : Remove(k)
    BY <1>6
  <2>1. View!Change(k, NoRev)
    BY DEF Remove, View!Change
  <2> QED
    BY <2>1 DEF View!Next
<1>7. CASE UNCHANGED <<newest, data, offered>>
  BY <1>7
<1>8. \/ Refresh \/ Restart \/ WalkExceedsPages \/ WalkTimesOut \/ WalkFails \/ Swap \/ Apply
      \/ \E r \in Revisions : Publish(r)
      \/ \E k \in Keys : Remove(k)
      \/ UNCHANGED <<newest, data, offered>>
  BY DEF Next, Refresher, Disturbance, ReadPage, ReadLastPage, SetReady, RecordSuccess,
     RecordFailure, MoveCounter, CloseReady, OnChange, FetchReply, FetchFails, Ack,
     TakeNotification, Hang, Tick, vars
<1> QED
  BY <1>1, <1>2, <1>3, <1>4, <1>5, <1>6, <1>7, <1>8

(* The table keeps the promise RefView makes to its readers.               *)
THEOREM TableImplementsView == Spec => ViewSpec
<1>1. Init => View!Init
  BY ViewInit
<1> QED
  BY <1>1, ViewStep, Invariance, PTL DEF Spec, ViewSpec, View!Spec
=============================================================================
