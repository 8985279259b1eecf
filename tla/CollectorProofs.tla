-------------------------- MODULE CollectorProofs --------------------------
(***************************************************************************)
(* What holds of a data collector for any number of senders, inputs and    *)
(* lives of the process: that the raw writer has what the pump took, in    *)
(* order, and that no span leaks into the next collection.                 *)
(*                                                                         *)
(* Order is inductive only for all that is not lost, the input that is     *)
(* being collected included: a request carried out late is of an input     *)
(* that is lost by then, or is the last one taken.                         *)
(***************************************************************************)
EXTENDS Collector, FiniteSetTheorems, TLAPS

(* What a sender waits with is one of its inputs.                          *)
SendingIsCounted == \A s \in sending : sends[s] \in 1 .. MaxSends

(* What was taken is not what a sender waits with, or will send.           *)
TakenIsPast ==
  \A i \in Inputs : Has(taken, i) =>
    /\ i[2] <= sends[i[1]]
    /\ i[1] \in sending => i[2] < sends[i[1]]

InputIsLast ==
  input # NoInput => Len(taken) > 0 /\ taken[Len(taken)] = input

StoredWasTaken == \A i \in Inputs : Has(stored, i) => Has(taken, i)

PostedIsUnderWay ==
  \A i \in posted : i \in lost \cup {input} /\ Has(taken, i) /\ ~Has(stored, i)

InputIsStored ==
  /\ pc \in {"handle", "publish", "waiting"} => ~Has(stored, input)
  /\ pc \in {"handle", "publish"} => input \notin posted
  /\ pc \in {"stored", "end"} => Has(stored, input)

NothingIsSkipped ==
  \A i \in Inputs \ (lost \cup {input}) : Has(taken, i) => Has(stored, i)

StoredInOrder ==
  \A i, j \in Inputs \ lost : Precedes(stored, i, j) => i # j /\ Precedes(taken, i, j)

OneLossPerDeath == IsFiniteSet(lost) /\ Cardinality(lost) <= deaths

Typed == TypeOK /\ SendingIsCounted

IInv ==
  /\ Typed /\ SpansAreClosed
  /\ TakenIsPast /\ InputIsLast /\ StoredWasTaken
  /\ PostedIsUnderWay /\ InputIsStored
  /\ NothingIsSkipped /\ StoredInOrder /\ OneLossPerDeath

-----------------------------------------------------------------------------
(* Sequences of inputs *)

LEMMA AppendHas ==
  ASSUME NEW q \in Seq(Inputs), NEW e \in Inputs, NEW i
  PROVE  Has(Append(q, e), i) <=> Has(q, i) \/ i = e
<1>1. /\ Len(Append(q, e)) = Len(q) + 1 /\ Len(q) \in Nat
      /\ \A n \in 1 .. Len(q) : Append(q, e)[n] = q[n]
      /\ Append(q, e)[Len(q) + 1] = e
  OBVIOUS
<1>2. ASSUME Has(q, i) \/ i = e PROVE Has(Append(q, e), i)
  <2>1. CASE i = e
    BY <1>1, <2>1 DEF Has
  <2>2. CASE Has(q, i)
    <3>1. PICK n \in 1 .. Len(q) : q[n] = i
      BY <2>2 DEF Has
    <3> QED BY <1>1, <3>1 DEF Has
  <2> QED BY <1>2, <2>1, <2>2
<1>3. ASSUME Has(Append(q, e), i) PROVE Has(q, i) \/ i = e
  <2>1. PICK n \in 1 .. Len(q) + 1 : Append(q, e)[n] = i
    BY <1>1, <1>3 DEF Has
  <2>2. CASE n = Len(q) + 1
    BY <1>1, <2>1, <2>2
  <2>3. CASE n \in 1 .. Len(q)
    BY <1>1, <2>1, <2>3 DEF Has
  <2> QED BY <1>1, <2>2, <2>3
<1> QED BY <1>2, <1>3

LEMMA AppendPrecedes ==
  ASSUME NEW q \in Seq(Inputs), NEW e \in Inputs, NEW i, NEW j
  PROVE  Precedes(Append(q, e), i, j) <=> Precedes(q, i, j) \/ (Has(q, i) /\ j = e)
<1>1. /\ Len(Append(q, e)) = Len(q) + 1 /\ Len(q) \in Nat
      /\ \A n \in 1 .. Len(q) : Append(q, e)[n] = q[n]
      /\ Append(q, e)[Len(q) + 1] = e
  OBVIOUS
<1>2. ASSUME Precedes(q, i, j) PROVE Precedes(Append(q, e), i, j)
  <2>1. PICK m, n \in 1 .. Len(q) : m < n /\ q[m] = i /\ q[n] = j
    BY <1>2 DEF Precedes
  <2>2. m \in 1 .. Len(q) + 1 /\ n \in 1 .. Len(q) + 1
    BY <1>1
  <2> QED BY <1>1, <2>1, <2>2 DEF Precedes
<1>3. ASSUME Has(q, i), j = e PROVE Precedes(Append(q, e), i, j)
  <2>1. PICK m \in 1 .. Len(q) : q[m] = i
    BY <1>3 DEF Has
  <2>2. /\ m \in 1 .. Len(q) + 1 /\ Len(q) + 1 \in 1 .. Len(q) + 1
        /\ m < Len(q) + 1
    BY <1>1
  <2> QED BY <1>1, <1>3, <2>1, <2>2 DEF Precedes
<1>4. ASSUME Precedes(Append(q, e), i, j) PROVE Precedes(q, i, j) \/ (Has(q, i) /\ j = e)
  <2>1. PICK m, n \in 1 .. Len(q) + 1 :
          m < n /\ Append(q, e)[m] = i /\ Append(q, e)[n] = j
    BY <1>1, <1>4 DEF Precedes
  <2>2. m \in 1 .. Len(q) /\ q[m] = i
    BY <1>1, <2>1
  <2>3. CASE n = Len(q) + 1
    BY <1>1, <2>1, <2>2, <2>3 DEF Has
  <2>4. CASE n \in 1 .. Len(q)
    BY <1>1, <2>1, <2>2, <2>4 DEF Precedes
  <2> QED BY <1>1, <2>3, <2>4
<1> QED BY <1>2, <1>3, <1>4

LEMMA LastIsAfter ==
  ASSUME NEW q \in Seq(Inputs), NEW i, NEW j, Has(q, i), i # j, Len(q) > 0, q[Len(q)] = j
  PROVE  Precedes(q, i, j)
<1>1. PICK m \in 1 .. Len(q) : q[m] = i
  BY DEF Has
<1>2. Len(q) \in Nat /\ m # Len(q)
  BY <1>1
<1>3. Len(q) \in 1 .. Len(q) /\ m < Len(q)
  BY <1>2
<1> QED BY <1>1, <1>3 DEF Precedes

LEMMA LastIsIn ==
  ASSUME NEW q \in Seq(Inputs), NEW j, Len(q) > 0, q[Len(q)] = j
  PROVE  Has(q, j)
<1>1. Len(q) \in 1 .. Len(q)
  OBVIOUS
<1> QED BY <1>1 DEF Has

LEMMA InputParts ==
  /\ NoInput \notin Inputs
  /\ \A i \in Inputs : i[1] \in Senders /\ i[2] \in 1 .. MaxSends
  /\ \A i \in Inputs : i = <<i[1], i[2]>>
BY CollectorAssumption DEF Inputs

-----------------------------------------------------------------------------
(* Type correctness *)

LEMMA InitTypes == ASSUME Init PROVE Typed
<1>1. MaxSends \in Nat
  BY CollectorAssumption
<1>2. /\ pc = "receive" /\ input = NoInput /\ channel = "open" /\ sending = {}
      /\ open = {} /\ pending = {}
      /\ sends = [s \in Senders |-> 0]
      /\ posted = {} /\ stored = <<>> /\ taken = <<>> /\ lost = {} /\ deaths = 0
  BY DEF Init, Fresh
<1>3. sends \in [Senders -> 0 .. MaxSends]
  BY <1>1, <1>2
<1>4. stored \in Seq(Inputs) /\ taken \in Seq(Inputs)
  BY <1>2
<1> QED BY <1>2, <1>3, <1>4 DEF Typed, TypeOK, SendingIsCounted

LEMMA EndTypes ==
  ASSUME TypeOK, NEW ended, End(ended)
  PROVE  /\ open' \subseteq Inputs \X {"trigger", "collect"}
         /\ pending' \subseteq Inputs \X {"trigger", "collect"}
BY DEF TypeOK, End

LEMMA StepTypes == ASSUME Typed, [Next]_vars PROVE Typed'
<1>0. TypeOK /\ SendingIsCounted /\ MaxSends \in Nat
  BY CollectorAssumption DEF Typed
<1>1. ASSUME NEW s \in Senders, Receive(s) PROVE Typed'
  <2> DEFINE i == <<s, sends[s]>>
  <2>1. sends[s] \in 1 .. MaxSends
    BY <1>0, <1>1 DEF Receive, SendingIsCounted
  <2>2. i \in Inputs
    BY <2>1 DEF Inputs
  <2>3. i # NoInput
    BY <2>2, InputParts
  <2>4. Started(i) \subseteq Inputs \X {"trigger", "collect"}
    BY <2>2 DEF Started
  <2>5. Append(taken, i) \in Seq(Inputs)
    BY <1>0, <2>2 DEF TypeOK
  <2> HIDE DEF i
  <2>6. /\ input' = i /\ taken' = Append(taken, i) /\ open' = open \cup Started(i)
        /\ pc' = "handle" /\ sending' = sending \ {s}
        /\ UNCHANGED <<channel, sends, pending, posted, stored, lost, deaths>>
    BY <1>1 DEF Receive, i
  <2>7. TypeOK'
    BY <1>0, <2>2, <2>3, <2>4, <2>5, <2>6 DEF TypeOK
  <2> QED BY <1>0, <2>6, <2>7 DEF Typed, SendingIsCounted
<1>2. CASE Handled
  BY <1>0, <1>2 DEF Typed, TypeOK, SendingIsCounted, Handled, spans
<1>3. CASE Post
  <2>1. input \in Inputs
    BY <1>0, <1>3 DEF Post, TypeOK
  <2> QED BY <1>0, <1>3, <2>1 DEF Typed, TypeOK, SendingIsCounted, Post, spans
<1>4. CASE Published
  BY <1>0, <1>4 DEF Typed, TypeOK, SendingIsCounted, Published, spans
<1>5. CASE Collected
  BY <1>0, <1>5, EndTypes DEF Typed, TypeOK, SendingIsCounted, Collected
<1>6. CASE CollectFails \/ PostFails
  <2>1. pc' = "unwind" /\ posted' \subseteq posted /\ input # NoInput
        /\ UNCHANGED <<input, channel, sending, sends, stored, taken, lost, deaths>>
    BY <1>0, <1>6 DEF CollectFails, PostFails, FailOnError, AfterError, TypeOK
  <2>2. /\ open' \subseteq Inputs \X {"trigger", "collect"}
        /\ pending' \subseteq Inputs \X {"trigger", "collect"}
    BY <1>0, <1>6, EndTypes DEF CollectFails, PostFails, FailOnError
  <2> QED BY <1>0, <2>1, <2>2 DEF Typed, TypeOK, SendingIsCounted
<1>7. CASE NilData
  BY <1>0, <1>7 DEF Typed, TypeOK, SendingIsCounted, NilData, spans
<1>8. CASE RangeEnds
  BY <1>0, <1>8 DEF Typed, TypeOK, SendingIsCounted, RangeEnds, spans
<1>9. CASE DeferredClose
  BY <1>0, <1>9 DEF Typed, TypeOK, SendingIsCounted, DeferredClose, spans
<1>10. CASE Crash \/ Terminate
  <2>1. ProcessEnds
    BY <1>10 DEF Crash, Terminate
  <2>2. lost' \subseteq Inputs
    BY <1>0, <2>1 DEF ProcessEnds, TypeOK
  <2> QED BY <1>0, <2>1, <2>2 DEF ProcessEnds, Typed, TypeOK, SendingIsCounted
<1>11. ASSUME NEW s \in Senders, Send(s) PROVE Typed'
  <2>1. sends[s] \in 0 .. MaxSends /\ sends[s] < MaxSends
    BY <1>0, <1>11 DEF Send, TypeOK
  <2>2. sends[s] + 1 \in 0 .. MaxSends /\ sends[s] + 1 \in 1 .. MaxSends
    BY <1>0, <2>1
  <2>3. sends' \in [Senders -> 0 .. MaxSends]
    BY <1>0, <1>11, <2>2 DEF Send, TypeOK
  <2>4. SendingIsCounted'
    BY <1>0, <1>11, <2>2 DEF Send, TypeOK, SendingIsCounted
  <2> QED BY <1>0, <1>11, <2>3, <2>4 DEF Typed, TypeOK, Send, pump, spans
<1>12. ASSUME NEW i \in Inputs, Store(i) PROVE Typed'
  <2>1. Append(stored, i) \in Seq(Inputs)
    BY <1>0 DEF TypeOK
  <2>2. pc' = pc \/ (pc = "waiting" /\ pc' = "stored")
    BY <1>12 DEF Store
  <2> QED BY <1>0, <1>12, <2>1, <2>2 DEF Typed, TypeOK, SendingIsCounted, Store, spans
<1>13. CASE CloseInput
  BY <1>0, <1>13 DEF Typed, TypeOK, SendingIsCounted, CloseInput, pump, spans
<1>14. CASE Restart
  BY <1>0, <1>14 DEF Typed, TypeOK, SendingIsCounted, Restart, spans
<1>15. CASE Export
  BY <1>0, <1>15 DEF Typed, TypeOK, SendingIsCounted, Export, pump
<1>16. CASE UNCHANGED vars
  BY <1>0, <1>16 DEF Typed, TypeOK, SendingIsCounted, vars, pump, spans
<1> QED
  BY <1>1, <1>2, <1>3, <1>4, <1>5, <1>6, <1>7, <1>8, <1>9, <1>10, <1>11, <1>12,
     <1>13, <1>14, <1>15, <1>16 DEF Next, PumpStep

(* Every reachable state is well typed.                                    *)
THEOREM TypeCorrect == Spec => []TypeOK
<1>1. Typed => TypeOK
  BY DEF Typed
<1> QED BY <1>1, InitTypes, StepTypes, PTL DEF Spec

-----------------------------------------------------------------------------
(* The invariant *)

LEMMA InvInit == ASSUME Init PROVE IInv
<1>1. Typed
  BY InitTypes
<1>2. /\ pc = "receive" /\ input = NoInput /\ open = {} /\ sending = {}
      /\ posted = {} /\ stored = <<>> /\ taken = <<>> /\ lost = {} /\ deaths = 0
  BY DEF Init, Fresh
<1>3. \A i, j : ~Has(stored, i) /\ ~Has(taken, i) /\ ~Precedes(stored, i, j)
  BY <1>2 DEF Has, Precedes
<1>4. OneLossPerDeath
  BY <1>2, FS_EmptySet DEF OneLossPerDeath
<1> QED
  BY <1>1, <1>2, <1>3, <1>4
  DEF IInv, SpansAreClosed, TakenIsPast, InputIsLast, StoredWasTaken, PostedIsUnderWay,
      InputIsStored, NothingIsSkipped, StoredInOrder

LEMMA ReceiveInv ==
  ASSUME IInv, NEW s \in Senders, Receive(s), Typed' PROVE IInv'
<1> DEFINE i == <<s, sends[s]>>
<1>0. /\ TypeOK /\ pc = "receive" /\ input = NoInput /\ s \in sending
      /\ sends[s] \in 1 .. MaxSends /\ MaxSends \in Nat
  BY CollectorAssumption DEF IInv, Typed, TypeOK, SendingIsCounted, Receive
<1>1. i \in Inputs /\ i # NoInput /\ i[1] = s /\ i[2] = sends[s]
  BY <1>0, InputParts DEF Inputs
<1>2. ~Has(taken, i)
  BY <1>0, <1>1 DEF IInv, TakenIsPast
<1>3. open = {}
  BY <1>0, InputParts DEF IInv, SpansAreClosed, TypeOK
<1>4. Started(i) \subseteq {i} \X {"trigger", "collect"}
  BY DEF Started
<1> HIDE DEF i
<1>5. /\ input' = i /\ taken' = Append(taken, i) /\ open' = open \cup Started(i)
      /\ pc' = "handle" /\ sending' = sending \ {s}
      /\ UNCHANGED <<channel, sends, pending, posted, stored, lost, deaths>>
  BY DEF Receive, i
<1>6. \A j : Has(taken', j) <=> Has(taken, j) \/ j = i
  BY <1>0, <1>1, <1>5, AppendHas DEF TypeOK
<1>7. \A j, k : Precedes(taken', j, k) <=> Precedes(taken, j, k) \/ (Has(taken, j) /\ k = i)
  BY <1>0, <1>1, <1>5, AppendPrecedes DEF TypeOK
<1>8. SpansAreClosed'
  BY <1>3, <1>4, <1>5 DEF SpansAreClosed
<1>9. TakenIsPast'
  <2> SUFFICES ASSUME NEW j \in Inputs, Has(taken', j)
               PROVE  j[2] <= sends[j[1]] /\ (j[1] \in sending' => j[2] < sends[j[1]])
    BY <1>5 DEF TakenIsPast
  <2>1. CASE j = i
    BY <1>0, <1>1, <1>5, <2>1
  <2>2. CASE Has(taken, j)
    BY <1>5, <2>2 DEF IInv, TakenIsPast
  <2> QED BY <1>6, <2>1, <2>2
<1>10. InputIsLast'
  <2>1. taken \in Seq(Inputs)
    BY <1>0 DEF TypeOK
  <2>2. Len(Append(taken, i)) > 0 /\ Append(taken, i)[Len(Append(taken, i))] = i
    BY <1>1, <2>1
  <2> QED BY <1>5, <2>2 DEF InputIsLast
<1>11. StoredWasTaken'
  BY <1>5, <1>6 DEF IInv, StoredWasTaken
<1>12. PostedIsUnderWay'
  <2> SUFFICES ASSUME NEW j \in posted
               PROVE  j \in lost \cup {i} /\ Has(taken', j) /\ ~Has(stored, j)
    BY <1>5 DEF PostedIsUnderWay
  <2>1. j \in Inputs
    BY <1>0 DEF TypeOK
  <2> QED BY <1>0, <1>6, <2>1, InputParts DEF IInv, PostedIsUnderWay
<1>13. InputIsStored'
  <2>1. ~Has(stored, i)
    BY <1>1, <1>2 DEF IInv, StoredWasTaken
  <2>2. i \notin posted
    BY <1>2 DEF IInv, PostedIsUnderWay
  <2> QED BY <1>5, <2>1, <2>2 DEF InputIsStored
<1>14. NothingIsSkipped'
  BY <1>0, <1>5, <1>6, InputParts DEF IInv, NothingIsSkipped
<1>15. StoredInOrder'
  BY <1>5, <1>7 DEF IInv, StoredInOrder
<1>16. OneLossPerDeath'
  BY <1>5 DEF IInv, OneLossPerDeath
<1> QED
  BY <1>8, <1>9, <1>10, <1>11, <1>12, <1>13, <1>14, <1>15, <1>16 DEF IInv

LEMMA PostInv == ASSUME IInv, Post, Typed' PROVE IInv'
<1>0. /\ TypeOK /\ pc = "publish" /\ pc' = "waiting" /\ posted' = posted \cup {input}
      /\ input \in Inputs
      /\ UNCHANGED <<input, channel, sending, sends, open, pending, stored, taken, lost, deaths>>
  BY DEF IInv, Typed, TypeOK, Post, spans
<1>1. Has(taken, input) /\ ~Has(stored, input)
  <2>1. Len(taken) > 0 /\ taken[Len(taken)] = input
    BY <1>0, InputParts DEF IInv, InputIsLast
  <2> QED BY <1>0, <2>1, LastIsIn DEF IInv, InputIsStored, TypeOK
<1>2. PostedIsUnderWay'
  BY <1>0, <1>1 DEF IInv, PostedIsUnderWay
<1>3. InputIsStored'
  BY <1>0, <1>1 DEF InputIsStored
<1> QED
  BY <1>0, <1>2, <1>3
  DEF IInv, SpansAreClosed, TakenIsPast, InputIsLast, StoredWasTaken, NothingIsSkipped,
      StoredInOrder, OneLossPerDeath

LEMMA StoreInv ==
  ASSUME IInv, NEW i \in Inputs, Store(i), Typed' PROVE IInv'
<1>0. /\ TypeOK /\ i \in posted /\ posted' = posted \ {i} /\ stored' = Append(stored, i)
      /\ pc' = IF pc = "waiting" /\ input = i THEN "stored" ELSE pc
      /\ UNCHANGED <<input, channel, sending, sends, open, pending, taken, lost, deaths>>
  BY DEF IInv, Typed, Store, spans
<1>1. \A j : Has(stored', j) <=> Has(stored, j) \/ j = i
  BY <1>0, AppendHas DEF TypeOK
<1>2. \A j, k : Precedes(stored', j, k) <=> Precedes(stored, j, k) \/ (Has(stored, j) /\ k = i)
  BY <1>0, AppendPrecedes DEF TypeOK
<1>3. i \in lost \cup {input} /\ Has(taken, i) /\ ~Has(stored, i)
  BY <1>0 DEF IInv, PostedIsUnderWay
<1>4. StoredWasTaken'
  BY <1>0, <1>1, <1>3 DEF IInv, StoredWasTaken
<1>5. PostedIsUnderWay'
  BY <1>0, <1>1 DEF IInv, PostedIsUnderWay
<1>6. InputIsStored'
  <2>1. CASE pc = "waiting" /\ input = i
    BY <1>0, <1>1, <2>1 DEF InputIsStored
  <2>2. CASE ~(pc = "waiting" /\ input = i)
    BY <1>0, <1>1, <2>2 DEF IInv, InputIsStored
  <2> QED BY <2>1, <2>2
<1>7. NothingIsSkipped'
  BY <1>0, <1>1 DEF IInv, NothingIsSkipped
<1>8. StoredInOrder'
  <2> SUFFICES ASSUME NEW j \in Inputs \ lost, NEW k \in Inputs \ lost, Precedes(stored', j, k)
               PROVE  j # k /\ Precedes(taken, j, k)
    BY <1>0 DEF StoredInOrder
  <2>1. CASE Precedes(stored, j, k)
    BY <2>1 DEF IInv, StoredInOrder
  <2>2. CASE Has(stored, j) /\ k = i
    <3>1. j # k
      BY <1>3, <2>2
    <3>2. Has(taken, j)
      BY <2>2 DEF IInv, StoredWasTaken
    <3>3. k = input
      BY <1>3, <2>2
    <3>4. Len(taken) > 0 /\ taken[Len(taken)] = k
      BY <3>3, InputParts DEF IInv, InputIsLast
    <3>5. taken \in Seq(Inputs)
      BY <1>0 DEF TypeOK
    <3> QED BY <3>1, <3>2, <3>4, <3>5, LastIsAfter
  <2> QED BY <1>2, <2>1, <2>2
<1> QED
  BY <1>0, <1>4, <1>5, <1>6, <1>7, <1>8
  DEF IInv, SpansAreClosed, TakenIsPast, InputIsLast, OneLossPerDeath

LEMMA CollectedInv == ASSUME IInv, Collected, Typed' PROVE IInv'
<1>0. /\ TypeOK /\ pc = "end" /\ pc' = "receive" /\ input' = NoInput /\ input \in Inputs
      /\ open' = open \ ({input} \X {"trigger", "collect"})
      /\ UNCHANGED <<channel, sending, sends, posted, stored, taken, lost, deaths>>
  BY DEF IInv, Typed, TypeOK, Collected, End, Ended
<1>1. Has(stored, input)
  BY <1>0 DEF IInv, InputIsStored
<1>2. SpansAreClosed'
  BY <1>0 DEF IInv, SpansAreClosed
<1>3. InputIsLast'
  BY <1>0 DEF InputIsLast
<1>4. PostedIsUnderWay'
  BY <1>0, <1>1 DEF IInv, PostedIsUnderWay
<1>5. InputIsStored'
  BY <1>0 DEF InputIsStored
<1>6. NothingIsSkipped'
  BY <1>0, <1>1 DEF IInv, NothingIsSkipped
<1> QED
  BY <1>0, <1>2, <1>3, <1>4, <1>5, <1>6
  DEF IInv, TakenIsPast, StoredWasTaken, StoredInOrder, OneLossPerDeath

LEMMA EndsInv == ASSUME IInv, ProcessEnds, Typed' PROVE IInv'
<1>0. /\ TypeOK /\ pc' = "down" /\ input' = NoInput /\ sending' = {} /\ open' = {}
      /\ lost' = IF input = NoInput THEN lost ELSE lost \cup {input}
      /\ deaths' = deaths + 1 /\ deaths \in Nat
      /\ UNCHANGED <<sends, posted, stored, taken>>
  BY DEF IInv, Typed, TypeOK, ProcessEnds
<1>1. lost \cup {input} \subseteq lost' \cup {input'} /\ lost \subseteq lost'
  BY <1>0
<1>2. SpansAreClosed' /\ InputIsLast' /\ InputIsStored'
  BY <1>0 DEF SpansAreClosed, InputIsLast, InputIsStored
<1>3. TakenIsPast'
  BY <1>0 DEF IInv, TakenIsPast
<1>4. PostedIsUnderWay'
  BY <1>0, <1>1 DEF IInv, PostedIsUnderWay
<1>5. NothingIsSkipped'
  BY <1>0, <1>1 DEF IInv, NothingIsSkipped
<1>6. StoredInOrder'
  BY <1>0, <1>1 DEF IInv, StoredInOrder
<1>7. OneLossPerDeath'
  <2>1. IsFiniteSet(lost) /\ Cardinality(lost) <= deaths /\ Cardinality(lost) \in Nat
    BY FS_CardinalityType DEF IInv, OneLossPerDeath
  <2>2. CASE input = NoInput \/ input \in lost
    <3>1. lost' = lost
      BY <1>0, <2>2
    <3> QED BY <1>0, <2>1, <3>1 DEF OneLossPerDeath
  <2>3. CASE input # NoInput /\ input \notin lost
    <3>1. lost' = lost \cup {input}
      BY <1>0, <2>3
    <3>2. IsFiniteSet(lost') /\ Cardinality(lost') = Cardinality(lost) + 1
      BY <2>1, <2>3, <3>1, FS_AddElement
    <3> QED BY <1>0, <2>1, <3>2 DEF OneLossPerDeath
  <2> QED BY <2>2, <2>3
<1> QED
  BY <1>0, <1>2, <1>3, <1>4, <1>5, <1>6, <1>7 DEF IInv, StoredWasTaken

LEMMA SendInv == ASSUME IInv, NEW s \in Senders, Send(s), Typed' PROVE IInv'
<1>0. /\ TypeOK /\ s \notin sending /\ sending' = sending \cup {s}
      /\ sends \in [Senders -> 0 .. MaxSends]
      /\ sends' = [sends EXCEPT ![s] = @ + 1] /\ MaxSends \in Nat
      /\ UNCHANGED <<pc, input, open, posted, stored, taken, lost, deaths>>
  BY CollectorAssumption DEF IInv, Typed, TypeOK, Send, pump, spans
<1>1. TakenIsPast'
  <2> SUFFICES ASSUME NEW j \in Inputs, Has(taken, j)
               PROVE  j[2] <= sends'[j[1]] /\ (j[1] \in sending' => j[2] < sends'[j[1]])
    BY <1>0 DEF TakenIsPast
  <2>1. j[1] \in Senders /\ j[2] \in 1 .. MaxSends
    BY InputParts
  <2>2. j[2] <= sends[j[1]] /\ (j[1] \in sending => j[2] < sends[j[1]])
    BY DEF IInv, TakenIsPast
  <2>3. CASE j[1] = s
    <3>1. sends'[s] = sends[s] + 1 /\ sends[s] \in Nat
      BY <1>0
    <3> QED BY <1>0, <2>1, <2>2, <2>3, <3>1
  <2>4. CASE j[1] # s
    <3>1. sends'[j[1]] = sends[j[1]]
      BY <1>0, <2>1, <2>4
    <3> QED BY <1>0, <2>2, <2>4, <3>1
  <2> QED BY <2>3, <2>4
<1> QED
  BY <1>0, <1>1
  DEF IInv, SpansAreClosed, InputIsLast, StoredWasTaken, PostedIsUnderWay, InputIsStored,
      NothingIsSkipped, StoredInOrder, OneLossPerDeath

(* The other steps of the pump: a collection goes on, or goes wrong.       *)
LEMMA QuietInv ==
  ASSUME IInv, Typed', open' \subseteq open, posted' \subseteq posted,
         UNCHANGED <<sending, sends, stored, taken, lost, deaths>>, input' = input,
         \/ pc' = pc
         \/ pc' = "publish" /\ pc = "handle"
         \/ pc' = "end" /\ pc = "stored"
         \/ pc' \in {"receive", "unwind", "return", "returned", "crash"}
  PROVE  IInv'
<1>1. SpansAreClosed'
  BY DEF IInv, SpansAreClosed
<1>2. TakenIsPast' /\ InputIsLast' /\ StoredWasTaken' /\ OneLossPerDeath'
  BY DEF IInv, TakenIsPast, InputIsLast, StoredWasTaken, OneLossPerDeath
<1>3. PostedIsUnderWay'
  BY DEF IInv, PostedIsUnderWay
<1>4. InputIsStored'
  BY DEF IInv, InputIsStored
<1>5. NothingIsSkipped' /\ StoredInOrder'
  BY DEF IInv, NothingIsSkipped, StoredInOrder
<1> QED BY <1>1, <1>2, <1>3, <1>4, <1>5 DEF IInv

LEMMA InvNext == ASSUME IInv, [Next]_vars PROVE IInv'
<1>0. Typed'
  BY StepTypes DEF IInv
<1>1. ASSUME NEW s \in Senders, Receive(s) PROVE IInv'
  BY <1>0, <1>1, ReceiveInv
<1>2. CASE Handled
  BY <1>0, <1>2, QuietInv DEF Handled, spans
<1>3. CASE Post
  BY <1>0, <1>3, PostInv
<1>4. CASE Published
  BY <1>0, <1>4, QuietInv DEF Published, spans
<1>5. CASE Collected
  BY <1>0, <1>5, CollectedInv
<1>6. CASE CollectFails \/ PostFails
  <2>1. /\ pc' = "unwind" /\ posted' \subseteq posted /\ open' \subseteq open
        /\ UNCHANGED <<input, sending, sends, stored, taken, lost, deaths>>
    BY <1>6 DEF CollectFails, PostFails, FailOnError, AfterError, End
  <2> QED BY <1>0, <2>1, QuietInv
<1>7. CASE NilData
  BY <1>0, <1>7, QuietInv DEF NilData, spans
<1>8. CASE RangeEnds
  BY <1>0, <1>8, QuietInv DEF RangeEnds, spans
<1>9. CASE DeferredClose
  BY <1>0, <1>9, QuietInv DEF DeferredClose, spans
<1>10. CASE Crash \/ Terminate
  BY <1>0, <1>10, EndsInv DEF Crash, Terminate
<1>11. ASSUME NEW s \in Senders, Send(s) PROVE IInv'
  BY <1>0, <1>11, SendInv
<1>12. ASSUME NEW i \in Inputs, Store(i) PROVE IInv'
  BY <1>0, <1>12, StoreInv
<1>13. CASE CloseInput
  BY <1>0, <1>13, QuietInv DEF CloseInput, pump, spans
<1>14. CASE Restart
  <2>1. input' = input /\ pc' = "receive"
    BY <1>14 DEF Restart
  <2> QED BY <1>0, <1>14, <2>1, QuietInv DEF Restart, spans
<1>15. CASE Export
  BY <1>0, <1>15, QuietInv DEF Export, pump
<1>16. CASE UNCHANGED vars
  BY <1>0, <1>16, QuietInv DEF vars, pump, spans
<1> QED
  BY <1>1, <1>2, <1>3, <1>4, <1>5, <1>6, <1>7, <1>8, <1>9, <1>10, <1>11, <1>12,
     <1>13, <1>14, <1>15, <1>16 DEF Next, PumpStep

LEMMA InvCollected == ASSUME IInv PROVE CollectedInOrder /\ SpansAreClosed
BY DEF IInv, CollectedInOrder, NothingIsSkipped, StoredInOrder, OneLossPerDeath

(* Whatever fails, and however often the process comes down, the raw       *)
(* writer has what the pump took, once and in order, but for the input     *)
(* being collected and one for each death.                                 *)
THEOREM PumpLosesOneInputPerDeath == Spec => []CollectedInOrder
<1> QED BY InvInit, InvNext, InvCollected, PTL DEF Spec

(* No span of a collection is open when the next one begins.               *)
THEOREM SpansDoNotLeak == Spec => []SpansAreClosed
<1> QED BY InvInit, InvNext, InvCollected, PTL DEF Spec
=============================================================================
