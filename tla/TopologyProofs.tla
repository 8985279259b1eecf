--------------------------- MODULE TopologyProofs ---------------------------
(***************************************************************************)
(* What holds of services on one broker, however many there are, whatever  *)
(* they ask for and whoever dies: that the declarations of a service that  *)
(* has been up stand, with all they refer to, and that it then misses no   *)
(* message it is bound to; and that no message the broker has taken is     *)
(* ever forgotten in a queue it went to.                                   *)
(*                                                                         *)
(* The invariant follows a service through its declarations: what it has   *)
(* asked for so far stands.  It is kept since no step takes a declaration  *)
(* back (Keeps), and gives the references because Order puts what is       *)
(* referred to first.                                                      *)
(***************************************************************************)
EXTENDS Topology, TLAPS

Asked(s, k) == k \in 1 .. 5 /\ Asks(Options[s], Order[k])
Made(s, k)  == Declaration(Options[s], Order[k])

ExchangeDeclarations ==
  [kind : {"exchange"}, name : Exchanges, type : Types, to : Exchanges \cup {None}]
QueueDeclarations ==
  [kind : {"queue"}, name : Queues, type : {"none"}, to : Exchanges \cup {None}]
BindDeclarations ==
  [kind : {"bind"}, name : Queues, type : STRING, to : Exchanges]
Declarations == ExchangeDeclarations \cup QueueDeclarations \cup BindDeclarations

BindingsExist == \A b \in bindings : exchanges[b.from] # None

MadeSoFar ==
  \A s \in Services : state[s] = "starting" =>
    /\ step[s] \in 1 .. 6
    /\ \A k \in 1 .. 5 : k < step[s] /\ Asked(s, k) => Stands(Made(s, k))

MadeByAllUp == \A s \in wasUp : \A k \in 1 .. 5 : Asked(s, k) => Stands(Made(s, k))

IInv == TypeOK /\ ReferencesExist /\ BindingsExist /\ MadeSoFar /\ MadeByAllUp

(* No declaration is taken back or changed.                                *)
Keeps ==
  /\ \A x \in Exchanges : exchanges[x] # None => exchanges'[x] = exchanges[x]
  /\ \A q \in Queues : queues[q] # None => queues'[q] = queues[q]
  /\ bindings \subseteq bindings'

-----------------------------------------------------------------------------
LEMMA OrderIs ==
  /\ DOMAIN Order = 1 .. 5
  /\ Order[1] = "alternate" /\ Order[2] = "deadLetter" /\ Order[3] = "exchange"
  /\ Order[4] = "queue" /\ Order[5] = "bind"
BY DEF Order

LEMMA OptionFields ==
  ASSUME NEW s \in Services
  PROVE  /\ Options[s].exchange \in Exchanges \cup {None} /\ Options[s].type \in Types
         /\ Options[s].alternate \in Exchanges \cup {None}
         /\ Options[s].alternateType \in Types \cup {""}
         /\ Options[s].deadLetter \in Exchanges \cup {None}
         /\ Options[s].deadLetterType \in Types \cup {""}
         /\ Options[s].queue \in Queues \cup {None}
         /\ Options[s].bind \in Exchanges \cup {None} /\ Options[s].key \in STRING
         /\ Options[s].queue = None <=> Options[s].exchange # None
         /\ Options[s].declare => Options[s].exchange # None
         /\ Options[s].declareQueue => Options[s].queue # None
BY TopologyAssumption

LEMMA NoneIsNothing ==
  /\ None \notin Exchanges /\ None \notin Queues /\ None \notin Messages
  /\ \A type \in Types, to \in Exchanges \cup {None} : [type |-> type, to |-> to] # None
  /\ \A to \in Exchanges \cup {None} : [to |-> to] # None
<1>1. None \notin Exchanges /\ None \notin Queues /\ None \notin Messages
  BY TopologyAssumption
<1>2. ASSUME NEW type \in Types, NEW to \in Exchanges \cup {None}
      PROVE  [type |-> type, to |-> to] # None
  <2>1. [type |-> type, to |-> to] \in ExchangeKinds
    BY DEF ExchangeKinds
  <2> QED BY <2>1, TopologyAssumption
<1>3. ASSUME NEW to \in Exchanges \cup {None} PROVE [to |-> to] # None
  <2>1. [to |-> to] \in QueueKinds
    BY DEF QueueKinds
  <2> QED BY <2>1, TopologyAssumption
<1> QED BY <1>1, <1>2, <1>3

(* What is asked for is a declaration of the kind its place in Order says. *)
LEMMA MadeIs ==
  ASSUME NEW s \in Services, NEW k \in 1 .. 5, Asked(s, k)
  PROVE  /\ Made(s, k) \in Declarations
         /\ k = 1 => Made(s, k) \in ExchangeDeclarations /\ Made(s, k).to = None
                     /\ Made(s, k).name = Options[s].alternate
         /\ k = 2 => Made(s, k) \in ExchangeDeclarations /\ Made(s, k).to = None
                     /\ Made(s, k).name = Options[s].deadLetter
         /\ k = 3 => Made(s, k) \in ExchangeDeclarations
                     /\ Made(s, k).to = Options[s].alternate
         /\ k = 4 => Made(s, k) \in QueueDeclarations
                     /\ Made(s, k).to = Options[s].deadLetter
         /\ k = 5 => Made(s, k) \in BindDeclarations
                     /\ Made(s, k) = Bind(Options[s].queue, Options[s].key, Options[s].bind)
<1>1. CASE k = 1
  <2>1. Made(s, k) = Exchange(Options[s].alternate, Default(Options[s].alternateType, "fanout"), None)
    BY <1>1, OrderIs DEF Made, Declaration
  <2>2. Options[s].alternate \in Exchanges
    BY <1>1, OrderIs, OptionFields DEF Asked, Asks
  <2>3. Default(Options[s].alternateType, "fanout") \in Types
    BY OptionFields DEF Default, Types
  <2>4. Made(s, k) \in ExchangeDeclarations
    BY <2>1, <2>2, <2>3 DEF Exchange, ExchangeDeclarations
  <2>5. Made(s, k).to = None /\ Made(s, k).name = Options[s].alternate
    BY <2>1 DEF Exchange
  <2> QED BY <1>1, <2>4, <2>5 DEF Declarations
<1>2. CASE k = 2
  <2>1. Made(s, k) = Exchange(Options[s].deadLetter, Default(Options[s].deadLetterType, "direct"), None)
    BY <1>2, OrderIs DEF Made, Declaration
  <2>2. Options[s].deadLetter \in Exchanges
    BY <1>2, OrderIs, OptionFields DEF Asked, Asks
  <2>3. Default(Options[s].deadLetterType, "direct") \in Types
    BY OptionFields DEF Default, Types
  <2>4. Made(s, k) \in ExchangeDeclarations
    BY <2>1, <2>2, <2>3 DEF Exchange, ExchangeDeclarations
  <2>5. Made(s, k).to = None /\ Made(s, k).name = Options[s].deadLetter
    BY <2>1 DEF Exchange
  <2> QED BY <1>2, <2>4, <2>5 DEF Declarations
<1>3. CASE k = 3
  <2>1. Made(s, k) = Exchange(Options[s].exchange, Options[s].type, Options[s].alternate)
    BY <1>3, OrderIs DEF Made, Declaration
  <2>2. Options[s].exchange \in Exchanges
    BY <1>3, OrderIs, OptionFields DEF Asked, Asks
  <2>3. Options[s].type \in Types /\ Options[s].alternate \in Exchanges \cup {None}
    BY OptionFields
  <2>4. Made(s, k) \in ExchangeDeclarations
    BY <2>1, <2>2, <2>3 DEF Exchange, ExchangeDeclarations
  <2>5. Made(s, k).to = Options[s].alternate
    BY <2>1 DEF Exchange
  <2> QED BY <1>3, <2>4, <2>5 DEF Declarations
<1>4. CASE k = 4
  <2>1. Made(s, k) = Queue(Options[s].queue, Options[s].deadLetter)
    BY <1>4, OrderIs DEF Made, Declaration
  <2>2. Options[s].queue \in Queues /\ Options[s].deadLetter \in Exchanges \cup {None}
    BY <1>4, OrderIs, OptionFields DEF Asked, Asks
  <2>3. Made(s, k) \in QueueDeclarations
    BY <2>1, <2>2 DEF Queue, QueueDeclarations
  <2>4. Made(s, k).to = Options[s].deadLetter
    BY <2>1 DEF Queue
  <2> QED BY <1>4, <2>3, <2>4 DEF Declarations
<1>5. CASE k = 5
  <2>1. Made(s, k) = Bind(Options[s].queue, Options[s].key, Options[s].bind)
    BY <1>5, OrderIs DEF Made, Declaration
  <2>2. /\ Options[s].queue \in Queues /\ Options[s].bind \in Exchanges
        /\ Options[s].key \in STRING
    BY <1>5, OrderIs, OptionFields DEF Asked, Asks
  <2>3. Made(s, k) \in BindDeclarations
    BY <2>1, <2>2 DEF Bind, BindDeclarations
  <2> QED BY <1>5, <2>1, <2>3 DEF Declarations
<1> QED BY <1>1, <1>2, <1>3, <1>4, <1>5

(* What is referred to is asked for, earlier.                              *)
LEMMA ReferencesAsked ==
  ASSUME NEW s \in Services
  PROVE  /\ Options[s].alternate # None => Asked(s, 1)
         /\ Options[s].deadLetter # None => Asked(s, 2)
BY OrderIs DEF Asked, Asks

-----------------------------------------------------------------------------
(* One declaration *)

LEMMA DeclareKeeps ==
  ASSUME TypeOK, NEW d \in Declarations, Accepts(d), CarryOutDeclaration(d)
  PROVE  Keeps /\ Stands(d)'
<1>1. CASE d.kind = "exchange"
  <2>1. d \in ExchangeDeclarations
    BY <1>1 DEF Declarations, ExchangeDeclarations, QueueDeclarations, BindDeclarations
  <2>2. /\ exchanges' = [exchanges EXCEPT ![d.name] = [type |-> d.type, to |-> d.to]]
        /\ UNCHANGED <<queues, bindings>>
    BY <1>1 DEF CarryOutDeclaration
  <2>3. exchanges[d.name] \in {None, [type |-> d.type, to |-> d.to]}
    BY <1>1 DEF Accepts
  <2> QED BY <1>1, <2>1, <2>2, <2>3 DEF Keeps, Stands, TypeOK, ExchangeDeclarations
<1>2. CASE d.kind = "queue"
  <2>1. d \in QueueDeclarations
    BY <1>2 DEF Declarations, ExchangeDeclarations, QueueDeclarations, BindDeclarations
  <2>2. /\ queues' = [queues EXCEPT ![d.name] = [to |-> d.to]]
        /\ UNCHANGED <<exchanges, bindings>>
    BY <1>2 DEF CarryOutDeclaration
  <2>3. queues[d.name] \in {None, [to |-> d.to]}
    BY <1>2 DEF Accepts
  <2> QED BY <1>2, <2>1, <2>2, <2>3 DEF Keeps, Stands, TypeOK, QueueDeclarations
<1>3. CASE d.kind = "bind"
  <2>1. /\ bindings' = bindings \cup {[from |-> d.to, key |-> d.type, to |-> d.name]}
        /\ UNCHANGED <<exchanges, queues>>
    BY <1>3 DEF CarryOutDeclaration
  <2> QED BY <1>3, <2>1 DEF Keeps, Stands
<1> QED BY <1>1, <1>2, <1>3 DEF CarryOutDeclaration

LEMMA DeclareTypes ==
  ASSUME TypeOK, NEW d \in Declarations, CarryOutDeclaration(d)
  PROVE  /\ (exchanges \in [Exchanges -> ExchangeKinds \cup {None}])'
         /\ (queues \in [Queues -> QueueKinds \cup {None}])'
         /\ (bindings \subseteq [from : Exchanges, key : STRING, to : Queues])'
<1>0. /\ exchanges \in [Exchanges -> ExchangeKinds \cup {None}]
      /\ queues \in [Queues -> QueueKinds \cup {None}]
      /\ bindings \subseteq [from : Exchanges, key : STRING, to : Queues]
  BY DEF TypeOK
<1>1. CASE d.kind = "exchange"
  <2>1. d \in ExchangeDeclarations
    BY <1>1 DEF Declarations, ExchangeDeclarations, QueueDeclarations, BindDeclarations
  <2>2. [type |-> d.type, to |-> d.to] \in ExchangeKinds
    BY <2>1 DEF ExchangeDeclarations, ExchangeKinds
  <2> QED BY <1>0, <1>1, <2>2 DEF CarryOutDeclaration
<1>2. CASE d.kind = "queue"
  <2>1. d \in QueueDeclarations
    BY <1>2 DEF Declarations, ExchangeDeclarations, QueueDeclarations, BindDeclarations
  <2>2. [to |-> d.to] \in QueueKinds
    BY <2>1 DEF QueueDeclarations, QueueKinds
  <2> QED BY <1>0, <1>2, <2>2 DEF CarryOutDeclaration
<1>3. CASE d.kind = "bind"
  <2>1. d \in BindDeclarations
    BY <1>3 DEF Declarations, ExchangeDeclarations, QueueDeclarations, BindDeclarations
  <2>2. [from |-> d.to, key |-> d.type, to |-> d.name] \in [from : Exchanges, key : STRING, to : Queues]
    BY <2>1 DEF BindDeclarations
  <2> QED BY <1>0, <1>3, <2>2 DEF CarryOutDeclaration
<1> QED BY <1>1, <1>2, <1>3 DEF CarryOutDeclaration

LEMMA StandsIsKept ==
  ASSUME TypeOK, Keeps, NEW d \in Declarations, Stands(d)
  PROVE  Stands(d)'
<1>1. CASE d \in ExchangeDeclarations
  BY <1>1, NoneIsNothing DEF Keeps, Stands, ExchangeDeclarations
<1>2. CASE d \in QueueDeclarations
  BY <1>2, NoneIsNothing DEF Keeps, Stands, QueueDeclarations
<1>3. CASE d \in BindDeclarations
  BY <1>3 DEF Keeps, Stands, BindDeclarations
<1> QED BY <1>1, <1>2, <1>3 DEF Declarations

-----------------------------------------------------------------------------
(* Type correctness *)

LEMMA InitTypes == ASSUME Init PROVE TypeOK
<1>1. /\ exchanges \in [Exchanges -> ExchangeKinds \cup {None}]
      /\ queues \in [Queues -> QueueKinds \cup {None}]
      /\ bindings \subseteq [from : Exchanges, key : STRING, to : Queues]
  BY DEF Init
<1>2. content \in [Queues -> Seq(Messages)]
  BY DEF Init
<1>3. /\ state \in [Services -> {"down", "starting", "up"}]
      /\ step \in [Services -> 0 .. 6] /\ wasUp \subseteq Services
      /\ held \in [Services -> Messages \cup {None}]
      /\ at \in [Services -> {"none", "forwarder", "handler"}]
      /\ \A s \in Services : held[s] = None /\ at[s] = "none"
  BY DEF Init
<1>4. faults \in 0 .. MaxFaults
  <2>1. MaxFaults \in Nat
    BY TopologyAssumption
  <2> QED BY <2>1 DEF Init
<1>5. /\ published \subseteq Messages /\ unrouted \subseteq Messages /\ offTheWire \subseteq Messages
      /\ routed \subseteq Messages \X Queues /\ settled \subseteq Messages \X Queues
  BY DEF Init
<1> QED BY <1>1, <1>2, <1>3, <1>4, <1>5 DEF TypeOK, Publishers

LEMMA DeclareTypeOK ==
  ASSUME TypeOK, NEW s \in Services, NEW n \in 1 .. 5, Declare(s, n)
  PROVE  TypeOK'
<1>1. Asked(s, n) /\ CarryOutDeclaration(Made(s, n))
  BY DEF Declare, Due, Asked, Made
<1>2. Made(s, n) \in Declarations
  BY <1>1, MadeIs
<1>3. step' \in [Services -> 0 .. 6]
  BY DEF Declare, TypeOK
<1> QED BY <1>1, <1>2, <1>3, DeclareTypes DEF Declare, TypeOK, delivery, fate

LEMMA ArriveTypes ==
  ASSUME TypeOK, NEW m \in Messages, NEW x, NEW before \in [Queues -> Seq(Messages)],
         Arrive(m, x, before)
  PROVE  /\ content' \in [Queues -> Seq(Messages)]
         /\ routed' \subseteq Messages \X Queues /\ unrouted' \subseteq Messages
<1> DEFINE key == RoutingKey(m)
<1>1. Reached(x, key) \subseteq Queues
  BY DEF Reached, Bound, TypeOK
<1>2. content' \in [Queues -> Seq(Messages)]
  BY DEF Arrive
<1>3. {<<m, q>> : q \in Reached(x, key)} \subseteq Messages \X Queues
  BY <1>1
<1> QED BY <1>2, <1>3 DEF Arrive, TypeOK

LEMMA RequeuedTypes ==
  ASSUME TypeOK, NEW s \in Subscribers
  PROVE  Requeued(s) \in [Queues -> Seq(Messages)]
<1>1. Options[s].queue \in Queues
  BY OptionFields DEF Subscribers, Publishers
<1>2. CASE held[s] = None
  BY <1>2 DEF Requeued, TypeOK
<1>3. CASE held[s] # None
  <2>1. held[s] \in Messages
    BY <1>3 DEF TypeOK, Subscribers
  <2>2. content[Options[s].queue] \in Seq(Messages)
    BY <1>1 DEF TypeOK
  <2>3. <<held[s]>> \o content[Options[s].queue] \in Seq(Messages)
    BY <2>1, <2>2
  <2> QED BY <1>1, <1>3, <2>3 DEF Requeued, TypeOK
<1> QED BY <1>2, <1>3

LEMMA HeldByAny ==
  ASSUME TypeOK, NEW s \in Services
  PROVE  /\ Requeued(s) \in [Queues -> Seq(Messages)]
         /\ Take(s) => /\ held' \in [Services -> Messages \cup {None}]
                       /\ at' \in [Services -> {"none", "forwarder", "handler"}]
                       /\ \A r \in Services : held'[r] = None <=> at'[r] = "none"
                       /\ \A r \in Publishers : held'[r] = None
<1>1. Requeued(s) \in [Queues -> Seq(Messages)]
  <2>1. CASE s \in Publishers
    BY <2>1 DEF TypeOK, Requeued
  <2>2. CASE s \in Subscribers
    BY <2>2, RequeuedTypes
  <2> QED BY <2>1, <2>2 DEF Subscribers
<1>2. ASSUME Take(s)
      PROVE  /\ held' \in [Services -> Messages \cup {None}]
             /\ at' \in [Services -> {"none", "forwarder", "handler"}]
             /\ \A r \in Services : held'[r] = None <=> at'[r] = "none"
             /\ \A r \in Publishers : held'[r] = None
  BY <1>2 DEF Take, TypeOK, Publishers
<1> QED BY <1>1, <1>2

LEMMA FaultTypes == ASSUME TypeOK, Fault PROVE (faults \in 0 .. MaxFaults)'
<1>1. MaxFaults \in Nat
  BY TopologyAssumption
<1>2. faults \in 0 .. MaxFaults /\ faults < MaxFaults /\ faults' = faults + 1
  BY DEF TypeOK, Fault
<1> QED BY <1>1, <1>2

LEMMA NextTypes == ASSUME TypeOK, [Next]_vars PROVE TypeOK'
<1>1. ASSUME NEW s \in Services, Start(s) PROVE TypeOK'
  BY <1>1 DEF TypeOK, Start, broker, delivery, fate
<1>2. ASSUME NEW s \in Services, Open(s) PROVE TypeOK'
  BY <1>2 DEF TypeOK, Open, broker, delivery, fate
<1>3. ASSUME NEW s \in Services, NEW n \in 1 .. 5, StartFails(s, n) PROVE TypeOK'
  BY <1>3 DEF TypeOK, StartFails, broker, delivery, fate
<1>4. ASSUME NEW s \in Services, Die(s) PROVE TypeOK'
  <2>1. Take(s) /\ content' = Requeued(s)
    BY <1>4 DEF Die, GiveBack
  <2>2. state' \in [Services -> {"down", "starting", "up"}] /\ step' \in [Services -> 0 .. 6]
    BY <1>4 DEF Die, TypeOK
  <2> QED BY <1>4, <2>1, <2>2, HeldByAny, FaultTypes DEF TypeOK, Die, broker, fate
<1>5. ASSUME NEW s \in Subscribers, Deliver(s) PROVE TypeOK'
  <2>1. s \in Services /\ Options[s].queue \in Queues
    BY OptionFields DEF Subscribers, Publishers
  <2>2. content[Options[s].queue] \in Seq(Messages) /\ content[Options[s].queue] # <<>>
    BY <1>5, <2>1 DEF TypeOK, Deliver
  <2>3. /\ Head(content[Options[s].queue]) \in Messages
        /\ Tail(content[Options[s].queue]) \in Seq(Messages)
    BY <2>2
  <2>4. content' \in [Queues -> Seq(Messages)]
    BY <1>5, <2>1, <2>3 DEF Deliver, TypeOK
  <2>5. /\ held' \in [Services -> Messages \cup {None}]
        /\ at' \in [Services -> {"none", "forwarder", "handler"}]
        /\ \A r \in Services : held'[r] = None <=> at'[r] = "none"
        /\ \A r \in Publishers : held'[r] = None
    BY <1>5, <2>1, <2>3, NoneIsNothing DEF Deliver, TypeOK, Subscribers
  <2> QED BY <1>5, <2>4, <2>5 DEF Deliver, TypeOK, broker, service, fate
<1>6. ASSUME NEW s \in Subscribers, Forward(s) PROVE TypeOK'
  BY <1>6 DEF TypeOK, Forward, Subscribers, broker, service, fate
<1>7. ASSUME NEW s \in Subscribers, Ack(s) PROVE TypeOK'
  <2>1. s \in Services /\ Options[s].queue \in Queues
    BY OptionFields DEF Subscribers, Publishers
  <2>2. held[s] \in Messages
    BY <1>7, <2>1 DEF Ack, TypeOK
  <2> QED BY <1>7, <2>1, <2>2, HeldByAny DEF Ack, TypeOK, broker, service
<1>8. ASSUME NEW s \in Subscribers, Nack(s) PROVE TypeOK'
  <2>1. s \in Services /\ Options[s].queue \in Queues
    BY OptionFields DEF Subscribers, Publishers
  <2>2. held[s] \in Messages
    BY <1>8, <2>1 DEF Nack, TypeOK
  <2>3. content \in [Queues -> Seq(Messages)]
    BY DEF TypeOK
  <2>4. CASE Options[s].noRequeue
    <3>1. Arrive(held[s], queues[Options[s].queue].to, content)
      BY <1>8, <2>4 DEF Nack
    <3>2. settled' \subseteq Messages \X Queues
      BY <1>8, <2>1, <2>2, <2>4 DEF Nack, TypeOK
    <3> QED BY <1>8, <2>1, <2>2, <2>3, <3>1, <3>2, ArriveTypes, HeldByAny, FaultTypes
            DEF Nack, TypeOK, broker, service
  <2>5. CASE ~Options[s].noRequeue
    BY <1>8, <2>1, <2>5, HeldByAny, FaultTypes DEF Nack, TypeOK, broker, service
  <2> QED BY <2>4, <2>5
<1>9. ASSUME NEW s \in Subscribers, ConnectionLost(s) PROVE TypeOK'
  <2>1. s \in Services
    BY DEF Subscribers
  <2> QED BY <1>9, <2>1, HeldByAny, FaultTypes
          DEF TypeOK, ConnectionLost, GiveBack, broker, service, fate
<1>10. ASSUME NEW m \in Messages, Publish(m) PROVE TypeOK'
  <2>1. content \in [Queues -> Seq(Messages)]
    BY DEF TypeOK
  <2>2. CASE Arrive(m, Options[From[m]].exchange, content) /\ UNCHANGED <<offTheWire, faults>>
    <3>1. /\ content' \in [Queues -> Seq(Messages)]
          /\ routed' \subseteq Messages \X Queues /\ unrouted' \subseteq Messages
      BY <2>1, <2>2, ArriveTypes
    <3> QED BY <1>10, <2>2, <3>1 DEF Publish, TypeOK, broker, service, delivery
  <2>3. CASE Fault /\ offTheWire' = offTheWire \cup {m} /\ UNCHANGED <<content, routed, unrouted>>
    BY <1>10, <2>3, FaultTypes DEF Publish, TypeOK, broker, service, delivery
  <2> QED BY <1>10, <2>2, <2>3 DEF Publish
<1>11. ASSUME BrokerRestart PROVE TypeOK'
  BY <1>11, FaultTypes DEF TypeOK, BrokerRestart, Durable, broker, service, delivery, fate
<1>12. CASE UNCHANGED vars
  BY <1>12 DEF TypeOK, vars, broker, service, delivery, fate
<1> QED
  BY <1>1, <1>2, <1>3, <1>4, <1>5, <1>6, <1>7, <1>8, <1>9, <1>10, <1>11, <1>12, DeclareTypeOK
  DEF Next, ServiceStep, SubscriberStep

(* Every reachable state is well typed.                                    *)
THEOREM TypeCorrect == Spec => []TypeOK
<1> QED BY InitTypes, NextTypes, PTL DEF Spec

-----------------------------------------------------------------------------
(* The declarations *)

(* Every step declares one thing for one service, or leaves the broker's   *)
(* declarations alone.                                                     *)
LEMMA BrokerSteps ==
  ASSUME [Next]_vars
  PROVE  UNCHANGED broker \/ \E s \in Services, n \in 1 .. 5 : Declare(s, n)
<1>1. ASSUME NEW s \in Services, ServiceStep(s)
      PROVE  UNCHANGED broker \/ \E n \in 1 .. 5 : Declare(s, n)
  BY <1>1 DEF ServiceStep, Start, Open, StartFails
<1>2. ASSUME NEW s \in Services, Die(s) PROVE UNCHANGED broker
  BY <1>2 DEF Die
<1>3. ASSUME NEW s \in Subscribers, SubscriberStep(s) \/ Nack(s) \/ ConnectionLost(s)
      PROVE  UNCHANGED broker
  BY <1>3 DEF SubscriberStep, Deliver, Forward, Ack, Nack, ConnectionLost
<1>4. ASSUME NEW m \in Messages, Publish(m) PROVE UNCHANGED broker
  BY <1>4 DEF Publish
<1>5. ASSUME BrokerRestart PROVE UNCHANGED broker
  BY <1>5 DEF BrokerRestart, Durable
<1>6. CASE UNCHANGED vars
  BY <1>6 DEF vars
<1> QED BY <1>1, <1>2, <1>3, <1>4, <1>5, <1>6 DEF Next

LEMMA KeepsAlways == ASSUME TypeOK, [Next]_vars PROVE Keeps
<1>1. CASE UNCHANGED broker
  BY <1>1 DEF Keeps, broker
<1>2. ASSUME NEW s \in Services, NEW n \in 1 .. 5, Declare(s, n) PROVE Keeps
  <2>1. Asked(s, n) /\ Accepts(Made(s, n)) /\ CarryOutDeclaration(Made(s, n))
    BY <1>2 DEF Declare, Due, Asked, Made
  <2>2. Made(s, n) \in Declarations
    BY <2>1, MadeIs
  <2> QED BY <2>1, <2>2, DeclareKeeps
<1> QED BY <1>1, <1>2, BrokerSteps

(* What a service has come to, and which have been up.                     *)
LEMMA ServiceSteps ==
  ASSUME TypeOK, [Next]_vars, NEW r \in Services
  PROVE  /\ state'[r] = "starting" =>
              \/ step'[r] = 1
              \/ state[r] = "starting" /\ step'[r] = step[r]
              \/ \E n \in 1 .. 5 : Declare(r, n) /\ step'[r] = n + 1
         /\ r \in wasUp' => r \in wasUp \/ Open(r)
<1>1. ASSUME NEW s \in Services, Start(s)
      PROVE  /\ state'[r] = "starting" => step'[r] = 1 \/ (state[r] = "starting" /\ step'[r] = step[r])
             /\ wasUp' = wasUp
  BY <1>1 DEF Start, TypeOK
<1>2. ASSUME NEW s \in Services, Open(s)
      PROVE  /\ state'[r] = "starting" => state[r] = "starting" /\ step'[r] = step[r]
             /\ r \in wasUp' => r \in wasUp \/ Open(r)
  BY <1>2 DEF Open, TypeOK
<1>3. ASSUME NEW s \in Services, NEW n \in 1 .. 5, StartFails(s, n)
      PROVE  /\ state'[r] = "starting" => state[r] = "starting" /\ step'[r] = step[r]
             /\ wasUp' = wasUp
  BY <1>3 DEF StartFails, TypeOK
<1>4. ASSUME NEW s \in Services, NEW n \in 1 .. 5, Declare(s, n)
      PROVE  /\ state'[r] = "starting" =>
                  \/ state[r] = "starting" /\ step'[r] = step[r]
                  \/ Declare(r, n) /\ step'[r] = n + 1
             /\ wasUp' = wasUp
  BY <1>4 DEF Declare, TypeOK
<1>5. ASSUME NEW s \in Services, Die(s)
      PROVE  /\ state'[r] = "starting" => state[r] = "starting" /\ step'[r] = step[r]
             /\ wasUp' = wasUp
  BY <1>5 DEF Die, TypeOK
<1>6. ASSUME UNCHANGED service
      PROVE  /\ state'[r] = "starting" => state[r] = "starting" /\ step'[r] = step[r]
             /\ wasUp' = wasUp
  BY <1>6 DEF service
<1>7. ASSUME NEW s \in Subscribers, SubscriberStep(s) \/ Nack(s) \/ ConnectionLost(s)
      PROVE  UNCHANGED service
  BY <1>7 DEF SubscriberStep, Deliver, Forward, Ack, Nack, ConnectionLost
<1>8. ASSUME (\E m \in Messages : Publish(m)) \/ BrokerRestart \/ UNCHANGED vars
      PROVE  UNCHANGED service
  BY <1>8 DEF Publish, BrokerRestart, vars
<1> QED
  BY <1>1, <1>2, <1>3, <1>4, <1>5, <1>6, <1>7, <1>8 DEF Next, ServiceStep

LEMMA InvInit == ASSUME Init PROVE IInv
<1>1. TypeOK
  BY InitTypes
<1>2. ReferencesExist /\ BindingsExist /\ MadeSoFar /\ MadeByAllUp
  BY DEF Init, ReferencesExist, BindingsExist, MadeSoFar, MadeByAllUp
<1> QED BY <1>1, <1>2 DEF IInv

(* What the declaration due refers to is there already.                    *)
LEMMA ReferredToExists ==
  ASSUME IInv, NEW s \in Services, NEW n \in 1 .. 5, Declare(s, n)
  PROVE  /\ n = 3 /\ Options[s].alternate # None => exchanges[Options[s].alternate] # None
         /\ n = 4 /\ Options[s].deadLetter # None => exchanges[Options[s].deadLetter] # None
<1>0. step[s] \in 1 .. 6 /\ state[s] = "starting" /\ n >= step[s]
  BY DEF IInv, MadeSoFar, Declare
<1>1. ASSUME NEW k \in 1 .. 5, k < n, Asked(s, k) PROVE Stands(Made(s, k))
  <2>1. ~(k \in step[s] .. n - 1)
    BY <1>1 DEF Declare, Due, Asked
  <2>2. k < step[s]
    BY <1>0, <1>1, <2>1
  <2> QED BY <1>0, <1>1, <2>2 DEF IInv, MadeSoFar
<1>2. ASSUME n = 3, Options[s].alternate # None PROVE exchanges[Options[s].alternate] # None
  <2>1. Asked(s, 1)
    BY <1>2, ReferencesAsked
  <2>2. Stands(Made(s, 1))
    BY <1>1, <1>2, <2>1
  <2>3. Made(s, 1) \in ExchangeDeclarations /\ Made(s, 1).name = Options[s].alternate
    BY <2>1, MadeIs
  <2> QED BY <2>2, <2>3, NoneIsNothing DEF Stands, ExchangeDeclarations
<1>3. ASSUME n = 4, Options[s].deadLetter # None PROVE exchanges[Options[s].deadLetter] # None
  <2>1. Asked(s, 2)
    BY <1>3, ReferencesAsked
  <2>2. Stands(Made(s, 2))
    BY <1>1, <1>3, <2>1
  <2>3. Made(s, 2) \in ExchangeDeclarations /\ Made(s, 2).name = Options[s].deadLetter
    BY <2>1, MadeIs
  <2> QED BY <2>2, <2>3, NoneIsNothing DEF Stands, ExchangeDeclarations
<1> QED BY <1>2, <1>3

LEMMA ReferencesStep ==
  ASSUME IInv, [Next]_vars
  PROVE  ReferencesExist' /\ BindingsExist'
<1>0. TypeOK /\ ReferencesExist /\ BindingsExist
  BY DEF IInv
<1>1. CASE UNCHANGED broker
  BY <1>0, <1>1 DEF broker, ReferencesExist, BindingsExist
<1>2. ASSUME NEW s \in Services, NEW n \in 1 .. 5, Declare(s, n)
      PROVE  ReferencesExist' /\ BindingsExist'
  <2> DEFINE d == Made(s, n)
  <2>1. Asked(s, n) /\ Accepts(d) /\ CarryOutDeclaration(d)
    BY <1>2 DEF Declare, Due, Asked, Made
  <2>2. /\ d \in Declarations
        /\ n \in {1, 2} => d \in ExchangeDeclarations /\ d.to = None
        /\ n = 3 => d \in ExchangeDeclarations /\ d.to = Options[s].alternate
        /\ n = 4 => d \in QueueDeclarations /\ d.to = Options[s].deadLetter
        /\ n = 5 => d \in BindDeclarations
    BY <2>1, MadeIs
  <2>3. Keeps
    BY <1>0, <2>1, <2>2, DeclareKeeps
  <2>4. d.kind \in {"exchange", "queue"} /\ d.to # None => exchanges[d.to] # None
    BY <1>2, <2>2, ReferredToExists DEF BindDeclarations
  <2>5. CASE d.kind = "exchange"
    <3>1. d \in ExchangeDeclarations
      BY <2>2, <2>5 DEF Declarations, ExchangeDeclarations, QueueDeclarations, BindDeclarations
    <3>2. /\ exchanges' = [exchanges EXCEPT ![d.name] = [type |-> d.type, to |-> d.to]]
          /\ queues' = queues /\ bindings' = bindings
      BY <2>1, <2>5 DEF CarryOutDeclaration
    <3>3. [type |-> d.type, to |-> d.to] # None
      BY <3>1, NoneIsNothing DEF ExchangeDeclarations
    <3>4. \A x \in Exchanges : exchanges[x] # None => exchanges'[x] # None
      BY <2>3 DEF Keeps
    <3>5. ASSUME NEW x \in Exchanges, exchanges'[x] # None, exchanges'[x].to # None
          PROVE  exchanges'[exchanges'[x].to] # None
      <4>1. CASE x = d.name
        <5>1. exchanges'[x] = [type |-> d.type, to |-> d.to]
          BY <1>0, <3>1, <3>2, <4>1 DEF TypeOK
        <5>2. d.to \in Exchanges
          BY <3>1, <3>5, <5>1 DEF ExchangeDeclarations
        <5> QED BY <2>4, <2>5, <3>4, <3>5, <5>1, <5>2
      <4>2. CASE x # d.name
        <5>1. exchanges'[x] = exchanges[x]
          BY <1>0, <3>2, <4>2 DEF TypeOK
        <5>2. exchanges[x].to \in Exchanges
          BY <1>0, <3>5, <5>1 DEF TypeOK, ExchangeKinds
        <5> QED BY <1>0, <3>4, <3>5, <5>1, <5>2 DEF ReferencesExist
      <4> QED BY <4>1, <4>2
    <3>6. ASSUME NEW q \in Queues, queues[q] # None, queues[q].to # None
          PROVE  exchanges'[queues[q].to] # None
      <4>1. queues[q].to \in Exchanges
        BY <1>0, <3>6 DEF TypeOK, QueueKinds
      <4> QED BY <1>0, <3>4, <3>6, <4>1 DEF ReferencesExist
    <3>7. BindingsExist'
      BY <1>0, <3>2, <3>4 DEF BindingsExist, TypeOK
    <3> QED BY <3>2, <3>5, <3>6, <3>7 DEF ReferencesExist
  <2>6. CASE d.kind = "queue"
    <3>1. d \in QueueDeclarations
      BY <2>2, <2>6 DEF Declarations, ExchangeDeclarations, QueueDeclarations, BindDeclarations
    <3>2. /\ queues' = [queues EXCEPT ![d.name] = [to |-> d.to]]
          /\ exchanges' = exchanges /\ bindings' = bindings
      BY <2>1, <2>6 DEF CarryOutDeclaration
    <3>3. ASSUME NEW q \in Queues, queues'[q] # None, queues'[q].to # None
          PROVE  exchanges[queues'[q].to] # None
      <4>1. CASE q = d.name
        <5>1. queues'[q] = [to |-> d.to]
          BY <1>0, <3>1, <3>2, <4>1 DEF TypeOK
        <5> QED BY <2>4, <2>6, <3>3, <5>1
      <4>2. CASE q # d.name
        <5>1. queues'[q] = queues[q]
          BY <1>0, <3>2, <4>2 DEF TypeOK
        <5> QED BY <1>0, <3>3, <5>1 DEF ReferencesExist
      <4> QED BY <4>1, <4>2
    <3> QED BY <1>0, <3>2, <3>3 DEF ReferencesExist, BindingsExist
  <2>7. CASE d.kind = "bind"
    <3>1. /\ bindings' = bindings \cup {[from |-> d.to, key |-> d.type, to |-> d.name]}
          /\ exchanges' = exchanges /\ queues' = queues
      BY <2>1, <2>7 DEF CarryOutDeclaration
    <3>2. exchanges[d.to] # None
      BY <2>1, <2>7 DEF Accepts
    <3> QED BY <1>0, <3>1, <3>2 DEF ReferencesExist, BindingsExist
  <2> QED BY <2>1, <2>5, <2>6, <2>7 DEF CarryOutDeclaration
<1> QED BY <1>1, <1>2, BrokerSteps

LEMMA MadeSoFarStep == ASSUME IInv, [Next]_vars PROVE MadeSoFar'
<1>0. TypeOK /\ MadeSoFar
  BY DEF IInv
<1>1. Keeps
  BY <1>0, KeepsAlways
<1>2. SUFFICES ASSUME NEW r \in Services, state'[r] = "starting"
               PROVE  /\ step'[r] \in 1 .. 6
                      /\ \A k \in 1 .. 5 : k < step'[r] /\ Asked(r, k) => Stands(Made(r, k))'
  BY DEF MadeSoFar, Asked, Made
<1>3. CASE step'[r] = 1
  BY <1>3
<1>4. CASE state[r] = "starting" /\ step'[r] = step[r]
  <2>1. step[r] \in 1 .. 6
    BY <1>0, <1>4 DEF MadeSoFar
  <2>2. ASSUME NEW k \in 1 .. 5, k < step[r], Asked(r, k) PROVE Stands(Made(r, k))'
    <3>1. Made(r, k) \in Declarations
      BY <2>2, MadeIs
    <3>2. Stands(Made(r, k))
      BY <1>0, <1>4, <2>2 DEF MadeSoFar
    <3> QED BY <1>0, <1>1, <3>1, <3>2, StandsIsKept DEF Made
  <2> QED BY <1>4, <2>1, <2>2
<1>5. ASSUME NEW n \in 1 .. 5, Declare(r, n), step'[r] = n + 1
      PROVE  /\ step'[r] \in 1 .. 6
             /\ \A k \in 1 .. 5 : k < step'[r] /\ Asked(r, k) => Stands(Made(r, k))'
  <2>1. state[r] = "starting" /\ n >= step[r] /\ step[r] \in 1 .. 6
    BY <1>0, <1>5 DEF Declare, MadeSoFar
  <2>2. ASSUME NEW k \in 1 .. 5, k < n + 1, Asked(r, k) PROVE Stands(Made(r, k))'
    <3>1. Made(r, k) \in Declarations
      BY <2>2, MadeIs
    <3>2. CASE k = n
      <4>1. Accepts(Made(r, k)) /\ CarryOutDeclaration(Made(r, k))
        BY <1>5, <3>2 DEF Declare, Made
      <4> QED BY <1>0, <3>1, <4>1, DeclareKeeps DEF Made
    <3>3. CASE k < n
      <4>1. ~(k \in step[r] .. n - 1)
        BY <1>5, <2>2 DEF Declare, Due, Asked
      <4>2. k < step[r]
        BY <2>1, <3>3, <4>1
      <4>3. Stands(Made(r, k))
        BY <1>0, <2>1, <2>2, <4>2 DEF MadeSoFar
      <4> QED BY <1>0, <1>1, <3>1, <4>3, StandsIsKept DEF Made
    <3> QED BY <2>2, <3>2, <3>3
  <2> QED BY <1>5, <2>2
<1> QED BY <1>0, <1>2, <1>3, <1>4, <1>5, ServiceSteps

LEMMA MadeByAllUpStep == ASSUME IInv, [Next]_vars PROVE MadeByAllUp'
<1>0. TypeOK /\ MadeSoFar /\ MadeByAllUp
  BY DEF IInv
<1>1. Keeps
  BY <1>0, KeepsAlways
<1>2. SUFFICES ASSUME NEW r \in wasUp', NEW k \in 1 .. 5, Asked(r, k)
               PROVE  Stands(Made(r, k))'
  BY DEF MadeByAllUp, Asked, Made
<1>3. r \in Services
  BY <1>0, NextTypes DEF TypeOK
<1>4. Stands(Made(r, k))
  <2>1. CASE r \in wasUp
    BY <1>0, <1>2, <2>1 DEF MadeByAllUp
  <2>2. CASE Open(r)
    <3>1. state[r] = "starting" /\ step[r] \in 1 .. 6
      BY <1>0, <1>3, <2>2 DEF Open, MadeSoFar
    <3>2. ~(k \in step[r] .. 5)
      BY <1>2, <2>2 DEF Open, Asked
    <3>3. k < step[r]
      BY <3>1, <3>2
    <3> QED BY <1>0, <1>2, <1>3, <3>1, <3>3 DEF MadeSoFar
  <2> QED BY <1>0, <1>3, <2>1, <2>2, ServiceSteps
<1>5. Made(r, k) \in Declarations
  BY <1>2, <1>3, MadeIs
<1> QED BY <1>0, <1>1, <1>4, <1>5, StandsIsKept DEF Made

LEMMA InvNext == ASSUME IInv, [Next]_vars PROVE IInv'
<1>1. TypeOK'
  BY NextTypes DEF IInv
<1> QED BY <1>1, ReferencesStep, MadeSoFarStep, MadeByAllUpStep DEF IInv

LEMMA InvDeclarations == ASSUME IInv PROVE DeclarationsStand
<1>1. ReferencesExist /\ MadeByAllUp
  BY DEF IInv
<1> QED BY <1>1, OrderIs DEF DeclarationsStand, MadeByAllUp, Asked, Made

(* What a service that has been up asked for stands as it asked for it,    *)
(* with all it refers to, however many services there are.                 *)
THEOREM DeclarationsAreKept == Spec => []DeclarationsStand
<1> QED BY InvInit, InvNext, InvDeclarations, PTL DEF Spec

-----------------------------------------------------------------------------
(* A published message *)

LEMMA PublishReaches ==
  ASSUME IInv, NEW m \in Messages, Publish(m), m \notin offTheWire',
         NEW s \in wasUp \cap Subscribers, Wants(s, m)
  PROVE  <<m, Options[s].queue>> \in routed'
<1> DEFINE o == Options[s]
           x == Options[From[m]].exchange
           key == RoutingKey(m)
<1>0. TypeOK /\ BindingsExist /\ MadeByAllUp /\ s \in Services
  BY DEF IInv, Subscribers
<1>1. Arrive(m, x, content)
  BY DEF Publish
<1>2. /\ o.declareQueue /\ o.bind # None /\ o.bind = x
      /\ exchanges[x].type = "fanout" \/ o.key = key
  BY DEF Wants
<1>3. Asked(s, 5)
  BY <1>2, OrderIs DEF Asked, Asks
<1>4. Made(s, 5) \in BindDeclarations /\ Made(s, 5) = Bind(o.queue, o.key, o.bind)
  BY <1>0, <1>3, MadeIs
<1>5. Stands(Made(s, 5))
  BY <1>0, <1>3 DEF MadeByAllUp
<1>6. [from |-> x, key |-> o.key, to |-> o.queue] \in bindings
  BY <1>2, <1>4, <1>5 DEF Stands, Bind
<1>7. x # None /\ exchanges[x] # None
  <2>1. [from |-> x, key |-> o.key, to |-> o.queue].from = x
    OBVIOUS
  <2> QED BY <1>0, <1>2, <1>6, <2>1 DEF BindingsExist
<1>8. o.queue \in Bound(x, key)
  <2> DEFINE b == [from |-> x, key |-> o.key, to |-> o.queue]
  <2>1. b.from = x /\ b.key = o.key /\ b.to = o.queue
    OBVIOUS
  <2>2. b \in bindings
    BY <1>6
  <2>3. b.from = x /\ (exchanges[x].type = "fanout" \/ b.key = key)
    BY <1>2, <2>1
  <2>4. b \in {c \in bindings : c.from = x /\ (exchanges[x].type = "fanout" \/ c.key = key)}
    BY <2>2, <2>3
  <2> HIDE DEF b
  <2> QED BY <2>1, <2>4 DEF Bound
<1>9. Reached(x, key) = Bound(x, key)
  BY <1>7, <1>8 DEF Reached
<1> QED BY <1>1, <1>8, <1>9 DEF Arrive

LEMMA OnlyPublishPublishes ==
  ASSUME [Next]_vars, NEW m \in published' \ published
  PROVE  m \in Messages /\ Publish(m)
<1>1. ASSUME NEW s \in Services, ServiceStep(s) \/ Die(s) PROVE published' = published
  BY <1>1 DEF ServiceStep, Start, Open, Declare, StartFails, Die, fate
<1>2. ASSUME NEW s \in Subscribers, SubscriberStep(s) \/ Nack(s) \/ ConnectionLost(s)
      PROVE  published' = published
  BY <1>2 DEF SubscriberStep, Deliver, Forward, Ack, Nack, ConnectionLost, fate
<1>3. ASSUME BrokerRestart \/ UNCHANGED vars PROVE published' = published
  BY <1>3 DEF BrokerRestart, vars, fate
<1>4. PICK p \in Messages : Publish(p)
  BY <1>1, <1>2, <1>3 DEF Next
<1>5. published' = published \cup {p}
  BY <1>4 DEF Publish
<1> QED BY <1>4, <1>5

(* From the moment a subscriber has been up once, every message published  *)
(* that it is bound to goes to its queue, also while it is down.           *)
THEOREM SubscribersMissNothing == Spec => NothingMissedOnceUp
<1>1. ASSUME IInv, [Next]_vars
      PROVE  \A m \in (published' \ published) \ offTheWire' : \A s \in wasUp \cap Subscribers :
               Wants(s, m) => <<m, Options[s].queue>> \in routed'
  BY <1>1, OnlyPublishPublishes, PublishReaches
<1> QED BY <1>1, InvInit, InvNext, PTL DEF Spec, NothingMissedOnceUp

-----------------------------------------------------------------------------
(* No message is lost *)

Holds(seq, m) == \E i \in DOMAIN seq : seq[i] = m

LEMMA AppendedHolds ==
  ASSUME NEW seq \in Seq(Messages), NEW e \in Messages, NEW m
  PROVE  Holds(Append(seq, e), m) <=> Holds(seq, m) \/ m = e
<1> DEFINE r == Append(seq, e)
<1>1. /\ Len(seq) \in Nat /\ DOMAIN seq = 1 .. Len(seq) /\ DOMAIN r = 1 .. Len(seq) + 1
      /\ r[Len(seq) + 1] = e /\ \A i \in 1 .. Len(seq) : r[i] = seq[i]
  OBVIOUS
<1> HIDE DEF r
<1>2. \A i \in 1 .. Len(seq) + 1 : i = Len(seq) + 1 \/ i \in 1 .. Len(seq)
  BY <1>1
<1>3. 1 .. Len(seq) \subseteq 1 .. Len(seq) + 1 /\ Len(seq) + 1 \in 1 .. Len(seq) + 1
  BY <1>1
<1>4. Holds(r, m) <=> Holds(seq, m) \/ m = e
  BY <1>1, <1>2, <1>3 DEF Holds
<1> QED
  BY <1>4 DEF r

LEMMA PrependedHolds ==
  ASSUME NEW seq \in Seq(Messages), NEW e \in Messages, NEW m
  PROVE  Holds(<<e>> \o seq, m) <=> Holds(seq, m) \/ m = e
<1> DEFINE r == <<e>> \o seq
<1>1. /\ Len(seq) \in Nat /\ DOMAIN seq = 1 .. Len(seq) /\ DOMAIN r = 1 .. Len(seq) + 1
      /\ r[1] = e /\ \A i \in 1 .. Len(seq) : r[i + 1] = seq[i]
  OBVIOUS
<1>2. \A i \in 2 .. Len(seq) + 1 : r[i] = seq[i - 1] /\ i - 1 \in 1 .. Len(seq)
  OBVIOUS
<1> HIDE DEF r
<1>3. \A i \in 1 .. Len(seq) + 1 : i = 1 \/ i \in 2 .. Len(seq) + 1
  BY <1>1
<1>4. 1 \in 1 .. Len(seq) + 1 /\ \A i \in 1 .. Len(seq) : i + 1 \in 1 .. Len(seq) + 1
  BY <1>1
<1>5. Holds(r, m) => Holds(seq, m) \/ m = e
  BY <1>1, <1>2, <1>3 DEF Holds
<1>6. Holds(seq, m) \/ m = e => Holds(r, m)
  BY <1>1, <1>4 DEF Holds
<1> QED
  BY <1>5, <1>6 DEF r

LEMMA TakenHolds ==
  ASSUME NEW seq \in Seq(Messages), seq # <<>>, NEW m, Holds(seq, m)
  PROVE  m = Head(seq) \/ Holds(Tail(seq), m)
<1>1. Len(seq) \in Nat /\ DOMAIN seq = 1 .. Len(seq)
  OBVIOUS
<1>2. PICK i \in 1 .. Len(seq) : seq[i] = m
  BY <1>1 DEF Holds
<1>3. CASE i = 1
  BY <1>2, <1>3
<1>4. CASE i # 1
  <2>1. /\ i - 1 \in 1 .. Len(seq) - 1 /\ DOMAIN Tail(seq) = 1 .. Len(seq) - 1
        /\ Tail(seq)[i - 1] = seq[i]
    BY <1>2, <1>4
  <2> QED
    BY <1>2, <2>1 DEF Holds
<1> QED
  BY <1>3, <1>4

LEMMA WaitsIs ==
  ASSUME NEW m, NEW q
  PROVE  /\ Waits(m, q) <=> Holds(content[q], m)
         /\ Waits(m, q)' <=> Holds(content'[q], m)
BY DEF Waits, Holds

(* What the broker routes is added to the queues it is routed to.          *)
LEMMA ArriveKeeps ==
  ASSUME TypeOK, NEW m \in Messages, NEW x, Arrive(m, x, content)
  PROVE  /\ \A n \in Messages, q \in Queues : Waits(n, q) => Waits(n, q)'
         /\ \A n \in Messages, q \in Queues :
              <<n, q>> \in routed' => <<n, q>> \in routed \/ Waits(n, q)'
         /\ m \in unrouted' \/ \E q \in Queues : <<m, q>> \in routed'
         /\ routed \subseteq routed' /\ unrouted \subseteq unrouted'
<1> DEFINE targets == Reached(x, RoutingKey(m))
<1>1. targets \subseteq Queues
  BY DEF Reached, Bound, TypeOK
<1>2. /\ \A q \in Queues : content'[q] = IF q \in targets THEN Append(content[q], m) ELSE content[q]
      /\ routed' = routed \cup {<<m, q>> : q \in targets}
      /\ unrouted' = IF targets = {} THEN unrouted \cup {m} ELSE unrouted
  BY DEF Arrive
<1> HIDE DEF targets
<1>3. \A q \in Queues : content[q] \in Seq(Messages)
  BY DEF TypeOK
<1>4. ASSUME NEW n \in Messages, NEW q \in Queues, Waits(n, q) PROVE Waits(n, q)'
  <2>1. Holds(content[q], n)
    BY <1>4, WaitsIs
  <2>2. Holds(Append(content[q], m), n)
    BY <1>3, <2>1, AppendedHolds
  <2>3. Holds(content'[q], n)
    BY <1>2, <2>1, <2>2
  <2> QED
    BY <2>3, WaitsIs
<1>5. ASSUME NEW n \in Messages, NEW q \in Queues, <<n, q>> \in routed', <<n, q>> \notin routed
      PROVE  Waits(n, q)'
  <2>1. n = m /\ q \in targets
    BY <1>2, <1>5
  <2>2. Holds(Append(content[q], m), m)
    BY <1>3, AppendedHolds
  <2>3. Holds(content'[q], n)
    BY <1>2, <2>1, <2>2
  <2> QED
    BY <2>3, WaitsIs
<1>6. m \in unrouted' \/ \E q \in Queues : <<m, q>> \in routed'
  BY <1>1, <1>2
<1> QED
  BY <1>2, <1>4, <1>5, <1>6

(* What a service holds goes back to its queue when it can no longer       *)
(* settle it.                                                              *)
LEMMA GiveBackKeeps ==
  ASSUME TypeOK, NEW s \in Services, content' = Requeued(s), Take(s),
         NEW m \in Messages, NEW q \in Queues, Waits(m, q) \/ IsWith(m, q)
  PROVE  Waits(m, q)' \/ IsWith(m, q)'
<1>1. held \in [Services -> Messages \cup {None}] /\ content \in [Queues -> Seq(Messages)]
  BY DEF TypeOK
<1>2. held'[s] = None /\ \A r \in Services : r # s => held'[r] = held[r]
  BY <1>1 DEF Take
<1>3. CASE held[s] = None
  <2>1. content' = content /\ \A r \in Services : held'[r] = held[r]
    BY <1>2, <1>3 DEF Requeued
  <2> QED
    BY <2>1, WaitsIs DEF IsWith, Subscribers
<1>4. CASE held[s] # None
  <2>1. s \in Subscribers /\ held[s] \in Messages
    BY <1>1, <1>4 DEF TypeOK, Subscribers
  <2>2. Options[s].queue \in Queues
    BY <2>1, OptionFields DEF Subscribers, Publishers
  <2>3. /\ content'[Options[s].queue] = <<held[s]>> \o content[Options[s].queue]
        /\ \A r \in Queues : r # Options[s].queue => content'[r] = content[r]
    BY <1>1, <1>4, <2>2 DEF Requeued
  <2>4. content[q] \in Seq(Messages)
    BY <1>1
  <2>5. CASE Waits(m, q)
    <3>1. Holds(content'[q], m)
      <4>1. CASE q = Options[s].queue
        <5>1. Holds(content[q], m)
          BY <2>5, WaitsIs
        <5>2. Holds(<<held[s]>> \o content[q], m)
          BY <2>1, <2>4, <5>1, PrependedHolds
        <5> QED
          BY <2>3, <4>1, <5>2
      <4>2. CASE q # Options[s].queue
        BY <2>3, <2>5, <4>2, WaitsIs
      <4> QED
        BY <4>1, <4>2
    <3> QED
      BY <3>1, WaitsIs
  <2>6. CASE IsWith(m, q)
    <3>1. PICK r \in Subscribers : Options[r].queue = q /\ held[r] = m
      BY <2>6 DEF IsWith
    <3>2. CASE r = s
      <4>1. Holds(<<held[s]>> \o content[q], m)
        BY <2>1, <2>4, <3>1, <3>2, PrependedHolds
      <4>2. Holds(content'[q], m)
        BY <2>3, <3>1, <3>2, <4>1
      <4> QED
        BY <4>2, WaitsIs
    <3>3. CASE r # s
      BY <1>2, <3>1, <3>3 DEF IsWith, Subscribers
    <3> QED
      BY <3>2, <3>3
  <2> QED
    BY <2>5, <2>6
<1> QED
  BY <1>3, <1>4

LEMMA DeliverKeeps ==
  ASSUME TypeOK, NEW s \in Subscribers, Deliver(s),
         NEW m \in Messages, NEW q \in Queues, Waits(m, q) \/ IsWith(m, q)
  PROVE  Waits(m, q)' \/ IsWith(m, q)'
<1> DEFINE own == Options[s].queue
<1>1. held \in [Services -> Messages \cup {None}] /\ content \in [Queues -> Seq(Messages)]
  BY DEF TypeOK
<1>2. s \in Services /\ own \in Queues
  BY OptionFields DEF Subscribers, Publishers
<1>3. /\ content[own] # <<>> /\ held[s] = None
      /\ held'[s] = Head(content[own]) /\ content'[own] = Tail(content[own])
      /\ \A r \in Services : r # s => held'[r] = held[r]
      /\ \A r \in Queues : r # own => content'[r] = content[r]
  BY <1>1, <1>2 DEF Deliver
<1>4. CASE IsWith(m, q)
  <2>1. PICK r \in Subscribers : Options[r].queue = q /\ held[r] = m
    BY <1>4 DEF IsWith
  <2>2. r # s /\ r \in Services
    BY <1>3, <2>1, NoneIsNothing DEF Subscribers
  <2> QED
    BY <1>3, <2>1, <2>2 DEF IsWith
<1>5. CASE Waits(m, q) /\ q = own
  <2>1. content[own] \in Seq(Messages) /\ Holds(content[own], m)
    BY <1>1, <1>2, <1>5, WaitsIs
  <2>2. m = Head(content[own]) \/ Holds(Tail(content[own]), m)
    BY <1>3, <2>1, TakenHolds
  <2>3. m = held'[s] \/ Holds(content'[q], m)
    BY <1>3, <1>5, <2>2
  <2> QED
    BY <1>5, <2>3, WaitsIs DEF IsWith
<1>6. CASE Waits(m, q) /\ q # own
  BY <1>3, <1>6, WaitsIs
<1> QED
  BY <1>4, <1>5, <1>6

(* A subscriber is done with its message by settling it.                   *)
LEMMA SettleKeeps ==
  ASSUME TypeOK, NEW s \in Subscribers, Take(s),
         settled' = settled \cup {<<held[s], Options[s].queue>>},
         NEW m \in Messages, NEW q \in Queues, <<m, q>> \in settled \/ IsWith(m, q)
  PROVE  <<m, q>> \in settled' \/ IsWith(m, q)'
<1>1. CASE IsWith(m, q)
  <2>1. PICK r \in Subscribers : Options[r].queue = q /\ held[r] = m
    BY <1>1 DEF IsWith
  <2>2. r # s => held'[r] = held[r]
    BY <2>1 DEF Take, TypeOK, Subscribers
  <2> QED
    BY <2>1, <2>2 DEF IsWith
<1> QED
  BY <1>1

LEMMA QuietKeeps ==
  ASSUME RoutedIsKept, UNCHANGED <<content, held, fate>>
  PROVE  RoutedIsKept'
<1>1. UNCHANGED <<content, held, published, routed, unrouted, offTheWire, settled>>
  BY DEF fate
<1>2. ASSUME NEW m, NEW q
      PROVE  (Waits(m, q)' <=> Waits(m, q)) /\ (IsWith(m, q)' <=> IsWith(m, q))
  BY <1>1 DEF Waits, IsWith
<1> QED
  BY <1>1, <1>2 DEF RoutedIsKept

(* Of what was published, only Publish changes anything.                   *)
LEMMA FateOfOthers ==
  ASSUME TypeOK, RoutedIsKept, published' = published, offTheWire' = offTheWire,
         routed \subseteq routed', unrouted \subseteq unrouted',
         \A m \in Messages, q \in Queues : <<m, q>> \in routed' =>
           <<m, q>> \in settled' \/ Waits(m, q)' \/ IsWith(m, q)'
  PROVE  RoutedIsKept'
<1>1. \A m \in published : m \in offTheWire \cup unrouted \/ \E q \in Queues : <<m, q>> \in routed
  BY DEF RoutedIsKept
<1> QED
  BY <1>1 DEF RoutedIsKept

LEMMA PublishRouted ==
  ASSUME TypeOK, RoutedIsKept, NEW m \in Messages, Publish(m)
  PROVE  RoutedIsKept'
<1>1. UNCHANGED <<held, settled>> /\ published' = published \cup {m}
  BY DEF Publish, delivery
<1>2. \A n, q : IsWith(n, q)' <=> IsWith(n, q)
  BY <1>1 DEF IsWith
<1>3. CASE Arrive(m, Options[From[m]].exchange, content) /\ offTheWire' = offTheWire
  <2>1. /\ \A n \in Messages, q \in Queues : Waits(n, q) => Waits(n, q)'
        /\ \A n \in Messages, q \in Queues :
             <<n, q>> \in routed' => <<n, q>> \in routed \/ Waits(n, q)'
        /\ m \in unrouted' \/ \E q \in Queues : <<m, q>> \in routed'
        /\ routed \subseteq routed' /\ unrouted \subseteq unrouted'
    BY <1>3, ArriveKeeps
  <2> QED
    BY <1>1, <1>2, <1>3, <2>1 DEF RoutedIsKept
<1>4. CASE offTheWire' = offTheWire \cup {m} /\ UNCHANGED <<content, routed, unrouted>>
  <2>1. \A n, q : Waits(n, q)' <=> Waits(n, q)
    BY <1>4 DEF Waits
  <2> QED
    BY <1>1, <1>2, <1>4, <2>1 DEF RoutedIsKept
<1> QED
  BY <1>3, <1>4 DEF Publish

LEMMA DeliveryRouted ==
  ASSUME TypeOK, RoutedIsKept, NEW s \in Services,
         (s \in Subscribers /\ (Deliver(s) \/ ConnectionLost(s))) \/ Die(s)
  PROVE  RoutedIsKept'
<1>1. UNCHANGED fate
  BY DEF Deliver, ConnectionLost, Die
<1>2. ASSUME NEW m \in Messages, NEW q \in Queues, Waits(m, q) \/ IsWith(m, q)
      PROVE  Waits(m, q)' \/ IsWith(m, q)'
  <2>1. CASE s \in Subscribers /\ Deliver(s)
    BY <1>2, <2>1, DeliverKeeps
  <2>2. CASE ConnectionLost(s) \/ Die(s)
    <3>1. content' = Requeued(s) /\ Take(s)
      BY <2>2 DEF ConnectionLost, Die, GiveBack
    <3> QED
      BY <1>2, <3>1, GiveBackKeeps
  <2> QED
    BY <2>1, <2>2
<1> QED
  BY <1>1, <1>2, FateOfOthers DEF fate, RoutedIsKept

LEMMA SettlementRouted ==
  ASSUME TypeOK, RoutedIsKept, NEW s \in Subscribers, Ack(s) \/ Nack(s)
  PROVE  RoutedIsKept'
<1>1. /\ s \in Services /\ Take(s) /\ at[s] = "handler"
      /\ published' = published /\ offTheWire' = offTheWire
  BY DEF Ack, Nack, Subscribers
<1>2. held[s] \in Messages
  BY <1>1 DEF TypeOK
<1>3. \A m \in Messages, q \in Queues :
        <<m, q>> \in routed => <<m, q>> \in settled \/ Waits(m, q) \/ IsWith(m, q)
  BY DEF RoutedIsKept
<1>4. CASE Ack(s) \/ (Nack(s) /\ Options[s].noRequeue)
  <2>1. settled' = settled \cup {<<held[s], Options[s].queue>>}
    BY <1>4 DEF Ack, Nack
  <2>2. ASSUME NEW m \in Messages, NEW q \in Queues, <<m, q>> \in settled \/ IsWith(m, q)
        PROVE  <<m, q>> \in settled' \/ IsWith(m, q)'
    BY <1>1, <2>1, <2>2, SettleKeeps
  <2>3. CASE UNCHANGED <<content, routed, unrouted>>
    <3>1. \A m, q : Waits(m, q)' <=> Waits(m, q)
      BY <2>3 DEF Waits
    <3> QED
      BY <1>1, <1>3, <2>2, <2>3, <3>1, FateOfOthers
  <2>4. CASE Arrive(held[s], queues[Options[s].queue].to, content)
    <3>1. /\ \A n \in Messages, q \in Queues : Waits(n, q) => Waits(n, q)'
          /\ \A n \in Messages, q \in Queues :
               <<n, q>> \in routed' => <<n, q>> \in routed \/ Waits(n, q)'
          /\ routed \subseteq routed' /\ unrouted \subseteq unrouted'
      BY <1>2, <2>4, ArriveKeeps
    <3> QED
      BY <1>1, <1>3, <2>2, <3>1, FateOfOthers
  <2>5. UNCHANGED <<content, routed, unrouted>> \/ Arrive(held[s], queues[Options[s].queue].to, content)
    BY <1>4 DEF Ack, Nack
  <2> QED
    BY <2>3, <2>4, <2>5
<1>5. CASE Nack(s) /\ ~Options[s].noRequeue
  <2>1. content' = Requeued(s) /\ UNCHANGED <<settled, routed, unrouted>>
    BY <1>5 DEF Nack
  <2>2. ASSUME NEW m \in Messages, NEW q \in Queues, Waits(m, q) \/ IsWith(m, q)
        PROVE  Waits(m, q)' \/ IsWith(m, q)'
    BY <1>1, <2>1, <2>2, GiveBackKeeps
  <2> QED
    BY <1>1, <1>3, <2>1, <2>2, FateOfOthers
<1> QED
  BY <1>4, <1>5

(* Whoever dies or loses its connection, a message that Publish took and   *)
(* that reached the broker is in no queue it went to forgotten.            *)
THEOREM NothingRoutedIsLost == Spec => []RoutedIsKept
<1>1. Init => RoutedIsKept
  BY DEF Init, RoutedIsKept
<1>2. ASSUME TypeOK, RoutedIsKept, [Next]_vars PROVE RoutedIsKept'
  <2>1. ASSUME NEW s \in Services, ServiceStep(s) PROVE UNCHANGED <<content, held, fate>>
    BY <2>1 DEF ServiceStep, Start, Open, Declare, StartFails, delivery
  <2>2. ASSUME NEW s \in Subscribers, Forward(s) PROVE UNCHANGED <<content, held, fate>>
    BY <2>2 DEF Forward
  <2>3. ASSUME BrokerRestart \/ UNCHANGED vars PROVE UNCHANGED <<content, held, fate>>
    BY <2>3 DEF BrokerRestart, Durable, delivery, vars
  <2>4. ASSUME NEW s \in Subscribers PROVE s \in Services
    BY DEF Subscribers
  <2> QED
    BY <1>2, <2>1, <2>2, <2>3, <2>4, QuietKeeps, PublishRouted, DeliveryRouted, SettlementRouted
       DEF Next, SubscriberStep
<1>3. Spec => []TypeOK
  BY TypeCorrect
<1> QED
  BY <1>1, <1>2, <1>3, PTL DEF Spec
=============================================================================
