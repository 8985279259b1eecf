------------------------------ MODULE Topology ------------------------------
(***************************************************************************)
(* Services that talk over one AMQP broker by qmill: how they declare the  *)
(* exchanges, queues and bindings they need, in any order of starting,     *)
(* and what becomes of the messages published in the meantime.             *)
(*                                                                         *)
(* NewQmill makes its declarations one round trip after another and fails  *)
(* at the first that is refused; the services of this SDK panic then, and  *)
(* are started again.                                                      *)
(*                                                                         *)
(* Options[s] is what service s passes to NewQmill, None or "" for what it *)
(* leaves out.  A publisher names an exchange and a subscriber a queue, as *)
(* PubFromEnv and NewTr do.                                                *)
(***************************************************************************)
EXTENDS Integers, Sequences, FiniteSets

CONSTANTS
  Services,   \* the processes that use qmill
  Options,    \* per service: its options
  Exchanges,  \* names of exchanges
  Queues,     \* names of queues
  Messages,   \* what may be published, once each
  From,       \* per message: the publisher
  Dest,       \* per message: the destination given to Publish
  None,       \* no name, no message
  Telemetry,  \* whether tel is enabled
  MaxFaults   \* bound: services that die, connections that break, messages rejected

Types == {"direct", "topic", "fanout"}
ExchangeKinds == [type : Types, to : Exchanges \cup {None}]
QueueKinds    == [to : Exchanges \cup {None}]

ASSUME TopologyAssumption ==
  /\ MaxFaults \in Nat /\ Telemetry \in BOOLEAN
  /\ None \notin Exchanges \cup Queues \cup Messages \cup ExchangeKinds \cup QueueKinds
  /\ Options \in [Services ->
       [exchange : Exchanges \cup {None}, type : Types, declare : BOOLEAN,
        alternate : Exchanges \cup {None}, alternateType : Types \cup {""},
        deadLetter : Exchanges \cup {None}, deadLetterType : Types \cup {""},
        queue : Queues \cup {None}, declareQueue : BOOLEAN,
        bind : Exchanges \cup {None}, key : STRING, noRequeue : BOOLEAN]]
  /\ \A s \in Services :
       /\ Options[s].queue = None <=> Options[s].exchange # None
       /\ Options[s].declare => Options[s].exchange # None
       /\ Options[s].declareQueue => Options[s].queue # None
  /\ From \in [Messages -> {s \in Services : Options[s].queue = None}]
  /\ Dest \in [Messages -> STRING]

VARIABLES
  (* The broker *)
  exchanges,  \* per name: its type and alternate exchange, or None
  queues,     \* per name: its dead-letter exchange, or None
  bindings,   \* an exchange, a key and a queue each
  content,    \* per queue: the messages ready for delivery
  (* The services *)
  state,      \* "down", "starting" or "up"
  step,       \* the place in Order it has come to, 0 unless starting
  held,       \* the message delivered and not settled
  at,         \* where that is: with the forwarder of Subscribe, or the handler
  faults,     \* faults so far
  (* History *)
  published,  \* messages whose Publish returned nil
  routed,     \* pairs of message and queue it went to
  unrouted,   \* messages that reached no queue, when published or rejected
  offTheWire, \* messages that did not reach the broker
  settled,    \* pairs of message and queue acknowledged or rejected there
  wasUp       \* services that have been up

broker == <<exchanges, queues, bindings>>
service == <<state, step, wasUp>>
delivery == <<held, at>>
fate == <<published, routed, unrouted, offTheWire, settled>>
vars == <<broker, content, service, delivery, faults, fate>>

Publishers  == {s \in Services : Options[s].queue = None}
Subscribers == Services \ Publishers

Init ==
  /\ exchanges = [x \in Exchanges |-> None]
  /\ queues = [q \in Queues |-> None]
  /\ bindings = {} /\ content = [q \in Queues |-> <<>>]
  /\ state = [s \in Services |-> "down"] /\ step = [s \in Services |-> 0]
  /\ held = [s \in Services |-> None] /\ at = [s \in Services |-> "none"]
  /\ faults = 0 /\ wasUp = {}
  /\ published = {} /\ routed = {} /\ unrouted = {} /\ offTheWire = {} /\ settled = {}

Fault == faults < MaxFaults /\ faults' = faults + 1

-----------------------------------------------------------------------------
(* forceDeclarations: what the options ask for, in this order.             *)

Order_ReferencesLast == <<"exchange", "queue", "bind", "alternate", "deadLetter">>
Order                == <<"alternate", "deadLetter", "exchange", "queue", "bind">>

Asks_NoExchange(o, what) ==
  \/ what = "alternate"  /\ o.alternate # None
  \/ what = "deadLetter" /\ o.deadLetter # None
  \/ what = "queue"      /\ o.declareQueue
  \/ what = "bind"       /\ o.declareQueue /\ o.bind # None
Asks(o, what) ==
  \/ what = "alternate"  /\ o.alternate # None
  \/ what = "deadLetter" /\ o.deadLetter # None
  \/ what = "exchange"   /\ o.declare
  \/ what = "queue"      /\ o.declareQueue
  \/ what = "bind"       /\ o.declareQueue /\ o.bind # None

Exchange(x, type, to)  == [kind |-> "exchange", name |-> x, type |-> type, to |-> to]
Queue(q, to)           == [kind |-> "queue", name |-> q, type |-> "none", to |-> to]
Bind(q, key, x)        == [kind |-> "bind", name |-> q, type |-> key, to |-> x]
Default(type, default) == IF type = "" THEN default ELSE type

Declaration(o, what) ==
  CASE what = "alternate"  -> Exchange(o.alternate, Default(o.alternateType, "fanout"), None)
    [] what = "deadLetter" -> Exchange(o.deadLetter, Default(o.deadLetterType, "direct"), None)
    [] what = "exchange"   -> Exchange(o.exchange, o.type, o.alternate)
    [] what = "queue"      -> Queue(o.queue, o.deadLetter)
    [] what = "bind"       -> Bind(o.queue, o.key, o.bind)

(* n is the place in Order of the next declaration that s makes.           *)
Due(s, n) ==
  /\ Asks(Options[s], Order[n])
  /\ \A k \in step[s] .. n - 1 : ~Asks(Options[s], Order[k])

(* The broker refuses to declare something again but differently, and to   *)
(* bind what it does not have.                                             *)
Accepts(d) ==
  \/ d.kind = "exchange" /\ exchanges[d.name] \in {None, [type |-> d.type, to |-> d.to]}
  \/ d.kind = "queue"    /\ queues[d.name] \in {None, [to |-> d.to]}
  \/ d.kind = "bind"     /\ exchanges[d.to] # None /\ queues[d.name] # None

CarryOutDeclaration(d) ==
  \/ /\ d.kind = "exchange"
     /\ exchanges' = [exchanges EXCEPT ![d.name] = [type |-> d.type, to |-> d.to]]
     /\ UNCHANGED <<queues, bindings>>
  \/ /\ d.kind = "queue"
     /\ queues' = [queues EXCEPT ![d.name] = [to |-> d.to]]
     /\ UNCHANGED <<exchanges, bindings>>
  \/ /\ d.kind = "bind"
     /\ bindings' = bindings \cup {[from |-> d.to, key |-> d.type, to |-> d.name]}
     /\ UNCHANGED <<exchanges, queues>>

Start(s) ==
  /\ state[s] = "down"
  /\ state' = [state EXCEPT ![s] = "starting"]
  /\ step' = [step EXCEPT ![s] = 1]
  /\ UNCHANGED <<broker, content, wasUp, delivery, faults, fate>>

Declare(s, n) ==
  LET d == Declaration(Options[s], Order[n])
  IN  /\ state[s] = "starting" /\ n >= step[s] /\ Due(s, n) /\ Accepts(d)
      /\ CarryOutDeclaration(d)
      /\ step' = [step EXCEPT ![s] = n + 1]
      /\ UNCHANGED <<content, state, wasUp, delivery, faults, fate>>

(* NewQmill returns the error; the service panics.                         *)
StartFails(s, n) ==
  /\ state[s] = "starting" /\ n >= step[s] /\ Due(s, n)
  /\ ~Accepts(Declaration(Options[s], Order[n]))
  /\ state' = [state EXCEPT ![s] = "down"]
  /\ step' = [step EXCEPT ![s] = 0]
  /\ UNCHANGED <<broker, content, wasUp, delivery, faults, fate>>

(* PreparePublisher or Subscribe, which connect.  What they declare once   *)
(* more is as forceDeclarations has just left it, so that nothing changes. *)
Open(s) ==
  /\ state[s] = "starting" /\ \A n \in step[s] .. 5 : ~Asks(Options[s], Order[n])
  /\ state' = [state EXCEPT ![s] = "up"]
  /\ step' = [step EXCEPT ![s] = 0]
  /\ wasUp' = wasUp \cup {s}
  /\ UNCHANGED <<broker, content, delivery, faults, fate>>

-----------------------------------------------------------------------------
(* Publishing.  Only a topic exchange is given the destination as the key. *)

RoutingKey(m) == IF Options[From[m]].type = "topic" THEN Dest[m] ELSE ""

Bound(x, key) ==
  {b.to : b \in {c \in bindings : c.from = x /\ (exchanges[x].type = "fanout" \/ c.key = key)}}

Reached(x, key) ==
  IF x = None \/ exchanges[x] = None THEN {}
  ELSE IF Bound(x, key) # {} THEN Bound(x, key)
  ELSE IF exchanges[x].to = None THEN {} ELSE Bound(exchanges[x].to, key)

Arrive(m, x, before) ==
  LET targets == Reached(x, RoutingKey(m))
  IN  /\ content' = [q \in Queues |-> IF q \in targets THEN Append(before[q], m) ELSE before[q]]
      /\ routed' = routed \cup {<<m, q>> : q \in targets}
      /\ unrouted' = IF targets = {} THEN unrouted \cup {m} ELSE unrouted

(* Publish returns nil when the message is written to the connection.      *)
Publish(m) ==
  /\ state[From[m]] = "up" /\ m \notin published
  /\ published' = published \cup {m}
  /\ \/ /\ Arrive(m, Options[From[m]].exchange, content)
        /\ UNCHANGED <<offTheWire, faults>>
     \/ /\ Fault
        /\ offTheWire' = offTheWire \cup {m}
        /\ UNCHANGED <<content, routed, unrouted>>
  /\ UNCHANGED <<broker, service, delivery, settled>>

-----------------------------------------------------------------------------
(* Subscribing.  The broker delivers one message at a time.                *)

Take(s) == /\ held' = [held EXCEPT ![s] = None]
           /\ at' = [at EXCEPT ![s] = "none"]

Deliver(s) ==
  LET q == Options[s].queue
  IN  /\ s \in Subscribers /\ state[s] = "up" /\ held[s] = None /\ content[q] # <<>>
      /\ held' = [held EXCEPT ![s] = Head(content[q])]
      /\ at' = [at EXCEPT ![s] = IF Telemetry THEN "forwarder" ELSE "handler"]
      /\ content' = [content EXCEPT ![q] = Tail(@)]
      /\ UNCHANGED <<broker, service, faults, fate>>

(* The goroutine of Subscribe starts a span and passes the message on.     *)
Forward(s) ==
  /\ at[s] = "forwarder"
  /\ at' = [at EXCEPT ![s] = "handler"]
  /\ UNCHANGED <<broker, content, service, held, faults, fate>>

Ack(s) ==
  /\ at[s] = "handler"
  /\ settled' = settled \cup {<<held[s], Options[s].queue>>}
  /\ Take(s)
  /\ UNCHANGED <<broker, content, service, faults, published, routed, unrouted, offTheWire>>

Requeued(s) ==
  LET q == Options[s].queue
  IN  IF held[s] = None THEN content ELSE [content EXCEPT ![q] = <<held[s]>> \o @]

(* With NoRequeueOnNack the queue's dead-letter exchange gets it, if any.  *)
Nack(s) ==
  /\ at[s] = "handler" /\ Fault
  /\ IF Options[s].noRequeue
     THEN /\ settled' = settled \cup {<<held[s], Options[s].queue>>}
          /\ Arrive(held[s], queues[Options[s].queue].to, content)
     ELSE content' = Requeued(s) /\ UNCHANGED <<settled, routed, unrouted>>
  /\ Take(s)
  /\ UNCHANGED <<broker, service, published, offTheWire>>

-----------------------------------------------------------------------------
(* A service dies, or its connection breaks and is opened again: what it   *)
(* holds goes back to its queue.  FailOnError is a Nack and then a death.  *)
GiveBack(s) == content' = Requeued(s) /\ Take(s)

Die(s) ==
  /\ state[s] # "down" /\ Fault
  /\ state' = [state EXCEPT ![s] = "down"]
  /\ step' = [step EXCEPT ![s] = 0]
  /\ GiveBack(s)
  /\ UNCHANGED <<broker, wasUp, fate>>

ConnectionLost(s) ==
  /\ held[s] # None /\ Fault
  /\ GiveBack(s)
  /\ UNCHANGED <<broker, service, fate>>

(* The broker restarts, all connections lost.  What is declared and what   *)
(* waits in a queue is kept if durable, as NewDurablePubSubConfig has it.   *)
(* What a service holds is given back by ConnectionLost before.            *)
Durable_Not == FALSE
Durable     == TRUE

BrokerRestart ==
  /\ Fault /\ \E x \in Exchanges : exchanges[x] # None
  /\ \A s \in Services : held[s] = None
  /\ UNCHANGED <<service, delivery, fate>>
  /\ IF Durable
     THEN UNCHANGED <<broker, content>>
     ELSE /\ exchanges' = [x \in Exchanges |-> None] /\ queues' = [q \in Queues |-> None]
          /\ bindings' = {} /\ content' = [q \in Queues |-> <<>>]

-----------------------------------------------------------------------------
ServiceStep(s) ==
  \/ Start(s) \/ Open(s)
  \/ \E n \in 1 .. 5 : Declare(s, n) \/ StartFails(s, n)
SubscriberStep(s) == Deliver(s) \/ Forward(s) \/ Ack(s)

Next ==
  \/ \E s \in Services : ServiceStep(s) \/ Die(s)
  \/ \E s \in Subscribers : SubscriberStep(s) \/ Nack(s) \/ ConnectionLost(s)
  \/ \E m \in Messages : Publish(m)
  \/ BrokerRestart

Spec == Init /\ [][Next]_vars

(* A service that is down is started again, the broker answers, and the    *)
(* handlers settle what they are given.                                    *)
Fairness ==
  /\ \A s \in Services : WF_vars(ServiceStep(s))
  /\ \A s \in Subscribers : WF_vars(SubscriberStep(s))

FairSpec == Spec /\ Fairness

-----------------------------------------------------------------------------
(* Properties *)

(* Every variable holds a value of its kind; a subscriber holds a message   *)
(* just while it is at its forwarder or its handler, a publisher never.     *)
TypeOK ==
  /\ exchanges \in [Exchanges -> ExchangeKinds \cup {None}]
  /\ queues \in [Queues -> QueueKinds \cup {None}]
  /\ bindings \subseteq [from : Exchanges, key : STRING, to : Queues]
  /\ content \in [Queues -> Seq(Messages)]
  /\ state \in [Services -> {"down", "starting", "up"}]
  /\ step \in [Services -> 0 .. 6] /\ wasUp \subseteq Services
  /\ held \in [Services -> Messages \cup {None}]
  /\ at \in [Services -> {"none", "forwarder", "handler"}]
  /\ faults \in 0 .. MaxFaults
  /\ published \subseteq Messages /\ unrouted \subseteq Messages /\ offTheWire \subseteq Messages
  /\ routed \subseteq Messages \X Queues /\ settled \subseteq Messages \X Queues
  /\ \A s \in Services : held[s] = None <=> at[s] = "none"
  /\ \A s \in Publishers : held[s] = None

(* Wherever a service dies between two declarations, what is declared      *)
(* refers to nothing missing: a queue's dead-letter exchange is there, and *)
(* an exchange's alternate.                                                *)
ReferencesExist ==
  /\ \A x \in Exchanges :
       exchanges[x] # None /\ exchanges[x].to # None => exchanges[exchanges[x].to] # None
  /\ \A q \in Queues :
       queues[q] # None /\ queues[q].to # None => exchanges[queues[q].to] # None

Stands(d) ==
  /\ d.kind = "exchange" => exchanges[d.name] = [type |-> d.type, to |-> d.to]
  /\ d.kind = "queue"    => queues[d.name] = [to |-> d.to]
  /\ d.kind = "bind"     => [from |-> d.to, key |-> d.type, to |-> d.name] \in bindings

(* What a service that has been up asked for stands as it asked for it,    *)
(* with all it refers to, whatever others declare and whoever restarts.    *)
DeclarationsStand ==
  /\ ReferencesExist
  /\ \A s \in wasUp : \A n \in DOMAIN Order :
       Asks(Options[s], Order[n]) => Stands(Declaration(Options[s], Order[n]))

(* In whatever order they are started, and whoever dies on the way, the    *)
(* services all come up and stay up once faults have ceased.               *)
AllComeUp == \A s \in Services : <>[](state[s] = "up")

(* What a subscriber that is bound asks to be sent.                        *)
Wants(s, m) ==
  LET o == Options[s]
  IN  /\ o.declareQueue /\ o.bind # None /\ o.bind = Options[From[m]].exchange
      /\ \/ o.key = RoutingKey(m)
         \/ exchanges[o.bind] # None /\ exchanges[o.bind].type = "fanout"

(* From the moment a subscriber has been up once, every message it is      *)
(* bound to goes to its queue, also while it is down.                      *)
NothingMissedOnceUp ==
  [][\A m \in (published' \ published) \ offTheWire' : \A s \in wasUp \cap Subscribers :
       Wants(s, m) => <<m, Options[s].queue>> \in routed']_vars

(* Every message published once a subscriber has been up is settled there, *)
(* whoever dies, restarts or loses its connection, before or after; but    *)
(* for one that never reached the broker although Publish returned nil.    *)
PublishedIsSettled ==
  \A m \in Messages, s \in Subscribers :
    [](s \in wasUp /\ m \notin published /\ Wants(s, m) =>
         (m \in published ~> m \in offTheWire \/ <<m, Options[s].queue>> \in settled))

Waits(m, q) == \E i \in DOMAIN content[q] : content[q][i] = m

IsWith(m, q) == \E s \in Subscribers : Options[s].queue = q /\ held[s] = m

(* A published message is never lost: the wire broke, or no queue was      *)
(* bound, or it went to some queue; and in each queue it went to, that of  *)
(* rejected messages included, it was settled, or it waits there or with a *)
(* subscriber of that queue, whoever dies.                                 *)
RoutedIsKept ==
  /\ \A m \in published :
       m \in offTheWire \cup unrouted \/ \E q \in Queues : <<m, q>> \in routed
  /\ \A m \in Messages, q \in Queues :
       <<m, q>> \in routed => <<m, q>> \in settled \/ Waits(m, q) \/ IsWith(m, q)

(* A message published to a direct exchange reaches the queues bound with  *)
(* its destination.                                                        *)
DirectRoutesByDestination ==
  [][\A m \in (published' \ published) \ offTheWire' : \A s \in wasUp \cap Subscribers :
       Options[s].bind = Options[From[m]].exchange /\ Options[s].key = Dest[m]
         => <<m, Options[s].queue>> \in routed']_vars
=============================================================================
