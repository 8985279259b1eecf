------------------------------ MODULE Collector ------------------------------
(***************************************************************************)
(* A data collector: the pump of dc.go between the senders of inputs and   *)
(* the raw writer, with its spans (collection.go), its way of failing      *)
(* (ms.go) and what becomes of its telemetry (telemetry.go).               *)
(*                                                                         *)
(* Each sender is a goroutine of the consumer, a schedule say, that sends  *)
(* an input on the pump's unbuffered channel and blocks until it is taken. *)
(* Any error makes the pump panic, which takes the process down; whoever   *)
(* runs it starts another one.                                             *)
(*                                                                         *)
(* An input is <<s, n>>, the n-th one of sender s.                         *)
(***************************************************************************)
EXTENDS Integers, Sequences, FiniteSets

CONSTANTS
  Senders,    \* the goroutines that send inputs
  Traced,     \* those whose context records a span already
  MaxSends,   \* bound: inputs per sender
  MaxLives,   \* bound: processes, one after another
  NoInput     \* the pump has no input

ASSUME CollectorAssumption ==
  /\ Traced \subseteq Senders
  /\ MaxSends \in Nat /\ MaxLives \in Nat
  /\ NoInput \notin Senders \X (1 .. MaxSends)

VARIABLES
  (* The process *)
  pc,        \* what the pump is about to do
  input,     \* the input it collects
  channel,   \* its input channel
  sending,   \* the senders that wait on the channel
  sends,     \* per sender: how many inputs it has taken up
  (* Its telemetry *)
  open,      \* spans started and not ended
  pending,   \* spans ended and not yet exported
  (* The raw writer *)
  posted,    \* inputs whose request it has not carried out
  stored,    \* inputs it has stored, in order
  (* History *)
  taken,     \* inputs the pump has received, in order
  lost,      \* inputs under way when their process came down
  deaths     \* ends of the process so far

pump == <<pc, input>>
spans == <<open, pending>>
vars ==
  <<pump, channel, sending, sends, spans, posted, stored, taken, lost, deaths>>

Inputs == Senders \X (1 .. MaxSends)

(* NewDc: a new process.                                                   *)
Fresh ==
  /\ pc = "receive" /\ input = NoInput /\ channel = "open" /\ sending = {}
  /\ open = {} /\ pending = {}

Init ==
  /\ Fresh
  /\ sends = [s \in Senders |-> 0]
  /\ posted = {} /\ stored = <<>>
  /\ taken = <<>> /\ lost = {} /\ deaths = 0

-----------------------------------------------------------------------------
(* Spans: a collection whose context records none starts two, a trigger    *)
(* and a collect span within it.                                           *)

Started(i) == IF i[1] \in Traced THEN {} ELSE {i} \X {"trigger", "collect"}

End(ended) ==
  /\ open' = open \ ended
  /\ pending' = pending \cup (open \cap ended)

Ended_CollectOnly(i) == {<<i, "collect">>}
Ended(i)             == {i} \X {"trigger", "collect"}

(* The batch exporter.                                                     *)
Export ==
  /\ pending # {} /\ pc # "down"
  /\ pending' = {}
  /\ UNCHANGED <<pump, channel, sending, sends, open, posted, stored, taken, lost, deaths>>

-----------------------------------------------------------------------------
(* The pump *)

Send(s) ==
  /\ pc # "down" /\ s \notin sending /\ sends[s] < MaxSends
  /\ sending' = sending \cup {s}
  /\ sends' = [sends EXCEPT ![s] = @ + 1]
  /\ UNCHANGED <<pump, channel, spans, posted, stored, taken, lost, deaths>>

Receive(s) ==
  /\ pc = "receive" /\ s \in sending /\ channel = "open"
  /\ LET i == <<s, sends[s]>>
     IN  /\ input' = i
         /\ taken' = Append(taken, i)
         /\ open' = open \cup Started(i)
  /\ pc' = "handle"
  /\ sending' = sending \ {s}
  /\ UNCHANGED <<channel, sends, pending, posted, stored, lost, deaths>>

(* The handler has answered with data.                                     *)
Handled ==
  /\ pc = "handle"
  /\ pc' = "publish"
  /\ UNCHANGED <<input, channel, sending, sends, spans, posted, stored, taken, lost, deaths>>

(* sendRaw posts it to the raw writer, without a deadline.                 *)
Post ==
  /\ pc = "publish"
  /\ posted' = posted \cup {input}
  /\ pc' = "waiting"
  /\ UNCHANGED <<input, channel, sending, sends, spans, stored, taken, lost, deaths>>

(* The raw writer stores what was posted, also for a process that is gone. *)
Store(i) ==
  /\ i \in posted
  /\ posted' = posted \ {i}
  /\ stored' = Append(stored, i)
  /\ pc' = IF pc = "waiting" /\ input = i THEN "stored" ELSE pc
  /\ UNCHANGED <<input, channel, sending, sends, spans, taken, lost, deaths>>

Published ==
  /\ pc = "stored"
  /\ pc' = "end"
  /\ UNCHANGED <<input, channel, sending, sends, spans, posted, stored, taken, lost, deaths>>

(* collection.End *)
Collected ==
  /\ pc = "end"
  /\ End(Ended(input))
  /\ pc' = "receive" /\ input' = NoInput
  /\ UNCHANGED <<channel, sending, sends, posted, stored, taken, lost, deaths>>

(* FailOnError ends the innermost span and panics.                         *)
AfterError_Continue == "end"
AfterError_Return   == "stopped"
AfterError          == "unwind"

FailOnError ==
  /\ End({<<input, "collect">>})
  /\ pc' = AfterError
  /\ UNCHANGED <<input, channel, sending, sends, stored, taken, lost, deaths>>

(* The handler fails; the data cannot be posted (not marshalled, a wrong   *)
(* provider, a meta field that is refused); or the writer's answer is lost. *)
CollectFails ==
  /\ pc \in {"handle", "publish", "stored"}
  /\ FailOnError /\ UNCHANGED posted

(* The request fails or is refused, carried out later or not.              *)
PostFails ==
  /\ pc = "waiting"
  /\ FailOnError /\ posted' \in {posted, posted \ {input}}

(* The handler returned neither data nor an error: Publish dereferences it. *)
NilData ==
  /\ pc = "publish"
  /\ pc' = "unwind"
  /\ UNCHANGED <<input, channel, sending, sends, spans, posted, stored, taken, lost, deaths>>

(* The consumer closes the channel: the range ends, Start is about to      *)
(* return its error.                                                       *)
CloseInput ==
  /\ pc # "down" /\ channel = "open"
  /\ channel' = "closed"
  /\ UNCHANGED <<pump, sending, sends, spans, posted, stored, taken, lost, deaths>>

RangeEnds ==
  /\ pc = "receive" /\ channel = "closed"
  /\ pc' = "return"
  /\ UNCHANGED <<input, channel, sending, sends, spans, posted, stored, taken, lost, deaths>>

(* "defer close(d.input)": closing a closed channel panics.                *)
DeferredClose ==
  /\ pc \in {"return", "unwind"}
  /\ channel' = "closed"
  /\ pc' = IF pc = "return" /\ channel = "open" THEN "returned" ELSE "crash"
  /\ UNCHANGED <<input, sending, sends, spans, posted, stored, taken, lost, deaths>>

-----------------------------------------------------------------------------
(* The end of the process *)

(* Pending spans go with the process: Shutdown flushes the providers that  *)
(* Telemetry holds, and NewTelemetry stores none in it.                    *)
ProcessEnds ==
  /\ pc' = "down" /\ input' = NoInput /\ sending' = {}
  /\ open' = {} /\ pending' = {}
  /\ lost' = IF input = NoInput THEN lost ELSE lost \cup {input}
  /\ deaths' = deaths + 1
  /\ UNCHANGED <<channel, sends, posted, stored, taken>>

(* A panic reaches the top: the pump's, or that of a sender on the closed  *)
(* channel.                                                                *)
Crash ==
  /\ pc = "crash" \/ (pc # "down" /\ channel = "closed" /\ sending # {})
  /\ ProcessEnds

(* SIGTERM: GracefulShutdown, or the default action without telemetry.     *)
Terminate ==
  /\ pc # "down"
  /\ ProcessEnds

Restart ==
  /\ pc = "down" /\ deaths < MaxLives
  /\ pc' = "receive" /\ channel' = "open"
  /\ UNCHANGED <<input, sending, sends, spans, posted, stored, taken, lost, deaths>>

PumpStep ==
  \/ (\E s \in Senders : Receive(s)) \/ Handled \/ Post \/ Published \/ Collected
  \/ CollectFails \/ NilData \/ RangeEnds \/ DeferredClose \/ Crash

Next ==
  \/ PumpStep \/ PostFails
  \/ \E s \in Senders : Send(s)
  \/ \E i \in Inputs : Store(i)
  \/ CloseInput \/ Terminate \/ Restart \/ Export

Spec == Init /\ [][Next]_vars

(* Go schedules the pump, its handler returns, and a process that is down  *)
(* is started again; the raw writer promises nothing.                      *)
Fairness == WF_vars(PumpStep) /\ WF_vars(Restart)

FairSpec == Spec /\ Fairness

-----------------------------------------------------------------------------
(* Properties *)

(* Every variable holds a value of its kind, and the pump has an input just *)
(* where its loop has one.                                                  *)
TypeOK ==
  /\ pc \in {"receive", "handle", "publish", "waiting", "stored", "end",
            "unwind", "return", "returned", "crash", "down"}
  /\ input \in Inputs \cup {NoInput}
  /\ pc \in {"receive", "return", "returned", "down"} => input = NoInput
  /\ pc \in {"handle", "publish", "waiting", "stored", "end", "unwind"} => input # NoInput
  /\ channel \in {"open", "closed"} /\ sending \subseteq Senders
  /\ sends \in [Senders -> 0 .. MaxSends]
  /\ open \subseteq Inputs \X {"trigger", "collect"}
  /\ pending \subseteq Inputs \X {"trigger", "collect"}
  /\ posted \subseteq Inputs /\ stored \in Seq(Inputs) /\ taken \in Seq(Inputs)
  /\ lost \subseteq Inputs /\ deaths \in Nat

Has(q, i)         == \E n \in 1 .. Len(q) : q[n] = i
Precedes(q, i, j) == \E m, n \in 1 .. Len(q) : m < n /\ q[m] = i /\ q[n] = j

(* Whatever fails, the pump never goes past an input: the raw writer has   *)
(* every input the pump took, once and in order, but for the one it is     *)
(* collecting and the one each process that came down was collecting.      *)
CollectedInOrder ==
  LET settled == Inputs \ (lost \cup {input})
  IN  /\ \A i \in settled : Has(taken, i) => Has(stored, i)
      /\ \A i, j \in settled : Precedes(stored, i, j) => i # j /\ Precedes(taken, i, j)
      /\ Cardinality(lost) <= deaths

(* Nothing that a collection starts stays open when the next one begins.   *)
SpansAreClosed == open \subseteq {input} \X {"trigger", "collect"}

(* No sender blocks for ever on a pump that has failed: its input is taken *)
(* or the process goes, unless the raw writer leaves a request unanswered. *)
SendersAreReleased ==
  []<>(pc # "waiting") => \A s \in Senders : s \in sending ~> s \notin sending

(* The error of Start (dc.go:92) reaches its caller.                       *)
StartReturnsItsError ==
  [][pc = "return" /\ pc' # pc => pc' \in {"returned", "down"}]_vars

(* "flushes pending spans" (ms.go:30), and Shutdown.                       *)
PendingIsFlushed == [][pc # "down" /\ pc' = "down" => pending = {}]_vars
=============================================================================
