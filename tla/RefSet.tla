------------------------------- MODULE RefSet -------------------------------
(***************************************************************************)
(* reftable.Set (set.go): a group of reference tables started and stopped  *)
(* together.                                                               *)
(*                                                                         *)
(* Start holds s.mu from its first line to its return: it bootstraps all   *)
(* tables in parallel, subscribes them one after the other and launches    *)
(* one refresher per table.  Close takes the cancel function under s.mu,   *)
(* and cancels and waits after it has let go of it.  Start and Close are   *)
(* called from goroutines of the consumer, in any order and at any time.   *)
(*                                                                         *)
(* What a table does between two selects of its run loop is the subject of *)
(* RefTable; here a refresher is only waiting in select, working, or gone. *)
(* X_Defect is X with a plausible defect, used by no specification.        *)
(***************************************************************************)
EXTENDS Integers, FiniteSets

CONSTANTS
  Tables,     \* the tables of the set
  Starters,   \* goroutines that call Start, one after the other call
  Closers,    \* goroutines that call Close once
  MaxStarts,  \* how often a goroutine calls Start
  Free        \* nobody holds s.mu

ASSUME SetAssumption ==
  /\ Tables # {} /\ IsFiniteSet(Tables)
  /\ Starters \cap Closers = {}
  /\ MaxStarts \in Nat
  /\ Free \notin Starters

VARIABLES
  mu,        \* s.mu: Free or the goroutine in Start
  started,   \* s.started
  cancel,    \* s.cancel is set
  launched,  \* Start made the context its refreshers run under
  runDone,   \* that context is cancelled
  ctxDone,   \* the context passed to Start is cancelled
  pc,        \* per goroutine: where it stands in Start or Close
  calls,     \* per starter: calls of Start so far
  got,       \* per closer: it took a cancel function
  boot,      \* per table: the bootstrap of the Start under way
  ready,     \* per table: bootstrapped at least once
  subs,      \* per table: subscriptions made
  loop,      \* per table: its refresher
  runs,      \* per table: refreshers launched so far
  late       \* closers whose Close began after a Start had returned nil

setVars == <<mu, started, cancel, launched, calls>>
tableVars == <<boot, ready, subs>>
vars == <<setVars, runDone, ctxDone, pc, got, tableVars, loop, runs, late>>

Init ==
  /\ mu = Free /\ started = FALSE /\ cancel = FALSE /\ launched = FALSE
  /\ runDone = FALSE /\ ctxDone = FALSE
  /\ pc = [p \in Starters \cup Closers |-> "out"]
  /\ calls = [p \in Starters |-> 0] /\ got = [c \in Closers |-> FALSE]
  /\ boot = [t \in Tables |-> "none"] /\ ready = [t \in Tables |-> FALSE]
  /\ subs = [t \in Tables |-> 0] /\ loop = [t \in Tables |-> "none"]
  /\ runs = [t \in Tables |-> 0] /\ late = {}

-----------------------------------------------------------------------------
(* Start *)

Return(p) == pc' = [pc EXCEPT ![p] = "out"] /\ mu' = Free

MayStart_Always == TRUE
MayStart        == ~started

CallStart(p) ==
  /\ pc[p] = "out" /\ mu = Free /\ calls[p] < MaxStarts
  /\ calls' = [calls EXCEPT ![p] = @ + 1]
  /\ IF MayStart
     THEN /\ mu' = p
          /\ pc' = [pc EXCEPT ![p] = "boot"]
          /\ boot' = [t \in Tables |-> "running"]
     ELSE UNCHANGED <<mu, pc, boot>>     \* "already started"
  /\ UNCHANGED <<started, cancel, launched, runDone, ctxDone, got, ready, subs, loop, runs, late>>

(* A bootstrap ends by itself: its walk is bounded.                        *)
Bootstrapped(t) ==
  /\ boot[t] = "running"
  /\ boot' = [boot EXCEPT ![t] = "ok"]
  /\ ready' = [ready EXCEPT ![t] = TRUE]
  /\ UNCHANGED <<setVars, runDone, ctxDone, pc, got, subs, loop, runs, late>>

BootstrapFails(t) ==
  /\ boot[t] = "running"
  /\ boot' = [boot EXCEPT ![t] = "failed"]
  /\ UNCHANGED <<setVars, runDone, ctxDone, pc, got, ready, subs, loop, runs, late>>

AllBooted == \A t \in Tables : boot[t] # "running"

(* boot.Wait, then every error counts.                                     *)
BootFailed_OnlyIfAll == \A t \in Tables : boot[t] = "failed"
BootFailed           == \E t \in Tables : boot[t] = "failed"

JoinBoot(p) ==
  /\ pc[p] = "boot" /\ AllBooted
  /\ IF BootFailed
     THEN Return(p)
     ELSE pc' = [pc EXCEPT ![p] = "subscribe"] /\ UNCHANGED mu
  /\ boot' = [t \in Tables |-> IF BootFailed THEN "none" ELSE "booted"]
  /\ UNCHANGED <<started, cancel, launched, calls, runDone, ctxDone, got, ready, subs, loop, runs, late>>

Subscribe(p, t) ==
  /\ pc[p] = "subscribe" /\ boot[t] = "booted"
  /\ boot' = [boot EXCEPT ![t] = "subscribed"]
  /\ subs' = [subs EXCEPT ![t] = @ + 1]
  /\ UNCHANGED <<setVars, runDone, ctxDone, pc, got, ready, loop, runs, late>>

(* The subscriptions made before the failing one stay.                     *)
SubscribeFails(p, t) ==
  /\ pc[p] = "subscribe" /\ boot[t] = "booted"
  /\ Return(p)
  /\ boot' = [u \in Tables |-> "none"]
  /\ UNCHANGED <<started, cancel, launched, calls, runDone, ctxDone, got, ready, subs, loop, runs, late>>

MakeContext(p) ==
  /\ pc[p] = "subscribe" /\ \A t \in Tables : boot[t] = "subscribed"
  /\ cancel' = TRUE /\ launched' = TRUE
  /\ runDone' = ctxDone
  /\ pc' = [pc EXCEPT ![p] = "launch"]
  /\ UNCHANGED <<mu, started, calls, ctxDone, got, tableVars, loop, runs, late>>

Launch(p, t) ==
  /\ pc[p] = "launch" /\ boot[t] = "subscribed"
  /\ boot' = [boot EXCEPT ![t] = "none"]
  /\ loop' = [loop EXCEPT ![t] = "select"]
  /\ runs' = [runs EXCEPT ![t] = @ + 1]
  /\ UNCHANGED <<setVars, runDone, ctxDone, pc, got, ready, subs, late>>

Started(p) ==
  /\ pc[p] = "launch" /\ \A t \in Tables : boot[t] = "none"
  /\ started' = TRUE
  /\ Return(p)
  /\ UNCHANGED <<cancel, launched, calls, runDone, ctxDone, got, tableVars, loop, runs, late>>

-----------------------------------------------------------------------------
(* The refreshers *)

Work(t) ==
  /\ loop[t] = "select"
  /\ \E w \in {"working", "hung"} : loop' = [loop EXCEPT ![t] = w]
  /\ UNCHANGED <<setVars, runDone, ctxDone, pc, got, tableVars, runs, late>>

(* A request left unanswered returns only when its context is cancelled.   *)
EndWork(t) ==
  /\ loop[t] = "working" \/ (loop[t] = "hung" /\ runDone)
  /\ loop' = [loop EXCEPT ![t] = "select"]
  /\ UNCHANGED <<setVars, runDone, ctxDone, pc, got, tableVars, runs, late>>

Exit(t) ==
  /\ loop[t] = "select" /\ runDone
  /\ loop' = [loop EXCEPT ![t] = "gone"]
  /\ UNCHANGED <<setVars, runDone, ctxDone, pc, got, tableVars, runs, late>>

Running == {t \in Tables : loop[t] \in {"select", "working", "hung"}}

-----------------------------------------------------------------------------
(* Close *)

CallClose(c) ==
  /\ pc[c] = "out" /\ mu = Free
  /\ got' = [got EXCEPT ![c] = cancel]
  /\ cancel' = FALSE
  /\ late' = IF started THEN late \cup {c} ELSE late
  /\ pc' = [pc EXCEPT ![c] = "cancel"]
  /\ UNCHANGED <<mu, started, launched, calls, runDone, ctxDone, tableVars, loop, runs>>

Cancels_Never(c) == FALSE
Cancels(c)       == got[c]

CloseCancel(c) ==
  /\ pc[c] = "cancel"
  /\ runDone' = (runDone \/ Cancels(c))
  /\ pc' = [pc EXCEPT ![c] = "wait"]
  /\ UNCHANGED <<setVars, ctxDone, got, tableVars, loop, runs, late>>

(* s.wg.Wait returns at a moment when no refresher is counted.             *)
WaitedFor_Any == Running # Tables
WaitedFor     == Running = {}

CloseReturn(c) ==
  /\ pc[c] = "wait" /\ WaitedFor
  /\ pc' = [pc EXCEPT ![c] = "closed"]
  /\ UNCHANGED <<setVars, runDone, ctxDone, got, tableVars, loop, runs, late>>

-----------------------------------------------------------------------------
(* The consumer may also cancel the context it passed to Start.            *)
CancelCaller ==
  /\ ~ctxDone
  /\ ctxDone' = TRUE
  /\ runDone' = (runDone \/ launched)
  /\ UNCHANGED <<setVars, pc, got, tableVars, loop, runs, late>>

StartStep(p) ==
  \/ CallStart(p) \/ JoinBoot(p) \/ MakeContext(p) \/ Started(p)
  \/ \E t \in Tables : Subscribe(p, t) \/ SubscribeFails(p, t) \/ Launch(p, t)

CloseStep(c) == CallClose(c) \/ CloseCancel(c) \/ CloseReturn(c)

Next ==
  \/ \E p \in Starters : StartStep(p)
  \/ \E c \in Closers : CloseStep(c)
  \/ \E t \in Tables : Bootstrapped(t) \/ BootstrapFails(t) \/ Work(t) \/ EndWork(t) \/ Exit(t)
  \/ CancelCaller

Spec == Init /\ [][Next]_vars

(* Goroutines that can run do; select picks at random, so a refresher      *)
(* whose context is done leaves although its ticker keeps firing.  Nobody  *)
(* has to call Start or Close, or cancel the caller's context.             *)
FairSpec ==
  /\ Spec
  /\ \A p \in Starters :
       WF_vars(JoinBoot(p) \/ MakeContext(p) \/ Started(p)
               \/ \E t \in Tables : Subscribe(p, t) \/ SubscribeFails(p, t) \/ Launch(p, t))
  /\ \A c \in Closers : WF_vars(CloseCancel(c)) /\ WF_vars(CloseReturn(c))
  /\ \A t \in Tables : /\ WF_vars(Bootstrapped(t) \/ BootstrapFails(t))
                       /\ WF_vars(EndWork(t))
                       /\ SF_vars(Exit(t))

-----------------------------------------------------------------------------
(* Properties *)

(* Every variable holds a value of its kind, and the one goroutine inside  *)
(* Start is the one that holds s.mu, on every path out of Start.           *)
TypeOK ==
  /\ mu \in Starters \cup {Free}
  /\ started \in BOOLEAN /\ cancel \in BOOLEAN /\ launched \in BOOLEAN
  /\ runDone \in BOOLEAN /\ ctxDone \in BOOLEAN
  /\ pc \in [Starters \cup Closers -> {"out", "boot", "subscribe", "launch",
                                       "cancel", "wait", "closed"}]
  /\ calls \in [Starters -> 0 .. MaxStarts] /\ got \in [Closers -> BOOLEAN]
  /\ boot \in [Tables -> {"none", "running", "ok", "failed", "booted", "subscribed"}]
  /\ ready \in [Tables -> BOOLEAN] /\ subs \in [Tables -> Nat]
  /\ loop \in [Tables -> {"none", "select", "working", "hung", "gone"}]
  /\ runs \in [Tables -> Nat]
  /\ late \subseteq Closers
  /\ \A p \in Starters : mu = p <=> pc[p] \in {"boot", "subscribe", "launch"}

(* "Bootstrap runs in parallel and is all-or-nothing", and "a notification *)
(* can never be applied to a half-built table": no table is subscribed or  *)
(* refreshed before every table of the set has been loaded.                *)
AllOrNothing ==
  (\E t \in Tables : subs[t] > 0 \/ loop[t] # "none") => \A u \in Tables : ready[u]

(* However often and from wherever Start is called, a table has at most    *)
(* one refresher, and Start returned nil only if each has one.             *)
OneRefresherEach ==
  /\ \A t \in Tables : runs[t] <= 1
  /\ started => \A t \in Tables : runs[t] = 1

(* A Close that began after Start returned leaves no refresher behind.     *)
CloseLeavesNone == \A c \in late : pc[c] = "closed" => Running = {}

(* "It is safe to call without cancelling the context passed to Start": a  *)
(* Close called once Start has returned comes back, although a request of  *)
(* a refresher may hang and nobody cancels the caller's context.           *)
CloseReturns == \A c \in Closers : c \in late ~> pc[c] = "closed"

(* The same for every Close, also one that overlaps a Start.               *)
EveryCloseReturns == \A c \in Closers : pc[c] = "cancel" ~> pc[c] = "closed"
=============================================================================
