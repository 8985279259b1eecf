---------------------------- MODULE RefSetProofs ----------------------------
(***************************************************************************)
(* Proofs about reftable.Set, for any number of tables and any number of   *)
(* goroutines that call Start, again and again, and Close.                 *)
(*                                                                         *)
(* All follows from who holds s.mu: while a goroutine is inside Start no   *)
(* other one is, and what it has done to each table can be told from boot. *)
(***************************************************************************)
EXTENDS RefSet, TLAPS

InStart(p) == pc[p] \in {"boot", "subscribe", "launch"}

(* Where Start and Close can stand.                                        *)
PlaceInv ==
  /\ \A p \in Starters : pc[p] \in {"out", "boot", "subscribe", "launch"}
  /\ \A c \in Closers : pc[c] \in {"out", "cancel", "wait", "closed"}

(* What the stage of the goroutine inside Start implies for the tables.    *)
StageInv ==
  /\ mu = Free => \A t \in Tables : boot[t] = "none"
  /\ \A p \in Starters, t \in Tables :
       /\ pc[p] = "boot" => boot[t] \in {"running", "ok", "failed"}
       /\ pc[p] = "subscribe" => boot[t] \in {"booted", "subscribed"}
       /\ pc[p] = "launch" => boot[t] \in {"subscribed", "none"}
  /\ \A t \in Tables : boot[t] \in {"ok", "booted", "subscribed"} => ready[t]
  /\ \A p \in Starters, t \in Tables : pc[p] = "launch" => ready[t]

(* Refreshers are launched by one Start only, once each.                   *)
RunInv ==
  /\ started => \A t \in Tables : runs[t] = 1
  /\ \A p \in Starters : InStart(p) => ~started
  /\ \A p \in Starters, t \in Tables :
       pc[p] = "launch" => runs[t] = (IF boot[t] = "none" THEN 1 ELSE 0)
  /\ (~started /\ \A p \in Starters : pc[p] # "launch") => \A t \in Tables : runs[t] = 0

(* A Close that began after Start returned waits for the last refreshers   *)
(* there will be.                                                          *)
CloseInv == (late # {} => started) /\ CloseLeavesNone

IInv == TypeOK /\ PlaceInv /\ StageInv /\ RunInv /\ AllOrNothing /\ CloseInv

LEMMA InitIInv == Init => IInv
<1> SUFFICES ASSUME Init PROVE IInv
  OBVIOUS
<1>1. TypeOK
  <2>1. /\ pc \in [Starters \cup Closers -> {"out", "boot", "subscribe", "launch",
                                           "cancel", "wait", "closed"}]
        /\ calls \in [Starters -> 0 .. MaxStarts]
    BY SetAssumption DEF Init
  <2>2. \A p \in Starters : mu # p /\ pc[p] = "out"
    BY SetAssumption DEF Init
  <2> QED
    BY <2>1, <2>2 DEF Init, TypeOK
<1>2. PlaceInv /\ StageInv /\ RunInv
  BY DEF Init, PlaceInv, StageInv, RunInv, InStart
<1>3. AllOrNothing /\ CloseInv
  BY DEF Init, AllOrNothing, CloseInv, CloseLeavesNone
<1> QED
  BY <1>1, <1>2, <1>3 DEF IInv

(* Only one goroutine is inside Start.                                     *)
LEMMA OneInside ==
  ASSUME TypeOK, NEW p \in Starters, InStart(p)
  PROVE  mu = p /\ \A q \in Starters : q # p => ~InStart(q)
BY SetAssumption DEF TypeOK, InStart

LEMMA CallStartKeeps ==
  ASSUME IInv, NEW p \in Starters, CallStart(p)
  PROVE  IInv'
<1> USE SetAssumption DEF IInv, vars, setVars, tableVars
<1>1. TypeOK'
  BY OneInside DEF CallStart, MayStart, TypeOK, PlaceInv, InStart
<1>2. PlaceInv'
  BY OneInside DEF CallStart, MayStart, TypeOK, PlaceInv, InStart
<1>3. StageInv'
  BY OneInside DEF CallStart, MayStart, TypeOK, PlaceInv, InStart, StageInv
<1>4. RunInv'
  BY OneInside DEF CallStart, MayStart, TypeOK, PlaceInv, InStart, RunInv
<1>5. AllOrNothing'
  BY OneInside DEF CallStart, MayStart, TypeOK, PlaceInv, InStart, StageInv, AllOrNothing
<1>6. CloseInv'
  BY OneInside DEF CallStart, MayStart, TypeOK, PlaceInv, InStart, RunInv, CloseInv, CloseLeavesNone, Running
<1> QED
  BY <1>1, <1>2, <1>3, <1>4, <1>5, <1>6

LEMMA BootstrappedKeeps ==
  ASSUME IInv, NEW t \in Tables, Bootstrapped(t) \/ BootstrapFails(t)
  PROVE  IInv'
<1> USE SetAssumption DEF IInv, vars, setVars, tableVars
<1>1. TypeOK'
  BY OneInside DEF Bootstrapped, BootstrapFails, TypeOK, PlaceInv, InStart
<1>2. PlaceInv'
  BY OneInside DEF Bootstrapped, BootstrapFails, TypeOK, PlaceInv, InStart
<1>3. StageInv'
  BY OneInside DEF Bootstrapped, BootstrapFails, TypeOK, PlaceInv, InStart, StageInv
<1>4. RunInv'
  BY OneInside DEF Bootstrapped, BootstrapFails, TypeOK, PlaceInv, InStart, RunInv
<1>5. AllOrNothing'
  BY OneInside DEF Bootstrapped, BootstrapFails, TypeOK, PlaceInv, InStart, StageInv, AllOrNothing
<1>6. CloseInv'
  BY OneInside DEF Bootstrapped, BootstrapFails, TypeOK, PlaceInv, InStart, RunInv, CloseInv, CloseLeavesNone, Running
<1> QED
  BY <1>1, <1>2, <1>3, <1>4, <1>5, <1>6

LEMMA JoinBootKeeps ==
  ASSUME IInv, NEW p \in Starters, JoinBoot(p)
  PROVE  IInv'
<1> USE SetAssumption DEF IInv, vars, setVars, tableVars
<1>1. TypeOK'
  BY OneInside DEF JoinBoot, AllBooted, BootFailed, Return, TypeOK, PlaceInv, InStart
<1>2. PlaceInv'
  BY OneInside DEF JoinBoot, AllBooted, BootFailed, Return, TypeOK, PlaceInv, InStart
<1>3. StageInv'
  BY OneInside DEF JoinBoot, AllBooted, BootFailed, Return, TypeOK, PlaceInv, InStart, StageInv
<1>4. RunInv'
  BY OneInside DEF JoinBoot, AllBooted, BootFailed, Return, TypeOK, PlaceInv, InStart, RunInv
<1>5. AllOrNothing'
  BY OneInside DEF JoinBoot, AllBooted, BootFailed, Return, TypeOK, PlaceInv, InStart, StageInv, AllOrNothing
<1>6. CloseInv'
  BY OneInside DEF JoinBoot, AllBooted, BootFailed, Return, TypeOK, PlaceInv, InStart, RunInv, CloseInv, CloseLeavesNone, Running
<1> QED
  BY <1>1, <1>2, <1>3, <1>4, <1>5, <1>6

LEMMA SubscribeKeeps ==
  ASSUME IInv, NEW p \in Starters, NEW t \in Tables, Subscribe(p, t)
  PROVE  IInv'
<1> USE SetAssumption DEF IInv, vars, setVars, tableVars
<1>1. TypeOK'
  BY OneInside DEF Subscribe, TypeOK, PlaceInv, InStart
<1>2. PlaceInv'
  BY OneInside DEF Subscribe, TypeOK, PlaceInv, InStart
<1>3. StageInv'
  BY OneInside DEF Subscribe, TypeOK, PlaceInv, InStart, StageInv
<1>4. RunInv'
  BY OneInside DEF Subscribe, TypeOK, PlaceInv, InStart, RunInv
<1>5. AllOrNothing'
  BY OneInside DEF Subscribe, TypeOK, PlaceInv, InStart, StageInv, AllOrNothing
<1>6. CloseInv'
  BY OneInside DEF Subscribe, TypeOK, PlaceInv, InStart, RunInv, CloseInv, CloseLeavesNone, Running
<1> QED
  BY <1>1, <1>2, <1>3, <1>4, <1>5, <1>6

LEMMA SubscribeFailsKeeps ==
  ASSUME IInv, NEW p \in Starters, NEW t \in Tables, SubscribeFails(p, t)
  PROVE  IInv'
<1> USE SetAssumption DEF IInv, vars, setVars, tableVars
<1>1. TypeOK'
  BY OneInside DEF SubscribeFails, Return, TypeOK, PlaceInv, InStart
<1>2. PlaceInv'
  BY OneInside DEF SubscribeFails, Return, TypeOK, PlaceInv, InStart
<1>3. StageInv'
  BY OneInside DEF SubscribeFails, Return, TypeOK, PlaceInv, InStart, StageInv
<1>4. RunInv'
  BY OneInside DEF SubscribeFails, Return, TypeOK, PlaceInv, InStart, RunInv
<1>5. AllOrNothing'
  BY OneInside DEF SubscribeFails, Return, TypeOK, PlaceInv, InStart, StageInv, AllOrNothing
<1>6. CloseInv'
  BY OneInside DEF SubscribeFails, Return, TypeOK, PlaceInv, InStart, RunInv, CloseInv, CloseLeavesNone, Running
<1> QED
  BY <1>1, <1>2, <1>3, <1>4, <1>5, <1>6

LEMMA MakeContextKeeps ==
  ASSUME IInv, NEW p \in Starters, MakeContext(p)
  PROVE  IInv'
<1> USE SetAssumption DEF IInv, vars, setVars, tableVars
<1>1. TypeOK'
  BY OneInside DEF MakeContext, TypeOK, PlaceInv, InStart
<1>2. PlaceInv'
  BY OneInside DEF MakeContext, TypeOK, PlaceInv, InStart
<1>3. StageInv'
  BY OneInside DEF MakeContext, TypeOK, PlaceInv, InStart, StageInv
<1>4. RunInv'
  BY OneInside DEF MakeContext, TypeOK, PlaceInv, InStart, RunInv
<1>5. AllOrNothing'
  BY OneInside DEF MakeContext, TypeOK, PlaceInv, InStart, StageInv, AllOrNothing
<1>6. CloseInv'
  BY OneInside DEF MakeContext, TypeOK, PlaceInv, InStart, RunInv, CloseInv, CloseLeavesNone, Running
<1> QED
  BY <1>1, <1>2, <1>3, <1>4, <1>5, <1>6

LEMMA LaunchKeeps ==
  ASSUME IInv, NEW p \in Starters, NEW t \in Tables, Launch(p, t)
  PROVE  IInv'
<1> USE SetAssumption DEF IInv, vars, setVars, tableVars
<1>1. TypeOK'
  BY OneInside DEF Launch, TypeOK, PlaceInv, InStart
<1>2. PlaceInv'
  BY OneInside DEF Launch, TypeOK, PlaceInv, InStart
<1>3. StageInv'
  BY OneInside DEF Launch, TypeOK, PlaceInv, InStart, StageInv
<1>4. RunInv'
  BY OneInside DEF Launch, TypeOK, PlaceInv, InStart, RunInv
<1>5. AllOrNothing'
  BY OneInside DEF Launch, TypeOK, PlaceInv, InStart, StageInv, AllOrNothing
<1>6. CloseInv'
  BY OneInside DEF Launch, TypeOK, PlaceInv, InStart, RunInv, CloseInv, CloseLeavesNone, Running
<1> QED
  BY <1>1, <1>2, <1>3, <1>4, <1>5, <1>6

LEMMA StartedKeeps ==
  ASSUME IInv, NEW p \in Starters, Started(p)
  PROVE  IInv'
<1> USE SetAssumption DEF IInv, vars, setVars, tableVars
<1>1. TypeOK'
  BY OneInside DEF Started, Return, TypeOK, PlaceInv, InStart
<1>2. PlaceInv'
  BY OneInside DEF Started, Return, TypeOK, PlaceInv, InStart
<1>3. StageInv'
  BY OneInside DEF Started, Return, TypeOK, PlaceInv, InStart, StageInv
<1>4. RunInv'
  BY OneInside DEF Started, Return, TypeOK, PlaceInv, InStart, RunInv
<1>5. AllOrNothing'
  BY OneInside DEF Started, Return, TypeOK, PlaceInv, InStart, StageInv, AllOrNothing
<1>6. CloseInv'
  BY OneInside DEF Started, Return, TypeOK, PlaceInv, InStart, RunInv, CloseInv, CloseLeavesNone, Running
<1> QED
  BY <1>1, <1>2, <1>3, <1>4, <1>5, <1>6

LEMMA RefresherKeeps ==
  ASSUME IInv, NEW t \in Tables, Work(t) \/ EndWork(t) \/ Exit(t)
  PROVE  IInv'
<1> USE SetAssumption DEF IInv, vars, setVars, tableVars
<1>1. TypeOK'
  BY OneInside DEF Work, EndWork, Exit, TypeOK, PlaceInv, InStart
<1>2. PlaceInv'
  BY OneInside DEF Work, EndWork, Exit, TypeOK, PlaceInv, InStart
<1>3. StageInv'
  BY OneInside DEF Work, EndWork, Exit, TypeOK, PlaceInv, InStart, StageInv
<1>4. RunInv'
  BY OneInside DEF Work, EndWork, Exit, TypeOK, PlaceInv, InStart, RunInv
<1>5. AllOrNothing'
  BY OneInside DEF Work, EndWork, Exit, TypeOK, PlaceInv, InStart, StageInv, AllOrNothing
<1>6. CloseInv'
  BY OneInside DEF Work, EndWork, Exit, TypeOK, PlaceInv, InStart, RunInv, CloseInv, CloseLeavesNone, Running
<1> QED
  BY <1>1, <1>2, <1>3, <1>4, <1>5, <1>6

LEMMA CallCloseKeeps ==
  ASSUME IInv, NEW c \in Closers, CallClose(c)
  PROVE  IInv'
<1> USE SetAssumption DEF IInv, vars, setVars, tableVars
<1>1. TypeOK'
  BY OneInside DEF CallClose, TypeOK, PlaceInv, InStart
<1>2. PlaceInv'
  BY OneInside DEF CallClose, TypeOK, PlaceInv, InStart
<1>3. StageInv'
  BY OneInside DEF CallClose, TypeOK, PlaceInv, InStart, StageInv
<1>4. RunInv'
  BY OneInside DEF CallClose, TypeOK, PlaceInv, InStart, RunInv
<1>5. AllOrNothing'
  BY OneInside DEF CallClose, TypeOK, PlaceInv, InStart, StageInv, AllOrNothing
<1>6. CloseInv'
  BY OneInside DEF CallClose, TypeOK, PlaceInv, InStart, RunInv, CloseInv, CloseLeavesNone, Running
<1> QED
  BY <1>1, <1>2, <1>3, <1>4, <1>5, <1>6

LEMMA CloseCancelKeeps ==
  ASSUME IInv, NEW c \in Closers, CloseCancel(c)
  PROVE  IInv'
<1> USE SetAssumption DEF IInv, vars, setVars, tableVars
<1>1. TypeOK'
  BY OneInside DEF CloseCancel, Cancels, TypeOK, PlaceInv, InStart
<1>2. PlaceInv'
  BY OneInside DEF CloseCancel, Cancels, TypeOK, PlaceInv, InStart
<1>3. StageInv'
  BY OneInside DEF CloseCancel, Cancels, TypeOK, PlaceInv, InStart, StageInv
<1>4. RunInv'
  BY OneInside DEF CloseCancel, Cancels, TypeOK, PlaceInv, InStart, RunInv
<1>5. AllOrNothing'
  BY OneInside DEF CloseCancel, Cancels, TypeOK, PlaceInv, InStart, StageInv, AllOrNothing
<1>6. CloseInv'
  BY OneInside DEF CloseCancel, Cancels, TypeOK, PlaceInv, InStart, RunInv, CloseInv, CloseLeavesNone, Running
<1> QED
  BY <1>1, <1>2, <1>3, <1>4, <1>5, <1>6

LEMMA CloseReturnKeeps ==
  ASSUME IInv, NEW c \in Closers, CloseReturn(c)
  PROVE  IInv'
<1> USE SetAssumption DEF IInv, vars, setVars, tableVars
<1>1. TypeOK'
  BY OneInside DEF CloseReturn, WaitedFor, TypeOK, PlaceInv, InStart
<1>2. PlaceInv'
  BY OneInside DEF CloseReturn, WaitedFor, TypeOK, PlaceInv, InStart
<1>3. StageInv'
  BY OneInside DEF CloseReturn, WaitedFor, TypeOK, PlaceInv, InStart, StageInv
<1>4. RunInv'
  BY OneInside DEF CloseReturn, WaitedFor, TypeOK, PlaceInv, InStart, RunInv
<1>5. AllOrNothing'
  BY OneInside DEF CloseReturn, WaitedFor, TypeOK, PlaceInv, InStart, StageInv, AllOrNothing
<1>6. CloseInv'
  BY OneInside DEF CloseReturn, WaitedFor, TypeOK, PlaceInv, InStart, RunInv, CloseInv, CloseLeavesNone, Running
<1> QED
  BY <1>1, <1>2, <1>3, <1>4, <1>5, <1>6

LEMMA RestKeeps ==
  ASSUME IInv, CancelCaller \/ UNCHANGED vars
  PROVE  IInv'
<1> USE SetAssumption DEF IInv, vars, setVars, tableVars
<1>1. TypeOK'
  BY OneInside DEF CancelCaller, TypeOK, PlaceInv, InStart
<1>2. PlaceInv'
  BY OneInside DEF CancelCaller, TypeOK, PlaceInv, InStart
<1>3. StageInv'
  BY OneInside DEF CancelCaller, TypeOK, PlaceInv, InStart, StageInv
<1>4. RunInv'
  BY OneInside DEF CancelCaller, TypeOK, PlaceInv, InStart, RunInv
<1>5. AllOrNothing'
  BY OneInside DEF CancelCaller, TypeOK, PlaceInv, InStart, StageInv, AllOrNothing
<1>6. CloseInv'
  BY OneInside DEF CancelCaller, TypeOK, PlaceInv, InStart, RunInv, CloseInv, CloseLeavesNone, Running
<1> QED
  BY <1>1, <1>2, <1>3, <1>4, <1>5, <1>6

-----------------------------------------------------------------------------
THEOREM Invariance == Spec => []IInv
<1>1. Init => IInv
  BY InitIInv
<1>2. IInv /\ [Next]_vars => IInv'
  <2> SUFFICES ASSUME IInv, [Next]_vars PROVE IInv'
    OBVIOUS
  <2>1. ASSUME NEW p \in Starters, StartStep(p) PROVE IInv'
    BY <2>1, CallStartKeeps, JoinBootKeeps, SubscribeKeeps, SubscribeFailsKeeps,
       MakeContextKeeps, LaunchKeeps, StartedKeeps DEF StartStep
  <2>2. ASSUME NEW c \in Closers, CloseStep(c) PROVE IInv'
    BY <2>2, CallCloseKeeps, CloseCancelKeeps, CloseReturnKeeps DEF CloseStep
  <2>3. ASSUME NEW t \in Tables,
               Bootstrapped(t) \/ BootstrapFails(t) \/ Work(t) \/ EndWork(t) \/ Exit(t)
        PROVE  IInv'
    BY <2>3, BootstrappedKeeps, RefresherKeeps
  <2> QED
    BY <2>1, <2>2, <2>3, RestKeeps DEF Next
<1> QED
  BY <1>1, <1>2, PTL DEF Spec

(* The variables keep their types, and s.mu is held by the goroutine       *)
(* inside Start, on every path out of it.                                  *)
THEOREM TypeCorrect == Spec => []TypeOK
<1>1. IInv => TypeOK
  BY DEF IInv
<1> QED
  BY <1>1, Invariance, PTL

(* No table is subscribed or refreshed before all are loaded.              *)
THEOREM BootstrapIsAllOrNothing == Spec => []AllOrNothing
<1>1. IInv => AllOrNothing
  BY DEF IInv
<1> QED
  BY <1>1, Invariance, PTL

(* However often Start is called, a table has one refresher at most.       *)
THEOREM OneRefresherOnly == Spec => []OneRefresherEach
<1>1. IInv => OneRefresherEach
  BY DEF IInv, RunInv, OneRefresherEach
<1> QED
  BY <1>1, Invariance, PTL

(* Close leaves no refresher behind once Start has returned.               *)
THEOREM NoneIsLeft == Spec => []CloseLeavesNone
<1>1. IInv => CloseLeavesNone
  BY DEF IInv, CloseInv
<1> QED
  BY <1>1, Invariance, PTL
=============================================================================
