-------------------------------- MODULE Elab --------------------------------
(***************************************************************************)
(* What the two followers of package elab share (elab.go): the interval a  *)
(* station has to catch up on, from the time of its last elaborated to     *)
(* that of its last base measurement, and an estimate of the measurements  *)
(* in it.                                                                  *)
(*                                                                         *)
(* A tick is the millisecond of elab.go, and a measurement is its time;    *)
(* the time 0 is Go's zero time: there is no measurement.  The estimate    *)
(* takes one measurement per tick.                                         *)
(***************************************************************************)
EXTENDS Naturals, FiniteSets, FiniteSetsExt

CONSTANTS
  Stations,
  StartingPoint, \* Elaboration.StartingPoint: no data before it
  MaxTime        \* bound: the last tick at which a measurement may be dated

ASSUME ElabAssumption ==
  /\ IsFiniteSet(Stations)
  /\ StartingPoint \in Nat \ {0} /\ MaxTime \in Nat /\ StartingPoint < MaxTime

Times == StartingPoint + 1 .. MaxTime
LatestOf(times) == IF times = {} THEN 0 ELSE Max(times)

CatchupFrom(elaborated) == IF elaborated = 0 THEN StartingPoint ELSE elaborated

(* "Interval of ninja is half-open, and we actually want to get the last   *)
(* record".                                                                *)
CatchupTo_HalfOpen(elaborated, latest) == latest
CatchupTo(elaborated, latest) ==
  IF CatchupFrom(elaborated) < latest THEN latest + 1 ELSE latest

Estimate(elaborated, latest) == IF elaborated < latest THEN latest - elaborated ELSE 0
=============================================================================
