-------------------------- MODULE StationFollower --------------------------
(***************************************************************************)
(* elab.stationFollower (follow.go): one call of Elaborate.  Stations that *)
(* have something to catch up on are grouped into buckets while their      *)
(* estimated number of measurements stays small; each bucket is flushed by *)
(* a goroutine of its own, at most WorkerPool of them at a time, and       *)
(* Elaborate returns when all are done.                                    *)
(*                                                                         *)
(* X_Defect is X with a plausible defect, used by no specification.        *)
(***************************************************************************)
EXTENDS Elab

CONSTANTS
  Types,          \* station types
  TypeOf,         \* station type of each station
  BucketMax,
  MaxCodes,       \* station codes that fit into the filter of a request
  WorkerPool

ASSUME StationAssumption ==
  /\ TypeOf \in [Stations -> Types]
  /\ BucketMax \in Nat /\ MaxCodes \in Nat \ {0} /\ WorkerPool \in Nat \ {0}

VARIABLES
  elaborated, \* per station, its latest elaborated measurement as the state was
              \* requested; 0 when there was none
  latest,     \* per station, its latest base measurement then; 0 when there was none
  pushed,     \* stations whose results have been pushed
  phase,
  types,      \* station types still to be walked
  type,       \* the one being walked
  todo,       \* its stations still to be looked at
  bucket,
  running,    \* buckets being flushed
  slots,      \* free slots of the workers channel
  flushed,    \* history: buckets whose flush has ended
  hung        \* buckets whose flush waits for an answer that never comes

state == <<elaborated, latest>>
stationVars == <<state, pushed, phase, types, type, todo, bucket, running, slots, flushed, hung>>

-----------------------------------------------------------------------------
(* Intervals and buckets *)

From(s)  == CatchupFrom(elaborated[s])
To(s)    == CatchupTo(elaborated[s], latest[s])
Drops(s) == Estimate(elaborated[s], latest[s])

Behind(s) == To(s) > From(s)

Bucket(t) == [type |-> t, stations |-> {}, drops |-> 0, from |-> 0, to |-> 0]

ScaleEstimate(before, after, estimate) ==
  IF estimate = 0 \/ before = 0 THEN 0 ELSE (after * estimate) \div before

Later_Kept(a, b) == IF a = 0 THEN b ELSE a
Later(a, b)      == IF a < b THEN b ELSE a
Earlier(a, b)    == IF a = 0 \/ a > b THEN b ELSE a

Consolidate(b, s) ==
  LET from == Earlier(b.from, From(s))
      to   == Later(b.to, To(s)) IN
  [type |-> b.type, stations |-> b.stations \cup {s}, from |-> from, to |-> to,
   drops |-> ScaleEstimate(b.to - b.from, to - from, b.drops)
             + ScaleEstimate(To(s) - From(s), to - from, Drops(s))]

Full(s) == \/ Drops(s) + bucket.drops > BucketMax
           \/ Cardinality(bucket.stations) > MaxCodes

-----------------------------------------------------------------------------
(* Elaborate *)

BeginType ==
  /\ phase = "type"
  /\ \E t \in types :
       /\ type' = t /\ types' = types \ {t}
       /\ todo' = {s \in Stations : TypeOf[s] = t}
       /\ bucket' = Bucket(t)
  /\ phase' = "station"
  /\ UNCHANGED <<state, pushed, running, slots, flushed, hung>>

Skip(s) ==
  /\ phase = "station" /\ s \in todo /\ ~Behind(s)
  /\ todo' = todo \ {s}
  /\ UNCHANGED <<state, pushed, phase, types, type, bucket, running, slots, flushed, hung>>

Collect(s) ==
  /\ phase = "station" /\ s \in todo /\ Behind(s) /\ ~Full(s)
  /\ todo' = todo \ {s}
  /\ bucket' = Consolidate(bucket, s)
  /\ UNCHANGED <<state, pushed, phase, types, type, running, slots, flushed, hung>>

(* workers <- struct{}{} blocks while the pool is exhausted.               *)
Launch == slots > 0 /\ slots' = slots - 1 /\ running' = running \cup {bucket}

FlushFull(s) ==
  /\ phase = "station" /\ s \in todo /\ Behind(s) /\ Full(s)
  /\ Launch
  /\ todo' = todo \ {s}
  /\ bucket' = Consolidate(Bucket(type), s)
  /\ UNCHANGED <<state, pushed, phase, types, type, flushed, hung>>

FlushRest_Dropped ==
  /\ phase = "station" /\ todo = {}
  /\ phase' = "type"
  /\ UNCHANGED <<state, pushed, types, type, todo, bucket, running, slots, flushed, hung>>

FlushRest ==
  /\ phase = "station" /\ todo = {}
  /\ Launch
  /\ phase' = "type"
  /\ UNCHANGED <<state, pushed, types, type, todo, bucket, flushed, hung>>

AllDone == running = {}

Return ==
  /\ phase = "type" /\ types = {} /\ AllDone
  /\ phase' = "returned"
  /\ UNCHANGED <<state, pushed, types, type, todo, bucket, running, slots, flushed, hung>>

-----------------------------------------------------------------------------
(* flush *)

(* The request may fail, in which case the bucket is discarded; so may the *)
(* handler of a station, and the push of what the others gave.  What a     *)
(* bucket without stations asks for concerns none of them.                 *)
FlushEnds_KeepsSlot(b) ==
  /\ b \in running \ hung
  /\ \E some \in SUBSET b.stations :
        /\ pushed' = pushed \cup some
        /\ slots' = IF some = {} THEN slots ELSE slots + 1
  /\ running' = running \ {b}
  /\ flushed' = flushed \cup {b}
  /\ UNCHANGED <<state, phase, types, type, todo, bucket, hung>>

FlushEnds(b) ==
  /\ b \in running \ hung
  /\ \E some \in SUBSET b.stations : pushed' = pushed \cup some
  /\ running' = running \ {b}
  /\ slots' = slots + 1
  /\ flushed' = flushed \cup {b}
  /\ UNCHANGED <<state, phase, types, type, todo, bucket, hung>>

(* The clients of the history request and of the push have no deadline: a  *)
(* request that is never answered keeps the slot and the WaitGroup.  The   *)
(* push may have been carried out.                                         *)
FlushHangs(b) ==
  /\ b \in running \ hung
  /\ \E some \in SUBSET b.stations : pushed' = pushed \cup some
  /\ hung' = hung \cup {b}
  /\ UNCHANGED <<state, phase, types, type, todo, bucket, running, slots, flushed>>

StationInit ==
  /\ latest \in [Stations -> {0} \cup (StartingPoint + 1 .. MaxTime)]
  /\ elaborated \in [Stations -> {0} \cup (StartingPoint + 1 .. MaxTime)]
  /\ \A s \in Stations : elaborated[s] <= latest[s]
  /\ pushed = {}
  /\ phase = "type" /\ types = Types /\ type \in Types /\ todo = {}
  /\ bucket = Bucket(type)
  /\ running = {} /\ slots = WorkerPool /\ flushed = {} /\ hung = {}

Elaborate ==
  \/ BeginType \/ FlushRest \/ Return
  \/ \E s \in Stations : Skip(s) \/ Collect(s) \/ FlushFull(s)

Flush == \E b \in running : FlushEnds(b)

StationNext == Elaborate \/ Flush \/ (\E b \in running : FlushHangs(b))

StationSpec == StationInit /\ [][StationNext]_stationVars

(* Goroutines run; a request of a flush is answered or hangs for ever.     *)
FairStationSpec == StationSpec /\ WF_stationVars(Elaborate) /\ WF_stationVars(Flush)

-----------------------------------------------------------------------------
(* Properties *)

Buckets == [type : Types, stations : SUBSET Stations, drops : Nat, from : Nat, to : Nat]

(* Every variable holds a value of its kind; a slot is free or taken by a  *)
(* bucket being flushed.                                                   *)
StationTypeOK ==
  /\ elaborated \in [Stations -> 0 .. MaxTime] /\ latest \in [Stations -> 0 .. MaxTime]
  /\ pushed \subseteq Stations
  /\ phase \in {"type", "station", "returned"}
  /\ types \subseteq Types /\ type \in Types /\ todo \subseteq Stations
  /\ bucket \in Buckets /\ running \subseteq Buckets /\ flushed \subseteq Buckets
  /\ hung \subseteq running
  /\ slots \in 0 .. WorkerPool /\ slots + Cardinality(running) = WorkerPool

(* When Elaborate returns, every station that had something to catch up on *)
(* has been in exactly one bucket, of its type and with an interval that   *)
(* covers its own, and nothing is pushed any more: the caller may read the *)
(* state again and call it for the next round.                             *)
Covers(b, s) == b.type = TypeOf[s] /\ b.from <= From(s) /\ To(s) <= b.to

EachFlushedOnce ==
  phase = "returned" =>
    /\ running = {}
    /\ \A s \in Stations :
         LET with == {b \in flushed : s \in b.stations} IN
         /\ Cardinality(with) = (IF Behind(s) THEN 1 ELSE 0)
         /\ \A b \in with : Covers(b, s)

(* Elaborate returns, however small the pool and whichever requests,       *)
(* handlers and pushes fail, unless a request is never answered.  Then it  *)
(* waits for that flush alone, every other bucket having been flushed, or, *)
(* once such requests hold all slots, for a slot.                          *)
Held      == hung # {} /\ running = hung /\ phase = "type" /\ types = {}
Exhausted == Cardinality(hung) = WorkerPool

Returns == <>(phase = "returned" \/ Held \/ Exhausted)

(* Elaborate returns, whatever happens to the requests.                    *)
ReturnsAnyway == <>(phase = "returned")

(* "Station elaborations are grouped while their estimated measurement     *)
(* count does not exceed" BucketMax.                                       *)
BucketsStaySmall ==
  \A b \in running : Cardinality(b.stations) > 1 => b.drops <= BucketMax
=============================================================================
