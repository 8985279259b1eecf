---------------------------- MODULE WideFollower ----------------------------
(***************************************************************************)
(* elab.wideTypeFollower (followtypewide.go): the elaboration of one base  *)
(* data type for all stations, from the latest elaborated measurement of a *)
(* station to its latest base measurement, in chunks of time.              *)
(*                                                                         *)
(* A round reads the latest times (RequestState), then walks the chunks:   *)
(* it requests the history of the stations that need it, a few at a time,  *)
(* hands every station's new measurements to the handler and pushes the    *)
(* results of the chunk.  Errors of a request, of the handler and of a     *)
(* push are logged and the walk goes on.  The time up to which a station   *)
(* has been processed is kept in memory across rounds; what was elaborated *)
(* is only known from the time series store.                               *)
(*                                                                         *)
(* An elaboration gives one result per measurement, at its time.           *)
(* Measurements of a station arrive in order.                              *)
(* X_Defect is X with a plausible defect, used by no specification.        *)
(***************************************************************************)
EXTENDS Elab

CONSTANTS
  ChunkDuration,
  PerRequest,    \* stations whose codes fit into MaxUrlLength
  MaxFaults      \* bound: errors and restarts

ASSUME WideAssumption ==
  /\ ChunkDuration \in Nat \ {0} /\ PerRequest \in Nat \ {0}
  /\ MaxFaults \in Nat

VARIABLES
  (* The time series store *)
  base,        \* per station, the times of its base measurements
  out,         \* per station, the times of its elaborated measurements
  (* whideFollowerLastTimestamps *)
  last,        \* per station, processed up to here; 0 when there is no entry
  (* The round under way *)
  pc,
  infos,       \* per station, its catch-up interval as the round began
  chunkStart,
  left,        \* stations of the chunk still to be requested
  batch,       \* per station, the measurements still to be handed over
  results,     \* per station, what the chunk will push
  (* Bound and history *)
  faults,
  handled,     \* per station, the times this process has results of
  excused,     \* per station, the times an error was logged for
  edge         \* per station, the ends of chunks its handler failed in

store   == <<base, out>>
round   == <<infos, chunkStart, left>>
history == <<faults, excused, edge>>
wideVars == <<store, last, pc, round, batch, results, history, handled>>

Nothing == [s \in Stations |-> {}]

-----------------------------------------------------------------------------
(* Catch-up intervals *)

Interval(s) ==
  LET done == LatestOf(out[s])
  IN  [from |-> CatchupFrom(done), to |-> CatchupTo(done, LatestOf(base[s]))]

Lagging == {s \in Stations : infos[s].to > infos[s].from}
RoundFrom == Min({infos[s].from : s \in Lagging})
RoundTo   == Max({infos[s].to : s \in Lagging})

ChunkEnd == Min({chunkStart + ChunkDuration, RoundTo})

NeedingElaboration ==
  {s \in Lagging : /\ infos[s].from < ChunkEnd /\ chunkStart < infos[s].to
                  /\ last[s] < ChunkEnd}

InChunk == {t \in Times : chunkStart <= t /\ t < ChunkEnd}

New_Inclusive(s) == {t \in base[s] \cap InChunk : t >= last[s]}
New(s)           == {t \in base[s] \cap InChunk : t > last[s]}

-----------------------------------------------------------------------------
(* The store and the process *)

Measure(s, t) ==
  /\ t > LatestOf(base[s])
  /\ base' = [base EXCEPT ![s] = @ \cup {t}]
  /\ UNCHANGED <<out, last, pc, round, batch, results, history, handled>>

Fault == faults < MaxFaults /\ faults' = faults + 1

Restart ==
  /\ Fault
  /\ last' = [s \in Stations |-> 0]
  /\ pc' = "idle" /\ left' = {} /\ batch' = Nothing /\ results' = Nothing
  /\ handled' = Nothing
  /\ UNCHANGED <<store, infos, chunkStart, excused, edge>>

-----------------------------------------------------------------------------
(* A round *)

RequestState ==
  /\ pc = "idle"
  /\ infos' = [s \in Stations |-> Interval(s)]
  /\ Lagging' # {}
  /\ chunkStart' = RoundFrom'
  /\ pc' = "chunk"
  /\ UNCHANGED <<store, last, left, batch, results, history, handled>>

BeginChunk ==
  /\ pc = "chunk" /\ chunkStart < RoundTo
  /\ left' = NeedingElaboration
  /\ pc' = "request"
  /\ UNCHANGED <<store, last, infos, chunkStart, batch, results, history, handled>>

EndRound ==
  /\ pc = "chunk" /\ chunkStart >= RoundTo
  /\ pc' = "idle"
  /\ UNCHANGED <<store, last, round, batch, results, history, handled>>

StationChunks ==
  {c \in SUBSET left : Cardinality(c) = Min({PerRequest, Cardinality(left)})}

RequestHistory(chunk) ==
  /\ pc = "request" /\ left # {}
  /\ batch' = [s \in Stations |-> IF s \in chunk THEN New(s) ELSE {}]
  /\ left' = left \ chunk
  /\ pc' = "handle"
  /\ UNCHANGED <<store, last, infos, chunkStart, results, history, handled>>

RequestFails(chunk) ==
  /\ pc = "request" /\ left # {}
  /\ Fault
  /\ left' = left \ chunk
  /\ excused' = [s \in Stations |-> excused[s] \cup (IF s \in chunk THEN InChunk ELSE {})]
  /\ UNCHANGED <<store, last, pc, infos, chunkStart, batch, results, handled, edge>>

Mark_ToChunkEnd(s, t) == last' = [last EXCEPT ![s] = ChunkEnd]
Mark(s, t)            == last' = [last EXCEPT ![s] = t]

Handle(s) ==
  /\ pc = "handle" /\ batch[s] # {}
  /\ results' = [results EXCEPT ![s] = @ \cup batch[s]]
  /\ handled' = [handled EXCEPT ![s] = @ \cup batch[s]]
  /\ Mark(s, Max(batch[s]))
  /\ batch' = [batch EXCEPT ![s] = {}]
  /\ UNCHANGED <<store, pc, round, history>>

(* "Mark the station as processed until chunkEnd".                         *)
HandleFails(s) ==
  /\ pc = "handle" /\ batch[s] # {}
  /\ Fault
  /\ Mark(s, ChunkEnd)
  /\ excused' = [excused EXCEPT ![s] = @ \cup InChunk]
  /\ edge' = [edge EXCEPT ![s] = @ \cup {ChunkEnd}]
  /\ batch' = [batch EXCEPT ![s] = {}]
  /\ UNCHANGED <<store, pc, round, results, handled>>

EndBatch ==
  /\ pc = "handle" /\ batch = Nothing
  /\ pc' = "request"
  /\ UNCHANGED <<store, last, round, batch, results, history, handled>>

(* Results are pushed per station type; one push may fail while others do  *)
(* not.  Every station stands for a type of its own.                       *)
EndChunk(failing) ==
  /\ pc = "request" /\ left = {}
  /\ out' = [s \in Stations |-> out[s] \cup (IF s \in failing THEN {} ELSE results[s])]
  /\ excused' = [s \in Stations |-> excused[s] \cup (IF s \in failing THEN results[s] ELSE {})]
  /\ results' = Nothing
  /\ chunkStart' = chunkStart + ChunkDuration
  /\ pc' = "chunk"
  /\ UNCHANGED <<base, last, infos, left, batch, handled, edge>>

PushResults == EndChunk({}) /\ UNCHANGED faults
PushFails(s) == results[s] # {} /\ EndChunk({s}) /\ Fault

-----------------------------------------------------------------------------
WideInit ==
  /\ base = Nothing /\ out = Nothing
  /\ last = [s \in Stations |-> 0]
  /\ pc = "idle" /\ infos = [s \in Stations |-> [from |-> 0, to |-> 0]]
  /\ chunkStart = 0 /\ left = {}
  /\ batch = Nothing /\ results = Nothing
  /\ faults = 0 /\ handled = Nothing /\ excused = Nothing /\ edge = Nothing

Step ==
  \/ RequestState \/ BeginChunk \/ EndRound \/ EndBatch \/ PushResults
  \/ \E chunk \in StationChunks : RequestHistory(chunk)
  \/ \E s \in Stations : Handle(s)

Disturbance ==
  \/ Restart
  \/ \E chunk \in StationChunks : RequestFails(chunk)
  \/ \E s \in Stations : HandleFails(s) \/ PushFails(s)

WideNext ==
  \/ Step \/ Disturbance
  \/ \E s \in Stations, t \in Times : Measure(s, t)

WideSpec == WideInit /\ [][WideNext]_wideVars

(* The elaboration is run again and again and its calls return; no         *)
(* station has to measure, and nothing has to fail.                        *)
FairWideSpec == WideSpec /\ WF_wideVars(Step)

-----------------------------------------------------------------------------
(* Properties *)

(* Every variable holds a value of its kind.                               *)
WideTypeOK ==
  /\ base \in [Stations -> SUBSET Times] /\ out \in [Stations -> SUBSET Times]
  /\ last \in [Stations -> 0 .. MaxTime + 1]
  /\ pc \in {"idle", "chunk", "request", "handle"}
  /\ infos \in [Stations -> [from : 0 .. MaxTime, to : 0 .. MaxTime + 1]]
  /\ chunkStart \in Nat /\ left \subseteq Stations
  /\ batch \in [Stations -> SUBSET Times] /\ results \in [Stations -> SUBSET Times]
  /\ faults \in 0 .. MaxFaults
  /\ handled \in [Stations -> SUBSET Times] /\ excused \in [Stations -> SUBSET Times]
  /\ edge \in [Stations -> SUBSET (0 .. MaxTime + 1)]

(* A measurement the follower will not look at again: it is not later than *)
(* what counts as processed, or than what was elaborated.                  *)
Passed(s, t) == t <= last[s] \/ \E u \in out[s] : t < u
Lost(s) == {t \in base[s] \ (out[s] \cup batch[s] \cup results[s]) : Passed(s, t)}

(* No measurement is passed over in silence: one that was never elaborated *)
(* and lies behind lies in a chunk for which an error was logged, or at    *)
(* the very end of a chunk in which the handler failed.                    *)
LossIsExplained == \A s \in Stations : Lost(s) \subseteq excused[s] \cup edge[s]

(* Within one run of the process no measurement is elaborated twice,       *)
(* although rounds, chunks and intervals of stations overlap.              *)
ElaboratedOnce == \A s \in Stations : batch[s] \cap handled[s] = {}

(* Once errors and restarts cease, every measurement that no error was     *)
(* logged for is elaborated, also of a station that lags behind the others *)
(* or has no data yet.                                                     *)
AllElaborated ==
  <>[][~Disturbance]_wideVars
    => <>[](\A s \in Stations : base[s] \subseteq out[s] \cup excused[s] \cup edge[s])

(* The handler's failure marks a station "as processed until chunkEnd",    *)
(* and intervals are half-open: what lies at the end of the chunk belongs  *)
(* to the next one and is not passed over.                                 *)
OnlyFailedChunksAreLost == \A s \in Stations : Lost(s) \subseteq excused[s]
=============================================================================
