----------------------------- MODULE ElabProofs -----------------------------
(***************************************************************************)
(* Proofs about the two followers of package elab, for any stations,       *)
(* times, chunks, buckets, pools and faults.                               *)
(*                                                                         *)
(* WideFollower: the invariant follows the measurements that are open,     *)
(* neither elaborated nor excused.  They lie behind everything that was    *)
(* elaborated, whatever is not in hand lies behind what is marked as       *)
(* processed, and the chunks walked so far have left none of the interval  *)
(* the round began with.                                                   *)
(*                                                                         *)
(* StationFollower: every station that is behind and was looked at is in   *)
(* one bucket, the one being filled or one that was launched, and what     *)
(* Consolidate does to a bucket keeps it covering its stations.            *)
(***************************************************************************)
EXTENDS WideFollower, StationFollower, FiniteSetTheorems, WellFoundedInduction, TLAPS

-----------------------------------------------------------------------------
(* The largest and the smallest of some numbers *)

LEMMA MinIsOne ==
  ASSUME NEW S, S \subseteq Nat, S # {}
  PROVE  /\ Min(S) \in S
         /\ \A x \in S : Min(S) <= x
<1>1. PICK m \in S : \A y \in S : ~ (<<y, m>> \in OpToRel(<, Nat))
  BY NatLessThanWellFounded, WFMin
<1>2. \A y \in S : ~ (y < m)
  BY <1>1 DEF OpToRel
<1>3. \A y \in S : m <= y
  BY <1>2
<1> QED
  BY <1>3 DEF Min

LEMMA MaxIsOne ==
  ASSUME NEW S, S \subseteq Nat, S # {}, NEW n \in Nat, \A x \in S : x <= n
  PROVE  /\ Max(S) \in S
         /\ \A x \in S : x <= Max(S)
<1> DEFINE T == {n - x : x \in S}
<1>1. T \subseteq Nat /\ T # {}
  <2>1. \A x \in S : n - x \in Nat
    OBVIOUS
  <2>2. PICK x \in S : TRUE
    OBVIOUS
  <2>3. n - x \in T
    OBVIOUS
  <2> QED
    BY <2>1, <2>3
<1>2. PICK x \in S : Min(T) = n - x
  BY <1>1, MinIsOne
<1>3. \A y \in S : n - x <= n - y
  BY <1>1, <1>2, MinIsOne
<1>4. \A y \in S : x >= y
  BY <1>3
<1> QED
  BY <1>4 DEF Max

LEMMA TimesAreNat == Times \subseteq Nat \ {0} /\ \A t \in Times : StartingPoint < t /\ t <= MaxTime
  BY ElabAssumption DEF Times

LEMMA LatestIsOne ==
  ASSUME NEW S, S \subseteq Times
  PROVE  /\ LatestOf(S) \in Nat /\ LatestOf(S) <= MaxTime
         /\ S = {} => LatestOf(S) = 0
         /\ S # {} => LatestOf(S) \in S
         /\ \A x \in S : x <= LatestOf(S)
<1>1. CASE S = {}
  BY <1>1, ElabAssumption DEF LatestOf
<1>2. CASE S # {}
  <2>1. S \subseteq Nat /\ MaxTime \in Nat /\ \A x \in S : x <= MaxTime
    BY TimesAreNat, ElabAssumption
  <2>2. Max(S) \in S /\ \A x \in S : x <= Max(S)
    BY <2>1, <1>2, MaxIsOne
  <2> QED
    BY <1>2, <2>1, <2>2 DEF LatestOf
<1> QED
  BY <1>1, <1>2

-----------------------------------------------------------------------------
(* WideFollower: the interval of a station, a round and a chunk *)

(* An interval begins at the starting point or at the last elaborated      *)
(* measurement, and one that is not empty ends behind the last base        *)
(* measurement.                                                            *)
LEMMA IntervalIs ==
  ASSUME NEW s \in Stations, base[s] \subseteq Times, out[s] \subseteq Times
  PROVE  LET i == Interval(s) IN
         /\ i \in [from : 0 .. MaxTime, to : 0 .. MaxTime + 1]
         /\ i.from > 0
         /\ i.from \in {StartingPoint} \cup out[s]
         /\ \A u \in out[s] : u <= i.from
         /\ i.to > i.from => \E b \in base[s] : i.to = b + 1
<1> DEFINE done == LatestOf(out[s])
           latestBase == LatestOf(base[s])
<1>1. /\ done \in Nat /\ done <= MaxTime
      /\ done # 0 => done \in out[s]
      /\ \A u \in out[s] : u <= done
  BY LatestIsOne
<1>2. /\ latestBase \in Nat /\ latestBase <= MaxTime
      /\ latestBase # 0 => latestBase \in base[s]
  BY LatestIsOne
<1>3. \A u \in out[s] : u \in Nat \ {0}
  BY TimesAreNat
<1>4. /\ CatchupFrom(done) \in 0 .. MaxTime /\ CatchupFrom(done) > 0
      /\ CatchupFrom(done) \in {StartingPoint} \cup out[s]
      /\ \A u \in out[s] : u <= CatchupFrom(done)
  BY <1>1, <1>3, ElabAssumption DEF CatchupFrom
<1>5. /\ CatchupTo(done, latestBase) \in 0 .. MaxTime + 1
      /\ CatchupTo(done, latestBase) > CatchupFrom(done)
           => \E b \in base[s] : CatchupTo(done, latestBase) = b + 1
  <2>1. CASE CatchupFrom(done) < latestBase
    BY <2>1, <1>2, <1>4, ElabAssumption DEF CatchupTo
  <2>2. CASE ~ (CatchupFrom(done) < latestBase)
    BY <2>2, <1>2, <1>4, ElabAssumption DEF CatchupTo
  <2> QED
    BY <2>1, <2>2
<1>6. Interval(s) = [from |-> CatchupFrom(done), to |-> CatchupTo(done, latestBase)]
  BY DEF Interval
<1> HIDE DEF done, latestBase
<1> QED
  BY <1>4, <1>5, <1>6

LEMMA BoundsOfARound ==
  ASSUME NEW f \in [Stations -> [from : 0 .. MaxTime, to : 0 .. MaxTime + 1]],
         NEW L, L \subseteq Stations, L # {}
  PROVE  /\ Max({f[s].to : s \in L}) \in 0 .. MaxTime + 1
         /\ \A s \in L : f[s].to <= Max({f[u].to : u \in L})
         /\ \E s \in L : Min({f[u].from : u \in L}) = f[s].from
         /\ \A s \in L : Min({f[u].from : u \in L}) <= f[s].from
<1> DEFINE ends == {f[s].to : s \in L}
           starts == {f[s].from : s \in L}
<1>1. PICK s \in L : TRUE
  OBVIOUS
<1>2. MaxTime + 1 \in Nat /\ MaxTime \in Nat
  BY ElabAssumption
<1>3. \A u \in L : f[u].to \in 0 .. MaxTime + 1 /\ f[u].from \in 0 .. MaxTime
  OBVIOUS
<1>4. \A x \in ends : x \in Nat /\ x <= MaxTime + 1
  BY <1>2, <1>3
<1>5. \A x \in starts : x \in Nat
  BY <1>2, <1>3
<1>6. ends # {} /\ starts # {}
  BY <1>1
<1>7. Max(ends) \in ends /\ \A x \in ends : x <= Max(ends)
  <2> HIDE DEF ends
  <2> QED
    BY <1>2, <1>4, <1>6, MaxIsOne
<1>8. Min(starts) \in starts /\ \A x \in starts : Min(starts) <= x
  <2> HIDE DEF starts
  <2> QED
    BY <1>5, <1>6, MinIsOne
<1> QED
  BY <1>3, <1>7, <1>8

LEMMA ChunkIs ==
  ASSUME WideTypeOK, Lagging # {}
  PROVE  /\ RoundTo \in 0 .. MaxTime + 1
         /\ \A s \in Lagging : infos[s].to <= RoundTo
         /\ ChunkEnd \in 0 .. MaxTime + 1
         /\ ChunkEnd \in {chunkStart + ChunkDuration, RoundTo}
         /\ ChunkEnd <= RoundTo
<1>1. /\ RoundTo \in 0 .. MaxTime + 1
      /\ \A s \in Lagging : infos[s].to <= RoundTo
  BY BoundsOfARound DEF WideTypeOK, RoundTo, Lagging
<1>2. chunkStart + ChunkDuration \in Nat /\ RoundTo \in Nat /\ MaxTime + 1 \in Nat
  BY <1>1, WideAssumption, ElabAssumption DEF WideTypeOK
<1>3. /\ ChunkEnd \in {chunkStart + ChunkDuration, RoundTo}
      /\ \A x \in {chunkStart + ChunkDuration, RoundTo} : ChunkEnd <= x
  <2> DEFINE S == {chunkStart + ChunkDuration, RoundTo}
  <2>1. S \subseteq Nat /\ S # {}
    BY <1>2
  <2>2. Min(S) \in S /\ \A x \in S : Min(S) <= x
    <3> HIDE DEF S
    <3> QED
      BY <2>1, MinIsOne
  <2> QED
    BY <2>2 DEF ChunkEnd
<1> QED
  BY <1>1, <1>2, <1>3

LEMMA ChunkStays ==
  ASSUME infos' = infos, chunkStart' = chunkStart
  PROVE  Lagging' = Lagging /\ RoundTo' = RoundTo /\ ChunkEnd' = ChunkEnd /\ InChunk' = InChunk
<1>1. Lagging' = Lagging
  BY DEF Lagging
<1>2. RoundTo' = RoundTo
  BY <1>1 DEF RoundTo
<1>3. ChunkEnd' = ChunkEnd
  BY <1>2 DEF ChunkEnd
<1> QED
  BY <1>1, <1>2, <1>3 DEF InChunk

-----------------------------------------------------------------------------
(* WideFollower: the inductive invariant *)

Active == pc # "idle"
Settled(s) == out[s] \cup excused[s] \cup edge[s]
InHand(s)  == batch[s] \cup results[s]
Open(s)    == base[s] \ Settled(s)

(* What this process has results of is marked as processed, and what it is *)
(* about to hand over is not.                                              *)
MarkInv ==
  \A s \in Stations :
    /\ \A t \in handled[s] : t <= last[s]
    /\ results[s] \subseteq handled[s]
    /\ \A t \in batch[s] : last[s] < t

(* Batches and results exist at their place of the walk only, and hold     *)
(* base measurements, a batch those of its chunk.                          *)
WalkInv ==
  /\ pc # "handle" => batch = Nothing
  /\ pc \notin {"request", "handle"} => left = {} /\ results = Nothing
  /\ pc = "handle" => \A s \in Stations : batch[s] \subseteq InChunk
  /\ \A s \in Stations : batch[s] \cup results[s] \cup out[s] \subseteq base[s]

(* A station is only asked for within its interval, which begins and ends  *)
(* at a measurement.                                                       *)
RoundInv ==
  Active =>
    /\ Lagging # {}
    /\ \A s \in left : s \in Lagging /\ chunkStart < infos[s].to
    /\ \A s \in Stations : batch[s] # {} => s \in Lagging /\ chunkStart < infos[s].to
    /\ \A s \in Lagging : /\ infos[s].from \in {StartingPoint} \cup out[s]
                          /\ \E b \in base[s] : infos[s].to = b + 1

(* What is open lies behind everything elaborated and, unless in hand,     *)
(* behind what is marked as processed; a mark behind the last measurement  *)
(* is excused.                                                             *)
OpenInv ==
  \A s \in Stations :
    /\ \A t \in Open(s) : \A u \in out[s] : u < t
    /\ \A t \in Open(s) \ InHand(s) : last[s] < t
    /\ \A t \in Times : t <= last[s] /\ t \notin excused[s] \cup edge[s]
                          => \E b \in base[s] : t <= b

(* The chunks walked so far have left nothing open of a station's          *)
(* interval, nor has this one once the station was asked for.              *)
ChunkInv ==
  Active => \A s \in Lagging :
    /\ \A t \in Open(s) : t < chunkStart => infos[s].to <= t
    /\ pc \in {"request", "handle"} /\ s \notin left =>
         \A t \in (Open(s) \ InHand(s)) \cap InChunk : infos[s].to <= t
    /\ \A t \in (Open(s) \ InHand(s)) \cap InChunk : \A m \in batch[s] : m < t

WideInv == WideTypeOK /\ MarkInv /\ WalkInv /\ RoundInv /\ OpenInv /\ ChunkInv

LEMMA WideInitInv == WideInit => WideInv
<1> SUFFICES ASSUME WideInit PROVE WideInv
  OBVIOUS
<1> USE DEF WideInit, Nothing
<1>1. WideTypeOK
  BY ElabAssumption, WideAssumption DEF WideTypeOK
<1>2. MarkInv
  BY DEF MarkInv
<1>3. WalkInv
  BY DEF WalkInv
<1>4. RoundInv /\ ChunkInv
  BY DEF RoundInv, ChunkInv, Active
<1>5. OpenInv
  BY TimesAreNat DEF OpenInv, Open
<1> QED
  BY <1>1, <1>2, <1>3, <1>4, <1>5 DEF WideInv

(* A measurement that arrives lies behind all others.                      *)
LEMMA MeasureKeeps ==
  ASSUME WideInv, NEW s \in Stations, NEW t \in Times, Measure(s, t)
  PROVE  WideInv'
<1> USE DEF WideInv
<1>1. /\ base' = [base EXCEPT ![s] = @ \cup {t}]
      /\ UNCHANGED <<out, last, pc, infos, chunkStart, left, batch, results,
                     faults, excused, edge, handled>>
  BY DEF Measure, round, history
<1>2. \A b \in base[s] : b < t
  <2>1. base[s] \subseteq Times
    BY DEF WideTypeOK
  <2>2. /\ LatestOf(base[s]) \in Nat /\ \A b \in base[s] : b <= LatestOf(base[s])
    BY <2>1, LatestIsOne
  <2>3. t > LatestOf(base[s])
    BY DEF Measure
  <2>4. t \in Nat /\ \A b \in base[s] : b \in Nat
    BY <2>1, TimesAreNat
  <2> QED
    BY <2>2, <2>3, <2>4
<1>3. /\ Lagging' = Lagging /\ InChunk' = InChunk
      /\ Settled(s)' = Settled(s) /\ InHand(s)' = InHand(s)
  BY <1>1, ChunkStays DEF Settled, InHand
<1>4. \A u \in Stations : base'[u] = IF u = s THEN base[u] \cup {t} ELSE base[u]
  BY <1>1 DEF WideTypeOK
<1>5. \A u \in Stations : Open(u)' \subseteq Open(u) \cup (IF u = s THEN {t} ELSE {})
  BY <1>1, <1>4 DEF Open, Settled
<1>6. WideTypeOK'
  BY <1>1 DEF WideTypeOK
<1>7. MarkInv'
  BY <1>1 DEF MarkInv
<1>8. WalkInv'
  BY <1>1, <1>3, <1>4 DEF WalkInv, Nothing
<1>9. RoundInv'
  BY <1>1, <1>3, <1>4 DEF RoundInv, Active
<1>10. OpenInv'
  <2>1. \A u \in out[s] : u < t
    BY <1>2 DEF WalkInv
  <2>2. t \notin Settled(s) => last[s] < t
    <3>1. last[s] \in Nat /\ t \in Nat
      BY TimesAreNat, ElabAssumption DEF WideTypeOK
    <3> SUFFICES ASSUME t \notin Settled(s), t <= last[s] PROVE FALSE
      BY <3>1
    <3>2. PICK b \in base[s] : t <= b
      BY DEF OpenInv, Settled
    <3> QED
      BY <1>2, <3>1, <3>2, TimesAreNat DEF WideTypeOK
  <2>3. ASSUME NEW u \in Stations, NEW x \in Open(u)'
        PROVE  x \in Open(u) \/ (u = s /\ x = t /\ t \notin Settled(s))
    BY <1>1, <1>4 DEF Open, Settled
  <2> QED
    BY <1>1, <1>4, <2>1, <2>2, <2>3 DEF OpenInv, InHand
<1>11. ChunkInv'
  <2>1. ASSUME NEW u \in Stations, NEW x \in Open(u)'
        PROVE  x \in Open(u) \/ (u = s /\ x = t)
    BY <1>5
  <2>2. Active /\ s \in Lagging => infos[s].to <= t
    BY <1>2, TimesAreNat DEF RoundInv, WideTypeOK
  <2>3. \A m \in batch[s] : m < t
    BY <1>2 DEF WalkInv
  <2>4. Lagging \subseteq Stations
    BY DEF Lagging
  <2> QED
    BY <1>1, <1>3, <2>1, <2>2, <2>3, <2>4 DEF ChunkInv, Active, InHand
<1> QED
  BY <1>6, <1>7, <1>8, <1>9, <1>10, <1>11

(* A restart forgets the marks: nothing counts as processed any more.      *)
LEMMA RestartKeeps == ASSUME WideInv, Restart PROVE WideInv'
<1> USE DEF WideInv
<1>1. /\ last' = [s \in Stations |-> 0] /\ pc' = "idle" /\ left' = {}
      /\ batch' = Nothing /\ results' = Nothing /\ handled' = Nothing
      /\ UNCHANGED <<base, out, infos, chunkStart, excused, edge>>
  BY DEF Restart, store
<1>2. faults' \in 0 .. MaxFaults
  BY WideAssumption DEF Restart, Fault, WideTypeOK
<1>3. WideTypeOK'
  BY <1>1, <1>2, ElabAssumption DEF WideTypeOK, Nothing
<1>4. MarkInv' /\ WalkInv'
  BY <1>1 DEF MarkInv, WalkInv, Nothing
<1>5. RoundInv' /\ ChunkInv'
  BY <1>1 DEF RoundInv, ChunkInv, Active
<1>6. OpenInv'
  <2>1. \A t \in Times : 0 < t
    BY TimesAreNat
  <2>2. \A s \in Stations : base[s] \subseteq Times
    BY DEF WideTypeOK
  <2>3. \A s \in Stations : Open(s)' = Open(s) /\ Open(s) \subseteq Times
    BY <1>1, <2>2 DEF Open, Settled
  <2>4. \A s \in Stations : last'[s] = 0
    BY <1>1
  <2>5. \A s \in Stations : \A t \in Times : ~ (t <= last'[s])
    BY <2>1, <2>4, TimesAreNat
  <2> QED
    BY <1>1, <2>1, <2>3, <2>4, <2>5 DEF OpenInv
<1> QED
  BY <1>3, <1>4, <1>5, <1>6

(* A round starts at the least of the starting points: what is open lies   *)
(* behind the start of its station.                                        *)
LEMMA RequestStateKeeps == ASSUME WideInv, RequestState PROVE WideInv'
<1> USE DEF WideInv
<1>1. /\ infos' = [s \in Stations |-> Interval(s)] /\ pc' = "chunk" /\ pc = "idle"
      /\ Lagging' # {} /\ chunkStart' = RoundFrom'
      /\ UNCHANGED <<base, out, last, left, batch, results, faults, excused, edge, handled>>
  BY DEF RequestState, store, history
<1>2. \A s \in Stations :
        LET i == Interval(s) IN
         /\ i \in [from : 0 .. MaxTime, to : 0 .. MaxTime + 1]
         /\ i.from > 0
         /\ i.from \in {StartingPoint} \cup out[s]
         /\ \A u \in out[s] : u <= i.from
         /\ i.to > i.from => \E b \in base[s] : i.to = b + 1
  BY IntervalIs DEF WideTypeOK
<1>3. infos' \in [Stations -> [from : 0 .. MaxTime, to : 0 .. MaxTime + 1]]
  BY <1>1, <1>2
<1>4. Lagging' = {s \in Stations : infos'[s].to > infos'[s].from}
  BY DEF Lagging
<1>5. RoundFrom' = Min({infos'[s].from : s \in Lagging'})
  BY DEF RoundFrom
<1>6. /\ \E s \in Lagging' : chunkStart' = infos'[s].from
      /\ \A s \in Lagging' : chunkStart' <= infos'[s].from
  <2> DEFINE L == Lagging'
             f == infos'
  <2>1. L \subseteq Stations /\ L # {} /\ f \in [Stations -> [from : 0 .. MaxTime, to : 0 .. MaxTime + 1]]
    BY <1>1, <1>3, <1>4
  <2>2. chunkStart' = Min({f[s].from : s \in L})
    BY <1>1, <1>5
  <2> HIDE DEF L, f
  <2>3. /\ \E s \in L : chunkStart' = f[s].from
        /\ \A s \in L : chunkStart' <= f[s].from
    BY <2>1, <2>2, BoundsOfARound
  <2> QED
    BY <2>3 DEF L, f
<1>7. chunkStart' \in Nat
  BY <1>3, <1>4, <1>6, ElabAssumption
<1>8. WideTypeOK'
  BY <1>1, <1>3, <1>7 DEF WideTypeOK
<1>9. MarkInv'
  BY <1>1 DEF MarkInv
<1>10. WalkInv'
  BY <1>1 DEF WalkInv, Nothing
<1>11. RoundInv'
  <2>1. batch = Nothing /\ left = {}
    BY <1>1 DEF WalkInv
  <2>2. \A s \in Lagging' :
          /\ infos'[s].from \in {StartingPoint} \cup out[s]
          /\ \E b \in base[s] : infos'[s].to = b + 1
    BY <1>1, <1>2, <1>4
  <2> QED
    BY <1>1, <2>1, <2>2 DEF RoundInv, Nothing
<1>12. \A s \in Stations : Open(s)' = Open(s) /\ InHand(s)' = InHand(s)
  BY <1>1 DEF Open, Settled, InHand
<1>13. OpenInv'
  BY <1>1, <1>12 DEF OpenInv
<1>14. ChunkInv'
  <2>1. ASSUME NEW s \in Lagging', NEW t \in Open(s), t < chunkStart' PROVE FALSE
    <3>1. s \in Stations /\ t \in Times /\ t \in Nat /\ StartingPoint \in Nat
      BY <1>4, TimesAreNat, ElabAssumption DEF WideTypeOK, Open
    <3>2. infos'[s].from \in {StartingPoint} \cup out[s] /\ infos'[s].from \in Nat
      BY <1>1, <1>2, <1>3, <3>1, ElabAssumption
    <3>3. t < infos'[s].from
      BY <1>6, <1>7, <2>1, <3>1, <3>2
    <3>4. infos'[s].from < t
      BY <3>1, <3>2, TimesAreNat DEF OpenInv
    <3> QED
      BY <3>1, <3>2, <3>3, <3>4
  <2>2. \A s \in Stations : batch'[s] = {}
    BY <1>1 DEF WalkInv, Nothing
  <2>3. Lagging' \subseteq Stations
    BY <1>4
  <2> QED
    BY <1>1, <1>12, <2>1, <2>2, <2>3 DEF ChunkInv
<1> QED
  BY <1>8, <1>9, <1>10, <1>11, <1>13, <1>14

(* The station whose interval touches the chunk is asked for, unless       *)
(* everything up to the end of the chunk counts as processed.              *)
LEMMA BeginChunkKeeps == ASSUME WideInv, BeginChunk PROVE WideInv'
<1> USE DEF WideInv
<1>1. /\ pc = "chunk" /\ pc' = "request" /\ left' = NeedingElaboration
      /\ UNCHANGED <<base, out, last, infos, chunkStart, batch, results, faults, excused,
                     edge, handled>>
  BY DEF BeginChunk, store, history
<1>2. Lagging' = Lagging /\ ChunkEnd' = ChunkEnd /\ InChunk' = InChunk
  BY <1>1, ChunkStays
<1>3. Active /\ Lagging # {} /\ Lagging \subseteq Stations
  BY <1>1 DEF Active, RoundInv, Lagging
<1>4. \A s \in Stations : Open(s)' = Open(s) /\ InHand(s)' = InHand(s)
  BY <1>1 DEF Open, Settled, InHand
<1>5. WideTypeOK'
  BY <1>1, <1>3 DEF WideTypeOK, NeedingElaboration
<1>6. MarkInv' /\ WalkInv'
  BY <1>1 DEF MarkInv, WalkInv, Nothing
<1>7. RoundInv'
  BY <1>1, <1>2, <1>3 DEF RoundInv, NeedingElaboration, Active
<1>8. OpenInv'
  BY <1>1, <1>4 DEF OpenInv
<1>9. ChunkInv'
  <2>1. batch = Nothing
    BY <1>1 DEF WalkInv
  <2>2. ASSUME NEW s \in Lagging, s \notin NeedingElaboration,
               NEW t \in (Open(s) \ InHand(s)) \cap InChunk, t < infos[s].to
        PROVE  FALSE
    <3>1. /\ ChunkEnd \in Nat /\ chunkStart \in Nat /\ last[s] \in Nat /\ t \in Nat
          /\ infos[s].from \in Nat /\ infos[s].to \in Nat
      <4>1. ChunkEnd \in Nat
        BY <1>3, ChunkIs, ElabAssumption
      <4>2. s \in Stations /\ t \in Times
        BY <1>3 DEF InChunk
      <4>3. infos[s].from \in Nat /\ infos[s].to \in Nat /\ last[s] \in Nat
        BY <4>2, ElabAssumption DEF WideTypeOK
      <4> QED
        BY <4>1, <4>2, <4>3, TimesAreNat DEF WideTypeOK
    <3>2. chunkStart <= t /\ t < ChunkEnd
      BY DEF InChunk
    <3>3. last[s] < t
      BY <1>3 DEF OpenInv
    <3>4. infos[s].from < t
      BY <1>3, TimesAreNat DEF OpenInv, RoundInv, InChunk
    <3> QED
      BY <2>2, <3>1, <3>2, <3>3, <3>4 DEF NeedingElaboration
  <2>3. \A s \in Lagging : infos[s].to \in Nat
    BY <1>3, ElabAssumption DEF WideTypeOK
  <2>4. InChunk \subseteq Nat
    BY TimesAreNat DEF InChunk
  <2>5. \A s \in Stations : batch'[s] = {}
    BY <1>1, <2>1 DEF Nothing
  <2>6. ASSUME NEW s \in Lagging, s \notin NeedingElaboration,
               NEW t \in (Open(s) \ InHand(s)) \cap InChunk
        PROVE  infos[s].to <= t
    <3>1. ~ (t < infos[s].to)
      BY <2>2, <2>6
    <3>2. t \in Nat /\ infos[s].to \in Nat
      BY <2>3, <2>4
    <3> QED
      BY <3>1, <3>2
  <2> QED
    BY <1>1, <1>2, <1>3, <1>4, <2>5, <2>6 DEF ChunkInv
<1> QED
  BY <1>5, <1>6, <1>7, <1>8, <1>9

(* Within the interval of a station nothing is open before the chunk.      *)
LEMMA NothingOpenBefore ==
  ASSUME WideInv, Active, NEW s \in Lagging, chunkStart < infos[s].to, NEW t \in Open(s)
  PROVE  t \in Nat /\ chunkStart \in Nat /\ chunkStart <= t
<1>1. s \in Stations
  BY DEF Lagging
<1>2. t \in Nat /\ chunkStart \in Nat /\ infos[s].to \in Nat
  BY <1>1, TimesAreNat, ElabAssumption DEF WideInv, WideTypeOK, Open
<1>3. t < chunkStart => infos[s].to <= t
  BY DEF WideInv, ChunkInv
<1> QED
  BY <1>2, <1>3

(* What a station is asked for is everything of the chunk that is not yet  *)
(* marked as processed.                                                    *)
LEMMA RequestHistoryKeeps ==
  ASSUME WideInv, NEW chunk \in StationChunks, RequestHistory(chunk)
  PROVE  WideInv'
<1> USE DEF WideInv
<1>1. /\ pc = "request" /\ pc' = "handle" /\ left' = left \ chunk
      /\ batch' = [s \in Stations |-> IF s \in chunk THEN New(s) ELSE {}]
      /\ UNCHANGED <<base, out, last, infos, chunkStart, results, faults, excused, edge, handled>>
  BY DEF RequestHistory, store, history
<1>2. Lagging' = Lagging /\ ChunkEnd' = ChunkEnd /\ InChunk' = InChunk
  BY <1>1, ChunkStays
<1>3. chunk \subseteq left /\ left \subseteq Stations
  BY DEF StationChunks, WideTypeOK
<1>4. batch = Nothing
  BY <1>1 DEF WalkInv
<1>5. \A s \in Stations :
        /\ batch'[s] = IF s \in chunk THEN New(s) ELSE {}
        /\ Open(s)' = Open(s)
        /\ InHand(s)' = InHand(s) \cup (IF s \in chunk THEN New(s) ELSE {})
  BY <1>1, <1>4 DEF Open, Settled, InHand, Nothing
<1>6. \A s \in Stations :
        /\ New(s) \subseteq base[s] \cap InChunk
        /\ \A t \in New(s) : last[s] < t
  BY TimesAreNat, ElabAssumption DEF New, WideTypeOK
<1>7. ASSUME NEW s \in chunk PROVE (Open(s) \ InHand(s)') \cap InChunk = {}
  <2> SUFFICES ASSUME NEW t \in Open(s) \ InHand(s)', t \in InChunk PROVE FALSE
    OBVIOUS
  <2>1. s \in Stations /\ t \in Open(s) \ InHand(s) /\ t \notin New(s)
    BY <1>3, <1>5, <1>7
  <2>2. last[s] < t
    BY <2>1 DEF OpenInv
  <2>3. t \in base[s] /\ t \in Nat /\ last[s] \in Nat
    BY <2>1, TimesAreNat, ElabAssumption DEF Open, WideTypeOK
  <2> QED
    BY <2>1, <2>2, <2>3 DEF New
<1>8. WideTypeOK'
  <2>1. batch' \in [Stations -> SUBSET Times]
    BY <1>1, <1>6 DEF InChunk
  <2> QED
    BY <1>1, <2>1 DEF WideTypeOK
<1>9. MarkInv'
  BY <1>1, <1>5, <1>6 DEF MarkInv
<1>10. WalkInv'
  BY <1>1, <1>2, <1>5, <1>6 DEF WalkInv
<1>11. RoundInv'
  <2>1. Active
    BY <1>1 DEF Active
  <2> QED
    BY <1>1, <1>2, <1>3, <1>5, <2>1 DEF RoundInv
<1>12. OpenInv'
  BY <1>1, <1>5 DEF OpenInv
<1>13. ChunkInv'
  <2>1. Active /\ Lagging \subseteq Stations
    BY <1>1 DEF Active, Lagging
  <2>2. \A s \in Lagging : \A t \in Open(s)' : t < chunkStart' => infos'[s].to <= t
    BY <1>1, <1>5, <2>1 DEF ChunkInv
  <2>3. ASSUME NEW s \in Lagging, NEW t \in (Open(s)' \ InHand(s)') \cap InChunk
        PROVE  /\ s \notin chunk
               /\ s \notin left' => infos'[s].to <= t
    <3>1. s \notin chunk
      BY <1>5, <1>7, <2>1
    <3>2. t \in (Open(s) \ InHand(s)) \cap InChunk
      BY <1>5, <2>1
    <3> QED
      BY <1>1, <2>1, <3>1, <3>2 DEF ChunkInv
  <2>4. \A s \in Lagging : s \notin chunk => batch'[s] = {}
    BY <1>5, <2>1
  <2> QED
    BY <1>2, <2>2, <2>3, <2>4 DEF ChunkInv
<1> QED
  BY <1>8, <1>9, <1>10, <1>11, <1>12, <1>13

(* A request that fails excuses the chunk of the stations it was for.      *)
LEMMA RequestFailsKeeps ==
  ASSUME WideInv, NEW chunk \in StationChunks, RequestFails(chunk)
  PROVE  WideInv'
<1> USE DEF WideInv
<1>1. /\ pc = "request" /\ left' = left \ chunk
      /\ excused' = [s \in Stations |-> excused[s] \cup (IF s \in chunk THEN InChunk ELSE {})]
      /\ UNCHANGED <<base, out, last, pc, infos, chunkStart, batch, results, handled, edge>>
  BY DEF RequestFails, store
<1>2. faults' \in 0 .. MaxFaults
  BY WideAssumption DEF RequestFails, Fault, WideTypeOK
<1>3. Lagging' = Lagging /\ ChunkEnd' = ChunkEnd /\ InChunk' = InChunk
  BY <1>1, ChunkStays
<1>4. chunk \subseteq left /\ left \subseteq Stations /\ Active /\ Lagging \subseteq Stations
  BY <1>1 DEF StationChunks, WideTypeOK, Active, Lagging
<1>5. \A s \in Stations :
        /\ excused[s] \subseteq excused'[s]
        /\ Open(s)' = Open(s) \ (IF s \in chunk THEN InChunk ELSE {})
        /\ InHand(s)' = InHand(s)
  BY <1>1 DEF Open, Settled, InHand
<1>6. WideTypeOK'
  <2>1. excused' \in [Stations -> SUBSET Times]
    BY <1>1 DEF WideTypeOK, InChunk
  <2> QED
    BY <1>1, <1>2, <2>1 DEF WideTypeOK
<1>7. MarkInv'
  BY <1>1 DEF MarkInv
<1>8. WalkInv'
  BY <1>1, <1>3 DEF WalkInv, Nothing
<1>9. RoundInv'
  BY <1>1, <1>3, <1>4 DEF RoundInv, Active
<1>10. OpenInv'
  BY <1>1, <1>5 DEF OpenInv
<1>11. ChunkInv'
  BY <1>1, <1>3, <1>4, <1>5 DEF ChunkInv
<1> QED
  BY <1>6, <1>7, <1>8, <1>9, <1>10, <1>11

(* What a handler took is marked up to its last measurement, before which  *)
(* nothing of the chunk is left.                                           *)
LEMMA HandleKeeps == ASSUME WideInv, NEW s \in Stations, Handle(s) PROVE WideInv'
<1> DEFINE m == Max(batch[s])
<1> USE DEF WideInv
<1>1. /\ pc = "handle" /\ batch[s] # {}
      /\ results' = [results EXCEPT ![s] = @ \cup batch[s]]
      /\ handled' = [handled EXCEPT ![s] = @ \cup batch[s]]
      /\ last' = [last EXCEPT ![s] = m]
      /\ batch' = [batch EXCEPT ![s] = {}]
      /\ UNCHANGED <<base, out, pc, infos, chunkStart, left, faults, excused, edge>>
  BY DEF Handle, Mark, store, round, history
<1>2. m \in batch[s] /\ \A t \in batch[s] : t <= m
  <2>1. batch[s] \subseteq Nat /\ MaxTime \in Nat /\ \A t \in batch[s] : t <= MaxTime
    BY TimesAreNat, ElabAssumption DEF WideTypeOK
  <2> QED
    BY <1>1, <2>1, MaxIsOne
<1> HIDE DEF m
<1>3. m \in Times /\ m \in base[s] /\ m \in InChunk /\ m \in Nat /\ last[s] < m
  BY <1>1, <1>2, TimesAreNat DEF WideTypeOK, WalkInv, MarkInv
<1>4. Lagging' = Lagging /\ ChunkEnd' = ChunkEnd /\ InChunk' = InChunk
  BY <1>1, ChunkStays
<1>5. \A u \in Stations :
        /\ results'[u] = results[u] \cup (IF u = s THEN batch[u] ELSE {})
        /\ handled'[u] = handled[u] \cup (IF u = s THEN batch[u] ELSE {})
        /\ last'[u] = IF u = s THEN m ELSE last[u]
        /\ batch'[u] = IF u = s THEN {} ELSE batch[u]
  BY <1>1 DEF WideTypeOK
<1>6. \A u \in Stations : Open(u)' = Open(u) /\ InHand(u)' = InHand(u)
  BY <1>1, <1>5 DEF Open, Settled, InHand
<1>7. Active /\ s \in Lagging /\ chunkStart < infos[s].to /\ Lagging # {}
  BY <1>1 DEF Active, RoundInv
<1>8. \A t \in Open(s) \ InHand(s) : m < t
  <2> SUFFICES ASSUME NEW t \in Open(s) \ InHand(s) PROVE m < t
    OBVIOUS
  <2>1. t \in Nat /\ chunkStart <= t /\ t \in Times
    BY <1>7, NothingOpenBefore DEF Open, WideTypeOK
  <2>2. CASE t \in InChunk
    BY <1>2, <1>7, <2>2 DEF ChunkInv
  <2>3. CASE t \notin InChunk
    <3>1. ChunkEnd \in Nat
      BY <1>7, ChunkIs, ElabAssumption
    <3> QED
      BY <1>3, <2>1, <2>3, <3>1 DEF InChunk
  <2> QED
    BY <2>2, <2>3
<1>9. WideTypeOK'
  <2>1. last' \in [Stations -> 0 .. MaxTime + 1]
    BY <1>1, <1>3, TimesAreNat, ElabAssumption DEF WideTypeOK
  <2>2. /\ batch' \in [Stations -> SUBSET Times] /\ results' \in [Stations -> SUBSET Times]
        /\ handled' \in [Stations -> SUBSET Times]
    BY <1>1 DEF WideTypeOK
  <2> QED
    BY <1>1, <2>1, <2>2 DEF WideTypeOK
<1>10. MarkInv'
  <2>1. \A t \in handled[s] : t <= m
    <3>1. \A t \in handled[s] : t <= last[s] /\ t \in Nat
      BY TimesAreNat DEF MarkInv, WideTypeOK
    <3>2. last[s] \in Nat
      BY ElabAssumption DEF WideTypeOK
    <3> QED
      BY <1>3, <3>1, <3>2
  <2> QED
    BY <1>2, <1>5, <2>1 DEF MarkInv
<1>11. WalkInv'
  BY <1>1, <1>4, <1>5 DEF WalkInv
<1>12. RoundInv'
  BY <1>1, <1>4, <1>5 DEF RoundInv, Active
<1>13. OpenInv'
  BY <1>1, <1>3, <1>5, <1>6, <1>8 DEF OpenInv
<1>14. ChunkInv'
  <2>1. Lagging \subseteq Stations
    BY DEF Lagging
  <2> QED
    BY <1>1, <1>4, <1>5, <1>6, <1>7, <2>1 DEF ChunkInv
<1> QED
  BY <1>9, <1>10, <1>11, <1>12, <1>13, <1>14

(* A handler that fails excuses its chunk and the end of it.               *)
LEMMA HandleFailsKeeps == ASSUME WideInv, NEW s \in Stations, HandleFails(s) PROVE WideInv'
<1> USE DEF WideInv
<1>1. /\ pc = "handle" /\ batch[s] # {}
      /\ last' = [last EXCEPT ![s] = ChunkEnd]
      /\ excused' = [excused EXCEPT ![s] = @ \cup InChunk]
      /\ edge' = [edge EXCEPT ![s] = @ \cup {ChunkEnd}]
      /\ batch' = [batch EXCEPT ![s] = {}]
      /\ UNCHANGED <<base, out, pc, infos, chunkStart, left, results, handled>>
  BY DEF HandleFails, Mark, store, round
<1>2. faults' \in 0 .. MaxFaults
  BY WideAssumption DEF HandleFails, Fault, WideTypeOK
<1>3. Lagging' = Lagging /\ ChunkEnd' = ChunkEnd /\ InChunk' = InChunk
  BY <1>1, ChunkStays
<1>4. Active /\ s \in Lagging /\ chunkStart < infos[s].to /\ Lagging # {}
  BY <1>1 DEF Active, RoundInv
<1>5. ChunkEnd \in 0 .. MaxTime + 1 /\ ChunkEnd \in Nat
  BY <1>4, ChunkIs, ElabAssumption
<1>6. \A u \in Stations :
        /\ excused'[u] = excused[u] \cup (IF u = s THEN InChunk ELSE {})
        /\ edge'[u] = edge[u] \cup (IF u = s THEN {ChunkEnd} ELSE {})
        /\ last'[u] = IF u = s THEN ChunkEnd ELSE last[u]
        /\ batch'[u] = IF u = s THEN {} ELSE batch[u]
  BY <1>1 DEF WideTypeOK
<1>7. /\ \A u \in Stations : u # s => Open(u)' = Open(u) /\ InHand(u)' = InHand(u)
      /\ Open(s)' = Open(s) \ (InChunk \cup {ChunkEnd})
  BY <1>1, <1>6 DEF Open, Settled, InHand
<1>8. PICK b \in batch[s] : b \in Nat /\ b \in base[s] /\ chunkStart <= b /\ b < ChunkEnd
  BY <1>1, TimesAreNat DEF WideTypeOK, WalkInv, InChunk
<1>9. \A t \in Times : t <= ChunkEnd /\ t \notin InChunk \cup {ChunkEnd} => t <= b
  BY <1>5, <1>8, TimesAreNat DEF InChunk, WideTypeOK
<1>10. \A t \in Open(s)' : ChunkEnd < t
  <2> SUFFICES ASSUME NEW t \in Open(s)' PROVE ChunkEnd < t
    OBVIOUS
  <2>1. t \in Nat /\ chunkStart <= t /\ t \in Times
    BY <1>4, <1>7, NothingOpenBefore DEF Open, WideTypeOK
  <2> QED
    BY <1>5, <1>7, <2>1 DEF InChunk
<1>11. WideTypeOK'
  <2>1. /\ last' \in [Stations -> 0 .. MaxTime + 1]
        /\ edge' \in [Stations -> SUBSET (0 .. MaxTime + 1)]
    BY <1>1, <1>5 DEF WideTypeOK
  <2>2. /\ batch' \in [Stations -> SUBSET Times] /\ excused' \in [Stations -> SUBSET Times]
    BY <1>1 DEF WideTypeOK, InChunk
  <2> QED
    BY <1>1, <1>2, <2>1, <2>2 DEF WideTypeOK
<1>12. MarkInv'
  <2>1. \A t \in handled[s] : t <= ChunkEnd
    <3>1. \A t \in handled[s] : t <= last[s] /\ t \in Nat
      BY TimesAreNat DEF MarkInv, WideTypeOK
    <3>2. last[s] \in Nat /\ last[s] < b
      BY ElabAssumption DEF WideTypeOK, MarkInv
    <3> QED
      BY <1>5, <1>8, <3>1, <3>2
  <2> QED
    BY <1>1, <1>6, <2>1 DEF MarkInv
<1>13. WalkInv'
  BY <1>1, <1>3, <1>6 DEF WalkInv
<1>14. RoundInv'
  BY <1>1, <1>3, <1>6 DEF RoundInv, Active
<1>15. OpenInv'
  BY <1>1, <1>6, <1>7, <1>8, <1>9, <1>10 DEF OpenInv
<1>16. ChunkInv'
  <2>1. Lagging \subseteq Stations
    BY DEF Lagging
  <2> QED
    BY <1>1, <1>3, <1>4, <1>6, <1>7, <2>1 DEF ChunkInv
<1> QED
  BY <1>11, <1>12, <1>13, <1>14, <1>15, <1>16

(* What a chunk gave is elaborated, or excused where its push failed.      *)
LEMMA EndChunkKeeps ==
  ASSUME WideInv, NEW failing, EndChunk(failing), faults' \in 0 .. MaxFaults
  PROVE  WideInv'
<1> USE DEF WideInv
<1>1. /\ pc = "request" /\ left = {} /\ pc' = "chunk"
      /\ out' = [s \in Stations |-> out[s] \cup (IF s \in failing THEN {} ELSE results[s])]
      /\ excused' = [s \in Stations |-> excused[s] \cup (IF s \in failing THEN results[s] ELSE {})]
      /\ results' = Nothing
      /\ chunkStart' = chunkStart + ChunkDuration
      /\ UNCHANGED <<base, last, infos, left, batch, handled, edge>>
  BY DEF EndChunk
<1>2. Lagging' = Lagging /\ Lagging \subseteq Stations
  BY <1>1 DEF Lagging
<1>3. Active /\ Lagging # {} /\ batch = Nothing
  BY <1>1 DEF Active, RoundInv, WalkInv
<1>4. \A s \in Stations :
        /\ batch[s] = {} /\ batch'[s] = {} /\ results'[s] = {}
        /\ out[s] \subseteq out'[s] /\ out'[s] \subseteq out[s] \cup results[s]
        /\ excused[s] \subseteq excused'[s]
        /\ Open(s)' = Open(s) \ InHand(s)
        /\ InHand(s)' = {}
  BY <1>1, <1>3 DEF Open, Settled, InHand, Nothing
<1>5. WideTypeOK'
  <2>1. /\ out' \in [Stations -> SUBSET Times] /\ excused' \in [Stations -> SUBSET Times]
        /\ results' \in [Stations -> SUBSET Times]
    BY <1>1 DEF WideTypeOK, Nothing
  <2>2. chunkStart' \in Nat
    BY <1>1, WideAssumption DEF WideTypeOK
  <2> QED
    BY <1>1, <2>1, <2>2 DEF WideTypeOK
<1>6. MarkInv'
  BY <1>1, <1>4 DEF MarkInv
<1>7. WalkInv'
  BY <1>1, <1>3, <1>4 DEF WalkInv, Nothing
<1>8. RoundInv'
  BY <1>1, <1>2, <1>3, <1>4 DEF RoundInv
<1>9. OpenInv'
  <2>1. ASSUME NEW s \in Stations, NEW t \in Open(s) \ InHand(s), NEW u \in results[s]
        PROVE  u < t
    <3>1. u \in Nat /\ t \in Nat /\ last[s] \in Nat
      BY TimesAreNat, ElabAssumption DEF WideTypeOK, Open
    <3>2. u <= last[s] /\ last[s] < t
      BY DEF MarkInv, OpenInv
    <3> QED
      BY <3>1, <3>2
  <2> QED
    BY <1>1, <1>4, <2>1 DEF OpenInv
<1>10. ChunkInv'
  <2>1. ASSUME NEW s \in Lagging, NEW t \in Open(s) \ InHand(s), t < chunkStart'
        PROVE  infos[s].to <= t
    <3>1. s \in Stations /\ t \in Times
      BY <1>2 DEF Open, WideTypeOK
    <3>2. /\ t \in Nat /\ infos[s].to \in Nat /\ chunkStart \in Nat
          /\ ChunkDuration \in Nat
      BY <3>1, TimesAreNat, ElabAssumption, WideAssumption DEF WideTypeOK
    <3>3. /\ ChunkEnd \in {chunkStart + ChunkDuration, RoundTo}
          /\ RoundTo \in Nat /\ infos[s].to <= RoundTo
      BY <1>3, ChunkIs, ElabAssumption
    <3>4. CASE t < chunkStart
      BY <1>3, <3>4 DEF ChunkInv
    <3>5. CASE t \in InChunk
      BY <1>1, <1>3, <3>5 DEF ChunkInv
    <3>6. CASE ~ (t < chunkStart) /\ t \notin InChunk
      <4>1. ~ (t < ChunkEnd)
        BY <3>1, <3>2, <3>6 DEF InChunk
      <4>2. t < chunkStart + ChunkDuration
        BY <1>1, <2>1
      <4> QED
        BY <3>2, <3>3, <4>1, <4>2
    <3> QED
      BY <3>4, <3>5, <3>6
  <2> QED
    BY <1>1, <1>2, <1>4, <2>1 DEF ChunkInv
<1> QED
  BY <1>5, <1>6, <1>7, <1>8, <1>9, <1>10

LEMMA WideRestKeeps ==
  ASSUME WideInv, EndRound \/ EndBatch \/ UNCHANGED wideVars
  PROVE  WideInv'
<1> USE DEF WideInv
<1>1. /\ UNCHANGED <<base, out, last, infos, chunkStart, left, batch, results, faults, excused,
                     edge, handled>>
      /\ \/ pc = "chunk" /\ pc' = "idle"
         \/ pc = "handle" /\ pc' = "request" /\ batch = Nothing
         \/ pc' = pc
  BY DEF EndRound, EndBatch, wideVars, store, round, history
<1>2. Lagging' = Lagging /\ ChunkEnd' = ChunkEnd /\ InChunk' = InChunk
  BY <1>1, ChunkStays
<1>3. \A s \in Stations : Open(s)' = Open(s) /\ InHand(s)' = InHand(s)
  BY <1>1 DEF Open, Settled, InHand
<1>4. Lagging \subseteq Stations
  BY DEF Lagging
<1>5. WideTypeOK'
  BY <1>1 DEF WideTypeOK
<1>6. MarkInv' /\ OpenInv'
  BY <1>1, <1>3 DEF MarkInv, OpenInv
<1>7. WalkInv'
  BY <1>1, <1>2 DEF WalkInv, Nothing
<1>8. RoundInv'
  BY <1>1, <1>2 DEF RoundInv, Active
<1>9. ChunkInv'
  BY <1>1, <1>2, <1>3, <1>4 DEF ChunkInv, Active
<1> QED
  BY <1>5, <1>6, <1>7, <1>8, <1>9

LEMMA WideNextKeeps == WideInv /\ [WideNext]_wideVars => WideInv'
<1> SUFFICES ASSUME WideInv, [WideNext]_wideVars PROVE WideInv'
  OBVIOUS
<1>1. CASE RequestState
  BY <1>1, RequestStateKeeps
<1>2. CASE BeginChunk
  BY <1>2, BeginChunkKeeps
<1>3. CASE EndRound \/ EndBatch \/ UNCHANGED wideVars
  BY <1>3, WideRestKeeps
<1>4. CASE PushResults
  <2>1. faults' \in 0 .. MaxFaults /\ EndChunk({})
    BY <1>4 DEF PushResults, WideInv, WideTypeOK
  <2> QED
    BY <2>1, EndChunkKeeps
<1>5. ASSUME NEW s \in Stations, PushFails(s) PROVE WideInv'
  <2>1. faults' \in 0 .. MaxFaults /\ EndChunk({s})
    BY <1>5, WideAssumption DEF PushFails, Fault, WideInv, WideTypeOK
  <2> QED
    BY <2>1, EndChunkKeeps
<1>6. ASSUME NEW chunk \in StationChunks, RequestHistory(chunk) PROVE WideInv'
  BY <1>6, RequestHistoryKeeps
<1>7. ASSUME NEW chunk \in StationChunks, RequestFails(chunk) PROVE WideInv'
  BY <1>7, RequestFailsKeeps
<1>8. ASSUME NEW s \in Stations, Handle(s) PROVE WideInv'
  BY <1>8, HandleKeeps
<1>9. ASSUME NEW s \in Stations, HandleFails(s) PROVE WideInv'
  BY <1>9, HandleFailsKeeps
<1>10. CASE Restart
  BY <1>10, RestartKeeps
<1>11. ASSUME NEW s \in Stations, NEW t \in Times, Measure(s, t) PROVE WideInv'
  BY <1>11, MeasureKeeps
<1> QED
  BY <1>1, <1>2, <1>3, <1>4, <1>5, <1>6, <1>7, <1>8, <1>9, <1>10, <1>11
     DEF WideNext, Step, Disturbance

LEMMA WideInvariant == WideSpec => []WideInv
  BY WideInitInv, WideNextKeeps, PTL DEF WideSpec

(* The variables of wideTypeFollower's elaboration keep their types: marks *)
(* stay within the time of the data, also those of failed chunks.          *)
THEOREM WideTypeCorrect == WideSpec => []WideTypeOK
<1>1. WideInv => WideTypeOK
  BY DEF WideInv
<1> QED
  BY <1>1, WideInvariant, PTL

(* wideTypeFollower passes no measurement over in silence, whatever        *)
(* arrives during a round, fails or is restarted, and however the chunks   *)
(* cut the intervals of the stations.                                      *)
THEOREM NothingIsLostSilently == WideSpec => []LossIsExplained
<1>1. WideInv => LossIsExplained
  <2> SUFFICES ASSUME WideInv, NEW s \in Stations, NEW t \in Lost(s),
                      t \notin excused[s] \cup edge[s]
               PROVE  FALSE
    BY DEF LossIsExplained
  <2>1. /\ t \in base[s] /\ t \notin out[s] \cup batch[s] \cup results[s]
        /\ t <= last[s] \/ \E u \in out[s] : t < u
    BY DEF Lost, Passed
  <2>2. t \in Open(s) \ InHand(s)
    BY <2>1 DEF Open, Settled, InHand
  <2>3. last[s] < t /\ \A u \in out[s] : u < t
    BY <2>2 DEF WideInv, OpenInv
  <2>4. t \in Nat /\ last[s] \in Nat /\ \A u \in out[s] : u \in Nat
    BY <2>1, TimesAreNat, ElabAssumption DEF WideInv, WideTypeOK
  <2> QED
    BY <2>1, <2>3, <2>4
<1> QED
  BY <1>1, WideInvariant, PTL

(* Within one run of the process wideTypeFollower hands no measurement to  *)
(* the handler that the handler has given a result of.                     *)
THEOREM NothingIsElaboratedTwice == WideSpec => []ElaboratedOnce
<1>1. WideInv => ElaboratedOnce
  <2> SUFFICES ASSUME WideInv, NEW s \in Stations, NEW t \in batch[s], t \in handled[s]
               PROVE  FALSE
    BY DEF ElaboratedOnce
  <2>1. last[s] < t /\ t <= last[s]
    BY DEF WideInv, MarkInv
  <2>2. t \in Nat /\ last[s] \in Nat
    BY TimesAreNat, ElabAssumption DEF WideInv, WideTypeOK
  <2> QED
    BY <2>1, <2>2
<1> QED
  BY <1>1, WideInvariant, PTL

-----------------------------------------------------------------------------
(* StationFollower: intervals and buckets *)

LEMMA StationIntervalIs ==
  ASSUME StationTypeOK, NEW s \in Stations
  PROVE  /\ From(s) \in Nat /\ From(s) > 0 /\ To(s) \in Nat /\ Drops(s) \in Nat
         /\ Behind(s) <=> From(s) < To(s)
<1>1. /\ elaborated[s] \in Nat /\ latest[s] \in Nat /\ StartingPoint \in Nat \ {0}
  BY ElabAssumption DEF StationTypeOK
<1>2. From(s) \in Nat /\ From(s) > 0
  BY <1>1 DEF From, CatchupFrom
<1>3. To(s) \in Nat
  BY <1>1 DEF To, CatchupTo
<1>4. Drops(s) \in Nat
  BY <1>1 DEF Drops, Estimate
<1> QED
  BY <1>2, <1>3, <1>4 DEF Behind

LEMMA ScaledIsNat ==
  ASSUME NEW before \in Nat, NEW after \in Nat, NEW estimate \in Nat
  PROVE  ScaleEstimate(before, after, estimate) \in Nat
<1>1. after * estimate \in Nat
  OBVIOUS
<1>2. ASSUME NEW a \in Nat, NEW b \in Nat, b # 0 PROVE a \div b \in Nat
  BY <1>2
<1> QED
  BY <1>1, <1>2 DEF ScaleEstimate

(* A bucket that takes a station in covers it, and no less than before.    *)
LEMMA ConsolidateCovers ==
  ASSUME StationTypeOK, NEW b \in Buckets, b.from <= b.to, NEW s \in Stations, Behind(s)
  PROVE  LET c == Consolidate(b, s) IN
         /\ c \in Buckets
         /\ c.type = b.type /\ c.stations = b.stations \cup {s}
         /\ c.from > 0 /\ c.from <= c.to
         /\ c.from <= From(s) /\ To(s) <= c.to
         /\ b.from > 0 => c.from <= b.from
         /\ b.to <= c.to
<1> DEFINE from == Earlier(b.from, From(s))
           to   == Later(b.to, To(s))
           drops == ScaleEstimate(b.to - b.from, to - from, b.drops)
                    + ScaleEstimate(To(s) - From(s), to - from, Drops(s))
<1>1. /\ b.from \in Nat /\ b.to \in Nat /\ b.drops \in Nat
      /\ b.type \in Types /\ b.stations \subseteq Stations
  BY DEF Buckets
<1>2. /\ From(s) \in Nat /\ From(s) > 0 /\ To(s) \in Nat /\ Drops(s) \in Nat
      /\ From(s) < To(s)
  BY StationIntervalIs
<1>3. from \in Nat /\ from > 0 /\ from <= From(s) /\ (b.from > 0 => from <= b.from)
  BY <1>1, <1>2 DEF Earlier
<1>4. to \in Nat /\ To(s) <= to /\ b.to <= to
  BY <1>1, <1>2 DEF Later
<1>5. Consolidate(b, s) = [type |-> b.type, stations |-> b.stations \cup {s},
                           from |-> from, to |-> to, drops |-> drops]
  BY DEF Consolidate
<1> HIDE DEF from, to
<1>6. from <= to
  BY <1>2, <1>3, <1>4
<1>7. drops \in Nat
  <2>1. b.to - b.from \in Nat /\ to - from \in Nat /\ To(s) - From(s) \in Nat
    BY <1>1, <1>2, <1>3, <1>4, <1>6
  <2>2. /\ ScaleEstimate(b.to - b.from, to - from, b.drops) \in Nat
        /\ ScaleEstimate(To(s) - From(s), to - from, Drops(s)) \in Nat
    BY <1>1, <1>2, <2>1, ScaledIsNat
  <2> QED
    BY <2>2
<1> HIDE DEF drops
<1> QED
  BY <1>1, <1>3, <1>4, <1>5, <1>6, <1>7 DEF Buckets

-----------------------------------------------------------------------------
(* StationFollower: the inductive invariant *)

Launched == running \cup flushed
Filling  == phase = "station"
Walked   == {s \in Stations : TypeOf[s] \notin types /\ s \notin todo}

(* Types are walked one at a time.                                         *)
PlaceInv ==
  /\ Filling => /\ type \notin types /\ bucket.type = type
                /\ \A s \in todo : TypeOf[s] = type
  /\ ~Filling => todo = {}
  /\ \A b \in Launched : b.type \notin types
  /\ phase = "returned" => types = {} /\ running = {}
  /\ running \cap flushed = {} /\ IsFiniteSet(running)

(* A bucket covers its stations, which have been walked and are behind.    *)
FairBucket(b) ==
  /\ b.from <= b.to
  /\ \A s \in b.stations : s \in Walked /\ Behind(s) /\ Covers(b, s) /\ b.from > 0
BucketInv ==
  /\ \A b \in Launched : FairBucket(b)
  /\ Filling => FairBucket(bucket)

(* No two buckets share a station, and the one being filled is not one of  *)
(* those that were launched, which would take up a single slot.            *)
ApartInv ==
  /\ \A b, c \in Launched : b # c => b.stations \cap c.stations = {}
  /\ Filling => \A b \in Launched : b # bucket /\ b.stations \cap bucket.stations = {}

(* A station that was walked and is behind is in a bucket.                 *)
CollectedInv ==
  \A s \in Walked : Behind(s) =>
    \/ \E b \in Launched : s \in b.stations
    \/ Filling /\ s \in bucket.stations

StationInv == StationTypeOK /\ PlaceInv /\ BucketInv /\ ApartInv /\ CollectedInv

LEMMA EmptyBucketIs ==
  ASSUME NEW t \in Types
  PROVE  /\ Bucket(t) \in Buckets /\ Bucket(t).type = t /\ Bucket(t).stations = {}
         /\ Bucket(t).from = 0 /\ Bucket(t).to = 0
  BY DEF Bucket, Buckets

LEMMA StationInitInv == StationInit => StationInv
<1> SUFFICES ASSUME StationInit PROVE StationInv
  OBVIOUS
<1>1. /\ latest \in [Stations -> 0 .. MaxTime] /\ elaborated \in [Stations -> 0 .. MaxTime]
  <2>1. {0} \cup (StartingPoint + 1 .. MaxTime) \subseteq 0 .. MaxTime
    BY ElabAssumption
  <2> QED
    BY <2>1 DEF StationInit
<1>2. /\ pushed = {} /\ phase = "type" /\ types = Types /\ type \in Types /\ todo = {}
      /\ bucket = Bucket(type) /\ running = {} /\ slots = WorkerPool /\ flushed = {}
      /\ hung = {}
  BY DEF StationInit
<1>3. StationTypeOK
  <2>1. Cardinality(running) = 0 /\ WorkerPool \in Nat
    BY <1>2, FS_EmptySet, StationAssumption
  <2>2. bucket \in Buckets
    BY <1>2, EmptyBucketIs
  <2> QED
    BY <1>1, <1>2, <2>1, <2>2 DEF StationTypeOK
<1>4. PlaceInv
  BY <1>2, FS_EmptySet DEF PlaceInv, Filling, Launched
<1>5. Walked = {}
  BY <1>2, StationAssumption DEF Walked
<1>6. BucketInv /\ ApartInv /\ CollectedInv
  BY <1>2, <1>5 DEF BucketInv, ApartInv, CollectedInv, Filling, Launched
<1> QED
  BY <1>3, <1>4, <1>6 DEF StationInv

LEMMA IntervalsStay ==
  ASSUME UNCHANGED state, NEW s \in Stations
  PROVE  From(s)' = From(s) /\ To(s)' = To(s) /\ Behind(s)' = Behind(s)
  BY DEF state, From, To, Behind

LEMMA BeginTypeKeeps == ASSUME StationInv, BeginType PROVE StationInv'
<1> USE DEF StationInv
<1>1. PICK t \in types :
        /\ type' = t /\ types' = types \ {t}
        /\ todo' = {s \in Stations : TypeOf[s] = t} /\ bucket' = Bucket(t)
  BY DEF BeginType
<1>2. /\ phase = "type" /\ phase' = "station"
      /\ UNCHANGED <<state, elaborated, latest, pushed, running, slots, flushed, hung>>
  BY DEF BeginType, state
<1>3. t \in Types /\ todo = {} /\ ~Filling /\ Filling'
  BY <1>2 DEF StationTypeOK, PlaceInv, Filling
<1>4. Walked' = Walked /\ Launched' = Launched
  BY <1>1, <1>2, <1>3 DEF Walked, Launched
<1>5. /\ bucket' \in Buckets /\ bucket'.type = t /\ bucket'.stations = {}
      /\ bucket'.from = 0 /\ bucket'.to = 0
  BY <1>1, <1>3, EmptyBucketIs
<1>6. StationTypeOK'
  BY <1>1, <1>2, <1>3, <1>5 DEF StationTypeOK
<1>7. PlaceInv'
  BY <1>1, <1>2, <1>3, <1>4, <1>5 DEF PlaceInv, Filling
<1>8. BucketInv'
  <2>1. \A b \in Launched : FairBucket(b)'
    BY <1>2, <1>4, IntervalsStay DEF BucketInv, FairBucket, Covers, Walked
  <2>2. FairBucket(bucket)'
    BY <1>5 DEF FairBucket
  <2> QED
    BY <1>4, <2>1, <2>2 DEF BucketInv
<1>9. ApartInv'
  BY <1>1, <1>4, <1>5 DEF ApartInv, PlaceInv
<1>10. CollectedInv'
  BY <1>2, <1>3, <1>4, IntervalsStay DEF CollectedInv, Walked
<1> QED
  BY <1>6, <1>7, <1>8, <1>9, <1>10

LEMMA SkipKeeps == ASSUME StationInv, NEW s \in Stations, Skip(s) PROVE StationInv'
<1> USE DEF StationInv
<1>1. /\ phase = "station" /\ s \in todo /\ ~Behind(s) /\ todo' = todo \ {s}
      /\ UNCHANGED <<state, elaborated, latest, pushed, phase, types, type, bucket, running,
                     slots, flushed, hung>>
  BY DEF Skip, state
<1>2. Filling /\ Filling' /\ Launched' = Launched
  BY <1>1 DEF Filling, Launched
<1>3. Walked' \subseteq Walked \cup {s} /\ Walked \subseteq Walked'
  BY <1>1 DEF Walked
<1>4. StationTypeOK'
  BY <1>1 DEF StationTypeOK
<1>5. PlaceInv'
  BY <1>1, <1>2 DEF PlaceInv
<1>6. BucketInv'
  BY <1>1, <1>2, <1>3, IntervalsStay DEF BucketInv, FairBucket, Covers, Walked
<1>7. ApartInv'
  BY <1>1, <1>2 DEF ApartInv
<1>8. CollectedInv'
  BY <1>1, <1>2, <1>3, IntervalsStay DEF CollectedInv, Walked
<1> QED
  BY <1>4, <1>5, <1>6, <1>7, <1>8

(* The bucket being filled, or a fresh one, takes in a station of its type *)
(* that no other bucket has.                                               *)
LEMMA TakenInIsFair ==
  ASSUME StationInv, UNCHANGED state, types' = types,
         NEW s \in todo, todo' = todo \ {s}, Behind(s), Filling,
         NEW b \in Buckets, b.type = type, FairBucket(b),
         bucket' = Consolidate(b, s)
  PROVE  /\ bucket' \in Buckets /\ bucket'.type = type
         /\ bucket'.stations = b.stations \cup {s}
         /\ FairBucket(bucket)'
         /\ Walked' = Walked \cup {s} /\ s \notin Walked
         /\ \A c \in Launched : s \notin c.stations
<1> USE DEF StationInv
<1>1. s \in Stations /\ TypeOf[s] = type /\ type \notin types
  BY DEF StationTypeOK, PlaceInv
<1>2. /\ bucket' \in Buckets
      /\ bucket'.type = b.type /\ bucket'.stations = b.stations \cup {s}
      /\ bucket'.from > 0 /\ bucket'.from <= bucket'.to
      /\ bucket'.from <= From(s) /\ To(s) <= bucket'.to
      /\ b.from > 0 => bucket'.from <= b.from
      /\ b.to <= bucket'.to
  BY <1>1, ConsolidateCovers DEF FairBucket
<1>3. Walked' = Walked \cup {s} /\ s \notin Walked
  BY <1>1 DEF Walked
<1>4. ASSUME NEW u \in b.stations
      PROVE  u \in Walked' /\ Behind(u)' /\ Covers(bucket, u)'
    <2>1. u \in Stations /\ u \in Walked /\ Behind(u) /\ Covers(b, u) /\ b.from > 0
      BY DEF FairBucket, Walked
    <2>2. From(u)' = From(u) /\ To(u)' = To(u) /\ Behind(u)' = Behind(u)
      BY <2>1, IntervalsStay
    <2>3. /\ From(u) \in Nat /\ To(u) \in Nat
          /\ b.from \in Nat /\ b.to \in Nat /\ bucket'.from \in Nat /\ bucket'.to \in Nat
      BY <1>2, <2>1, StationIntervalIs DEF Buckets
    <2>4. b.type = TypeOf[u] /\ bucket'.from <= From(u) /\ To(u) <= bucket'.to
      BY <1>2, <2>1, <2>3 DEF Covers
    <2> QED
      BY <1>2, <1>3, <2>1, <2>2, <2>4 DEF Covers
<1>5. Behind(s)' /\ Covers(bucket, s)'
  BY <1>1, <1>2, IntervalsStay DEF Covers
<1>6. FairBucket(bucket)'
  BY <1>2, <1>3, <1>4, <1>5 DEF FairBucket
<1>7. \A c \in Launched : s \notin c.stations
  BY <1>3 DEF BucketInv, FairBucket
<1> QED
  BY <1>2, <1>3, <1>6, <1>7

LEMMA CollectKeeps == ASSUME StationInv, NEW s \in Stations, Collect(s) PROVE StationInv'
<1> USE DEF StationInv
<1>1. /\ phase = "station" /\ s \in todo /\ Behind(s) /\ todo' = todo \ {s}
      /\ bucket' = Consolidate(bucket, s)
      /\ UNCHANGED <<state, elaborated, latest, pushed, phase, types, type, running, slots, flushed, hung>>
  BY DEF Collect, state
<1>2. Filling /\ Filling' /\ Launched' = Launched
  BY <1>1 DEF Filling, Launched
<1>3. /\ bucket' \in Buckets /\ bucket'.type = type
      /\ bucket'.stations = bucket.stations \cup {s}
      /\ FairBucket(bucket)'
      /\ Walked' = Walked \cup {s} /\ s \notin Walked
      /\ \A c \in Launched : s \notin c.stations
  <2>1. bucket \in Buckets /\ bucket.type = type /\ FairBucket(bucket)
    BY <1>2 DEF StationTypeOK, PlaceInv, BucketInv
  <2> QED
    BY <1>1, <1>2, <2>1, TakenInIsFair
<1>4. StationTypeOK'
  BY <1>1, <1>3 DEF StationTypeOK
<1>5. PlaceInv'
  BY <1>1, <1>2, <1>3 DEF PlaceInv
<1>6. BucketInv'
  BY <1>1, <1>2, <1>3, IntervalsStay DEF BucketInv, FairBucket, Covers, Walked
<1>7. ApartInv'
  BY <1>2, <1>3 DEF ApartInv
<1>8. CollectedInv'
  BY <1>1, <1>2, <1>3, IntervalsStay DEF CollectedInv, Walked
<1> QED
  BY <1>4, <1>5, <1>6, <1>7, <1>8

(* A bucket that is launched takes a slot of its own.                      *)
LEMMA LaunchTakesASlot ==
  ASSUME StationInv, Filling, Launch
  PROVE  /\ running' = running \cup {bucket} /\ bucket \notin Launched
         /\ IsFiniteSet(running')
         /\ slots' \in 0 .. WorkerPool /\ slots' + Cardinality(running') = WorkerPool
<1> USE DEF StationInv
<1>1. running' = running \cup {bucket} /\ slots > 0 /\ slots' = slots - 1
  BY DEF Launch
<1>2. bucket \notin Launched
  BY DEF ApartInv
<1>3. IsFiniteSet(running) /\ bucket \notin running
  BY <1>2 DEF PlaceInv, Launched
<1>4. IsFiniteSet(running') /\ Cardinality(running') = Cardinality(running) + 1
  BY <1>1, <1>3, FS_AddElement
<1>5. Cardinality(running) \in Nat
  BY <1>3, FS_CardinalityType
<1> QED
  BY <1>1, <1>2, <1>4, <1>5, StationAssumption DEF StationTypeOK

LEMMA FlushFullKeeps == ASSUME StationInv, NEW s \in Stations, FlushFull(s) PROVE StationInv'
<1> USE DEF StationInv
<1>1. /\ phase = "station" /\ s \in todo /\ Behind(s) /\ todo' = todo \ {s} /\ Launch
      /\ bucket' = Consolidate(Bucket(type), s)
      /\ UNCHANGED <<state, elaborated, latest, pushed, phase, types, type, flushed, hung>>
  BY DEF FlushFull, state
<1>2. Filling /\ Filling'
  BY <1>1 DEF Filling
<1>3. /\ running' = running \cup {bucket} /\ bucket \notin Launched /\ IsFiniteSet(running')
      /\ slots' \in 0 .. WorkerPool /\ slots' + Cardinality(running') = WorkerPool
  BY <1>1, <1>2, LaunchTakesASlot
<1>4. Launched' = Launched \cup {bucket}
  BY <1>1, <1>3 DEF Launched
<1>5. bucket.type = type /\ bucket \in Buckets /\ FairBucket(bucket)
  BY <1>2 DEF PlaceInv, StationTypeOK, BucketInv
<1>6. /\ bucket' \in Buckets /\ bucket'.type = type /\ bucket'.stations = {s}
      /\ FairBucket(bucket)'
      /\ Walked' = Walked \cup {s} /\ s \notin Walked
      /\ \A c \in Launched : s \notin c.stations
  <2>1. /\ Bucket(type) \in Buckets /\ Bucket(type).type = type
        /\ Bucket(type).stations = {} /\ Bucket(type).from = 0 /\ Bucket(type).to = 0
    BY EmptyBucketIs DEF StationTypeOK
  <2>2. FairBucket(Bucket(type))
    BY <2>1 DEF FairBucket
  <2>3. types' = types /\ UNCHANGED state
    BY <1>1
  <2>4. /\ bucket' \in Buckets /\ bucket'.type = type
        /\ bucket'.stations = Bucket(type).stations \cup {s}
        /\ FairBucket(bucket)'
        /\ Walked' = Walked \cup {s} /\ s \notin Walked
        /\ \A c \in Launched : s \notin c.stations
    BY <1>1, <1>2, <2>1, <2>2, <2>3, TakenInIsFair
  <2> QED
    BY <2>1, <2>4
<1>7. s \notin bucket.stations
  BY <1>5, <1>6 DEF FairBucket
<1>8. StationTypeOK'
  BY <1>1, <1>3, <1>5, <1>6 DEF StationTypeOK
<1>9. PlaceInv'
  BY <1>1, <1>2, <1>3, <1>4, <1>5, <1>6 DEF PlaceInv, Launched
<1>10. BucketInv'
  <2>1. \A b \in Launched \cup {bucket} : FairBucket(b)
    BY <1>5 DEF BucketInv
  <2>2. ASSUME NEW b \in Launched', NEW u \in b.stations
        PROVE  u \in Walked' /\ Behind(u)' /\ Covers(b, u)' /\ b.from > 0
    <3>1. u \in Walked /\ u \in Stations /\ Behind(u) /\ Covers(b, u) /\ b.from > 0
      BY <1>4, <2>1 DEF FairBucket, Walked
    <3> QED
      BY <1>1, <1>6, <3>1, IntervalsStay DEF Covers
  <2>3. \A b \in Launched' : b.from <= b.to
    BY <1>4, <2>1 DEF FairBucket
  <2> QED
    BY <1>6, <2>2, <2>3 DEF BucketInv, FairBucket
<1>11. ApartInv'
  <2>1. \A b \in Launched : b.stations \cap bucket.stations = {}
    BY <1>2 DEF ApartInv
  <2>2. \A b \in Launched' : s \notin b.stations
    BY <1>4, <1>6, <1>7
  <2> QED
    BY <1>4, <1>6, <2>1, <2>2 DEF ApartInv
<1>12. CollectedInv'
  <2>1. ASSUME NEW u \in Walked', Behind(u)'
        PROVE  (\E b \in Launched' : u \in b.stations) \/ u \in bucket'.stations
    <3>1. CASE u = s
      BY <1>6, <3>1
    <3>2. CASE u \in Walked
      <4>1. u \in Stations /\ Behind(u)
        BY <1>1, <2>1, <3>2, IntervalsStay DEF Walked
      <4> QED
        BY <1>4, <3>2, <4>1 DEF CollectedInv
    <3> QED
      BY <1>6, <3>1, <3>2
  <2> QED
    BY <1>2, <2>1 DEF CollectedInv
<1> QED
  BY <1>8, <1>9, <1>10, <1>11, <1>12

LEMMA FlushRestKeeps == ASSUME StationInv, FlushRest PROVE StationInv'
<1> USE DEF StationInv
<1>1. /\ phase = "station" /\ phase' = "type" /\ todo = {} /\ Launch
      /\ UNCHANGED <<state, elaborated, latest, pushed, types, type, todo, bucket, flushed, hung>>
  BY DEF FlushRest, state
<1>2. Filling /\ ~Filling'
  BY <1>1 DEF Filling
<1>3. /\ running' = running \cup {bucket} /\ bucket \notin Launched /\ IsFiniteSet(running')
      /\ slots' \in 0 .. WorkerPool /\ slots' + Cardinality(running') = WorkerPool
  BY <1>1, <1>2, LaunchTakesASlot
<1>4. Launched' = Launched \cup {bucket} /\ Walked' = Walked
  BY <1>1, <1>3 DEF Launched, Walked
<1>5. bucket.type = type /\ bucket \in Buckets /\ FairBucket(bucket) /\ type \notin types
  BY <1>2 DEF PlaceInv, StationTypeOK, BucketInv
<1>6. StationTypeOK'
  BY <1>1, <1>3, <1>5 DEF StationTypeOK
<1>7. PlaceInv'
  BY <1>1, <1>2, <1>3, <1>4, <1>5 DEF PlaceInv, Launched
<1>8. BucketInv'
  <2>1. \A b \in Launched' : FairBucket(b)
    BY <1>4, <1>5 DEF BucketInv
  <2> QED
    BY <1>1, <1>2, <1>4, <2>1, IntervalsStay DEF BucketInv, FairBucket, Covers, Walked
<1>9. ApartInv'
  BY <1>2, <1>4 DEF ApartInv
<1>10. CollectedInv'
  BY <1>1, <1>2, <1>4, IntervalsStay DEF CollectedInv, Walked
<1> QED
  BY <1>6, <1>7, <1>8, <1>9, <1>10

LEMMA FlushEndsKeeps == ASSUME StationInv, NEW b \in running, FlushEnds(b) PROVE StationInv'
<1> USE DEF StationInv
<1>1. PICK some \in SUBSET b.stations : pushed' = pushed \cup some
  BY DEF FlushEnds
<1>2. /\ b \notin hung /\ running' = running \ {b} /\ slots' = slots + 1 /\ flushed' = flushed \cup {b}
      /\ UNCHANGED <<state, elaborated, latest, phase, types, type, todo, bucket, hung>>
  BY DEF FlushEnds, state
<1>3. Launched' = Launched /\ Walked' = Walked /\ Filling' = Filling
  BY <1>2 DEF Launched, Walked, Filling
<1>4. /\ IsFiniteSet(running') /\ Cardinality(running') = Cardinality(running) - 1
      /\ Cardinality(running') \in Nat /\ Cardinality(running) \in Nat
  <2>1. IsFiniteSet(running)
    BY DEF PlaceInv
  <2>2. IsFiniteSet(running') /\ Cardinality(running') = Cardinality(running) - 1
    BY <1>2, <2>1, FS_RemoveElement
  <2> QED
    BY <2>1, <2>2, FS_CardinalityType
<1>5. StationTypeOK'
  <2>1. b.stations \subseteq Stations
    BY DEF StationTypeOK, Buckets
  <2>2. slots' \in 0 .. WorkerPool /\ slots' + Cardinality(running') = WorkerPool
    BY <1>2, <1>4, StationAssumption DEF StationTypeOK
  <2> QED
    BY <1>1, <1>2, <2>1, <2>2 DEF StationTypeOK
<1>6. PlaceInv'
  BY <1>2, <1>3, <1>4 DEF PlaceInv
<1>7. BucketInv'
  BY <1>2, <1>3, IntervalsStay DEF BucketInv, FairBucket, Covers, Walked
<1>8. ApartInv'
  BY <1>2, <1>3 DEF ApartInv
<1>9. CollectedInv'
  BY <1>2, <1>3, IntervalsStay DEF CollectedInv, Walked
<1> QED
  BY <1>5, <1>6, <1>7, <1>8, <1>9

LEMMA FlushHangsKeeps == ASSUME StationInv, NEW b \in running, FlushHangs(b) PROVE StationInv'
<1> USE DEF StationInv
<1>1. PICK some \in SUBSET b.stations : pushed' = pushed \cup some
  BY DEF FlushHangs
<1>2. /\ hung' = hung \cup {b}
      /\ UNCHANGED <<state, elaborated, latest, phase, types, type, todo, bucket, running,
                     slots, flushed>>
  BY DEF FlushHangs, state
<1>3. Launched' = Launched /\ Walked' = Walked /\ Filling' = Filling
  BY <1>2 DEF Launched, Walked, Filling
<1>4. StationTypeOK'
  <2>1. b.stations \subseteq Stations
    BY DEF StationTypeOK, Buckets
  <2> QED
    BY <1>1, <1>2, <2>1 DEF StationTypeOK
<1>5. PlaceInv'
  BY <1>2, <1>3 DEF PlaceInv
<1>6. BucketInv'
  BY <1>2, <1>3, IntervalsStay DEF BucketInv, FairBucket, Covers, Walked
<1>7. ApartInv'
  BY <1>2, <1>3 DEF ApartInv
<1>8. CollectedInv'
  BY <1>2, <1>3, IntervalsStay DEF CollectedInv, Walked
<1> QED
  BY <1>4, <1>5, <1>6, <1>7, <1>8

LEMMA ReturnKeeps == ASSUME StationInv, Return \/ UNCHANGED stationVars PROVE StationInv'
<1> USE DEF StationInv
<1>1. /\ UNCHANGED <<state, elaborated, latest, pushed, types, type, todo, bucket, running,
                     slots, flushed, hung>>
      /\ \/ phase = "type" /\ phase' = "returned" /\ types = {} /\ running = {}
         \/ phase' = phase
  BY DEF Return, AllDone, stationVars, state
<1>2. Launched' = Launched /\ Walked' = Walked /\ Filling' = Filling
  BY <1>1 DEF Launched, Walked, Filling
<1>3. StationTypeOK'
  BY <1>1 DEF StationTypeOK
<1>4. PlaceInv'
  BY <1>1, <1>2 DEF PlaceInv
<1>5. BucketInv'
  BY <1>1, <1>2, IntervalsStay DEF BucketInv, FairBucket, Covers, Walked
<1>6. ApartInv'
  BY <1>1, <1>2 DEF ApartInv
<1>7. CollectedInv'
  BY <1>1, <1>2, IntervalsStay DEF CollectedInv, Walked
<1> QED
  BY <1>3, <1>4, <1>5, <1>6, <1>7

LEMMA StationNextKeeps == StationInv /\ [StationNext]_stationVars => StationInv'
  BY BeginTypeKeeps, SkipKeeps, CollectKeeps, FlushFullKeeps, FlushRestKeeps, FlushEndsKeeps,
     FlushHangsKeeps, ReturnKeeps DEF StationNext, Elaborate, Flush

LEMMA StationInvariant == StationSpec => []StationInv
  BY StationInitInv, StationNextKeeps, PTL DEF StationSpec

(* The variables of stationFollower's Elaborate keep their types, and a    *)
(* slot of the pool is free or taken by a bucket being flushed.            *)
THEOREM StationTypeCorrect == StationSpec => []StationTypeOK
<1>1. StationInv => StationTypeOK
  BY DEF StationInv
<1> QED
  BY <1>1, StationInvariant, PTL

(* When stationFollower's Elaborate returns, every station that is behind  *)
(* has been in one bucket that covers it, and no flush runs any more.      *)
THEOREM EveryStationIsFlushedOnce == StationSpec => []EachFlushedOnce
<1>1. StationInv => EachFlushedOnce
  <2> SUFFICES ASSUME StationInv, phase = "returned", NEW s \in Stations
               PROVE  LET with == {b \in flushed : s \in b.stations} IN
                      /\ running = {}
                      /\ Cardinality(with) = (IF Behind(s) THEN 1 ELSE 0)
                      /\ \A b \in with : Covers(b, s)
    BY DEF EachFlushedOnce, StationInv, PlaceInv
  <2> USE DEF StationInv
  <2> DEFINE with == {b \in flushed : s \in b.stations}
  <2>1. ~Filling /\ running = {} /\ Launched = flushed /\ types = {} /\ todo = {}
    BY DEF PlaceInv, Filling, Launched
  <2>2. \A b \in with : Behind(s) /\ Covers(b, s)
    BY <2>1 DEF BucketInv, FairBucket
  <2>3. CASE Behind(s)
    <3>1. s \in Walked
      BY <2>1 DEF Walked
    <3>2. PICK b \in flushed : s \in b.stations
      BY <2>1, <2>3, <3>1 DEF CollectedInv
    <3>3. with = {b}
      BY <2>1, <3>2 DEF ApartInv
    <3>4. Cardinality(with) = 1
      BY <3>3, FS_Singleton
    <3> QED
      BY <2>1, <2>2, <2>3, <3>4
  <2>4. CASE ~Behind(s)
    <3>1. with = {}
      BY <2>2, <2>4
    <3>2. Cardinality(with) = 0
      BY <3>1, FS_EmptySet
    <3> QED
      BY <2>1, <2>2, <2>4, <3>2
  <2> QED
    BY <2>3, <2>4
<1> QED
  BY <1>1, StationInvariant, PTL
=============================================================================
