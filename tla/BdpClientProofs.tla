-------------------------- MODULE BdpClientProofs --------------------------
(***************************************************************************)
(* Proofs about BdpClient: its types, UnstampedOnlyAfterFailure and        *)
(* TokensAreRenewed, for any number of goroutines, any lifetime, and any   *)
(* margin that two token requests fit into.                                *)
(*                                                                         *)
(* StampInv strengthens the first by what a goroutine about to stamp has   *)
(* behind it.  TokenInv is why the second holds: a goroutine between       *)
(* storing a token and storing its expiry may find the token of another    *)
(* one there, but none that was asked for much earlier than its own.       *)
(***************************************************************************)
EXTENDS BdpClient, TLAPS

StampInv ==
  /\ UnstampedOnlyAfterFailure
  /\ \A w \in Workers : (pc[w] = "stamp" /\ stamps[w]) => uuid \/ failed[w]

Timed ==
  \A w \in Workers :
     pc[w] \in {"asking", "granted"} => asked[w] <= now /\ now <= asked[w] + Latency

Fresh ==
  ~refused =>
    /\ token # 0 => expiry <= token
    /\ \A w \in Workers :
         pc[w] = "granted" => token # 0 /\ asked[w] + Lifetime <= token + Latency

TokenInv == TypeOK /\ Timed /\ Fresh

-----------------------------------------------------------------------------
(* Types *)

LEMMA InitTypes == Init => TypeOK
<1> SUFFICES ASSUME Init PROVE TypeOK
  OBVIOUS
<1> USE ClientAssumption DEF Init
<1>1. now \in 1 .. MaxTime /\ faults \in 0 .. MaxFaults
  OBVIOUS
<1>2. token \in 0 .. MaxTime + Lifetime /\ expiresIn \in {0, Lifetime} /\ expiry \in Int /\ expiry = 0
  OBVIOUS
<1>3. /\ pc \in [Workers -> {"idle", "token", "asking", "granted", "return", "stamp", "post"}]
      /\ call \in [Workers -> {"provenance", "data"}]
  OBVIOUS
<1>4. asked \in [Workers -> 0 .. MaxTime] /\ held \in [Workers -> 0 .. MaxTime + Lifetime]
  OBVIOUS
<1>5. /\ refused \in BOOLEAN /\ uuid \in BOOLEAN
      /\ stamps \in [Workers -> BOOLEAN] /\ stamp \in [Workers -> BOOLEAN]
      /\ failed \in [Workers -> BOOLEAN]
  OBVIOUS
<1> HIDE DEF Init
<1> QED
  BY <1>1, <1>2, <1>3, <1>4, <1>5 DEF TypeOK

LEMMA GetTokenTypes ==
  ASSUME TypeOK, NEW w \in Workers, GetToken(w)
  PROVE  TypeOK'
<1> USE ClientAssumption DEF TypeOK, auth, worker, Go, Take, Fault
<1>1. CASE UseToken(w)
  BY <1>1 DEF UseToken
<1>2. CASE RequestToken(w)
  BY <1>2 DEF RequestToken
<1>3. CASE Granted(w)
  <2>1. token' \in 0 .. MaxTime + Lifetime
    BY <1>3 DEF Granted
  <2> QED
    BY <1>3, <2>1 DEF Granted
<1>4. CASE Refused(w)
  BY <1>4 DEF Refused
<1>5. CASE SetExpiry(w)
  <2>1. expiry' \in Int /\ expiry' <= now + Lifetime - Margin
    BY <1>5 DEF SetExpiry, Expiry
  <2> QED
    BY <1>5, <2>1 DEF SetExpiry
<1>6. CASE Unanswered(w)
  BY <1>6 DEF Unanswered
<1>7. CASE ReturnToken(w)
  BY <1>7 DEF ReturnToken
<1> QED
  BY <1>1, <1>2, <1>3, <1>4, <1>5, <1>6, <1>7 DEF GetToken

LEMMA CallTypes ==
  ASSUME TypeOK, NEW w \in Workers, Call(w)
  PROVE  TypeOK'
<1> USE ClientAssumption DEF TypeOK, auth, worker, Go, Fault
<1>1. CASE Begin(w)
  <2>1. PICK s \in BOOLEAN : stamps' = [stamps EXCEPT ![w] = s]
    BY <1>1 DEF Begin
  <2> QED
    BY <1>1, <2>1 DEF Begin
<1>2. CASE GetStations(w)
  BY <1>2 DEF GetStations
<1>3. CASE PushedProvenance(w)
  BY <1>3 DEF PushedProvenance
<1>4. CASE ProvenanceFails(w)
  <2>1. faults' \in 0 .. MaxFaults
    BY <1>4 DEF ProvenanceFails
  <2> QED
    BY <1>4, <2>1 DEF ProvenanceFails
<1>5. CASE StampData(w)
  <2>1. (stamps[w] /\ uuid) \in BOOLEAN
    OBVIOUS
  <2>2. stamp' \in [Workers -> BOOLEAN]
    BY <1>5, <2>1 DEF StampData, Stamp
  <2> QED
    BY <1>5, <2>2 DEF StampData
<1>6. CASE Posted(w)
  BY <1>6 DEF Posted
<1> QED
  BY <1>1, <1>2, <1>3, <1>4, <1>5, <1>6 DEF Call

LEMMA TickTypes == TypeOK /\ Tick => TypeOK'
BY ClientAssumption DEF TypeOK, Tick, auth, worker

LEMMA NextTypes == TypeOK /\ [Next]_vars => TypeOK'
<1> SUFFICES ASSUME TypeOK, [Next]_vars PROVE TypeOK'
  OBVIOUS
<1>1. CASE UNCHANGED vars
  BY <1>1 DEF TypeOK, vars, auth, worker
<1>2. CASE Tick
  BY <1>2, TickTypes
<1>3. CASE \E w \in Workers : GetToken(w) \/ Call(w)
  BY <1>3, GetTokenTypes, CallTypes
<1> QED
  BY <1>1, <1>2, <1>3 DEF Next

(* Every variable of the client keeps its type, and tokenExpiry never      *)
(* exceeds what a token granted now would get.                             *)
THEOREM TypeCorrect == Spec => []TypeOK
<1> QED
  BY InitTypes, NextTypes, PTL DEF Spec

-----------------------------------------------------------------------------
(* Provenance *)

LEMMA GetTokenKeepsStamps ==
  ASSUME TypeOK, StampInv, NEW w \in Workers, GetToken(w)
  PROVE  StampInv'
<1> USE DEF TypeOK, StampInv, UnstampedOnlyAfterFailure, auth, worker, Go, Take
<1>1. CASE UseToken(w)
  BY <1>1 DEF UseToken
<1>2. CASE RequestToken(w)
  BY <1>2 DEF RequestToken
<1>3. CASE Granted(w)
  BY <1>3 DEF Granted
<1>4. CASE Refused(w)
  BY <1>4 DEF Refused
<1>5. CASE SetExpiry(w)
  BY <1>5 DEF SetExpiry
<1>6. CASE Unanswered(w)
  BY <1>6 DEF Unanswered
<1>7. CASE ReturnToken(w)
  BY <1>7 DEF ReturnToken
<1> QED
  BY <1>1, <1>2, <1>3, <1>4, <1>5, <1>6, <1>7 DEF GetToken

LEMMA CallKeepsStamps ==
  ASSUME TypeOK, StampInv, NEW w \in Workers, Call(w)
  PROVE  StampInv'
<1> USE DEF TypeOK, StampInv, UnstampedOnlyAfterFailure, auth, worker, Go
<1>1. CASE Begin(w)
  <2>1. PICK s \in BOOLEAN : stamps' = [stamps EXCEPT ![w] = s]
    BY <1>1 DEF Begin
  <2>2. CASE uuid
    BY <1>1, <2>1, <2>2 DEF Begin
  <2>3. CASE ~uuid
    BY <1>1, <2>1, <2>3 DEF Begin
  <2> QED
    BY <2>2, <2>3
<1>2. CASE GetStations(w)
  BY <1>2 DEF GetStations
<1>3. CASE PushedProvenance(w)
  BY <1>3 DEF PushedProvenance
<1>4. CASE ProvenanceFails(w)
  BY <1>4 DEF ProvenanceFails
<1>5. CASE StampData(w)
  <2>1. stamp'[w] <=> stamps[w] /\ uuid
    BY <1>5 DEF StampData, Stamp
  <2>2. \A v \in Workers \ {w} : stamp'[v] = stamp[v]
    BY <1>5 DEF StampData, Stamp
  <2> QED
    BY <1>5, <2>1, <2>2 DEF StampData
<1>6. CASE Posted(w)
  BY <1>6 DEF Posted
<1> QED
  BY <1>1, <1>2, <1>3, <1>4, <1>5, <1>6 DEF Call

LEMMA NextKeepsStamps == TypeOK /\ StampInv /\ [Next]_vars => StampInv'
<1> SUFFICES ASSUME TypeOK, StampInv, [Next]_vars PROVE StampInv'
  OBVIOUS
<1>1. CASE UNCHANGED vars
  BY <1>1 DEF StampInv, UnstampedOnlyAfterFailure, vars, auth, worker
<1>2. CASE Tick
  BY <1>2 DEF StampInv, UnstampedOnlyAfterFailure, Tick, auth, worker
<1>3. CASE \E w \in Workers : GetToken(w) \/ Call(w)
  BY <1>3, GetTokenKeepsStamps, CallKeepsStamps
<1> QED
  BY <1>1, <1>2, <1>3 DEF Next

(* Data that carries a provenance goes out without one only after a push   *)
(* of the provenance failed, however many goroutines share the client.     *)
THEOREM UnstampedIsExplained == Spec => []UnstampedOnlyAfterFailure
<1>1. Init => StampInv
  BY DEF Init, StampInv, UnstampedOnlyAfterFailure
<1>2. StampInv => UnstampedOnlyAfterFailure
  BY DEF StampInv
<1> QED
  BY <1>1, <1>2, InitTypes, NextTypes, NextKeepsStamps, PTL DEF Spec

-----------------------------------------------------------------------------
(* The token *)

LEMMA GetTokenKeepsTimed ==
  ASSUME TypeOK, Timed, NEW w \in Workers, GetToken(w)
  PROVE  Timed'
<1> USE ClientAssumption DEF TypeOK, Timed, auth, worker, Go, Take
<1>1. CASE UseToken(w)
  BY <1>1 DEF UseToken
<1>2. CASE RequestToken(w)
  BY <1>2 DEF RequestToken
<1>3. CASE Granted(w)
  BY <1>3 DEF Granted
<1>4. CASE Refused(w)
  BY <1>4 DEF Refused
<1>5. CASE SetExpiry(w)
  BY <1>5 DEF SetExpiry
<1>6. CASE Unanswered(w)
  BY <1>6 DEF Unanswered
<1>7. CASE ReturnToken(w)
  BY <1>7 DEF ReturnToken
<1> QED
  BY <1>1, <1>2, <1>3, <1>4, <1>5, <1>6, <1>7 DEF GetToken

(* The steps that matter: what is stored by one goroutine is measured      *)
(* against what another one stores.                                        *)
LEMMA UnansweredKeepsFresh ==
  ASSUME TokenInv, NEW w \in Workers, Unanswered(w)
  PROVE  Fresh'
<1> USE ClientAssumption DEF TokenInv, TypeOK, worker, Go
<1> SUFFICES ASSUME ~refused PROVE Fresh'
  BY DEF Unanswered, Fresh
<1>1. /\ expiry' = expiry /\ now' = now /\ asked' = asked
      /\ \A v \in Workers : pc'[v] = "granted" => pc[v] = "granted"
  BY DEF Unanswered
<1>2. CASE token' = token
  BY <1>1, <1>2 DEF Fresh
<1>3. CASE token' = asked[w] + Lifetime
  <2>1. asked[w] \in Nat /\ asked[w] <= now /\ now <= asked[w] + Latency
    BY DEF Unanswered, Timed
  <2>2. expiry' <= token'
    BY <1>1, <1>3, <2>1
  <2>3. ASSUME NEW v \in Workers, pc'[v] = "granted"
        PROVE  token' # 0 /\ asked'[v] + Lifetime <= token' + Latency
    <3>1. asked[v] \in Nat /\ asked[v] <= now
      BY <1>1, <2>3 DEF Timed
    <3> QED
      BY <1>1, <1>3, <2>1, <3>1
  <2> QED
    BY <2>2, <2>3 DEF Fresh
<1> QED
  BY <1>2, <1>3 DEF Unanswered

LEMMA GrantedKeepsFresh ==
  ASSUME TokenInv, NEW w \in Workers, Granted(w)
  PROVE  Fresh'
<1> USE ClientAssumption DEF TokenInv, TypeOK, worker, Go
<1>1. /\ token' = asked[w] + Lifetime /\ expiresIn' = Lifetime
      /\ expiry' = expiry /\ now' = now /\ asked' = asked
  BY DEF Granted
<1>2. asked[w] \in Nat /\ asked[w] <= now /\ now <= asked[w] + Latency
  BY DEF Granted, Timed
<1>3. token' # 0 /\ expiry' <= token'
  BY <1>1, <1>2
<1>4. ASSUME NEW v \in Workers, pc'[v] = "granted"
      PROVE  asked'[v] + Lifetime <= token' + Latency
  <2>1. asked[v] \in Nat /\ asked[v] <= now
    BY <1>2, <1>4 DEF Granted, Timed
  <2> QED
    BY <1>1, <1>2, <2>1
<1> QED
  BY <1>1, <1>3, <1>4 DEF Fresh

LEMMA SetExpiryKeepsFresh ==
  ASSUME TokenInv, NEW w \in Workers, SetExpiry(w)
  PROVE  Fresh'
<1> USE ClientAssumption DEF TokenInv, TypeOK, worker, Go
<1> SUFFICES ASSUME ~refused PROVE Fresh'
  BY DEF SetExpiry, Fresh
<1>1. /\ expiry' = now + expiresIn - Margin
      /\ token' = token /\ expiresIn' = expiresIn /\ asked' = asked
  BY DEF SetExpiry, Expiry
<1>2. token # 0 /\ asked[w] + Lifetime <= token + Latency /\ expiresIn \in 0 .. Lifetime
  BY DEF SetExpiry, Fresh
<1>3. asked[w] \in Nat /\ now <= asked[w] + Latency
  BY DEF SetExpiry, Timed
<1>4. expiry' <= token'
  BY <1>1, <1>2, <1>3
<1>5. \A v \in Workers : pc'[v] = "granted" => pc[v] = "granted"
  BY DEF SetExpiry
<1> QED
  BY <1>1, <1>2, <1>4, <1>5 DEF Fresh

LEMMA GetTokenKeepsFresh ==
  ASSUME TokenInv, NEW w \in Workers, GetToken(w)
  PROVE  Fresh'
<1> USE DEF TokenInv, TypeOK, Fresh, auth, worker, Go, Take
<1>1. CASE UseToken(w)
  BY <1>1 DEF UseToken
<1>2. CASE RequestToken(w)
  BY <1>2 DEF RequestToken
<1>3. CASE Granted(w)
  BY <1>3, GrantedKeepsFresh
<1>4. CASE Refused(w)
  BY <1>4 DEF Refused
<1>5. CASE SetExpiry(w)
  BY <1>5, SetExpiryKeepsFresh
<1>6. CASE Unanswered(w)
  BY <1>6, UnansweredKeepsFresh
<1>7. CASE ReturnToken(w)
  BY <1>7 DEF ReturnToken
<1> QED
  BY <1>1, <1>2, <1>3, <1>4, <1>5, <1>6, <1>7 DEF GetToken

(* A call stores no token, asks for none, and leaves the places where one  *)
(* is asked for alone.                                                     *)
LEMMA CallIsApart ==
  ASSUME TypeOK, NEW w \in Workers, Call(w)
  PROVE  /\ UNCHANGED <<now, token, expiresIn, expiry, refused, asked>>
         /\ \A v \in Workers : pc'[v] \in {"asking", "granted"} => pc'[v] = pc[v]
         /\ \A v \in Workers : pc[v] = "token" => pc'[v] = "token"
<1> USE DEF TypeOK, auth, worker, Go
<1>1. CASE Begin(w)
  BY <1>1 DEF Begin
<1>2. CASE GetStations(w)
  BY <1>2 DEF GetStations
<1>3. CASE PushedProvenance(w)
  BY <1>3 DEF PushedProvenance
<1>4. CASE ProvenanceFails(w)
  BY <1>4 DEF ProvenanceFails
<1>5. CASE StampData(w)
  BY <1>5 DEF StampData
<1>6. CASE Posted(w)
  BY <1>6 DEF Posted
<1> QED
  BY <1>1, <1>2, <1>3, <1>4, <1>5, <1>6 DEF Call

LEMMA NextKeepsToken == TokenInv /\ [Next]_vars => TokenInv'
<1> SUFFICES ASSUME TokenInv, [Next]_vars PROVE TokenInv'
  OBVIOUS
<1>1. TypeOK /\ TypeOK' /\ Timed /\ Fresh
  BY NextTypes DEF TokenInv
<1>2. CASE UNCHANGED vars
  BY <1>1, <1>2 DEF TokenInv, Timed, Fresh, vars, auth, worker
<1>3. CASE Tick
  <2>1. Timed'
    BY <1>1, <1>3, ClientAssumption DEF Timed, Tick, TypeOK, auth, worker
  <2>2. Fresh'
    BY <1>1, <1>3 DEF Fresh, Tick, auth, worker
  <2> QED
    BY <1>1, <2>1, <2>2 DEF TokenInv
<1>4. ASSUME NEW w \in Workers, GetToken(w) PROVE TokenInv'
  BY <1>1, <1>4, GetTokenKeepsTimed, GetTokenKeepsFresh DEF TokenInv
<1>5. ASSUME NEW w \in Workers, Call(w) PROVE TokenInv'
  BY <1>1, <1>5, CallIsApart DEF TokenInv, Timed, Fresh
<1> QED
  BY <1>2, <1>3, <1>4, <1>5 DEF Next

(* A step that takes a goroutine from asking for a token to its request    *)
(* found the token unexpired.                                              *)
LEMMA UsesAreFresh ==
  ASSUME TokenInv, ~refused, Next, NEW w \in Workers
  PROVE  ~UsesExpired(w)
<1> SUFFICES ASSUME pc[w] = "token", pc'[w] = "post" PROVE ~(held'[w] < now)
  BY DEF UsesExpired
<1> USE DEF TokenInv, TypeOK
<1>1. UseToken(w)
  <2>1. ~Tick
    BY DEF Tick
  <2>2. PICK v \in Workers : GetToken(v)
    BY <2>1, CallIsApart DEF Next
  <2>3. CASE v = w
    BY <2>2, <2>3 DEF GetToken, UseToken, RequestToken, Granted, Refused, SetExpiry, Unanswered, ReturnToken, Go
  <2>4. CASE v # w
    BY <2>2, <2>4 DEF GetToken, UseToken, RequestToken, Granted, Refused, SetExpiry, Unanswered, ReturnToken, Go, Take
  <2> QED
    BY <2>3, <2>4
<1>2. held'[w] = token /\ token # 0 /\ ~(now > expiry)
  BY <1>1 DEF UseToken, Take, Expired
<1>3. expiry <= token
  BY <1>2 DEF Fresh
<1>4. now \in Int /\ expiry \in Int /\ token \in Int
  BY ClientAssumption
<1> QED
  BY <1>2, <1>3, <1>4

(* getToken uses no expired token unless the server's last answer was a    *)
(* refusal, however many goroutines renew it at once.                      *)
THEOREM TokensRenewed == Spec => TokensAreRenewed
<1>1. Init => TokenInv
  <2> SUFFICES ASSUME Init PROVE TokenInv
    OBVIOUS
  <2>1. TypeOK
    BY InitTypes
  <2> QED
    BY <2>1 DEF Init, TokenInv, Timed, Fresh
<1>2. TokenInv /\ [Next]_vars => [refused \/ \A w \in Workers : ~UsesExpired(w)]_vars
  BY UsesAreFresh
<1> QED
  BY <1>1, <1>2, NextKeepsToken, PTL DEF Spec, TokensAreRenewed
=============================================================================
