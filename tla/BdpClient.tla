----------------------------- MODULE BdpClient -----------------------------
(***************************************************************************)
(* bdplib.BdpImpl and bdplib.Auth: a client of the time series writer,     *)
(* shared by the goroutines that push through it (elab.stationFollower).   *)
(*                                                                         *)
(* Every call first pushes the provenance of this collector, unless its    *)
(* uuid is known, then posts its own data; each post asks getToken for an  *)
(* access token, which is renewed before it expires.  Nothing locks the    *)
(* token or the uuid: each is read and written whole, in any order, but    *)
(* for two neighbouring accesses that are one step: the token is used      *)
(* where it is found unexpired, and the expiry stored where it is          *)
(* computed.                                                               *)
(*                                                                         *)
(* A token is named by the last tick at which it is valid; 0 is none.      *)
(* X_Defect is X with a plausible defect, used by no specification.        *)
(***************************************************************************)
EXTENDS Integers

CONSTANTS
  Workers,
  Lifetime,   \* of a token, its expires_in
  Margin,     \* the 600 seconds
  Latency,    \* of a token request, at most
  MaxTime,    \* bound: the last tick
  MaxFaults   \* bound: requests that fail

ASSUME ClientAssumption ==
  /\ Lifetime \in Nat \ {0} /\ Margin \in Nat /\ Latency \in Nat
  /\ 2 * Latency <= Margin
  /\ MaxTime \in Nat \ {0} /\ MaxFaults \in Nat

VARIABLES
  now, faults,
  (* Auth *)
  token,      \* token.AccessToken
  expiresIn,  \* token.ExpiresIn
  expiry,     \* tokenExpiry
  (* BdpImpl *)
  uuid,       \* whether ProvenanceUuid is set
  (* Per worker *)
  pc,
  call,       \* the request under way: "provenance" or "data"
  stamps,     \* whether the data carries the provenance
  asked,      \* when the token request under way was sent
  held,       \* the token the request carries
  stamp,      \* the provenance the data carries
  (* History *)
  refused,    \* the last answer of the token server was not OK
  failed      \* per worker, a provenance push failed since its call began

auth   == <<token, expiresIn, expiry, refused>>
worker == <<call, stamps, asked, held, stamp>>
vars == <<now, faults, auth, uuid, pc, worker, failed>>

Go(w, place) == pc' = [pc EXCEPT ![w] = place]
Fault == faults < MaxFaults /\ faults' = faults + 1

-----------------------------------------------------------------------------
(* getToken *)

Expired_OnlyFirst == token = 0
Expired           == token = 0 \/ now > expiry

(* getToken returns what is in the token by then.                          *)
Take(w) == held' = [held EXCEPT ![w] = token] /\ Go(w, "post")

UseToken(w) ==
  /\ pc[w] = "token" /\ ~Expired
  /\ Take(w)
  /\ UNCHANGED <<now, faults, auth, uuid, call, stamps, asked, stamp, failed>>

RequestToken(w) ==
  /\ pc[w] = "token" /\ Expired
  /\ asked' = [asked EXCEPT ![w] = now]
  /\ Go(w, "asking")
  /\ UNCHANGED <<now, faults, auth, uuid, call, stamps, held, stamp, failed>>

Granted(w) ==
  /\ pc[w] = "asking"
  /\ token' = asked[w] + Lifetime /\ expiresIn' = Lifetime /\ refused' = FALSE
  /\ Go(w, "granted")
  /\ UNCHANGED <<now, faults, expiry, uuid, worker, failed>>

(* A status other than OK is only logged, and the expiry computed anew     *)
(* from the old token's.                                                   *)
Refused(w) ==
  /\ pc[w] = "asking"
  /\ Fault
  /\ refused' = TRUE
  /\ Go(w, "granted")
  /\ UNCHANGED <<now, token, expiresIn, expiry, uuid, worker, failed>>

Expiry == now + expiresIn - Margin

SetExpiry(w) ==
  /\ pc[w] = "granted"
  /\ expiry' = Expiry
  /\ Go(w, "return")
  /\ UNCHANGED <<now, faults, token, expiresIn, refused, uuid, worker, failed>>

(* No answer, or one with a body that is cut off or does not parse, of     *)
(* which the fields that do parse are stored.  The expiry stays.           *)
Unanswered(w) ==
  /\ pc[w] = "asking"
  /\ Fault
  /\ token' \in {token, asked[w] + Lifetime} /\ expiresIn' \in {expiresIn, Lifetime}
  /\ Go(w, "return")
  /\ UNCHANGED <<now, expiry, refused, uuid, worker, failed>>

ReturnToken(w) ==
  /\ pc[w] = "return"
  /\ Take(w)
  /\ UNCHANGED <<now, faults, auth, uuid, call, stamps, asked, stamp, failed>>

-----------------------------------------------------------------------------
(* Calls *)

(* SyncDataTypes and SyncStations carry no provenance, PushData and        *)
(* SyncEvents do.                                                          *)
Begin(w) ==
  /\ pc[w] = "idle"
  /\ \E s \in BOOLEAN : stamps' = [stamps EXCEPT ![w] = s]
  /\ failed' = [failed EXCEPT ![w] = FALSE]
  /\ call' = [call EXCEPT ![w] = IF uuid THEN @ ELSE "provenance"]
  /\ Go(w, IF uuid THEN "stamp" ELSE "token")
  /\ UNCHANGED <<now, faults, auth, uuid, asked, held, stamp>>

GetStations(w) ==
  /\ pc[w] = "idle"
  /\ stamps' = [stamps EXCEPT ![w] = FALSE]
  /\ failed' = [failed EXCEPT ![w] = FALSE]
  /\ call' = [call EXCEPT ![w] = "data"]
  /\ Go(w, "token")
  /\ UNCHANGED <<now, faults, auth, uuid, asked, held, stamp>>

Accepted(w) == held[w] >= now

PushedProvenance(w) ==
  /\ pc[w] = "post" /\ call[w] = "provenance" /\ Accepted(w)
  /\ uuid' = TRUE
  /\ Go(w, "stamp")
  /\ UNCHANGED <<now, faults, auth, worker, failed>>

(* The error is logged, the uuid set to what came back, and the call goes  *)
(* on.                                                                     *)
ProvenanceFails(w) ==
  /\ pc[w] = "post" /\ call[w] = "provenance"
  /\ Fault \/ (~Accepted(w) /\ UNCHANGED faults)
  /\ uuid' = FALSE
  /\ failed' = [v \in Workers |-> TRUE]
  /\ Go(w, "stamp")
  /\ UNCHANGED <<now, auth, worker>>

Stamp_Early(w) == stamp' = [stamp EXCEPT ![w] = stamps[w] /\ call[w] = "data"]
Stamp(w)       == stamp' = [stamp EXCEPT ![w] = stamps[w] /\ uuid]

(* PushData stamps what carries no provenance yet, SyncEvents all.         *)
StampData(w) ==
  /\ pc[w] = "stamp"
  /\ Stamp(w)
  /\ call' = [call EXCEPT ![w] = "data"]
  /\ Go(w, "token")
  /\ UNCHANGED <<now, faults, auth, uuid, stamps, asked, held, failed>>

(* Its result, an error included, is the caller's.                         *)
Posted(w) ==
  /\ pc[w] = "post" /\ call[w] = "data"
  /\ Go(w, "idle")
  /\ UNCHANGED <<now, faults, auth, uuid, worker, failed>>

(* A token request takes no longer than Latency, although http's default   *)
(* client, which sends it, has no timeout.                                 *)
Tick ==
  /\ now < MaxTime
  /\ \A w \in Workers : pc[w] \in {"asking", "granted"} => now < asked[w] + Latency
  /\ now' = now + 1
  /\ UNCHANGED <<faults, auth, uuid, pc, worker, failed>>

Init ==
  /\ now = 1 /\ faults = 0
  /\ token = 0 /\ expiresIn = 0 /\ expiry = 0 /\ refused = FALSE
  /\ uuid = FALSE
  /\ pc = [w \in Workers |-> "idle"] /\ call = [w \in Workers |-> "data"]
  /\ stamps = [w \in Workers |-> FALSE] /\ asked = [w \in Workers |-> 0]
  /\ held = [w \in Workers |-> 0] /\ stamp = [w \in Workers |-> FALSE]
  /\ failed = [w \in Workers |-> FALSE]

GetToken(w) ==
  \/ UseToken(w) \/ RequestToken(w) \/ Granted(w) \/ Refused(w) \/ Unanswered(w)
  \/ SetExpiry(w) \/ ReturnToken(w)

Call(w) ==
  \/ Begin(w) \/ GetStations(w) \/ PushedProvenance(w) \/ ProvenanceFails(w)
  \/ StampData(w) \/ Posted(w)

Next == Tick \/ \E w \in Workers : GetToken(w) \/ Call(w)

Spec == Init /\ [][Next]_vars

-----------------------------------------------------------------------------
(* Properties *)

(* Every variable holds a value of its kind; tokenExpiry never exceeds     *)
(* what a token granted now would get.                                     *)
TypeOK ==
  /\ now \in 1 .. MaxTime /\ faults \in 0 .. MaxFaults
  /\ token \in 0 .. MaxTime + Lifetime /\ expiresIn \in {0, Lifetime}
  /\ expiry \in Int /\ (expiry = 0 \/ expiry <= now + Lifetime - Margin)
  /\ refused \in BOOLEAN /\ uuid \in BOOLEAN
  /\ pc \in [Workers -> {"idle", "token", "asking", "granted", "return", "stamp", "post"}]
  /\ call \in [Workers -> {"provenance", "data"}]
  /\ asked \in [Workers -> 0 .. MaxTime] /\ held \in [Workers -> 0 .. MaxTime + Lifetime]
  /\ stamps \in [Workers -> BOOLEAN] /\ stamp \in [Workers -> BOOLEAN]
  /\ failed \in [Workers -> BOOLEAN]

UsesExpired(w) == pc[w] = "token" /\ pc'[w] = "post" /\ held'[w] < now

(* getToken returns a token without asking for one only while it is valid, *)
(* unless the token server's last answer was a refusal: goroutines that    *)
(* renew it at once and store token and expiry in different orders do not  *)
(* make it outlive its token, as long as two requests fit the margin.      *)
TokensAreRenewed == [][refused \/ \A w \in Workers : ~UsesExpired(w)]_vars

(* "If no token is available or [it] is expired, get new token", whatever  *)
(* the token server answered before.                                       *)
ExpiredIsRenewed == [][\A w \in Workers : ~UsesExpired(w)]_vars

(* Data that carries a provenance goes out without one only if pushing the *)
(* provenance failed, for this call or for one that ran beside it.         *)
UnstampedOnlyAfterFailure ==
  \A w \in Workers :
     (call[w] = "data" /\ pc[w] \in {"token", "asking", "granted", "return", "post"} /\ stamps[w])
       => stamp[w] \/ failed[w]
=============================================================================
