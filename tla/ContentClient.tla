--------------------------- MODULE ContentClient ---------------------------
(***************************************************************************)
(* The Content API client of clib (client.go), as SyncTags (tags.go) and a *)
(* consumer with a clib.Cache (cache.go) use it.                           *)
(*                                                                         *)
(* A call is one request that the retrying HTTP client under it may send   *)
(* several times: an attempt that is not answered in time, whose           *)
(* connection breaks or that is answered with a 5xx is sent again, up to   *)
(* RetryMax times.  The server may still carry out an attempt the client   *)
(* has given up on: such an attempt is late.                               *)
(*                                                                         *)
(* A process of the consumer runs SyncTags until it returns nil.  If it   *)
(* is a pusher it then pushes an entity of its own: it leaves the entity   *)
(* out when its cache says it is unchanged, creates it when the cache has  *)
(* no entry, else updates it, and it stores the entry after a success and  *)
(* deletes it after a failure.                                             *)
(*                                                                         *)
(* X_Defect is X with a plausible defect, used by no specification.        *)
(***************************************************************************)
EXTENDS Integers, FiniteSets

CONSTANTS
  Syncers,   \* the processes, each with tag definitions of its own
  NTags,     \* the tags they define, in the order of the file
  Pushers,   \* the processes that push an entity
  Vals,      \* what an entity may look like
  NoVal,     \* no such item, no entry in the cache
  NoCall,    \* no call under way
  RetryMax,  \* Config.RetryMax
  MaxLate    \* bound: late attempts at a time, no two of the same request

ASSUME ClientAssumption ==
  /\ NTags \in Nat \ {0} /\ RetryMax \in Nat /\ MaxLate \in Nat
  /\ Pushers \subseteq Syncers /\ Syncers \cap Int = {}
  /\ NoVal \notin Vals \cup Syncers
  /\ NoCall \notin [by : Syncers, method : {"POST", "PUT"},
                  item : (1 .. NTags) \cup Pushers, val : Vals \cup Syncers]

VARIABLES
  (* The Content API *)
  store,    \* per item: what it holds
  calm,     \* from here on requests are answered and processes live
  late,     \* requests that the server may still carry out although given up on
  (* The client, per caller *)
  call,     \* the request of the call under way
  tries,    \* attempts beyond the first
  wire,     \* where its attempt is: on its way, or how it was answered
  (* The processes *)
  pos,      \* the tag a process posts, 0 outside SyncTags
  synced,   \* processes whose SyncTags has returned nil
  told,     \* per tag: the processes whose Post of it returned nil
  entry,    \* per pusher: the entity as its cache has it
  foreign   \* pushers whose entity was last changed by a late attempt or an operator

Tags    == 1 .. NTags
Items   == Tags \cup Pushers

Request(c, m, i, v) == [by |-> c, method |-> m, item |-> i, val |-> v]
TagMethod_Update(n) == IF store[n] = NoVal THEN "POST" ELSE "PUT"
TagMethod(n)        == "POST"
TagRequest(s, n)    == Request(s, TagMethod(n), n, s)
PushRequest(p, m, v) == Request(p, m, p, v)
PushRequests(p) == {PushRequest(p, m, v) : m \in {"POST", "PUT"}, v \in Vals}
Requests ==
  {TagRequest(s, n) : s \in Syncers, n \in Tags} \cup UNION {PushRequests(p) : p \in Pushers}

client == <<call, tries, wire>>
vars == <<store, late, calm, client, pos, synced, told, entry, foreign>>

Init ==
  /\ store = [i \in Items |-> NoVal]
  /\ late = {} /\ calm = FALSE
  /\ call = [c \in Syncers |-> NoCall]
  /\ tries = [c \in Syncers |-> 0]
  /\ wire = [c \in Syncers |-> "none"]
  /\ pos = [s \in Syncers |-> 0] /\ synced = {}
  /\ told = [n \in Tags |-> {}]
  /\ entry = [p \in Pushers |-> NoVal] /\ foreign = {}

-----------------------------------------------------------------------------
(* The server: POST creates what does not exist, PUT updates what does.    *)

Answer(r) ==
  IF r.method = "POST"
  THEN IF store[r.item] = NoVal THEN "ok" ELSE "exists"
  ELSE IF store[r.item] = NoVal THEN "missing" ELSE "ok"

CarryOut(r) ==
  store' = IF Answer(r) = "ok" THEN [store EXCEPT ![r.item] = r.val] ELSE store

Serve(c) ==
  /\ wire[c] = "sent"
  /\ CarryOut(call[c])
  /\ wire' = [wire EXCEPT ![c] = Answer(call[c])]
  /\ foreign' = IF Answer(call[c]) = "ok" THEN foreign \ {call[c].item} ELSE foreign
  /\ UNCHANGED <<late, calm, call, tries, pos, synced, told, entry>>

(* 401, 403 or another 4xx: nothing is done, and nothing sent again.       *)
Refuse(c) ==
  /\ ~calm /\ wire[c] = "sent"
  /\ wire' = [wire EXCEPT ![c] = "refused"]
  /\ UNCHANGED <<store, late, calm, call, tries, pos, synced, told, entry, foreign>>

ServeLate(r) ==
  /\ r \in late
  /\ late' = late \ {r}
  /\ CarryOut(r)
  /\ foreign' = IF Answer(r) = "ok" THEN foreign \cup ({r.item} \cap Pushers) ELSE foreign
  /\ UNCHANGED <<calm, client, pos, synced, told, entry>>

(* Somebody deletes the entity of p.                                       *)
Remove(p) ==
  /\ store[p] # NoVal
  /\ store' = [store EXCEPT ![p] = NoVal]
  /\ foreign' = foreign \cup {p}
  /\ UNCHANGED <<late, calm, client, pos, synced, told, entry>>

(* The failures come to an end, or not; of interest while a tag is missing. *)
CalmDown ==
  /\ \E n \in Tags : store[n] = NoVal
  /\ calm' = TRUE
  /\ UNCHANGED <<store, late, client, pos, synced, told, entry, foreign>>

-----------------------------------------------------------------------------
(* doRequest and the retrying client                                       *)

Send(c, r) ==
  /\ call' = [call EXCEPT ![c] = r]
  /\ tries' = [tries EXCEPT ![c] = 0]
  /\ wire' = [wire EXCEPT ![c] = "sent"]

Hangup(c) ==
  /\ call' = [call EXCEPT ![c] = NoCall]
  /\ tries' = [tries EXCEPT ![c] = 0]
  /\ wire' = [wire EXCEPT ![c] = "none"]

(* 2xx is nil, else the text of the answer tells ErrAlreadyExists,         *)
(* ErrNoDataToUpdate or another error.                                     *)
Answers == {"ok", "exists", "missing", "refused"}

Success_Existing == {"ok", "exists"}
Success          == {"ok"}

(* No answer to the attempt reaches the client.  If the server has not     *)
(* served it, it may do so later, or never.                                *)
Unanswered(c) ==
  /\ ~calm /\ wire[c] # "none"
  /\ \/ UNCHANGED late
     \/ /\ wire[c] = "sent" /\ call[c] \notin late /\ Cardinality(late) < MaxLate
        /\ late' = late \cup {call[c]}

MayRetry(c) == tries[c] < RetryMax

Retry(c) ==
  /\ MayRetry(c) /\ Unanswered(c)
  /\ tries' = [tries EXCEPT ![c] = @ + 1]
  /\ wire' = [wire EXCEPT ![c] = "sent"]
  /\ UNCHANGED <<store, calm, call, pos, synced, told, entry, foreign>>

(* The call returns an error: that of an answer, or that no answer came to *)
(* any of its attempts.                                                    *)
AnsweredBy(c, answers) ==
  /\ wire[c] \in answers
  /\ Hangup(c) /\ UNCHANGED late

GivesUp(c) == ~MayRetry(c) /\ Unanswered(c) /\ Hangup(c)

-----------------------------------------------------------------------------
(* SyncTags: one Post per tag; that a tag exists is no error.              *)

Accepted_OnlyNew == {"ok"}
Accepted_All     == Answers
Accepted         == {"ok", "exists"}

SyncTags(s) ==
  /\ s \notin synced /\ pos[s] = 0
  /\ pos' = [pos EXCEPT ![s] = 1]
  /\ Send(s, TagRequest(s, 1))
  /\ UNCHANGED <<store, late, calm, synced, told, entry, foreign>>

NoteCreation(s) ==
  told' = IF wire[s] \in Success THEN [told EXCEPT ![pos[s]] = @ \cup {s}] ELSE told

TagPosted(s) ==
  /\ pos[s] # 0 /\ wire[s] \in Accepted
  /\ NoteCreation(s)
  /\ IF pos[s] < NTags
     THEN /\ pos' = [pos EXCEPT ![s] = @ + 1]
          /\ Send(s, TagRequest(s, pos[s] + 1))
          /\ UNCHANGED synced
     ELSE /\ pos' = [pos EXCEPT ![s] = 0]
          /\ Hangup(s)
          /\ synced' = synced \cup {s}
  /\ UNCHANGED <<store, late, calm, entry, foreign>>

(* "return err": the tags already posted stay.                             *)
SyncFails(s) ==
  /\ pos[s] # 0
  /\ AnsweredBy(s, Answers \ Accepted) \/ GivesUp(s)
  /\ pos' = [pos EXCEPT ![s] = 0]
  /\ UNCHANGED <<store, calm, synced, told, entry, foreign>>

-----------------------------------------------------------------------------
(* A consumer pushing its entity by its cache                              *)

HasChanged(p, v) == entry[p] = NoVal \/ entry[p] # v

Push(p, v) ==
  /\ p \in synced /\ call[p] = NoCall /\ HasChanged(p, v)
  /\ Send(p, PushRequest(p, IF entry[p] = NoVal THEN "POST" ELSE "PUT", v))
  /\ UNCHANGED <<store, late, calm, pos, synced, told, entry, foreign>>

Set(p, v)    == entry' = [entry EXCEPT ![p] = v]
Delete(p)    == entry' = [entry EXCEPT ![p] = NoVal]

Pushed(p) ==
  /\ pos[p] = 0 /\ wire[p] \in Success
  /\ Set(p, call[p].val)
  /\ Hangup(p)
  /\ UNCHANGED <<store, late, calm, pos, synced, told, foreign>>

(* ErrAlreadyExists: created by somebody else or by an attempt of the same *)
(* call whose answer was lost.  It is updated instead.                     *)
PushExists(p) ==
  /\ pos[p] = 0 /\ wire[p] = "exists"
  /\ Send(p, PushRequest(p, "PUT", call[p].val))
  /\ UNCHANGED <<store, late, calm, pos, synced, told, entry, foreign>>

(* ErrNoDataToUpdate, or an error that leaves open what was done.          *)
Forgets_OnlyMissing(p) == wire[p] = "missing"
Forgets(p)             == TRUE

PushFails(p) ==
  /\ pos[p] = 0
  /\ AnsweredBy(p, {"missing", "refused"}) \/ GivesUp(p)
  /\ IF Forgets(p) THEN Delete(p) ELSE UNCHANGED entry
  /\ UNCHANGED <<store, calm, pos, synced, told, foreign>>

(* The process dies and another one starts, with an empty cache.           *)
Restart(s) ==
  /\ \/ Unanswered(s)
     \/ ~calm /\ wire[s] = "none" /\ UNCHANGED late
  /\ Hangup(s)
  /\ pos' = [pos EXCEPT ![s] = 0] /\ synced' = synced \ {s}
  /\ entry' = [p \in Pushers |-> IF p = s THEN NoVal ELSE entry[p]]
  /\ UNCHANGED <<store, calm, told, foreign>>

-----------------------------------------------------------------------------
CallStep(s) == Serve(s) \/ Refuse(s) \/ Retry(s) \/ TagPosted(s) \/ SyncFails(s)
PushStep(p) == Pushed(p) \/ PushExists(p) \/ PushFails(p)

Next ==
  \/ \E s \in Syncers : SyncTags(s) \/ CallStep(s) \/ Restart(s)
  \/ \E p \in Pushers : (\E v \in Vals : Push(p, v)) \/ PushStep(p) \/ Remove(p)
  \/ \E r \in Requests : ServeLate(r)
  \/ CalmDown

Spec == Init /\ [][Next]_vars

(* An attempt is answered or given up after Config.Timeout, and SyncTags   *)
(* is called again until it has returned nil.                              *)
FairSpec ==
  /\ Spec
  /\ \A s \in Syncers : WF_vars(CallStep(s)) /\ WF_vars(SyncTags(s))
  /\ \A p \in Pushers : WF_vars(PushStep(p))

-----------------------------------------------------------------------------
(* Properties *)

(* A call is under way exactly while an attempt is; SyncTags' own is for    *)
(* the tag it stands at, any other one for the pusher's own entity.        *)
CallOK(s) ==
  /\ call[s] = NoCall <=> wire[s] = "none"
  /\ pos[s] # 0 => call[s] = TagRequest(s, pos[s])
  /\ pos[s] = 0 /\ call[s] # NoCall => s \in Pushers /\ call[s] \in PushRequests(s)

(* Every variable holds a value of its kind, calls and attempts match, and *)
(* no attempt is made beyond RetryMax.                                     *)
TypeOK ==
  /\ store \in [Items -> Vals \cup Syncers \cup {NoVal}]
  /\ late \subseteq Requests /\ calm \in BOOLEAN
  /\ call \in [Syncers -> Requests \cup {NoCall}]
  /\ tries \in [Syncers -> 0 .. RetryMax]
  /\ wire \in [Syncers -> {"none", "sent", "ok", "exists", "missing", "refused"}]
  /\ pos \in [Syncers -> 0 .. NTags] /\ synced \subseteq Syncers
  /\ told \in [Tags -> SUBSET Syncers]
  /\ entry \in [Pushers -> Vals \cup {NoVal}] /\ foreign \subseteq Pushers
  /\ \A s \in Syncers : CallOK(s)

(* SyncTags "returns" nil only when every tag exists, and stops at the     *)
(* first error, so at any moment, whoever syncs, whatever is repeated and  *)
(* arrives late, the tags that exist are the first ones of the file.       *)
TagsExistInOrder ==
  /\ \A n \in Tags : store[n] # NoVal => \A m \in 1 .. n : store[m] # NoVal
  /\ synced # {} => \A n \in Tags : store[n] # NoVal

(* "ignoring ErrAlreadyExists for idempotency": the definition a tag was   *)
(* created with is never replaced, by repetition or by another syncer.     *)
FirstDefinitionStays ==
  [][\A n \in Tags : store[n] # NoVal => store'[n] = store[n]]_vars

(* Of all who post a tag, at most one is told it created it, and then the  *)
(* tag is that one's.                                                      *)
OneCreator ==
  \A n \in Tags : \A s \in told[n] : told[n] = {s} /\ store[n] = s

(* Between two pushes the cache does not claim a value for an entity that  *)
(* the Content API does not hold, unless a late attempt or somebody else   *)
(* changed the entity after the last push.                                 *)
CacheNeverAhead ==
  \A p \in Pushers :
    call[p] = NoCall /\ entry[p] # NoVal /\ p \notin foreign => store[p] = entry[p]

(* Once refusals, restarts and lost answers cease, repeating SyncTags brings *)
(* every tag about.                                                        *)
TagsGetCreated == calm ~> \A n \in Tags : store[n] # NoVal

(* CacheNeverAhead without its excuse.                                     *)
CacheIsTrue ==
  \A p \in Pushers : call[p] = NoCall /\ entry[p] # NoVal => store[p] = entry[p]
=============================================================================
