----------------------------- MODULE AuthCache ------------------------------
(***************************************************************************)
(* authFetchCached of lib/http.ts, for one key: an answer is kept for Ttl  *)
(* from the moment its request was made, and a request under way is        *)
(* shared, unless the caller asks for a new one.                           *)
(***************************************************************************)
EXTENDS Naturals

CONSTANTS
  Requests,     \* bound: requests under way at once
  NoRequest,
  Ttl,
  MaxNow,       \* bound: the clock
  MaxVersion    \* bound: versions of the data

ASSUME CacheAssumption ==
  NoRequest \notin Requests /\ Ttl \in Nat /\ MaxNow \in Nat /\ MaxVersion \in Nat \ {0}

VARIABLES
  now,        \* Date.now()
  version,    \* the data on the server
  replaced,   \* history: replaced[v]: when version v was replaced
  cached,     \* authCache: the version kept and when it expires
  inFlight,   \* authInFlight: the request that is shared
  requests,   \* requests[r]: when it was made, and what the server read for it
  taken       \* the version last taken from the cache

cacheVars == <<now, version, replaced, cached, inFlight, requests, taken>>
-----------------------------------------------------------------------------
Unused == [at |-> 0, got |-> 0, stage |-> "free"]
NoEntry == [value |-> 0, expires |-> 0]
Valid == cached.expires > now

CacheInit ==
  /\ now = 0 /\ version = 1 /\ replaced = [v \in 1..MaxVersion |-> 0] /\ taken = 0
  /\ cached = NoEntry /\ inFlight = NoRequest
  /\ requests = [r \in Requests |-> Unused]

Elapse ==
  /\ now < MaxNow /\ now' = now + 1
  /\ UNCHANGED <<version, replaced, cached, inFlight, requests, taken>>

Write ==
  /\ version < MaxVersion /\ version' = version + 1
  /\ replaced' = [replaced EXCEPT ![version] = now]
  /\ UNCHANGED <<now, cached, inFlight, requests, taken>>

\* (mistake: whatever is kept)
HitAnything ==
  /\ cached # NoEntry /\ taken' = cached.value
  /\ UNCHANGED <<now, version, replaced, cached, inFlight, requests>>

Hit ==
  /\ Valid /\ taken' = cached.value
  /\ UNCHANGED <<now, version, replaced, cached, inFlight, requests>>

\* A request of one's own; where one is under way and the caller does not force another,
\* its promise is returned instead, and nothing changes.
Send(r, bypass) ==
  /\ requests[r] = Unused
  /\ bypass \/ (~Valid /\ inFlight = NoRequest)
  /\ requests' = [requests EXCEPT ![r] = [at |-> now, got |-> 0, stage |-> "sent"]]
  /\ inFlight' = r
  /\ UNCHANGED <<now, version, replaced, cached, taken>>

Answered(r) ==
  /\ requests[r].stage = "sent"
  /\ requests' = [requests EXCEPT ![r] = [at |-> @.at, got |-> version, stage |-> "read"]]
  /\ UNCHANGED <<now, version, replaced, cached, inFlight, taken>>

\* (mistake: kept from the answer on)
KeepFromNow(r) ==
  /\ requests[r].stage = "read"
  /\ cached' = [value |-> requests[r].got, expires |-> now + Ttl]
  /\ inFlight' = NoRequest
  /\ requests' = [requests EXCEPT ![r] = Unused]
  /\ UNCHANGED <<now, version, replaced, taken>>

\* (mistake: the time to live is taken off)
KeepBackwards(r) ==
  /\ requests[r].stage = "read"
  /\ cached' = [value |-> requests[r].got, expires |-> requests[r].at - Ttl]
  /\ inFlight' = NoRequest
  /\ requests' = [requests EXCEPT ![r] = Unused]
  /\ UNCHANGED <<now, version, replaced, taken>>

\* The answer is kept; finally, the key is deleted, whichever request it holds.
Keep(r) ==
  /\ requests[r].stage = "read"
  /\ cached' = [value |-> requests[r].got, expires |-> requests[r].at + Ttl]
  /\ inFlight' = NoRequest
  /\ requests' = [requests EXCEPT ![r] = Unused]
  /\ UNCHANGED <<now, version, replaced, taken>>

Rejected(r) ==
  /\ requests[r].stage # "free"
  /\ inFlight' = NoRequest
  /\ requests' = [requests EXCEPT ![r] = Unused]
  /\ UNCHANGED <<now, version, replaced, cached, taken>>

\* invalidateAuthCache: what is under way is not stopped, and is kept when it comes.
Invalidate ==
  /\ cached' = NoEntry /\ inFlight' = NoRequest
  /\ UNCHANGED <<now, version, replaced, requests, taken>>

CacheNext ==
  \/ Elapse \/ Write \/ Hit \/ Invalidate
  \/ \E r \in Requests :
       Answered(r) \/ Keep(r) \/ Rejected(r) \/ \E bypass \in BOOLEAN : Send(r, bypass)

CacheSpec == CacheInit /\ [][CacheNext]_cacheVars
-----------------------------------------------------------------------------
CacheTypeOK ==
  /\ now \in Nat /\ version \in 1..MaxVersion /\ taken \in 0..version
  /\ replaced \in [1..MaxVersion -> Nat]
  /\ cached \in [value : 0..version, expires : Nat]
  /\ inFlight \in Requests \cup {NoRequest}
  /\ requests \in [Requests -> [at : Nat, got : 0..version, stage : {"free", "sent", "read"}]]

\* v was the version on the server at t or later.
CurrentSince(v, t) == v = version \/ (v \in 1..(version - 1) /\ t <= replaced[v])

\* What is kept, and what is on its way to be kept, is as recent as its dates say,
\* whichever of several requests comes last.
AnswersAreDated ==
  /\ \A r \in Requests :
       requests[r].stage = "read" => CurrentSince(requests[r].got, requests[r].at)
  /\ cached = NoEntry \/ \E t \in 0..now : cached.expires = t + Ttl /\ CurrentSince(cached.value, t)

\* No page is given from the cache what was replaced Ttl ago or longer: the cache
\* implements FreshReads.
F == INSTANCE FreshReads WITH MaxData <- MaxVersion, data <- version, until <- replaced,
                              served <- taken
ShownIsFresh == F!FreshSpec
==============================================================================
