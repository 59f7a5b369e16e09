------------------------------- MODULE SSHPool -------------------------------
(***************************************************************************)
(* The connections to one remote host (a bucket of SSHPool), as withSSH    *)
(* uses them: lease one, and once more after a broken one.  A slot is      *)
(* taken before dialling and given back when the dial fails and wherever a *)
(* connection is closed: on return, on pruning, on closing the pool.       *)
(* A step is a section under the mutex of the bucket; which of the idle    *)
(* connections is handed out, and which have passed their TTL, is open.    *)
(***************************************************************************)
EXTENDS Naturals, FiniteSets

CONSTANTS
  Callers,       \* goroutines that may need a connection
  Connections,   \* connections ever alive at once
  NoConnection,
  MaxOpen, MaxIdle,
  MaxUses        \* bound: files operations per caller

ASSUME PoolAssumption ==
  /\ IsFiniteSet(Callers)
  /\ NoConnection \notin Connections
  /\ MaxOpen \in Nat \ {0} /\ MaxIdle \in 0..MaxOpen
  /\ MaxUses \in Nat

VARIABLES
  closed,    \* SSHPool.closed
  shut,      \* sshPoolBucket.closed
  open,      \* sshPoolBucket.open
  idle,      \* sshPoolBucket.idle
  alive,     \* connections that were dialled and not closed
  at,        \* at[c]: where caller c is in Acquire and withSSH
  lease,     \* lease[c]: SSHClientLease.Client
  again,     \* again[c]: the first lease was discarded
  uses       \* uses[c]: operations begun

poolVars == <<closed, shut, open, idle, alive, at, lease, again, uses>>

Places == {"out", "look", "reserve", "dial", "use", "wait"}
Leased == {c \in Callers : at[c] = "use"}
Reserved == {c \in Callers : at[c] \in {"dial", "use"}}
Waiting(c) == at[c] \in {"look", "reserve", "wait"}

PoolInit ==
  /\ closed = FALSE /\ shut = FALSE
  /\ open = 0 /\ idle = {} /\ alive = {}
  /\ at = [c \in Callers |-> "out"]
  /\ lease = [c \in Callers |-> NoConnection]
  /\ again = [c \in Callers |-> FALSE]
  /\ uses = [c \in Callers |-> 0]

Goto(c, place) == at' = [at EXCEPT ![c] = place]
-----------------------------------------------------------------------------
\* withSSH and bucketFor: a closed pool refuses.
BeginUse(c) ==
  /\ at[c] = "out" /\ uses[c] < MaxUses
  /\ uses' = [uses EXCEPT ![c] = @ + 1]
  /\ again' = [again EXCEPT ![c] = FALSE]
  /\ Goto(c, IF closed THEN "out" ELSE "look")
  /\ UNCHANGED <<closed, shut, open, idle, alive, lease>>

\* The context of the caller is over, at the head of the loop or while it waits.
GiveUp(c) ==
  /\ at[c] \in {"look", "wait"}
  /\ Goto(c, "out")
  /\ UNCHANGED <<closed, shut, open, idle, alive, lease, again, uses>>

\* (mistake: an idle connection is not counted as open once it is handed out)
TakeIdleUncounted(c, expired) ==
  /\ at[c] = "look" /\ ~shut /\ expired \subseteq idle
  /\ alive' = alive \ expired
  /\ \/ /\ idle = expired
        /\ idle' = {} /\ open' = open - Cardinality(expired)
        /\ Goto(c, "reserve") /\ UNCHANGED lease
     \/ \E k \in idle \ expired :
          /\ idle' = (idle \ expired) \ {k} /\ open' = open - Cardinality(expired) - 1
          /\ lease' = [lease EXCEPT ![c] = k]
          /\ Goto(c, "use")
  /\ UNCHANGED <<closed, shut, again, uses>>

\* tryAcquireIdle with pruneIdleLocked.
TakeIdle(c, expired) ==
  /\ at[c] = "look" /\ ~shut /\ expired \subseteq idle
  /\ open' = open - Cardinality(expired)
  /\ alive' = alive \ expired
  /\ \/ /\ idle = expired
        /\ idle' = {}
        /\ Goto(c, "reserve") /\ UNCHANGED lease
     \/ \E k \in idle \ expired :
          /\ idle' = (idle \ expired) \ {k}
          /\ lease' = [lease EXCEPT ![c] = k]
          /\ Goto(c, "use")
  /\ UNCHANGED <<closed, shut, again, uses>>

\* tryAcquireIdle on a closed bucket.
SkipIdle(c) ==
  /\ at[c] = "look" /\ shut
  /\ Goto(c, "reserve")
  /\ UNCHANGED <<closed, shut, open, idle, alive, lease, again, uses>>

\* (mistake: the limit itself is let through)
ReserveOneMore(c) ==
  /\ at[c] = "reserve"
  /\ \/ ~shut /\ open <= MaxOpen /\ open' = open + 1 /\ Goto(c, "dial")
     \/ (shut \/ open > MaxOpen) /\ Goto(c, "wait") /\ UNCHANGED open
  /\ UNCHANGED <<closed, shut, idle, alive, lease, again, uses>>

\* tryReserveOpen.
Reserve(c) ==
  /\ at[c] = "reserve"
  /\ \/ ~shut /\ open < MaxOpen /\ open' = open + 1 /\ Goto(c, "dial")
     \/ (shut \/ open >= MaxOpen) /\ Goto(c, "wait") /\ UNCHANGED open
  /\ UNCHANGED <<closed, shut, idle, alive, lease, again, uses>>

\* waitForAvailability: notified, or 100 ms later.
Wake(c) ==
  /\ at[c] = "wait"
  /\ Goto(c, "look")
  /\ UNCHANGED <<closed, shut, open, idle, alive, lease, again, uses>>

\* dial, outside of the mutex: the pool may be closed meanwhile.
Dial(c) ==
  /\ at[c] = "dial"
  /\ \E k \in Connections \ alive :
       /\ alive' = alive \cup {k}
       /\ lease' = [lease EXCEPT ![c] = k]
  /\ Goto(c, "use")
  /\ UNCHANGED <<closed, shut, open, idle, again, uses>>

\* (mistake: the slot is not given back)
DialFailsKeeping(c) ==
  /\ at[c] = "dial"
  /\ Goto(c, "out")
  /\ UNCHANGED <<closed, shut, open, idle, alive, lease, again, uses>>

\* releaseReservedOpen.
DialFails(c) ==
  /\ at[c] = "dial"
  /\ open' = (IF open > 0 THEN open - 1 ELSE open)
  /\ Goto(c, "out")
  /\ UNCHANGED <<closed, shut, idle, alive, lease, again, uses>>

\* release, when the connection is closed: the slot is given back with it.
Drop(c) ==
  /\ open' = (IF open > 0 THEN open - 1 ELSE open)
  /\ alive' = alive \ {lease[c]}
  /\ lease' = [lease EXCEPT ![c] = NoConnection]
  /\ UNCHANGED idle

\* (mistake: nobody asks whether the pool was closed)
ReturnAnyway(c) ==
  /\ at[c] = "use"
  /\ \/ Cardinality(idle) >= MaxIdle /\ Drop(c)
     \/ /\ Cardinality(idle) < MaxIdle
        /\ idle' = idle \cup {lease[c]}
        /\ lease' = [lease EXCEPT ![c] = NoConnection]
        /\ UNCHANGED <<open, alive>>
  /\ Goto(c, "out")
  /\ UNCHANGED <<closed, shut, again, uses>>

\* Release: the operation ended, well or with an error of its own.
Return(c) ==
  /\ at[c] = "use"
  /\ \/ (shut \/ closed \/ Cardinality(idle) >= MaxIdle) /\ Drop(c)
     \/ /\ ~shut /\ ~closed /\ Cardinality(idle) < MaxIdle
        /\ idle' = idle \cup {lease[c]}
        /\ lease' = [lease EXCEPT ![c] = NoConnection]
        /\ UNCHANGED <<open, alive>>
  /\ Goto(c, "out")
  /\ UNCHANGED <<closed, shut, again, uses>>

\* Discard after isConnectionError: one more try, unless the pool or the context is over.
Break(c) ==
  /\ at[c] = "use"
  /\ Drop(c)
  /\ \/ ~again[c] /\ ~closed /\ Goto(c, "look") /\ again' = [again EXCEPT ![c] = TRUE]
     \/ Goto(c, "out") /\ UNCHANGED again
  /\ UNCHANGED <<closed, shut, uses>>

\* Close, the flag of the pool.
ClosePool ==
  /\ ~closed /\ closed' = TRUE
  /\ UNCHANGED <<shut, open, idle, alive, at, lease, again, uses>>

\* (mistake: the idle connections are forgotten and not closed)
CloseBucketOnly ==
  /\ closed /\ ~shut /\ shut' = TRUE
  /\ open' = open - Cardinality(idle)
  /\ idle' = {}
  /\ UNCHANGED <<closed, alive, at, lease, again, uses>>

\* Close, the bucket.
CloseBucket ==
  /\ closed /\ ~shut /\ shut' = TRUE
  /\ open' = open - Cardinality(idle)
  /\ alive' = alive \ idle /\ idle' = {}
  /\ UNCHANGED <<closed, at, lease, again, uses>>

Proceed(c) ==
  \/ \E expired \in SUBSET idle : TakeIdle(c, expired)
  \/ SkipIdle(c) \/ Reserve(c) \/ Wake(c)
  \/ Dial(c) \/ DialFails(c) \/ Return(c) \/ Break(c)

PoolNext ==
  \/ \E c \in Callers : BeginUse(c) \/ GiveUp(c) \/ Proceed(c)
  \/ ClosePool \/ CloseBucket

PoolSpec == PoolInit /\ [][PoolNext]_poolVars
-----------------------------------------------------------------------------
\* The type invariant: the count of open connections is within the limit, the idle ones too.
PoolTypeOK ==
  /\ closed \in BOOLEAN /\ shut \in BOOLEAN
  /\ open \in 0..MaxOpen
  /\ idle \in SUBSET Connections /\ alive \in SUBSET Connections
  /\ at \in [Callers -> Places]
  /\ lease \in [Callers -> Connections \cup {NoConnection}]
  /\ again \in [Callers -> BOOLEAN]
  /\ uses \in [Callers -> 0..MaxUses]

\* A connection that was dialled is either idle in the bucket or leased to one caller, until
\* it is closed: none is shared, none is forgotten.
ConnectionsHaveOwners ==
  /\ alive = idle \cup {lease[c] : c \in Leased}
  /\ \A c \in Leased : lease[c] \notin idle
  /\ \A c, e \in Leased : lease[c] = lease[e] => c = e

\* However callers dial, discard, prune and close, the remote host never sees more than
\* MaxOpen connections.
ConnectionsWithinLimit == Cardinality(alive) <= MaxOpen

\* Once the bucket is closed nothing becomes idle: what is left is in somebody's hands, and
\* closed when it is returned, a dial that ends after Close too.
ClosedPoolDrains == shut => alive = {lease[c] : c \in Leased}

\* Connections are neither shared nor forgotten, stay within the limit, and end with the pool.
PoolSafe == ConnectionsHaveOwners /\ ConnectionsWithinLimit /\ ClosedPoolDrains

\* Slots are not lost: who waits for a connection gets one, or is told why not, as long as
\* the pool is not closed and callers are finitely many.  (After Close a caller already in
\* the loop waits until its context is over.)
WaitersAreServed == \A c \in Callers : Waiting(c) ~> (~Waiting(c) \/ shut)
==============================================================================
