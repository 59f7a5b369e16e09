------------------------------ MODULE FileLock ------------------------------
(***************************************************************************)
(* Who is editing which file: useFileLock in every editor tab, over the    *)
(* table file_locks.  A lock belongs to a user, not to a tab, lasts for    *)
(* its TTL and is renewed by a heartbeat; it only warns, a save never asks *)
(* for it.  Requests of a tab are not awaited before the next, so they     *)
(* may reach the server in any order.                                      *)
(***************************************************************************)
EXTENDS Naturals, FiniteSets

CONSTANTS
  Tabs, Users, Docs,
  UserOf,      \* the user of a tab
  NoDoc, Nobody,
  MaxSwitches, \* bound: changes of file, per run
  MaxLate      \* bound: lost requests, and locks that expire under an open tab

ASSUME LockAssumption ==
  /\ NoDoc \notin Docs
  /\ Nobody \notin Users
  /\ UserOf \in [Tabs -> Users]
  /\ MaxSwitches \in Nat /\ MaxLate \in Nat

VARIABLES
  holder,    \* holder[d]: locked_by of the row for d; Nobody: no row
  live,      \* live[d]: expires_at is not reached
  onDoc,     \* onDoc[t]: currentFilePath; NoDoc: none, or the editor is closed
  lockView,  \* lockView[t]: domainLocks, user by path
  calls,     \* calls[t]: requests on their way
  switches, late

lockVars == <<holder, live, onDoc, lockView, calls, switches, late>>

-----------------------------------------------------------------------------
Call(op, d) == [op |-> op, doc |-> d]
Ops == {"acquire", "release", "fetch"}
Calls == [op : Ops \ {"fetch"}, doc : Docs] \cup {Call("fetch", NoDoc)}

\* (mistake: the locks that have expired)
ExpiredShown == [d \in Docs |-> IF live[d] THEN Nobody ELSE holder[d]]

\* ListByDomain: the locks that have not expired.
Shown == [d \in Docs |-> IF live[d] THEN holder[d] ELSE Nobody]

LockInit ==
  /\ holder = [d \in Docs |-> Nobody]
  /\ live = [d \in Docs |-> FALSE]
  /\ onDoc = [t \in Tabs |-> NoDoc]
  /\ lockView = [t \in Tabs |-> [d \in Docs |-> Nobody]]
  /\ calls = [t \in Tabs |-> {}]
  /\ switches = 0
  /\ late = 0

\* isLockedByOther: the banner of the editor page.
Warned(t) ==
  onDoc[t] # NoDoc /\ lockView[t][onDoc[t]] \notin {Nobody, UserOf[t]}

\* (mistake: what was open is released, even if nothing was)
SwitchReleasing(t, d) ==
  /\ switches < MaxSwitches /\ d # onDoc[t]
  /\ switches' = switches + 1
  /\ onDoc' = [onDoc EXCEPT ![t] = d]
  /\ calls' = [calls EXCEPT ![t] = @ \cup {Call("release", onDoc[t])}
                                     \cup (IF d = NoDoc THEN {} ELSE {Call("acquire", d)})]
  /\ UNCHANGED <<holder, live, lockView, late>>

\* The effect on a change of file, and the one on unmount (d = NoDoc): release what was
\* open, acquire what is.
Switch(t, d) ==
  /\ switches < MaxSwitches /\ d # onDoc[t]
  /\ switches' = switches + 1
  /\ onDoc' = [onDoc EXCEPT ![t] = d]
  /\ calls' = [calls EXCEPT ![t] = @
       \cup (IF onDoc[t] = NoDoc THEN {} ELSE {Call("release", onDoc[t])})
       \cup (IF d = NoDoc THEN {} ELSE {Call("acquire", d)})]
  /\ UNCHANGED <<holder, live, lockView, late>>

\* (mistake: the interval is not cleared)
HeartbeatForEver(t) ==
  /\ \E d \in Docs : /\ Call("acquire", d) \notin calls[t]
                     /\ calls' = [calls EXCEPT ![t] = @ \cup {Call("acquire", d)}]
  /\ UNCHANGED <<holder, live, onDoc, lockView, switches, late>>

\* Every 60 s for the open file.
Heartbeat(t) ==
  /\ onDoc[t] # NoDoc /\ Call("acquire", onDoc[t]) \notin calls[t]
  /\ calls' = [calls EXCEPT ![t] = @ \cup {Call("acquire", onDoc[t])}]
  /\ UNCHANGED <<holder, live, onDoc, lockView, switches, late>>

\* Every 30 s.
Poll(t) ==
  /\ Call("fetch", NoDoc) \notin calls[t]
  /\ calls' = [calls EXCEPT ![t] = @ \cup {Call("fetch", NoDoc)}]
  /\ UNCHANGED <<holder, live, onDoc, lockView, switches, late>>

\* (mistake: an upsert without a condition)
AcquireAnyway(t, d) ==
  /\ Call("acquire", d) \in calls[t]
  /\ calls' = [calls EXCEPT ![t] = (@ \ {Call("acquire", d)}) \cup {Call("fetch", NoDoc)}]
  /\ holder' = [holder EXCEPT ![d] = UserOf[t]] /\ live' = [live EXCEPT ![d] = TRUE]
  /\ UNCHANGED <<onDoc, lockView, switches, late>>

\* The upsert: a new row, or one that has expired or is the user's own.  The answer
\* is followed by a fetch, whoever got the lock.
Acquire(t, d) ==
  /\ Call("acquire", d) \in calls[t]
  /\ calls' = [calls EXCEPT ![t] = (@ \ {Call("acquire", d)}) \cup {Call("fetch", NoDoc)}]
  /\ IF holder[d] = Nobody \/ ~live[d] \/ holder[d] = UserOf[t]
     THEN /\ holder' = [holder EXCEPT ![d] = UserOf[t]]
          /\ live' = [live EXCEPT ![d] = TRUE]
     ELSE UNCHANGED <<holder, live>>
  /\ UNCHANGED <<onDoc, lockView, switches, late>>

\* The row is deleted if it is the user's, whichever tab of the user asks.
Release(t, d) ==
  /\ Call("release", d) \in calls[t]
  /\ calls' = [calls EXCEPT ![t] = @ \ {Call("release", d)}]
  /\ IF holder[d] = UserOf[t]
     THEN /\ holder' = [holder EXCEPT ![d] = Nobody]
          /\ live' = [live EXCEPT ![d] = FALSE]
     ELSE UNCHANGED <<holder, live>>
  /\ UNCHANGED <<onDoc, lockView, switches, late>>

Fetch(t) ==
  /\ Call("fetch", NoDoc) \in calls[t]
  /\ calls' = [calls EXCEPT ![t] = @ \ {Call("fetch", NoDoc)}]
  /\ lockView' = [lockView EXCEPT ![t] = Shown]
  /\ UNCHANGED <<holder, live, onDoc, switches, late>>

\* A request fails: errors are ignored, there is no retry.
LoseCall(t) ==
  /\ late < MaxLate /\ calls[t] # {}
  /\ late' = late + 1
  /\ \E c \in calls[t] : calls' = [calls EXCEPT ![t] = @ \ {c}]
  /\ UNCHANGED <<holder, live, onDoc, lockView, switches>>

\* The TTL (120 s) runs out; under an open tab only if two heartbeats were missed.
Renewed(d) == \E t \in Tabs : onDoc[t] = d /\ UserOf[t] = holder[d]

ExpireLock(d) ==
  /\ live[d]
  /\ Renewed(d) => late < MaxLate
  /\ late' = IF Renewed(d) THEN late + 1 ELSE late
  /\ live' = [live EXCEPT ![d] = FALSE]
  /\ UNCHANGED <<holder, onDoc, lockView, calls, switches>>

PurgeExpired(d) ==
  /\ holder[d] # Nobody /\ ~live[d]
  /\ holder' = [holder EXCEPT ![d] = Nobody]
  /\ UNCHANGED <<live, onDoc, lockView, calls, switches, late>>

LockNext ==
  \/ \E t \in Tabs :
       \/ Heartbeat(t) \/ Poll(t) \/ Fetch(t) \/ LoseCall(t)
       \/ \E d \in Docs \cup {NoDoc} : Switch(t, d)
       \/ \E d \in Docs : Acquire(t, d) \/ Release(t, d)
  \/ \E d \in Docs : ExpireLock(d) \/ PurgeExpired(d)

LockSpec == LockInit /\ [][LockNext]_lockVars

-----------------------------------------------------------------------------
LockTypeOK ==
  /\ holder \in [Docs -> Users \cup {Nobody}]
  /\ live \in [Docs -> BOOLEAN]
  /\ onDoc \in [Tabs -> Docs \cup {NoDoc}]
  /\ lockView \in [Tabs -> [Docs -> Users \cup {Nobody}]]
  /\ calls \in [Tabs -> SUBSET Calls]
  /\ switches \in Nat /\ late \in Nat

\* A live lock is never taken over: it goes to nobody first, by its own user's request
\* or by the end of its time.
NeverStolen ==
  [][\A d \in Docs : live[d] /\ holder'[d] # holder[d] =>
       /\ holder'[d] = Nobody /\ ~live'[d]
       /\ \E t \in Tabs : UserOf[t] = holder[d] /\ Call("release", d) \in calls[t]]_lockVars

\* Two people who stay on one file do not both go on without a warning, in whatever
\* order their requests were served.
SomeoneIsWarned ==
  \A t, u \in Tabs : UserOf[t] # UserOf[u] =>
    \A d \in Docs :
      <>[](onDoc[t] = d /\ onDoc[u] = d) => []<>(Warned(t) \/ Warned(u))

\* A file nobody has open does not stay locked, even if the release was lost or was
\* served before a late acquire.
LeftIsFreed ==
  \A d \in Docs : <>[](\A t \in Tabs : onDoc[t] # d) => <>[](~live[d])
==============================================================================
