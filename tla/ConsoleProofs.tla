---------------------------- MODULE ConsoleProofs ----------------------------
(***************************************************************************)
(* What the pages of the console rest on, for any number of tabs, users,   *)
(* sessions, requests, callers and ticks: the locks of files are never     *)
(* stolen, a domain has one agent at a time and a panel is told of every   *)
(* file it changed, the cache of answers implements FreshReads, the pool   *)
(* keeps its limit and its owners, a check runs once at a time and keeps   *)
(* its result.  The last part is about all of them together, with what     *)
(* BrowserProofs shows of the guard and of the address of the index page.  *)
(***************************************************************************)
EXTENDS ConsoleServices, BrowserProofs, SequenceTheorems, FiniteSetTheorems, TLAPS
-----------------------------------------------------------------------------
(* File locks: what a step may do to a lock that has not expired. *)

LEMMA LockTypeInitially == LockInit => LockTypeOK
BY LockAssumption DEF LockInit, LockTypeOK

LEMMA LockTypeKept == LockTypeOK /\ [LockNext]_lockVars => LockTypeOK'
<1> SUFFICES ASSUME LockTypeOK, [LockNext]_lockVars PROVE LockTypeOK'
  OBVIOUS
<1> USE LockAssumption DEF LockTypeOK, Calls, Ops, Call
<1>1. ASSUME NEW t \in Tabs, NEW d \in Docs \cup {NoDoc}, Switch(t, d) PROVE LockTypeOK'
  BY <1>1 DEF Switch
<1>2. ASSUME NEW t \in Tabs, Heartbeat(t) PROVE LockTypeOK'
  BY <1>2 DEF Heartbeat
<1>3. ASSUME NEW t \in Tabs, Poll(t) PROVE LockTypeOK'
  BY <1>3 DEF Poll
<1>4. ASSUME NEW t \in Tabs, NEW d \in Docs, Acquire(t, d) PROVE LockTypeOK'
  <2>1. holder' \in [Docs -> Users \cup {Nobody}] /\ live' \in [Docs -> BOOLEAN]
    BY <1>4 DEF Acquire
  <2>2. calls' \in [Tabs -> SUBSET Calls]
    BY <1>4 DEF Acquire
  <2> QED BY <1>4, <2>1, <2>2 DEF Acquire
<1>5. ASSUME NEW t \in Tabs, NEW d \in Docs, Release(t, d) PROVE LockTypeOK'
  BY <1>5 DEF Release
<1>6. ASSUME NEW t \in Tabs, Fetch(t) PROVE LockTypeOK'
  BY <1>6 DEF Fetch, Shown
<1>7. ASSUME NEW t \in Tabs, LoseCall(t) PROVE LockTypeOK'
  BY <1>7 DEF LoseCall
<1>8. ASSUME NEW d \in Docs, ExpireLock(d) PROVE LockTypeOK'
  BY <1>8 DEF ExpireLock, Renewed
<1>9. ASSUME NEW d \in Docs, PurgeExpired(d) PROVE LockTypeOK'
  BY <1>9 DEF PurgeExpired
<1>10. CASE UNCHANGED lockVars
  BY <1>10 DEF lockVars
<1> QED
  BY <1>1, <1>2, <1>3, <1>4, <1>5, <1>6, <1>7, <1>8, <1>9, <1>10 DEF LockNext

\* Every reachable state of the lock table and of the tabs has its types.
THEOREM LockTypeCorrect == LockSpec => []LockTypeOK
BY LockTypeInitially, LockTypeKept, PTL DEF LockSpec

\* A row whose time is not over has a user: without this an acquire could give a live
\* lock to somebody else.
LiveIsHeld == \A d \in Docs : live[d] => holder[d] \in Users

LEMMA LiveIsHeldKept ==
  ASSUME LockTypeOK, LiveIsHeld, [LockNext]_lockVars
  PROVE  LiveIsHeld'
<1> SUFFICES ASSUME NEW d \in Docs, live'[d] PROVE holder'[d] \in Users
  BY DEF LiveIsHeld
<1> USE LockAssumption DEF LockTypeOK, LiveIsHeld
<1>1. ASSUME NEW t \in Tabs, NEW e \in Docs, Acquire(t, e) PROVE holder'[d] \in Users
  <2>1. CASE holder' = [holder EXCEPT ![e] = UserOf[t]] /\ live' = [live EXCEPT ![e] = TRUE]
    BY <2>1
  <2>2. CASE UNCHANGED <<holder, live>>
    BY <2>2
  <2> QED BY <1>1, <2>1, <2>2 DEF Acquire
<1>2. ASSUME NEW t \in Tabs, NEW e \in Docs, Release(t, e) PROVE holder'[d] \in Users
  <2>1. CASE holder' = [holder EXCEPT ![e] = Nobody] /\ live' = [live EXCEPT ![e] = FALSE]
    BY <2>1
  <2>2. CASE UNCHANGED <<holder, live>>
    BY <2>2
  <2> QED BY <1>2, <2>1, <2>2 DEF Release
<1>3. ASSUME NEW e \in Docs, ExpireLock(e) PROVE holder'[d] \in Users
  BY <1>3 DEF ExpireLock
<1>4. ASSUME NEW e \in Docs, PurgeExpired(e) PROVE holder'[d] \in Users
  BY <1>4 DEF PurgeExpired
<1>5. CASE UNCHANGED <<holder, live>>
  BY <1>5
<1> QED
  BY <1>1, <1>2, <1>3, <1>4, <1>5
  DEF LockNext, lockVars, Switch, Heartbeat, Poll, Fetch, LoseCall

\* What a step may do to a lock whose time is not over: nothing, or give it back on
\* behalf of its own user.
LEMMA LiveLockStep ==
  ASSUME LockTypeOK, LiveIsHeld, [LockNext]_lockVars, NEW d \in Docs, live[d], holder'[d] # holder[d]
  PROVE  /\ holder'[d] = Nobody /\ ~live'[d]
         /\ \E t \in Tabs : UserOf[t] = holder[d] /\ Call("release", d) \in calls[t]
<1> USE LockAssumption DEF LockTypeOK
<1>1. ASSUME NEW t \in Tabs, NEW e \in Docs, Acquire(t, e) PROVE FALSE
  <2>1. CASE e = d
    <3>1. holder[d] # Nobody
      BY DEF LiveIsHeld
    <3>2. holder' = [holder EXCEPT ![d] = UserOf[t]] => holder[d] = UserOf[t]
      BY <1>1, <2>1, <3>1 DEF Acquire
    <3> QED BY <1>1, <2>1, <3>2 DEF Acquire
  <2>2. CASE e # d
    BY <1>1, <2>2 DEF Acquire
  <2> QED BY <2>1, <2>2
<1>2. ASSUME NEW t \in Tabs, NEW e \in Docs, Release(t, e)
      PROVE /\ e = d /\ holder'[d] = Nobody /\ ~live'[d]
            /\ UserOf[t] = holder[d] /\ Call("release", d) \in calls[t]
  BY <1>2 DEF Release
<1>3. ASSUME NEW e \in Docs, PurgeExpired(e) PROVE FALSE
  BY <1>3 DEF PurgeExpired
<1>4. CASE \E t \in Tabs, e \in Docs : Release(t, e)
  BY <1>2, <1>4
<1>5. CASE ~\E t \in Tabs, e \in Docs : Release(t, e)
  <2>1. holder' = holder
    BY <1>1, <1>3, <1>5
    DEF LockNext, lockVars, Switch, Heartbeat, Poll, Fetch, LoseCall, ExpireLock
  <2> QED BY <2>1
<1> QED BY <1>4, <1>5

\* A live lock is never taken over by another user, in whatever order the requests of
\* any number of tabs reach the server.
THEOREM LiveLocksAreKept == LockSpec => NeverStolen
<1>1. LockTypeOK /\ LiveIsHeld /\ [LockNext]_lockVars =>
        [\A d \in Docs : live[d] /\ holder'[d] # holder[d] =>
           /\ holder'[d] = Nobody /\ ~live'[d]
           /\ \E t \in Tabs : UserOf[t] = holder[d] /\ Call("release", d) \in calls[t]]_lockVars
  BY LiveLockStep
<1>2. LockInit => LiveIsHeld
  BY DEF LockInit, LiveIsHeld
<1>3. LockTypeOK /\ LiveIsHeld /\ [LockNext]_lockVars => LiveIsHeld'
  BY LiveIsHeldKept
<1> QED
  BY <1>1, <1>2, <1>3, LockTypeCorrect, PTL DEF LockSpec, NeverStolen
-----------------------------------------------------------------------------
(* Agents: a run is registered with the domain before it works. *)

HubStates == {"absent", "active", "said", "wrote done", "wrote error", "finished", "done"}

\* Whoever is in the hub, at work or done, is the session registered for the domain.
HubInv ==
  /\ hub \in [Sessions -> HubStates]
  /\ \A s \in Sessions : hub[s] # "absent" => active = s
-----------------------------------------------------------------------------
\* The hub is empty at the start.
LEMMA HubStarts == AgentInit => HubInv
  BY DEF AgentInit, HubInv, HubStates

\* A panel, and the server before it starts an agent, leave the hub as it is.
LEMMA PanelsLeaveHub ==
  ASSUME NEW p \in Panels,
         \/ SendMessage(p) \/ Reload(p) \/ AutoReconnect(p) \/ ClearMessages(p)
         \/ Stop(p) \/ StopReturns(p)
         \/ \E s \in Sessions : LoadSession(p, s) \/ RollBack(p, s)
         \/ \E k \in Slots : \/ Subscribe(p, k) \/ Gone(p, k) \/ Begin(p, k) \/ Read(p, k)
                             \/ Overloaded(p, k) \/ ReadFails(p, k) \/ RequestFails(p, k)
  PROVE  UNCHANGED <<hub, active>>
<1>1. CASE \/ SendMessage(p) \/ Reload(p) \/ AutoReconnect(p) \/ ClearMessages(p)
           \/ Stop(p) \/ StopReturns(p)
  BY <1>1 DEF SendMessage, Reload, AutoReconnect, Reconnect, ClearMessages, Stop, StopReturns, serverVars
<1>2. ASSUME NEW s \in Sessions, LoadSession(p, s) \/ RollBack(p, s)
      PROVE  UNCHANGED <<hub, active>>
  BY <1>2 DEF LoadSession, Reconnect, RollBack, serverVars
<1>3. ASSUME NEW k \in Slots,
             \/ Subscribe(p, k) \/ Gone(p, k) \/ Begin(p, k) \/ Read(p, k)
             \/ Overloaded(p, k) \/ ReadFails(p, k) \/ RequestFails(p, k)
      PROVE  UNCHANGED <<hub, active>>
  BY <1>3 DEF Subscribe, Gone, Begin, Read, ReadEvent, ReadEnd, Overloaded, ReadFails,
              RequestFails, serverVars
<1> QED BY <1>1, <1>2, <1>3

\* Every step keeps the invariant: only Register gives the domain to a session, when it is
\* free, and only Unregister takes it back.
LEMMA HubStep == HubInv /\ [AgentNext]_agentVars => HubInv'
<1> SUFFICES ASSUME HubInv, [AgentNext]_agentVars PROVE HubInv'
  OBVIOUS
<1>a. ASSUME UNCHANGED <<hub, active>> PROVE HubInv'
  BY <1>a DEF HubInv
<1>1. ASSUME NEW p \in Panels, NEW k \in Slots, Register(p, k) PROVE HubInv'
  <2>1. CASE hub' = hub /\ active' = active
    BY <2>1 DEF HubInv
  <2>2. CASE /\ active = NoSession /\ active' = slot[p][k].src
             /\ hub' = [hub EXCEPT ![slot[p][k].src] = "active"]
    <3>1. hub = [s \in Sessions |-> "absent"]
      BY <2>2, AgentAssumption DEF HubInv, HubStates
    <3> QED BY <2>2, <3>1 DEF HubInv, HubStates
  <2> QED BY <1>1, <2>1, <2>2 DEF Register
<1>2. ASSUME NEW s \in Sessions, NEW f \in Paths, ChangeFile(s, f) PROVE HubInv'
  BY <1>2, <1>a DEF ChangeFile
<1>3. ASSUME NEW s \in Sessions, NEW kind \in Ends, SayEnd(s, kind) PROVE HubInv'
  BY <1>3 DEF SayEnd, HubInv, HubStates
<1>w. ASSUME NEW s \in Sessions, NEW kind \in Ends, WriteFirst(s, kind) PROVE HubInv'
  BY <1>w DEF WriteFirst, HubInv, HubStates, Wrote
<1>l. ASSUME NEW s \in Sessions, NEW kind \in Ends, SayLast(s, kind) PROVE HubInv'
  BY <1>l DEF SayLast, HubInv, HubStates, Wrote
<1>4. ASSUME NEW s \in Sessions, Finish(s) PROVE HubInv'
  BY <1>4 DEF Finish, HubInv, HubStates
<1>5. ASSUME NEW s \in Sessions, MarkDone(s) PROVE HubInv'
  BY <1>5 DEF MarkDone, HubInv, HubStates
<1>6. ASSUME NEW s \in Sessions, Unregister(s) PROVE HubInv'
  BY <1>6 DEF Unregister, HubInv, HubStates
<1>7. ASSUME NEW s \in Sessions, MarkStale(s) PROVE HubInv'
  BY <1>7, <1>a DEF MarkStale
<1>8. CASE Restart
  BY <1>8 DEF Restart, HubInv, HubStates
<1>9. CASE UNCHANGED agentVars
  BY <1>9, <1>a DEF agentVars
<1> QED BY <1>a, <1>1, <1>2, <1>3, <1>w, <1>l, <1>4, <1>5, <1>6, <1>7, <1>8, <1>9, PanelsLeaveHub
        DEF AgentNext, Serve

\* Two agents never work on one domain, whatever requests overlap.
THEOREM AgentsAreAlone == AgentSpec => []OneAgentPerDomain
<1>1. AgentInit => HubInv
  BY HubStarts
<1>2. HubInv /\ [AgentNext]_agentVars => HubInv'
  BY HubStep
<1>3. HubInv => OneAgentPerDomain
  BY DEF HubInv, OneAgentPerDomain
<1> QED BY <1>1, <1>2, <1>3, PTL DEF AgentSpec
-----------------------------------------------------------------------------
(* Types of the chat.  The row takes its status from the last event of the run, so there is *)
(* one by then, and it is an end; a request that starts a run knows its session.            *)

SlotRecords ==
  [state : SlotStates, sid : Sessions \cup {NoSession}, msg : BOOLEAN,
   src : Sessions \cup {NoSession}, queue : Seq(Events), more : BOOLEAN, heard : BOOLEAN,
   told : SUBSET Paths]
GoodSlots == {r \in SlotRecords : r.state = "starting" => r.src \in Sessions}

RunsTyped ==
  /\ row \in [Sessions -> Rows] /\ hub \in [Sessions -> HubStates]
  /\ active \in Sessions \cup {NoSession}
  /\ buf \in [Sessions -> Seq(Events)] /\ changed \in [Sessions -> SUBSET Paths]
EndIsSaid ==
  \A s \in Sessions : hub[s] = "said" => buf[s] # <<>> /\ buf[s][Len(buf[s])].kind \in Ends
ChatsTyped ==
  /\ status \in [Panels -> Statuses] /\ shown \in [Panels -> Sessions \cup {NoSession}]
  /\ rollback \in [Panels -> BOOLEAN]
  /\ saved \in [Panels -> [s : Sessions \cup {NoSession}, status : Statuses]]
  /\ abort \in [Panels -> Slots \cup {0}] /\ stopping \in [Panels -> Sessions \cup {NoSession}]
  /\ fresh \in [Panels -> SUBSET Paths] /\ hung \in [Panels -> BOOLEAN]
SlotsTyped == slot \in [Panels -> [Slots -> GoodSlots]]
LeftTyped == asks \in Nat /\ faults \in Nat

AgentTyped == RunsTyped /\ EndIsSaid /\ ChatsTyped /\ SlotsTyped /\ LeftTyped
-----------------------------------------------------------------------------
LEMMA FaultTyped == ASSUME LeftTyped, Fault PROVE faults' \in Nat
BY DEF LeftTyped, Fault

LEMMA AskTyped == ASSUME LeftTyped, Ask PROVE asks' \in Nat
BY DEF LeftTyped, Ask

LEMMA NoEvents == <<>> \in Seq(Events)
OBVIOUS

LEMMA EventTyped ==
  ASSUME NEW kind \in Ends \cup {"session_start", "file_changed"}, NEW s \in Sessions,
         NEW files \in SUBSET Paths, NEW snap \in BOOLEAN
  PROVE  Event(kind, s, files, snap) \in Events /\ Event(kind, s, files, snap).kind = kind
BY DEF Event, Events

LEMMA SlotOf ==
  ASSUME SlotsTyped, NEW p \in Panels, NEW k \in Slots
  PROVE  slot[p][k] \in GoodSlots
BY DEF SlotsTyped

LEMMA SlotFields ==
  ASSUME NEW r \in GoodSlots
  PROVE  /\ r.state \in SlotStates /\ r.sid \in Sessions \cup {NoSession} /\ r.msg \in BOOLEAN
         /\ r.src \in Sessions \cup {NoSession} /\ r.queue \in Seq(Events)
         /\ r.more \in BOOLEAN /\ r.heard \in BOOLEAN /\ r.told \in SUBSET Paths
         /\ r.state = "starting" => r.src \in Sessions
BY DEF GoodSlots, SlotRecords

LEMMA FreeGood == Free \in GoodSlots /\ Free.state = "free"
BY NoEvents DEF Free, GoodSlots, SlotRecords, SlotStates

LEMMA AbandonGood ==
  ASSUME NEW r \in GoodSlots
  PROVE  Abandon(r) \in GoodSlots /\ Abandon(r).state # "open"
<1>1. CASE r.state \in {"sent", "starting"}
  BY <1>1 DEF Abandon, GoodSlots, SlotRecords
<1>2. CASE r.state \notin {"sent", "starting"}
  BY <1>2, FreeGood DEF Abandon
<1> QED BY <1>1, <1>2

LEMMA OpenGood ==
  ASSUME RunsTyped, NEW r \in GoodSlots, NEW s \in Sessions, NEW more \in BOOLEAN
  PROVE  /\ Open(s, r, more) \in GoodSlots
         /\ Open(s, r, more).state = "open" => Open(s, r, more).queue = r.queue \o buf[s]
<1>1. CASE r.heard
  <2>1. r.queue \o buf[s] \in Seq(Events)
    BY SlotFields, ConcatProperties DEF RunsTyped
  <2> QED BY <1>1, <2>1 DEF Open, GoodSlots, SlotRecords, SlotStates
<1>2. CASE ~r.heard
  BY <1>2, FreeGood DEF Open
<1> QED BY <1>1, <1>2

\* One request or stream of a panel changes.
LEMMA SlotSet ==
  ASSUME SlotsTyped, NEW p \in Panels, NEW k \in Slots, NEW r \in GoodSlots,
         slot' = [slot EXCEPT ![p][k] = r]
  PROVE  /\ SlotsTyped'
         /\ \A q \in Panels, j \in Slots :
              slot'[q][j] = IF q = p /\ j = k THEN r ELSE slot[q][j]
BY DEF SlotsTyped

LEMMA PostTyped ==
  ASSUME SlotsTyped, ChatsTyped, NEW p \in Panels, NEW s \in Sessions \cup {NoSession},
         NEW msg \in BOOLEAN, Post(p, s, msg)
  PROVE  SlotsTyped' /\ abort' \in [Panels -> Slots \cup {0}]
<1>1. PICK k \in Slots :
        /\ slot' = [slot EXCEPT ![p][k] = [Free EXCEPT !.state = "sent", !.sid = s,
                                                       !.msg = msg, !.heard = TRUE]]
        /\ abort' = [abort EXCEPT ![p] = k]
  BY DEF Post
<1>2. [Free EXCEPT !.state = "sent", !.sid = s, !.msg = msg, !.heard = TRUE] \in GoodSlots
  BY NoEvents DEF Free, GoodSlots, SlotRecords, SlotStates
<1> QED BY <1>1, <1>2, SlotSet DEF ChatsTyped

LEMMA RunsStay ==
  ASSUME RunsTyped, EndIsSaid, UNCHANGED serverVars
  PROVE  RunsTyped' /\ EndIsSaid'
BY DEF RunsTyped, EndIsSaid, serverVars

LEMMA ChatsStay ==
  ASSUME ChatsTyped, UNCHANGED panelVars
  PROVE  ChatsTyped'
BY DEF ChatsTyped, panelVars

\* Writing another row of the table keeps what the hub holds.
LEMMA RowWritten ==
  ASSUME RunsTyped, EndIsSaid, NEW s \in Sessions, NEW st \in Rows,
         row' = [row EXCEPT ![s] = st], UNCHANGED <<hub, active, buf, changed>>
  PROVE  RunsTyped' /\ EndIsSaid'
BY DEF RunsTyped, EndIsSaid

LEMMA ReconnectTyped ==
  ASSUME AgentTyped, NEW p \in Panels, NEW s \in Sessions \cup {NoSession}, Reconnect(p, s)
  PROVE  RunsTyped' /\ EndIsSaid' /\ ChatsTyped' /\ SlotsTyped' /\ faults' \in Nat
<1>1. SlotsTyped' /\ abort' \in [Panels -> Slots \cup {0}]
  BY PostTyped DEF AgentTyped, Reconnect
<1>2. ChatsTyped'
  BY <1>1 DEF AgentTyped, ChatsTyped, Reconnect, Statuses
<1> QED BY <1>1, <1>2, RunsStay DEF AgentTyped, Reconnect, LeftTyped

\* What the user of a panel does.
LEMMA PanelStepTyped ==
  ASSUME AgentTyped, NEW p \in Panels,
         \/ SendMessage(p) \/ Reload(p) \/ AutoReconnect(p) \/ ClearMessages(p)
         \/ Stop(p) \/ StopReturns(p)
         \/ \E s \in Sessions : LoadSession(p, s) \/ RollBack(p, s)
  PROVE  AgentTyped'
<1>a. RunsTyped /\ EndIsSaid /\ ChatsTyped /\ SlotsTyped /\ LeftTyped
  BY DEF AgentTyped
<1>b. NoSaved \in [s : Sessions \cup {NoSession}, status : Statuses]
  BY DEF NoSaved, Statuses
<1>1. CASE SendMessage(p)
  <2>1. SlotsTyped' /\ abort' \in [Panels -> Slots \cup {0}]
    <3>1. shown[p] \in Sessions \cup {NoSession}
      BY <1>a DEF ChatsTyped
    <3> QED BY <1>a, <1>1, <3>1, PostTyped DEF SendMessage
  <2>2. ChatsTyped'
    BY <1>a, <1>1, <2>1 DEF ChatsTyped, SendMessage, Statuses
  <2>3. RunsTyped' /\ EndIsSaid'
    BY <1>a, <1>1, RunsStay DEF SendMessage
  <2>4. LeftTyped'
    BY <1>a, <1>1, AskTyped DEF LeftTyped, SendMessage
  <2> QED BY <2>1, <2>2, <2>3, <2>4 DEF AgentTyped
<1>2. CASE Reload(p)
  <2>1. [k \in Slots |-> Abandon(slot[p][k])] \in [Slots -> GoodSlots]
    BY <1>a, SlotOf, AbandonGood
  <2>2. SlotsTyped'
    BY <1>a, <1>2, <2>1 DEF SlotsTyped, Reload
  <2>3. ChatsTyped'
    BY <1>a, <1>2 DEF ChatsTyped, Reload, Statuses
  <2>4. RunsTyped' /\ EndIsSaid'
    BY <1>a, <1>2, RunsStay DEF Reload
  <2>5. LeftTyped'
    BY <1>a, <1>2, AskTyped DEF LeftTyped, Reload
  <2> QED BY <2>2, <2>3, <2>4, <2>5 DEF AgentTyped
<1>3. CASE AutoReconnect(p)
  <2>1. saved[p].s \in Sessions \cup {NoSession}
    BY <1>a DEF ChatsTyped
  <2>2. asks' \in Nat
    BY <1>a, <1>3 DEF AutoReconnect, LeftTyped
  <2> QED BY <1>3, <2>1, <2>2, ReconnectTyped DEF AutoReconnect, AgentTyped, LeftTyped
<1>4. CASE ClearMessages(p)
  <2>1. ChatsTyped'
    BY <1>a, <1>b, <1>4 DEF ChatsTyped, ClearMessages, Statuses
  <2>2. RunsTyped' /\ EndIsSaid'
    BY <1>a, <1>4, RunsStay DEF ClearMessages
  <2>3. SlotsTyped' /\ LeftTyped'
    BY <1>a, <1>4 DEF ClearMessages, SlotsTyped, LeftTyped
  <2> QED BY <2>1, <2>2, <2>3 DEF AgentTyped
<1>5. CASE Stop(p)
  <2>1. SlotsTyped'
    <3>1. CASE abort[p] = 0
      BY <1>a, <1>5, <3>1 DEF Stop, SlotsTyped
    <3>2. CASE abort[p] # 0
      <4>1. abort[p] \in Slots
        BY <1>a, <3>2 DEF ChatsTyped
      <4>2. slot' = [slot EXCEPT ![p][abort[p]] = Abandon(slot[p][abort[p]])]
        BY <1>5, <3>2 DEF Stop
      <4>3. Abandon(slot[p][abort[p]]) \in GoodSlots
        BY <1>a, <4>1, SlotOf, AbandonGood
      <4> QED BY <1>a, <4>1, <4>2, <4>3, SlotSet
    <3> QED BY <3>1, <3>2
  <2>2. ChatsTyped'
    BY <1>a, <1>5 DEF ChatsTyped, Stop, Statuses, Ends
  <2>3. RunsTyped' /\ EndIsSaid'
    BY <1>a, <1>5, RunsStay DEF Stop
  <2>4. LeftTyped'
    BY <1>a, <1>5 DEF Stop, LeftTyped
  <2> QED BY <2>1, <2>2, <2>3, <2>4 DEF AgentTyped
<1>6. CASE StopReturns(p)
  <2>1. stopping[p] \in Sessions
    BY <1>a, <1>6 DEF StopReturns, ChatsTyped
  <2>2. RunsTyped' /\ EndIsSaid'
    <3>1. CASE row' = [row EXCEPT ![stopping[p]] = "stopped"]
      BY <1>a, <1>6, <2>1, <3>1, RowWritten DEF StopReturns, Rows, Ends
    <3>2. CASE UNCHANGED row
      BY <1>a, <1>6, <3>2, RunsStay DEF StopReturns, serverVars
    <3> QED BY <1>6, <3>1, <3>2 DEF StopReturns
  <2>3. ChatsTyped'
    BY <1>a, <1>6 DEF ChatsTyped, StopReturns, Statuses, Ends
  <2>4. SlotsTyped'
    BY <1>a, <1>6 DEF SlotsTyped, StopReturns
  <2>5. LeftTyped'
    BY <1>a, <1>6, FaultTyped DEF StopReturns, LeftTyped
  <2> QED BY <2>2, <2>3, <2>4, <2>5 DEF AgentTyped
<1>7. ASSUME NEW s \in Sessions, LoadSession(p, s) PROVE AgentTyped'
  <2>1. asks' \in Nat
    BY <1>a, <1>7, AskTyped DEF LoadSession
  <2>2. CASE Reconnect(p, s)
    BY <2>1, <2>2, ReconnectTyped DEF AgentTyped, LeftTyped
  <2>3. CASE ~Reconnect(p, s)
    <3>1. /\ status' = [status EXCEPT ![p] = "done"] /\ shown' = [shown EXCEPT ![p] = s]
          /\ rollback' = [rollback EXCEPT ![p] = TRUE]
          /\ UNCHANGED <<serverVars, saved, slot, abort, stopping, fresh, hung, faults>>
      BY <1>7, <2>3 DEF LoadSession
    <3>2. ChatsTyped'
      BY <1>a, <3>1 DEF ChatsTyped, Statuses, Ends
    <3>3. RunsTyped' /\ EndIsSaid'
      BY <1>a, <3>1, RunsStay
    <3>4. SlotsTyped' /\ LeftTyped'
      BY <1>a, <2>1, <3>1 DEF SlotsTyped, LeftTyped
    <3> QED BY <3>2, <3>3, <3>4 DEF AgentTyped
  <2> QED BY <2>2, <2>3
<1>8. ASSUME NEW s \in Sessions, RollBack(p, s) PROVE AgentTyped'
  <2>1. RunsTyped' /\ EndIsSaid'
    BY <1>a, <1>8, RowWritten DEF RollBack, Rows
  <2>2. ChatsTyped'
    BY <1>a, <1>b, <1>8 DEF ChatsTyped, RollBack, Statuses
  <2>3. SlotsTyped' /\ LeftTyped'
    BY <1>a, <1>8 DEF RollBack, SlotsTyped, LeftTyped
  <2> QED BY <2>1, <2>2, <2>3 DEF AgentTyped
<1> QED BY <1>1, <1>2, <1>3, <1>4, <1>5, <1>6, <1>7, <1>8

LEMMA TargetIs ==
  ASSUME RunsTyped, NEW r \in GoodSlots
  PROVE  Target(r) \in Sessions \cup {NoSession}
BY SlotFields DEF RunsTyped, Target

\* The handler of a request, until the agent works.
LEMMA ServeTyped ==
  ASSUME AgentTyped, NEW p \in Panels, NEW k \in Slots,
         Subscribe(p, k) \/ Gone(p, k) \/ Begin(p, k) \/ Register(p, k) \/ Overloaded(p, k)
  PROVE  AgentTyped'
<1>a. RunsTyped /\ EndIsSaid /\ ChatsTyped /\ SlotsTyped /\ LeftTyped
  BY DEF AgentTyped
<1>b. PICK r : r = slot[p][k]
  OBVIOUS
<1>c. /\ r \in GoodSlots /\ r.sid \in Sessions \cup {NoSession} /\ r.queue \in Seq(Events)
      /\ r.state = "starting" => r.src \in Sessions
  BY <1>a, <1>b, SlotOf, SlotFields
<1>d. Target(r) \in Sessions \cup {NoSession}
  BY <1>a, <1>c, TargetIs
<1>1. CASE Subscribe(p, k)
  <2>1. Target(r) \in Sessions /\ (hub[Target(r)] # "done") \in BOOLEAN
    BY <1>b, <1>d, <1>1 DEF Subscribe
  <2>2. Open(Target(r), r, hub[Target(r)] # "done") \in GoodSlots
    BY <1>a, <1>c, <2>1, OpenGood
  <2>3. SlotsTyped'
    BY <1>a, <1>b, <1>1, <2>2, SlotSet DEF Subscribe
  <2> QED BY <1>a, <1>1, <2>3, RunsStay, ChatsStay DEF Subscribe, LeftTyped, AgentTyped
<1>2. CASE Gone(p, k)
  <2>1. SlotsTyped'
    BY <1>a, <1>2, FreeGood, SlotSet DEF Gone
  <2>2. NoSaved \in [s : Sessions \cup {NoSession}, status : Statuses]
    BY DEF NoSaved, Statuses
  <2>3. ChatsTyped'
    BY <1>a, <1>2, <2>2 DEF Gone, ChatsTyped, Statuses
  <2> QED BY <1>a, <1>2, <2>1, <2>3, RunsStay DEF Gone, LeftTyped, AgentTyped
<1>3. CASE Begin(p, k)
  <2>1. PICK s \in Sessions :
          /\ row' = IF r.sid = NoSession THEN [row EXCEPT ![s] = "running"] ELSE row
          /\ slot' = [slot EXCEPT ![p][k] =
               [r EXCEPT !.state = "starting", !.src = s,
                !.queue = IF r.heard THEN <<Event("session_start", s, {}, r.sid = NoSession)>>
                          ELSE <<>>]]
    BY <1>b, <1>3 DEF Begin
  <2>2. PICK q : q = IF r.heard THEN <<Event("session_start", s, {}, r.sid = NoSession)>> ELSE <<>>
    OBVIOUS
  <2>3. q \in Seq(Events)
    <3>1. Event("session_start", s, {}, r.sid = NoSession) \in Events
      BY EventTyped
    <3> QED BY <2>2, <3>1
  <2>4. [r EXCEPT !.state = "starting", !.src = s, !.queue = q] \in GoodSlots
    BY <1>c, <2>3 DEF GoodSlots, SlotRecords, SlotStates
  <2>5. SlotsTyped'
    BY <1>a, <2>1, <2>2, <2>4, SlotSet
  <2>6. RunsTyped' /\ EndIsSaid'
    BY <1>a, <1>3, <2>1, RowWritten, RunsStay DEF Begin, Rows, serverVars
  <2> QED BY <1>a, <1>3, <2>5, <2>6, ChatsStay DEF Begin, LeftTyped, AgentTyped
<1>4. CASE Register(p, k)
  <2>1. r.src \in Sessions
    BY <1>b, <1>c, <1>4 DEF Register
  <2>2. UNCHANGED <<row, panelVars, asks, faults>>
    BY <1>4 DEF Register
  <2>3. ChatsTyped' /\ LeftTyped'
    BY <1>a, <2>2, ChatsStay DEF LeftTyped
  <2>4. CASE active = NoSession
    <3>1. SlotsTyped'
      <4>1. [r EXCEPT !.state = "open", !.more = TRUE] \in GoodSlots
        BY <1>c DEF GoodSlots, SlotRecords, SlotStates
      <4>2. (IF r.heard THEN [r EXCEPT !.state = "open", !.more = TRUE] ELSE Free) \in GoodSlots
        BY <4>1, FreeGood
      <4>3. slot' = [slot EXCEPT ![p][k] = IF r.heard THEN [r EXCEPT !.state = "open", !.more = TRUE]
                                           ELSE Free]
        BY <1>b, <1>4, <2>4 DEF Register
      <4> QED BY <1>a, <4>2, <4>3, SlotSet
    <3>2. /\ active' = r.src /\ hub' = [hub EXCEPT ![r.src] = "active"] /\ row' = row
          /\ buf' = [buf EXCEPT ![r.src] = <<>>] /\ changed' = [changed EXCEPT ![r.src] = {}]
      BY <1>b, <1>4, <2>2, <2>4 DEF Register
    <3>3. RunsTyped'
      BY <1>a, <2>1, <3>2, NoEvents DEF RunsTyped, HubStates
    <3>4. EndIsSaid'
      BY <1>a, <2>1, <3>2 DEF RunsTyped, EndIsSaid
    <3> QED BY <2>3, <3>1, <3>3, <3>4 DEF AgentTyped
  <2>5. CASE active # NoSession
    <3>1. active \in Sessions
      BY <1>a, <2>5 DEF RunsTyped
    <3>2. slot' = [slot EXCEPT ![p][k] = Open(active, r, TRUE)] /\ UNCHANGED <<hub, active, buf, changed>>
      BY <1>b, <1>4, <2>5 DEF Register
    <3>3. SlotsTyped'
      BY <1>a, <1>c, <3>1, <3>2, OpenGood, SlotSet
    <3>4. RunsTyped' /\ EndIsSaid'
      BY <1>a, <2>2, <3>2, RunsStay DEF serverVars
    <3> QED BY <2>3, <3>3, <3>4 DEF AgentTyped
  <2> QED BY <2>4, <2>5
<1>5. CASE Overloaded(p, k)
  <2>1. Append(r.queue, Event("error", r.src, {}, TRUE)) \in Seq(Events)
    <3>1. r.src \in Sessions
      BY <1>b, <1>c, <1>5 DEF Overloaded
    <3>2. Event("error", r.src, {}, TRUE) \in Events
      BY <3>1, EventTyped DEF Ends
    <3>3. ASSUME NEW q \in Seq(Events), NEW e \in Events PROVE Append(q, e) \in Seq(Events)
      OBVIOUS
    <3> QED BY <1>c, <3>2, <3>3
  <2>2. [r EXCEPT !.state = "open", !.more = FALSE,
                  !.queue = Append(@, Event("error", r.src, {}, TRUE))] \in GoodSlots
    BY <1>c, <2>1 DEF GoodSlots, SlotRecords, SlotStates
  <2>3. SlotsTyped'
    BY <1>a, <1>b, <1>5, <2>2, FreeGood, SlotSet DEF Overloaded
  <2>4. LeftTyped'
    <3>1. Fault /\ asks' = asks /\ UNCHANGED serverVars /\ UNCHANGED panelVars
      BY <1>5 DEF Overloaded
    <3>2. asks \in Nat /\ faults' \in Nat
      BY <1>a, <3>1, FaultTyped DEF LeftTyped
    <3> QED BY <3>1, <3>2 DEF LeftTyped
  <2> QED BY <1>a, <1>5, <2>3, <2>4, RunsStay, ChatsStay DEF Overloaded, AgentTyped
<1> QED BY <1>1, <1>2, <1>3, <1>4, <1>5

\* An event is kept, and sent to who reads the stream of the run.
LEMMA PublishTyped ==
  ASSUME RunsTyped, SlotsTyped, LeftTyped, hung \in [Panels -> BOOLEAN],
         NEW s \in Sessions, NEW e \in Events, Publish(s, e)
  PROVE  /\ buf' = [buf EXCEPT ![s] = Append(buf[s], e)]
         /\ buf' \in [Sessions -> Seq(Events)]
         /\ buf'[s] # <<>> /\ buf'[s][Len(buf'[s])] = e
         /\ \A x \in Sessions \ {s} : buf'[x] = buf[x]
         /\ hung' \in [Panels -> BOOLEAN] /\ faults' \in Nat /\ SlotsTyped'
         /\ \A p \in Panels, k \in Slots :
              \/ slot'[p][k] = slot[p][k]
              \/ slot'[p][k].queue = Append(slot[p][k].queue, e)
<1>1. buf[s] \in Seq(Events) /\ buf' = [buf EXCEPT ![s] = Append(buf[s], e)]
  BY DEF RunsTyped, Publish
<1>2. Append(buf[s], e) \in Seq(Events) /\ Append(buf[s], e) # <<>>
      /\ Append(buf[s], e)[Len(Append(buf[s], e))] = e
  BY <1>1
<1>3. /\ buf' \in [Sessions -> Seq(Events)] /\ buf'[s] = Append(buf[s], e)
      /\ \A x \in Sessions \ {s} : buf'[x] = buf[x]
  BY <1>1, <1>2 DEF RunsTyped
<1>4. ASSUME NEW r \in GoodSlots
      PROVE  /\ [r EXCEPT !.queue = Append(@, e)] \in GoodSlots
             /\ [r EXCEPT !.queue = Append(@, e)].queue = Append(r.queue, e)
  <2>1. Append(r.queue, e) \in Seq(Events)
    BY <1>4, SlotFields
  <2> QED BY <1>4, <2>1 DEF GoodSlots, SlotRecords
<1>5. CASE UNCHANGED <<hung, faults>>
           /\ slot' = [p \in Panels |-> [k \in Slots |->
                IF Subscribed(p, k, s) THEN [slot[p][k] EXCEPT !.queue = Append(@, e)]
                ELSE slot[p][k]]]
  <2>1. \A p \in Panels, k \in Slots :
          \/ slot'[p][k] = slot[p][k]
          \/ slot'[p][k] = [slot[p][k] EXCEPT !.queue = Append(@, e)]
    BY <1>5
  <2>2. SlotsTyped'
    BY <1>5, <1>4, SlotOf DEF SlotsTyped
  <2> QED BY <1>2, <1>3, <1>4, <1>5, <2>1, <2>2, <1>1, SlotOf DEF LeftTyped
<1>6. ASSUME NEW q \in Panels, NEW j \in Slots, Fault,
             slot' = [p \in Panels |-> [k \in Slots |->
               IF Subscribed(p, k, s) /\ <<p, k>> # <<q, j>>
               THEN [slot[p][k] EXCEPT !.queue = Append(@, e)] ELSE slot[p][k]]],
             hung' = [hung EXCEPT ![q] = @ \/ e.kind \in Ends]
      PROVE  /\ hung' \in [Panels -> BOOLEAN] /\ faults' \in Nat /\ SlotsTyped'
             /\ \A p \in Panels, k \in Slots :
                  \/ slot'[p][k] = slot[p][k]
                  \/ slot'[p][k].queue = Append(slot[p][k].queue, e)
  <2>1. \A p \in Panels, k \in Slots :
          \/ slot'[p][k] = slot[p][k]
          \/ slot'[p][k] = [slot[p][k] EXCEPT !.queue = Append(@, e)]
    BY <1>6
  <2>2. SlotsTyped'
    BY <1>6, <1>4, SlotOf DEF SlotsTyped
  <2>3. hung' \in [Panels -> BOOLEAN]
    BY <1>6
  <2> QED BY <1>4, <1>6, <2>1, <2>2, <2>3, FaultTyped, SlotOf
<1> QED BY <1>1, <1>2, <1>3, <1>5, <1>6 DEF Publish

\* The agent of a session.
LEMMA RunStepTyped ==
  ASSUME AgentTyped, NEW s \in Sessions,
         \/ \E f \in Paths : ChangeFile(s, f)
         \/ \E kind \in Ends : SayEnd(s, kind) \/ WriteFirst(s, kind) \/ SayLast(s, kind)
         \/ Finish(s) \/ MarkDone(s) \/ Unregister(s) \/ MarkStale(s)
  PROVE  AgentTyped'
<1>a. RunsTyped /\ EndIsSaid /\ ChatsTyped /\ SlotsTyped /\ LeftTyped
      /\ hung \in [Panels -> BOOLEAN] /\ changed[s] \in SUBSET Paths
  BY DEF AgentTyped, ChatsTyped, RunsTyped
<1>1. ASSUME NEW f \in Paths, ChangeFile(s, f) PROVE AgentTyped'
  <2>1. Event("file_changed", s, {f}, TRUE) \in Events
    BY EventTyped
  <2>2. /\ buf' \in [Sessions -> Seq(Events)] /\ \A x \in Sessions \ {s} : buf'[x] = buf[x]
        /\ hung' \in [Panels -> BOOLEAN] /\ faults' \in Nat /\ SlotsTyped'
    BY <1>a, <1>1, <2>1, PublishTyped DEF ChangeFile
  <2>3. RunsTyped' /\ EndIsSaid'
    BY <1>a, <1>1, <2>2 DEF ChangeFile, RunsTyped, EndIsSaid
  <2>4. ChatsTyped'
    BY <1>a, <1>1, <2>2 DEF ChangeFile, ChatsTyped
  <2>5. LeftTyped'
    <3>1. asks' = asks
      BY <1>1 DEF ChangeFile
    <3> QED BY <1>a, <2>2, <3>1 DEF LeftTyped
  <2> QED BY <2>2, <2>3, <2>4, <2>5 DEF AgentTyped
<1>2. ASSUME NEW kind \in Ends, SayEnd(s, kind) \/ SayLast(s, kind) PROVE AgentTyped'
  <2>1. PICK e : e = Event(kind, s, changed[s], changed[s] # {})
    OBVIOUS
  <2>2. e \in Events /\ e.kind \in Ends
    <3>1. PICK files, snap : files = changed[s] /\ snap = (changed[s] # {})
      OBVIOUS
    <3>2. files \in SUBSET Paths /\ snap \in BOOLEAN
      BY <1>a, <3>1
    <3>3. Event(kind, s, files, snap) \in Events /\ Event(kind, s, files, snap).kind = kind
      BY <3>2, EventTyped
    <3> QED BY <2>1, <3>1, <3>3
  <2>3. /\ buf' \in [Sessions -> Seq(Events)] /\ \A x \in Sessions \ {s} : buf'[x] = buf[x]
        /\ buf'[s] # <<>> /\ buf'[s][Len(buf'[s])] = e
        /\ hung' \in [Panels -> BOOLEAN] /\ faults' \in Nat /\ SlotsTyped'
    BY <1>a, <1>2, <2>1, <2>2, PublishTyped DEF SayEnd, SayLast
  <2>4. RunsTyped' /\ EndIsSaid'
    BY <1>a, <1>2, <2>2, <2>3 DEF SayEnd, SayLast, RunsTyped, EndIsSaid, HubStates
  <2>5. ChatsTyped'
    BY <1>a, <1>2, <2>3 DEF SayEnd, SayLast, ChatsTyped
  <2>6. LeftTyped'
    <3>1. asks' = asks
      BY <1>2 DEF SayEnd, SayLast
    <3> QED BY <1>a, <2>3, <3>1 DEF LeftTyped
  <2> QED BY <2>3, <2>4, <2>5, <2>6 DEF AgentTyped
<1>w. ASSUME NEW kind \in Ends, WriteFirst(s, kind) PROVE AgentTyped'
  <2>1. RunsTyped' /\ EndIsSaid'
    BY <1>a, <1>w DEF WriteFirst, Wrote, RunsTyped, EndIsSaid, HubStates, Rows
  <2> QED BY <1>a, <1>w, <2>1, ChatsStay DEF WriteFirst, SlotsTyped, LeftTyped, AgentTyped
<1>3. CASE Finish(s)
  <2>1. buf[s][Len(buf[s])].kind \in Rows
    BY <1>a, <1>3 DEF Finish, EndIsSaid, Rows
  <2>2. RunsTyped' /\ EndIsSaid'
    BY <1>a, <1>3, <2>1 DEF Finish, RunsTyped, EndIsSaid, HubStates
  <2> QED BY <1>a, <1>3, <2>2, ChatsStay DEF Finish, SlotsTyped, LeftTyped, AgentTyped
<1>4. CASE MarkDone(s)
  <2>1. ASSUME NEW r \in GoodSlots PROVE [r EXCEPT !.more = FALSE] \in GoodSlots
    BY <2>1 DEF GoodSlots, SlotRecords
  <2>2. SlotsTyped'
    BY <1>a, <1>4, <2>1, SlotOf DEF MarkDone, SlotsTyped
  <2>3. RunsTyped' /\ EndIsSaid'
    BY <1>a, <1>4 DEF MarkDone, RunsTyped, EndIsSaid, HubStates
  <2> QED BY <1>a, <1>4, <2>2, <2>3, ChatsStay DEF MarkDone, LeftTyped, AgentTyped
<1>5. CASE Unregister(s)
  <2>1. RunsTyped' /\ EndIsSaid'
    BY <1>a, <1>5, NoEvents DEF Unregister, RunsTyped, EndIsSaid, HubStates
  <2> QED BY <1>a, <1>5, <2>1, ChatsStay DEF Unregister, SlotsTyped, LeftTyped, AgentTyped
<1>6. CASE MarkStale(s)
  <2>1. RunsTyped' /\ EndIsSaid'
    BY <1>a, <1>6, RowWritten DEF MarkStale, Rows, Ends
  <2> QED BY <1>a, <1>6, <2>1, ChatsStay DEF MarkStale, SlotsTyped, LeftTyped, AgentTyped
<1> QED BY <1>1, <1>2, <1>w, <1>3, <1>4, <1>5, <1>6

\* The server dies.
LEMMA RestartTyped == ASSUME AgentTyped, Restart PROVE AgentTyped'
<1>a. RunsTyped /\ EndIsSaid /\ ChatsTyped /\ SlotsTyped /\ LeftTyped
  BY DEF AgentTyped
<1>1. RunsTyped' /\ EndIsSaid'
  BY <1>a, NoEvents DEF Restart, RunsTyped, EndIsSaid, HubStates
<1>2. SlotsTyped'
  BY FreeGood DEF Restart, SlotsTyped
<1>3. LeftTyped'
  <2>1. asks' = asks /\ Fault
    BY DEF Restart
  <2> QED BY <1>a, <2>1, FaultTyped DEF LeftTyped
<1>4. ChatsTyped'
  <2>1. status' \in [Panels -> Statuses] /\ abort' \in [Panels -> Slots \cup {0}]
    BY <1>a DEF Restart, ChatsTyped, Statuses, Ends
  <2>2. hung' \in [Panels -> BOOLEAN]
    <3>1. hung' = [p \in Panels |-> hung[p] \/ Asking(p)]
      BY DEF Restart
    <3>2. \A p \in Panels : (hung[p] \/ Asking(p)) \in BOOLEAN
      OBVIOUS
    <3> QED BY <3>1, <3>2
  <2>3. UNCHANGED <<shown, rollback, saved, stopping, fresh>>
    BY DEF Restart
  <2> QED BY <1>a, <2>1, <2>2, <2>3 DEF ChatsTyped
<1> QED BY <1>1, <1>2, <1>3, <1>4 DEF AgentTyped

LEMMA EventFields ==
  ASSUME NEW e \in Events
  PROVE  /\ e.kind \in Ends \cup {"session_start", "file_changed"} /\ e.s \in Sessions
         /\ e.files \in SUBSET Paths /\ e.snap \in BOOLEAN
BY DEF Events

\* What the first event of a stream is.
LEMMA FirstEvent ==
  ASSUME NEW q \in Seq(Events), q # <<>>
  PROVE  Head(q) \in Events /\ Tail(q) \in Seq(Events)
OBVIOUS

\* A panel shows what an event tells it.
LEMMA ShownTyped ==
  ASSUME ChatsTyped, NEW p \in Panels, NEW k \in Slots, NEW e \in Events,
         slot[p][k].sid \in Sessions \cup {NoSession},
         \/ OnStart(p, k, e)
         \/ OnFileChanged(p, k, e)
         \/ e.kind \in Ends /\ OnEnd(p, k, e),
         UNCHANGED <<abort, stopping, hung>>
  PROVE  ChatsTyped'
<1>1. CASE OnStart(p, k, e)
  <2>1. [s |-> e.s, status |-> "running"] \in [s : Sessions \cup {NoSession}, status : Statuses]
    BY EventFields DEF Statuses
  <2> QED BY <1>1, <2>1, EventFields DEF OnStart, ChatsTyped
<1>2. CASE OnFileChanged(p, k, e)
  BY <1>2, EventFields DEF OnFileChanged, ChatsTyped
<1>3. CASE e.kind \in Ends /\ OnEnd(p, k, e)
  <2>1. e.kind \in Statuses /\ e.files \in SUBSET Paths /\ e.snap \in BOOLEAN
    BY <1>3, EventFields DEF Statuses
  <2>2. status' \in [Panels -> Statuses]
    BY <1>3, <2>1 DEF OnEnd, ChatsTyped
  <2>3. fresh' \in [Panels -> SUBSET Paths]
    <3>1. fresh[p] \in SUBSET Paths
      BY DEF ChatsTyped
    <3>2. (IF e.kind = "done" THEN fresh[p] \cup Missed(p, k, e) ELSE fresh[p]) \in SUBSET Paths
      BY <2>1, <3>1 DEF Missed
    <3> QED BY <1>3, <3>2 DEF OnEnd, ChatsTyped
  <2>4. rollback' \in [Panels -> BOOLEAN]
    BY <1>3 DEF OnEnd, ChatsTyped
  <2>5. saved' \in [Panels -> [s : Sessions \cup {NoSession}, status : Statuses]]
    <3>1. [s |-> slot[p][k].sid, status |-> e.kind]
            \in [s : Sessions \cup {NoSession}, status : Statuses]
      BY <2>1
    <3> QED BY <1>3, <3>1 DEF OnEnd, ChatsTyped
  <2>6. UNCHANGED shown
    BY <1>3 DEF OnEnd
  <2> QED BY <2>2, <2>3, <2>4, <2>5, <2>6 DEF ChatsTyped
<1> QED BY <1>1, <1>2, <1>3

\* The stream of a request is read, or fails.
LEMMA ReadStepTyped ==
  ASSUME AgentTyped, NEW p \in Panels, NEW k \in Slots,
         ReadEvent(p, k) \/ ReadEnd(p, k) \/ ReadFails(p, k) \/ RequestFails(p, k)
  PROVE  AgentTyped'
<1>a. RunsTyped /\ EndIsSaid /\ ChatsTyped /\ SlotsTyped /\ LeftTyped
  BY DEF AgentTyped
<1>b. PICK r : r = slot[p][k]
  OBVIOUS
<1>c. /\ r \in GoodSlots /\ r.sid \in Sessions \cup {NoSession} /\ r.queue \in Seq(Events)
      /\ r.more \in BOOLEAN /\ r.told \in SUBSET Paths
  BY <1>a, <1>b, SlotOf, SlotFields
<1>1. CASE ReadEvent(p, k)
  <2>1. PICK e : e = Head(r.queue)
    OBVIOUS
  <2>2. e \in Events /\ Tail(r.queue) \in Seq(Events)
    BY <1>b, <1>c, <1>1, <2>1, FirstEvent DEF ReadEvent
  <2>3. /\ \/ OnStart(p, k, e)
           \/ OnFileChanged(p, k, e)
           \/ e.kind \in Ends /\ OnEnd(p, k, e)
        /\ UNCHANGED serverVars /\ UNCHANGED <<abort, stopping, hung>>
        /\ asks' = asks /\ faults' = faults
    BY <1>b, <1>1, <2>1 DEF ReadEvent
  <2>4. ChatsTyped'
    BY <1>a, <1>b, <1>c, <2>2, <2>3, ShownTyped
  <2>5. SlotsTyped'
    <3>1. PICK sid, told, more :
            /\ sid = IF e.kind = "session_start" THEN e.s ELSE r.sid
            /\ told = IF e.kind = "file_changed" THEN r.told \cup e.files ELSE r.told
            /\ more = (r.more /\ e.kind \notin Ends)
      OBVIOUS
    <3>2. sid \in Sessions \cup {NoSession} /\ told \in SUBSET Paths /\ more \in BOOLEAN
      BY <1>c, <2>2, <3>1, EventFields
    <3>3. [r EXCEPT !.queue = Tail(r.queue), !.sid = sid, !.told = told, !.more = more]
            \in GoodSlots
      BY <1>c, <2>2, <3>2 DEF GoodSlots, SlotRecords
    <3>4. slot' = [slot EXCEPT ![p][k] =
                     [r EXCEPT !.queue = Tail(r.queue), !.sid = sid, !.told = told, !.more = more]]
      BY <1>b, <1>1, <2>1, <3>1 DEF ReadEvent
    <3> QED BY <1>a, <3>3, <3>4, SlotSet
  <2>6. RunsTyped' /\ EndIsSaid'
    BY <1>a, <2>3, RunsStay
  <2>7. LeftTyped'
    BY <1>a, <2>3 DEF LeftTyped
  <2> QED BY <2>4, <2>5, <2>6, <2>7 DEF AgentTyped
<1>d. CASE ReadEnd(p, k) \/ ReadFails(p, k) \/ RequestFails(p, k)
  <2>1. slot' = [slot EXCEPT ![p][k] = Free] /\ UNCHANGED serverVars /\ asks' = asks
    BY <1>d DEF ReadEnd, ReadFails, RequestFails
  <2>2. SlotsTyped'
    BY <1>a, <2>1, FreeGood, SlotSet
  <2>3. RunsTyped' /\ EndIsSaid'
    BY <1>a, <2>1, RunsStay
  <2>4. LeftTyped'
    <3>1. faults' = faults \/ Fault
      BY <1>d DEF ReadEnd, ReadFails, RequestFails
    <3>2. faults' \in Nat
      BY <1>a, <3>1, FaultTyped DEF LeftTyped
    <3> QED BY <1>a, <2>1, <3>2 DEF LeftTyped
  <2>5. ChatsTyped'
    <3>1. CASE ReadEnd(p, k)
      BY <1>a, <3>1 DEF ReadEnd, ChatsTyped
    <3>2. CASE ReadFails(p, k)
      BY <1>a, <3>2 DEF ReadFails, ChatsTyped, Statuses, Ends
    <3>3. CASE RequestFails(p, k)
      <4>1. UNCHANGED <<shown, rollback, saved, abort, stopping, fresh>>
        BY <3>3 DEF RequestFails
      <4>2. /\ status' = status \/ status' = [status EXCEPT ![p] = "error"]
            /\ hung' = hung \/ hung' = [hung EXCEPT ![p] = TRUE]
        BY <3>3 DEF RequestFails
      <4>3. status' \in [Panels -> Statuses] /\ hung' \in [Panels -> BOOLEAN]
        BY <1>a, <4>2 DEF ChatsTyped, Statuses, Ends
      <4> QED BY <1>a, <4>1, <4>3 DEF ChatsTyped
    <3> QED BY <1>d, <3>1, <3>2, <3>3
  <2> QED BY <2>2, <2>3, <2>4, <2>5 DEF AgentTyped
<1> QED BY <1>1, <1>d

LEMMA AgentStarts == AgentInit => AgentTyped
<1> SUFFICES ASSUME AgentInit PROVE AgentTyped
  OBVIOUS
<1>1. RunsTyped /\ EndIsSaid
  BY NoEvents DEF AgentInit, RunsTyped, EndIsSaid, Rows, HubStates
<1>2. ChatsTyped
  BY DEF AgentInit, ChatsTyped, Statuses, NoSaved
<1>3. SlotsTyped
  BY FreeGood DEF AgentInit, SlotsTyped
<1>4. LeftTyped
  BY AgentAssumption DEF AgentInit, LeftTyped
<1> QED BY <1>1, <1>2, <1>3, <1>4 DEF AgentTyped

\* Every step keeps the types.
LEMMA AgentStepTyped == AgentTyped /\ [AgentNext]_agentVars => AgentTyped'
<1> SUFFICES ASSUME AgentTyped, [AgentNext]_agentVars PROVE AgentTyped'
  OBVIOUS
<1>1. CASE UNCHANGED agentVars
  <2>1. UNCHANGED serverVars /\ UNCHANGED panelVars /\ UNCHANGED <<slot, asks, faults>>
    BY <1>1 DEF agentVars, serverVars, panelVars
  <2> QED BY <2>1, RunsStay, ChatsStay DEF AgentTyped, SlotsTyped, LeftTyped
<1>2. CASE AgentNext
  <2>1. \/ \E p \in Panels :
             \/ SendMessage(p) \/ Reload(p) \/ AutoReconnect(p) \/ ClearMessages(p)
             \/ Stop(p) \/ StopReturns(p)
             \/ \E s \in Sessions : LoadSession(p, s) \/ RollBack(p, s)
        \/ \E p \in Panels, k \in Slots :
             Subscribe(p, k) \/ Gone(p, k) \/ Begin(p, k) \/ Register(p, k) \/ Overloaded(p, k)
        \/ \E p \in Panels, k \in Slots :
             ReadEvent(p, k) \/ ReadEnd(p, k) \/ ReadFails(p, k) \/ RequestFails(p, k)
        \/ \E s \in Sessions :
             \/ \E f \in Paths : ChangeFile(s, f)
             \/ \E kind \in Ends : SayEnd(s, kind) \/ WriteFirst(s, kind) \/ SayLast(s, kind)
             \/ Finish(s) \/ MarkDone(s) \/ Unregister(s) \/ MarkStale(s)
        \/ Restart
    BY <1>2 DEF AgentNext, Serve, Read
  <2> QED BY <2>1, PanelStepTyped, ServeTyped, ReadStepTyped, RunStepTyped, RestartTyped
<1> QED BY <1>1, <1>2

\* The chat, its sessions and its streams hold what they are declared to hold.
THEOREM AgentTypes == AgentSpec => []AgentTypeOK
<1>1. AgentInit => AgentTyped
  BY AgentStarts
<1>2. AgentTyped /\ [AgentNext]_agentVars => AgentTyped'
  BY AgentStepTyped
<1>3. AgentTyped => AgentTypeOK
  <2> SUFFICES ASSUME AgentTyped PROVE AgentTypeOK
    OBVIOUS
  <2>1. slot \in [Panels -> [Slots -> SlotRecords]]
    <3>1. GoodSlots \subseteq SlotRecords
      BY DEF GoodSlots
    <3> QED BY <3>1 DEF AgentTyped, SlotsTyped
  <2> QED BY <2>1 DEF AgentTyped, RunsTyped, ChatsTyped, LeftTyped, AgentTypeOK, SlotRecords, HubStates
<1> QED BY <1>1, <1>2, <1>3, PTL DEF AgentSpec

-----------------------------------------------------------------------------
(* A stream loses its first event to its reader alone: every other step leaves its queue, *)
(* makes it longer, or takes the stream away.                                              *)

Kept(r, n) ==
  \/ n.state # "open"
  \/ n.queue = r.queue
  \/ \E e \in Events : n.queue = Append(r.queue, e)
  \/ \E b \in Seq(Events) : n.queue = r.queue \o b

\* What is kept has not lost its first event.
LEMMA KeptIsNotRead ==
  ASSUME NEW r \in GoodSlots, NEW n, Kept(r, n), r.queue # <<>>, n.state = "open"
  PROVE  n.queue # Tail(r.queue)
<1>1. PICK q : q = r.queue
  OBVIOUS
<1>2. q \in Seq(Events) /\ q # <<>>
  BY <1>1, SlotFields
<1>3. Len(Tail(q)) < Len(q)
  BY <1>2
<1>4. \A e \in Events : Len(Append(q, e)) = Len(q) + 1
  BY <1>2
<1>5. \A b \in Seq(Events) : Len(q \o b) = Len(q) + Len(b) /\ Len(b) \in Nat
  BY <1>2
<1>6. Len(q) \in Nat /\ Len(Tail(q)) \in Nat
  BY <1>2
<1>7. CASE n.queue = q
  <2>1. Tail(q) # q
    <3> SUFFICES ASSUME Tail(q) = q PROVE Len(Tail(q)) = Len(q)
      BY <1>3, <1>6
    <3> QED OBVIOUS
  <2> QED BY <1>1, <1>7, <2>1
<1>8. ASSUME NEW e \in Events, n.queue = Append(q, e) PROVE n.queue # Tail(r.queue)
  BY <1>1, <1>3, <1>4, <1>6, <1>8
<1>9. ASSUME NEW b \in Seq(Events), n.queue = q \o b PROVE n.queue # Tail(r.queue)
  BY <1>1, <1>3, <1>5, <1>6, <1>9
<1> QED BY <1>1, <1>7, <1>8, <1>9 DEF Kept

\* A panel asks, leaves, is loaded anew or stopped.
LEMMA PanelsKeepQueues ==
  ASSUME AgentTyped, NEW p \in Panels, NEW k \in Slots, NEW q \in Panels,
         \/ SendMessage(q) \/ Reload(q) \/ AutoReconnect(q) \/ ClearMessages(q)
         \/ Stop(q) \/ StopReturns(q)
         \/ \E s \in Sessions : LoadSession(q, s) \/ RollBack(q, s)
  PROVE  Kept(slot[p][k], slot'[p][k])
<1>a. SlotsTyped /\ ChatsTyped
  BY DEF AgentTyped
<1>b. ASSUME slot'[p][k] = slot[p][k] PROVE Kept(slot[p][k], slot'[p][k])
  BY <1>b DEF Kept
<1>c. ASSUME NEW s \in Sessions \cup {NoSession}, NEW msg \in BOOLEAN, Post(q, s, msg)
      PROVE  Kept(slot[p][k], slot'[p][k])
  <2>1. PICK j \in Slots :
          slot' = [slot EXCEPT ![q][j] = [Free EXCEPT !.state = "sent", !.sid = s,
                                                      !.msg = msg, !.heard = TRUE]]
    BY <1>c DEF Post
  <2>2. PICK r : r = [Free EXCEPT !.state = "sent", !.sid = s, !.msg = msg, !.heard = TRUE]
    OBVIOUS
  <2>3. r \in GoodSlots /\ r.state = "sent"
    BY <2>2, NoEvents DEF Free, GoodSlots, SlotRecords, SlotStates
  <2>4. slot'[p][k] = r \/ slot'[p][k] = slot[p][k]
    BY <1>a, <2>1, <2>2, <2>3, SlotSet
  <2> QED BY <1>b, <2>3, <2>4 DEF Kept
<1>1. CASE SendMessage(q)
  <2>1. shown[q] \in Sessions \cup {NoSession} /\ Post(q, shown[q], TRUE)
    BY <1>a, <1>1 DEF ChatsTyped, SendMessage
  <2> QED BY <1>c, <2>1
<1>2. CASE Reload(q)
  <2>1. slot' = [slot EXCEPT ![q] = [j \in Slots |-> Abandon(slot[q][j])]]
    BY <1>2 DEF Reload
  <2>2. slot'[p][k] = slot[p][k] \/ slot'[p][k] = Abandon(slot[p][k])
    BY <1>a, <2>1 DEF SlotsTyped
  <2> QED BY <1>a, <1>b, <2>2, SlotOf, AbandonGood DEF Kept
<1>3. CASE AutoReconnect(q)
  <2>1. saved[q].s \in Sessions \cup {NoSession} /\ Post(q, saved[q].s, FALSE)
    BY <1>a, <1>3 DEF ChatsTyped, AutoReconnect, Reconnect
  <2> QED BY <1>c, <2>1
<1>4. CASE ClearMessages(q) \/ StopReturns(q)
  BY <1>b, <1>4 DEF ClearMessages, StopReturns
<1>5. CASE Stop(q)
  <2>1. CASE abort[q] = 0
    BY <1>b, <1>5, <2>1 DEF Stop
  <2>2. CASE abort[q] # 0
    <3>1. abort[q] \in Slots /\ slot' = [slot EXCEPT ![q][abort[q]] = Abandon(slot[q][abort[q]])]
      BY <1>a, <1>5, <2>2 DEF ChatsTyped, Stop
    <3>2. Abandon(slot[q][abort[q]]) \in GoodSlots /\ Abandon(slot[q][abort[q]]).state # "open"
      BY <1>a, <3>1, SlotOf, AbandonGood
    <3>3. slot'[p][k] = slot[p][k] \/ slot'[p][k] = Abandon(slot[q][abort[q]])
      BY <1>a, <3>1, <3>2, SlotSet
    <3> QED BY <1>b, <3>2, <3>3 DEF Kept
  <2> QED BY <2>1, <2>2
<1>6. ASSUME NEW s \in Sessions, LoadSession(q, s) \/ RollBack(q, s)
      PROVE  Kept(slot[p][k], slot'[p][k])
  <2>1. Post(q, s, FALSE) \/ slot' = slot
    BY <1>6 DEF LoadSession, Reconnect, RollBack
  <2> QED BY <1>b, <1>c, <2>1
<1> QED BY <1>1, <1>2, <1>3, <1>4, <1>5, <1>6

\* The server answers a request, a stream ends or breaks, or another one is read.
LEMMA StreamsKeepQueues ==
  ASSUME AgentTyped, NEW p \in Panels, NEW k \in Slots, NEW q \in Panels, NEW j \in Slots,
         \/ Subscribe(q, j) \/ Gone(q, j) \/ Begin(q, j) \/ Register(q, j) \/ Overloaded(q, j)
         \/ ReadEnd(q, j) \/ ReadFails(q, j) \/ RequestFails(q, j)
         \/ (p # q \/ k # j) /\ ReadEvent(q, j)
  PROVE  Kept(slot[p][k], slot'[p][k])
<1>a. SlotsTyped /\ RunsTyped
  BY DEF AgentTyped
<1>b. CASE p # q \/ k # j
  <2>1. PICK n : slot' = [slot EXCEPT ![q][j] = n]
    BY DEF Subscribe, Gone, Begin, Register, Overloaded, ReadEnd, ReadFails, RequestFails, ReadEvent
  <2>2. slot'[p][k] = slot[p][k]
    BY <1>a, <1>b, <2>1 DEF SlotsTyped
  <2> QED BY <2>2 DEF Kept
<1>c. CASE p = q /\ k = j
  <2>a. PICK r : r = slot[p][k]
    OBVIOUS
  <2>b. r \in GoodSlots /\ (r.state = "starting" => r.src \in Sessions)
    BY <1>a, <2>a, SlotOf, SlotFields
  <2>c. ASSUME NEW n, slot' = [slot EXCEPT ![p][k] = n] PROVE slot'[p][k] = n
    BY <1>a, <2>c DEF SlotsTyped
  <2>d. ASSUME NEW s \in Sessions, NEW more \in BOOLEAN,
               slot' = [slot EXCEPT ![p][k] = Open(s, r, more)]
        PROVE  Kept(slot[p][k], slot'[p][k])
    <3>1. slot'[p][k] = Open(s, r, more)
      BY <2>c, <2>d
    <3>2. Open(s, r, more).state = "open" => Open(s, r, more).queue = r.queue \o buf[s]
      BY <1>a, <2>b, OpenGood
    <3>3. buf[s] \in Seq(Events)
      BY <1>a DEF RunsTyped
    <3> QED BY <2>a, <3>1, <3>2, <3>3 DEF Kept
  <2>1. CASE Subscribe(p, k)
    <3>1. Target(r) \in Sessions /\ (hub[Target(r)] # "done") \in BOOLEAN
      BY <1>a, <2>a, <2>b, <2>1, TargetIs DEF Subscribe
    <3>2. slot' = [slot EXCEPT ![p][k] = Open(Target(r), r, hub[Target(r)] # "done")]
      BY <2>a, <2>1 DEF Subscribe
    <3> QED BY <2>d, <3>1, <3>2
  <2>2. CASE Gone(p, k) \/ ReadEnd(p, k) \/ ReadFails(p, k) \/ RequestFails(p, k)
    <3>1. slot' = [slot EXCEPT ![p][k] = Free]
      BY <2>2 DEF Gone, ReadEnd, ReadFails, RequestFails
    <3> QED BY <2>c, <3>1, FreeGood DEF Kept
  <2>3. CASE Begin(p, k)
    <3>1. PICK n, x : slot' = [slot EXCEPT ![p][k] = n]
                      /\ n = [r EXCEPT !.state = "starting", !.src = x[1], !.queue = x[2]]
      <4>1. PICK s \in Sessions :
              slot' = [slot EXCEPT ![p][k] =
                [r EXCEPT !.state = "starting", !.src = s,
                 !.queue = IF r.heard THEN <<Event("session_start", s, {}, r.sid = NoSession)>>
                           ELSE <<>>]]
        BY <2>a, <2>3 DEF Begin
      <4>2. PICK y : y = IF r.heard THEN <<Event("session_start", s, {}, r.sid = NoSession)>>
                         ELSE <<>>
        OBVIOUS
      <4>3. <<s, y>>[1] = s /\ <<s, y>>[2] = y
        OBVIOUS
      <4> QED BY <4>1, <4>2, <4>3
    <3>2. n.state = "starting"
      BY <2>b, <3>1 DEF GoodSlots, SlotRecords
    <3> QED BY <2>c, <3>1, <3>2 DEF Kept
  <2>4. CASE Register(p, k)
    <3>1. CASE active = NoSession
      <4>1. slot' = [slot EXCEPT ![p][k] = IF r.heard THEN [r EXCEPT !.state = "open", !.more = TRUE]
                                           ELSE Free]
        BY <2>a, <2>4, <3>1 DEF Register
      <4>2. [r EXCEPT !.state = "open", !.more = TRUE].queue = r.queue
        BY <2>b DEF GoodSlots, SlotRecords
      <4> QED BY <2>a, <2>c, <4>1, <4>2, FreeGood DEF Kept
    <3>2. CASE active # NoSession
      <4>1. active \in Sessions /\ slot' = [slot EXCEPT ![p][k] = Open(active, r, TRUE)]
        BY <1>a, <2>a, <2>4, <3>2 DEF Register, RunsTyped
      <4> QED BY <2>d, <4>1
    <3> QED BY <3>1, <3>2
  <2>5. CASE Overloaded(p, k)
    <3>1. PICK e : e = Event("error", r.src, {}, TRUE)
      OBVIOUS
    <3>2. e \in Events
      BY <2>a, <2>b, <2>5, <3>1, EventTyped DEF Ends, Overloaded
    <3>3. slot' = [slot EXCEPT ![p][k] =
            IF r.heard THEN [r EXCEPT !.state = "open", !.more = FALSE, !.queue = Append(r.queue, e)]
            ELSE Free]
      BY <2>a, <2>5, <3>1 DEF Overloaded
    <3>4. [r EXCEPT !.state = "open", !.more = FALSE, !.queue = Append(r.queue, e)].queue
            = Append(r.queue, e)
      BY <2>b DEF GoodSlots, SlotRecords
    <3> QED BY <2>a, <2>c, <3>2, <3>3, <3>4, FreeGood DEF Kept
  <2> QED BY <1>c, <2>1, <2>2, <2>3, <2>4, <2>5
<1> QED BY <1>b, <1>c

\* The agent of a session speaks, or is done.
LEMMA RunsKeepQueues ==
  ASSUME AgentTyped, NEW p \in Panels, NEW k \in Slots, NEW s \in Sessions,
         \/ \E f \in Paths : ChangeFile(s, f)
         \/ \E kind \in Ends : SayEnd(s, kind) \/ WriteFirst(s, kind) \/ SayLast(s, kind)
         \/ Finish(s) \/ MarkDone(s) \/ Unregister(s) \/ MarkStale(s)
  PROVE  Kept(slot[p][k], slot'[p][k])
<1>a. RunsTyped /\ SlotsTyped /\ LeftTyped /\ hung \in [Panels -> BOOLEAN]
      /\ changed[s] \in SUBSET Paths /\ slot[p][k] \in GoodSlots
  BY SlotOf DEF AgentTyped, ChatsTyped, RunsTyped
<1>b. ASSUME NEW e \in Events, Publish(s, e) PROVE Kept(slot[p][k], slot'[p][k])
  BY <1>a, <1>b, PublishTyped DEF Kept
<1>1. ASSUME NEW f \in Paths, ChangeFile(s, f) PROVE Kept(slot[p][k], slot'[p][k])
  <2>1. Event("file_changed", s, {f}, TRUE) \in Events
    BY EventTyped
  <2> QED BY <1>b, <1>1, <2>1 DEF ChangeFile
<1>2. ASSUME NEW kind \in Ends, SayEnd(s, kind) \/ SayLast(s, kind)
      PROVE Kept(slot[p][k], slot'[p][k])
  <2>1. PICK snap \in BOOLEAN : snap = (changed[s] # {})
    OBVIOUS
  <2>2. Event(kind, s, changed[s], snap) \in Events
    BY <1>a, EventTyped
  <2> QED BY <1>b, <1>2, <2>1, <2>2 DEF SayEnd, SayLast
<1>3. CASE \/ Finish(s) \/ Unregister(s) \/ MarkStale(s)
           \/ \E kind \in Ends : WriteFirst(s, kind)
  BY <1>3 DEF Finish, Unregister, MarkStale, WriteFirst, Kept
<1>4. CASE MarkDone(s)
  <2>1. slot'[p][k] = slot[p][k] \/ slot'[p][k] = [slot[p][k] EXCEPT !.more = FALSE]
    BY <1>4 DEF MarkDone
  <2>2. [slot[p][k] EXCEPT !.more = FALSE].queue = slot[p][k].queue
    BY <1>a DEF GoodSlots, SlotRecords
  <2> QED BY <2>1, <2>2 DEF Kept
<1> QED BY <1>1, <1>2, <1>3, <1>4

\* The panel that reads done has, or was told of, every file the run changed.
LEMMA DoneShows ==
  ASSUME AgentTyped, AgentNext, NEW p \in Panels, NEW k \in Slots,
         slot[p][k].queue # <<>>, Head(slot[p][k].queue).kind = "done",
         slot'[p][k].state = "open", slot'[p][k].queue = Tail(slot[p][k].queue)
  PROVE  Head(slot[p][k].queue).files \subseteq fresh'[p] \cup slot[p][k].told
<1>a. slot[p][k] \in GoodSlots /\ fresh \in [Panels -> SUBSET Paths]
  BY SlotOf DEF AgentTyped, ChatsTyped
<1>1. ReadEvent(p, k)
  <2> SUFFICES ASSUME ~ReadEvent(p, k) PROVE Kept(slot[p][k], slot'[p][k])
    BY <1>a, KeptIsNotRead
  <2>1. \/ \E q \in Panels :
             \/ SendMessage(q) \/ Reload(q) \/ AutoReconnect(q) \/ ClearMessages(q)
             \/ Stop(q) \/ StopReturns(q)
             \/ \E s \in Sessions : LoadSession(q, s) \/ RollBack(q, s)
        \/ \E q \in Panels, j \in Slots :
             \/ Subscribe(q, j) \/ Gone(q, j) \/ Begin(q, j) \/ Register(q, j) \/ Overloaded(q, j)
             \/ ReadEnd(q, j) \/ ReadFails(q, j) \/ RequestFails(q, j)
             \/ ReadEvent(q, j)
        \/ \E s \in Sessions :
             \/ \E f \in Paths : ChangeFile(s, f)
             \/ \E kind \in Ends : SayEnd(s, kind) \/ WriteFirst(s, kind) \/ SayLast(s, kind)
             \/ Finish(s) \/ MarkDone(s) \/ Unregister(s) \/ MarkStale(s)
        \/ Restart
    BY DEF AgentNext, Serve, Read
  <2>2. ASSUME NEW q \in Panels, NEW j \in Slots, ReadEvent(q, j) PROVE p # q \/ k # j
    BY <2>2
  <2>3. CASE Restart
    BY <2>3, FreeGood DEF Restart, Kept
  <2> QED BY <2>1, <2>2, <2>3, PanelsKeepQueues, StreamsKeepQueues, RunsKeepQueues
<1>2. PICK e : e = Head(slot[p][k].queue)
  OBVIOUS
<1>3. OnEnd(p, k, e)
  BY <1>1, <1>2 DEF ReadEvent
<1>4. fresh'[p] = fresh[p] \cup (e.files \ slot[p][k].told)
  BY <1>a, <1>2, <1>3 DEF OnEnd, Missed
<1> QED BY <1>2, <1>4

\* A stream that ends with done has told the editor of every file of that run, those whose own
\* event was dropped included.
THEOREM AgentsShowTheirChanges == AgentSpec => ChangesAreShown
<1>1. AgentInit => AgentTyped
  BY AgentStarts
<1>2. AgentTyped /\ [AgentNext]_agentVars => AgentTyped'
  BY AgentStepTyped
<1>3. ASSUME AgentTyped, [AgentNext]_agentVars
      PROVE  [\A p \in Panels, k \in Slots :
                LET r == slot[p][k] IN
                (r.heard /\ r.queue # <<>> /\ Head(r.queue).kind = "done"
                  /\ slot'[p][k].state = "open" /\ slot'[p][k].queue = Tail(r.queue))
                  => Head(r.queue).files \subseteq fresh'[p] \cup r.told]_agentVars
  BY <1>3, DoneShows
<1> QED BY <1>1, <1>2, <1>3, PTL DEF AgentSpec, ChangesAreShown
-----------------------------------------------------------------------------
(* The cache of answers, for every time to live and every order of the answers. *)

\* What AnswersAreDated rests on: no request is made in the future.
MadeBeforeNow == \A r \in Requests : requests[r].at \in 0..now

CacheInv == CacheTypeOK /\ AnswersAreDated /\ MadeBeforeNow

\* CurrentSince, of a given state of the server: what a step makes of the server is spelled
\* out, and v and t stay what they are.
Dated(v, t, ver, rep) == v = ver \/ (v \in 1..(ver - 1) /\ t <= rep[v])
-----------------------------------------------------------------------------
\* An entry that dates from t stays so as the clock goes on and the data change.
LEMMA DatesLast ==
  ASSUME NEW v \in Nat, NEW t \in 0..now, CacheTypeOK, Dated(v, t, version, replaced),
         \/ version' = version /\ replaced' = replaced
         \/ Write
  PROVE  Dated(v, t, version', replaced')
<1>1. CASE version' = version /\ replaced' = replaced
  BY <1>1 DEF Dated
<1>2. CASE Write
  <2>1. version \in 1..MaxVersion /\ version < MaxVersion /\ MaxVersion \in Nat
    BY <1>2, CacheAssumption DEF Write, CacheTypeOK
  <2>2. version' = version + 1 /\ replaced' = [replaced EXCEPT ![version] = now]
    BY <1>2 DEF Write
  <2>3. \A w \in 1..MaxVersion : replaced'[w] = IF w = version THEN now ELSE replaced[w]
    BY <2>2 DEF CacheTypeOK
  <2>4. CASE v = version
    BY <2>1, <2>2, <2>3, <2>4 DEF Dated, CacheTypeOK
  <2>5. CASE v \in 1..(version - 1) /\ t <= replaced[v]
    BY <2>1, <2>2, <2>3, <2>5 DEF Dated, CacheTypeOK
  <2> QED BY <2>4, <2>5 DEF Dated
<1> QED BY <1>1, <1>2

\* The initial states satisfy the invariant.
LEMMA CacheStarts == CacheInit => CacheInv
  BY CacheAssumption
  DEF CacheInit, CacheInv, CacheTypeOK, AnswersAreDated, MadeBeforeNow, Unused, NoEntry

\* The types are kept by every step.
LEMMA CacheTypeStep == CacheInv /\ [CacheNext]_cacheVars => CacheTypeOK'
<1> SUFFICES ASSUME CacheInv, [CacheNext]_cacheVars PROVE CacheTypeOK'
  OBVIOUS
<1> USE CacheAssumption DEF CacheInv, CacheTypeOK, NoEntry, Unused
<1>1. CASE Elapse BY <1>1 DEF Elapse
<1>2. CASE Write
  BY <1>2 DEF Write
<1>3. CASE Hit BY <1>3 DEF Hit
<1>4. CASE Invalidate BY <1>4 DEF Invalidate
<1>5. ASSUME NEW r \in Requests, NEW bypass \in BOOLEAN, Send(r, bypass) PROVE CacheTypeOK'
  BY <1>5 DEF Send
<1>6. ASSUME NEW r \in Requests, Answered(r) PROVE CacheTypeOK'
  BY <1>6 DEF Answered
<1>7. ASSUME NEW r \in Requests, Keep(r) PROVE CacheTypeOK'
  BY <1>7 DEF Keep
<1>8. ASSUME NEW r \in Requests, Rejected(r) PROVE CacheTypeOK'
  BY <1>8 DEF Rejected
<1>9. CASE UNCHANGED cacheVars BY <1>9 DEF cacheVars
<1> QED BY <1>1, <1>2, <1>3, <1>4, <1>5, <1>6, <1>7, <1>8, <1>9 DEF CacheNext

\* Whatever arrives last, what is kept dates from when its request was made.
LEMMA CacheKept == CacheInv /\ [CacheNext]_cacheVars => CacheInv'
<1> SUFFICES ASSUME CacheInv, [CacheNext]_cacheVars PROVE AnswersAreDated' /\ MadeBeforeNow'
  BY CacheTypeStep DEF CacheInv
<1> USE CacheAssumption
<1>a. now \in Nat /\ now' \in Nat /\ now <= now'
  <2>1. now' = now \/ now' = now + 1
    BY DEF CacheNext, cacheVars, Elapse, Write, Hit, Invalidate, Send, Answered, Keep, Rejected
  <2>2. now \in Nat
    BY DEF CacheInv, CacheTypeOK
  <2> QED BY <2>1, <2>2
<1>b. ASSUME requests' = requests, cached' = cached, (version' = version /\ replaced' = replaced) \/ Write
      PROVE  AnswersAreDated' /\ MadeBeforeNow'
  <2>1. /\ cached.value \in Nat
        /\ \A r \in Requests : requests[r].got \in Nat /\ requests[r].at \in 0..now
    BY DEF CacheInv, CacheTypeOK, MadeBeforeNow
  <2>2. \A r \in Requests : requests[r].stage = "read" =>
           Dated(requests[r].got, requests[r].at, version', replaced')
    <3>1. \A r \in Requests : requests[r].stage = "read" =>
             Dated(requests[r].got, requests[r].at, version, replaced)
      BY DEF CacheInv, AnswersAreDated, CurrentSince, Dated
    <3> QED BY <1>b, <2>1, <3>1, DatesLast DEF CacheInv
  <2>3. \/ cached = NoEntry
        \/ \E t \in 0..now : cached.expires = t + Ttl /\ Dated(cached.value, t, version', replaced')
    <3>1. \/ cached = NoEntry
          \/ \E t \in 0..now : cached.expires = t + Ttl /\ Dated(cached.value, t, version, replaced)
      BY DEF CacheInv, AnswersAreDated, CurrentSince, Dated
    <3>2. ASSUME NEW t \in 0..now, Dated(cached.value, t, version, replaced)
          PROVE  Dated(cached.value, t, version', replaced')
      <4>1. cached.value \in Nat /\ CacheTypeOK
        BY <2>1 DEF CacheInv
      <4> QED BY <1>b, <3>2, <4>1, DatesLast
    <3> QED BY <3>1, <3>2
  <2>4. \/ cached = NoEntry
        \/ \E t \in 0..now' : cached.expires = t + Ttl /\ Dated(cached.value, t, version', replaced')
    <3>1. 0..now \subseteq 0..now'
      BY <1>a
    <3> QED BY <2>3, <3>1
  <2>5. MadeBeforeNow'
    BY <1>a, <1>b DEF CacheInv, MadeBeforeNow
  <2> QED BY <1>b, <2>2, <2>4, <2>5 DEF AnswersAreDated, NoEntry, CurrentSince, Dated
<1>c. ASSUME NEW r \in Requests,
             UNCHANGED <<now, version, replaced>>,
             requests' = [requests EXCEPT ![r] = Unused]
      PROVE  /\ \A q \in Requests : requests'[q].stage = "read" =>
                  Dated(requests'[q].got, requests'[q].at, version', replaced')
             /\ MadeBeforeNow'
  <2>1. \A q \in Requests : requests'[q] = IF q = r THEN Unused ELSE requests[q]
    BY <1>c DEF CacheInv, CacheTypeOK
  <2>2. \A q \in Requests : requests[q].stage = "read" =>
           Dated(requests[q].got, requests[q].at, version', replaced')
    BY <1>c DEF CacheInv, AnswersAreDated, CurrentSince, Dated
  <2>3. Unused.stage # "read" /\ Unused.at = 0
    BY DEF Unused
  <2>4. \A q \in Requests : requests'[q].stage = "read" =>
           Dated(requests'[q].got, requests'[q].at, version', replaced')
    BY <2>1, <2>2, <2>3
  <2>5. MadeBeforeNow'
    BY <1>a, <1>c, <2>1, <2>3 DEF CacheInv, MadeBeforeNow
  <2> QED BY <2>4, <2>5
<1>1. CASE Elapse BY <1>1, <1>b DEF Elapse
<1>2. CASE Write BY <1>2, <1>b DEF Write
<1>3. CASE Hit BY <1>3, <1>b DEF Hit
<1>4. CASE Invalidate
  BY <1>4 DEF Invalidate, CacheInv, CacheTypeOK, AnswersAreDated, MadeBeforeNow, CurrentSince
<1>5. ASSUME NEW r \in Requests, NEW bypass \in BOOLEAN, Send(r, bypass)
      PROVE  AnswersAreDated' /\ MadeBeforeNow'
  BY <1>5 DEF Send, CacheInv, CacheTypeOK, AnswersAreDated, MadeBeforeNow, CurrentSince, NoEntry
<1>6. ASSUME NEW r \in Requests, Answered(r) PROVE AnswersAreDated' /\ MadeBeforeNow'
  BY <1>6 DEF Answered, CacheInv, CacheTypeOK, AnswersAreDated, MadeBeforeNow, CurrentSince, NoEntry
<1>7. ASSUME NEW r \in Requests, Keep(r) PROVE AnswersAreDated' /\ MadeBeforeNow'
  <2>1. /\ UNCHANGED <<now, version, replaced>>
        /\ requests' = [requests EXCEPT ![r] = Unused]
        /\ cached' = [value |-> requests[r].got, expires |-> requests[r].at + Ttl]
    BY <1>7 DEF Keep
  <2>2. requests[r].at \in 0..now /\ Dated(requests[r].got, requests[r].at, version, replaced)
    BY <1>7 DEF Keep, CacheInv, AnswersAreDated, MadeBeforeNow, CurrentSince, Dated
  <2>3. \E t \in 0..now' : cached'.expires = t + Ttl /\ Dated(cached'.value, t, version', replaced')
    BY <2>1, <2>2
  <2> QED BY <1>c, <2>1, <2>3 DEF AnswersAreDated, CurrentSince, Dated
<1>8. ASSUME NEW r \in Requests, Rejected(r) PROVE AnswersAreDated' /\ MadeBeforeNow'
  <2>1. /\ UNCHANGED <<now, version, replaced, cached>>
        /\ requests' = [requests EXCEPT ![r] = Unused]
    BY <1>8 DEF Rejected
  <2>2. cached' = NoEntry \/ \E t \in 0..now' : cached'.expires = t + Ttl
                                                /\ Dated(cached'.value, t, version', replaced')
    BY <2>1 DEF CacheInv, AnswersAreDated, CurrentSince, Dated
  <2> QED BY <1>c, <2>1, <2>2 DEF AnswersAreDated, NoEntry, CurrentSince, Dated
<1>9. CASE UNCHANGED cacheVars
  BY <1>9, <1>b DEF cacheVars
<1> QED BY <1>1, <1>2, <1>3, <1>4, <1>5, <1>6, <1>7, <1>8, <1>9 DEF CacheNext

\* The invariant holds of every behaviour of the cache.
LEMMA CacheInvAlways == CacheSpec => []CacheInv
<1>1. CacheInit => CacheInv
  BY CacheStarts
<1>2. CacheInv /\ [CacheNext]_cacheVars => CacheInv'
  BY CacheKept
<1> QED BY <1>1, <1>2, PTL DEF CacheSpec

\* authFetchCached: what is kept, and what is on its way to be kept, is as recent as its
\* dates say, in whatever order requests, answers and invalidations come.
THEOREM AnswersStayDated == CacheSpec => []AnswersAreDated
<1>1. CacheInv => AnswersAreDated
  BY DEF CacheInv
<1> QED BY <1>1, CacheInvAlways, PTL

\* authFetchCached never answers from its cache what was replaced Ttl ago or longer: every
\* step of the cache is a step of FreshReads, or changes nothing FreshReads knows of.
THEOREM CacheImplementsFreshReads == CacheSpec => ShownIsFresh
<1> USE DEF F!FreshInit, F!freshVars
<1>1. CacheInit => F!FreshInit
  BY DEF CacheInit
<1>2. CacheInv /\ [CacheNext]_cacheVars => [F!Wait \/ F!Change \/ F!Answer]_F!freshVars
  <2> SUFFICES ASSUME CacheInv, [CacheNext]_cacheVars
               PROVE  [F!Wait \/ F!Change \/ F!Answer]_F!freshVars
    OBVIOUS
  <2>1. CASE Elapse BY <2>1 DEF Elapse, F!Wait
  <2>2. CASE Write BY <2>2 DEF Write, F!Change
  <2>3. CASE Hit
    <3>1. /\ taken' = cached.value /\ UNCHANGED <<now, version, replaced>>
          /\ cached.expires > now
      BY <2>3 DEF Hit, Valid
    <3>2. now \in Nat /\ version \in 1..MaxVersion /\ cached.value \in 0..version /\ MaxVersion \in Nat
          /\ Ttl \in Nat /\ replaced \in [1..MaxVersion -> Nat]
      BY CacheAssumption DEF CacheInv, CacheTypeOK
    <3>3. PICK t \in 0..now : cached.expires = t + Ttl /\ CurrentSince(cached.value, t)
      BY <3>1, <3>2 DEF CacheInv, AnswersAreDated, NoEntry
    <3>4. cached.value \in 1..version /\ F!Fresh(cached.value)
      <4>1. CASE cached.value = version
        BY <4>1, <3>2 DEF F!Fresh
      <4>2. CASE cached.value \in 1..(version - 1) /\ t <= replaced[cached.value]
        BY <4>2, <3>1, <3>2, <3>3 DEF F!Fresh
      <4> QED BY <3>3, <4>1, <4>2 DEF CurrentSince
    <3>5. F!Fresh(taken')
      BY <3>1, <3>4
    <3> QED BY <3>1, <3>4, <3>5 DEF F!Answer
  <2>4. CASE Invalidate BY <2>4 DEF Invalidate
  <2>5. ASSUME NEW r \in Requests, NEW bypass \in BOOLEAN, Send(r, bypass)
        PROVE  UNCHANGED F!freshVars
    BY <2>5 DEF Send
  <2>6. ASSUME NEW r \in Requests, Answered(r) \/ Keep(r) \/ Rejected(r)
        PROVE  UNCHANGED F!freshVars
    BY <2>6 DEF Answered, Keep, Rejected
  <2>7. CASE UNCHANGED cacheVars BY <2>7 DEF cacheVars
  <2> QED BY <2>1, <2>2, <2>3, <2>4, <2>5, <2>6, <2>7 DEF CacheNext
<1> QED BY <1>1, <1>2, CacheInvAlways, PTL DEF CacheSpec, ShownIsFresh, F!FreshSpec

-----------------------------------------------------------------------------
(***************************************************************************)
(* The pool of SSH connections.  The count `open` is a number beside the   *)
(* sets it counts: the invariant says that it is the idle connections and  *)
(* the reserved slots together.                                            *)
(***************************************************************************)
SlotsAreCounted ==
  IsFiniteSet(idle) /\ open = Cardinality(idle) + Cardinality(Reserved)

LeasesAreReal == \A c \in Leased : lease[c] \in Connections

Closing == shut => closed /\ idle = {}

PoolInv ==
  PoolTypeOK /\ SlotsAreCounted /\ LeasesAreReal /\ ConnectionsHaveOwners /\ Closing
-----------------------------------------------------------------------------
LEMMA ReservedFinite ==
  IsFiniteSet(Reserved) /\ Cardinality(Reserved) \in Nat
BY PoolAssumption, FS_Subset, FS_CardinalityType DEF Reserved

\* Who goes to dial or to use has a slot.
LEMMA GoIn ==
  ASSUME PoolTypeOK, NEW c \in Callers, NEW place \in {"dial", "use"}, Goto(c, place)
  PROVE  Reserved' = Reserved \cup {c}
BY DEF PoolTypeOK, Goto, Reserved

\* Who goes elsewhere has none.
LEMMA GoOut ==
  ASSUME PoolTypeOK, NEW c \in Callers, NEW place \in Places \ {"dial", "use"}, Goto(c, place)
  PROVE  Reserved' = Reserved \ {c} /\ Leased' = Leased \ {c}
BY DEF PoolTypeOK, Goto, Reserved, Leased, Places

\* Who goes to use has a lease.
LEMMA GoUse ==
  ASSUME PoolTypeOK, NEW c \in Callers, Goto(c, "use")
  PROVE  Leased' = Leased \cup {c}
BY DEF PoolTypeOK, Goto, Leased

\* Leaving without a slot changes nothing but the place.
LEMMA MoveKeeps ==
  ASSUME PoolInv, NEW c \in Callers, c \notin Reserved,
         NEW place \in Places \ {"dial", "use"}, Goto(c, place),
         UNCHANGED <<closed, shut, open, idle, alive, lease>>,
         again' \in [Callers -> BOOLEAN], uses' \in [Callers -> 0..MaxUses]
  PROVE  PoolInv'
<1>1. Reserved' = Reserved /\ Leased' = Leased
  BY GoOut DEF PoolInv, Reserved, Leased
<1>2. PoolTypeOK'
  BY DEF PoolInv, PoolTypeOK, Goto
<1> QED
  BY <1>1, <1>2 DEF PoolInv, SlotsAreCounted, LeasesAreReal, ConnectionsHaveOwners, Closing

\* The connection of a lease is closed and its slot is given back.
LEMMA DropKeeps ==
  ASSUME PoolInv, NEW c \in Callers, at[c] = "use", Drop(c),
         NEW place \in Places \ {"dial", "use"}, Goto(c, place),
         UNCHANGED <<closed, shut, uses>>, again' \in [Callers -> BOOLEAN]
  PROVE  PoolInv'
<1> USE DEF PoolInv
<1>1. c \in Reserved /\ c \in Leased
  BY DEF Reserved, Leased
<1>2. Reserved' = Reserved \ {c} /\ Leased' = Leased \ {c}
  BY GoOut
<1>3. Cardinality(Reserved') = Cardinality(Reserved) - 1 /\ Cardinality(Reserved') \in Nat
  BY <1>1, <1>2, ReservedFinite, FS_RemoveElement, FS_CardinalityType
<1>4. Cardinality(idle) \in Nat
  BY FS_CardinalityType DEF SlotsAreCounted
<1>5. SlotsAreCounted' /\ open' \in 0..MaxOpen
  <2>1. open = Cardinality(idle) + Cardinality(Reserved) /\ IsFiniteSet(idle) /\ open \in 0..MaxOpen
    BY DEF SlotsAreCounted, PoolTypeOK
  <2>2. open' = IF open > 0 THEN open - 1 ELSE open
    BY DEF Drop
  <2>3. Cardinality(Reserved) \in Nat
    BY ReservedFinite
  <2>4. open' = Cardinality(idle) + Cardinality(Reserved') /\ open' \in 0..MaxOpen
    BY <1>3, <1>4, <2>1, <2>2, <2>3, PoolAssumption
  <2>5. idle' = idle
    BY DEF Drop
  <2> QED BY <2>1, <2>4, <2>5 DEF SlotsAreCounted
<1>6. PoolTypeOK'
  BY <1>5 DEF PoolTypeOK, Drop, Goto
<1>7. LeasesAreReal'
  BY <1>2 DEF LeasesAreReal, Drop, PoolTypeOK, Leased
<1>8. \A e \in Leased' : lease'[e] = lease[e] /\ e \in Leased /\ e # c
  BY <1>2 DEF Drop, PoolTypeOK, Leased
<1>9. ConnectionsHaveOwners'
  <2>1. \A e \in Leased' : lease'[e] # lease[c]
    BY <1>1, <1>8 DEF ConnectionsHaveOwners
  <2>2. alive' = (idle \cup {lease[e] : e \in Leased}) \ {lease[c]}
    BY DEF Drop, ConnectionsHaveOwners
  <2>3. {lease'[e] : e \in Leased'} = {lease[e] : e \in Leased} \ {lease[c]}
    BY <1>2, <1>8, <2>1
  <2>4. lease[c] \notin idle
    BY <1>1 DEF ConnectionsHaveOwners
  <2>5. alive' = idle' \cup {lease'[e] : e \in Leased'}
    BY <2>2, <2>3, <2>4 DEF Drop
  <2> QED
    BY <1>8, <2>5 DEF ConnectionsHaveOwners, Drop
<1>10. Closing'
  BY DEF Closing, Drop
<1> QED
  BY <1>5, <1>6, <1>7, <1>9, <1>10
-----------------------------------------------------------------------------
LEMMA PoolStarts == PoolInit => PoolInv
<1> SUFFICES ASSUME PoolInit PROVE PoolInv
  OBVIOUS
<1>1. Reserved = {} /\ Leased = {}
  BY DEF PoolInit, Reserved, Leased
<1>2. SlotsAreCounted
  BY <1>1, FS_EmptySet DEF SlotsAreCounted, PoolInit
<1>3. PoolTypeOK
  <2>1. 0 \in 0..MaxOpen /\ 0 \in 0..MaxUses
    BY PoolAssumption
  <2>2. at \in [Callers -> Places] /\ lease \in [Callers -> Connections \cup {NoConnection}]
    BY DEF PoolInit, Places
  <2>3. again \in [Callers -> BOOLEAN] /\ uses \in [Callers -> 0..MaxUses]
    BY <2>1 DEF PoolInit
  <2> QED BY <2>1, <2>2, <2>3 DEF PoolInit, PoolTypeOK
<1>4. LeasesAreReal /\ ConnectionsHaveOwners /\ Closing
  BY <1>1 DEF PoolInit, LeasesAreReal, ConnectionsHaveOwners, Closing
<1> QED
  BY <1>2, <1>3, <1>4 DEF PoolInv

\* Pruning and handing out: what leaves the idle set is closed, or leased.
LEMMA TakeIdleKeeps ==
  ASSUME PoolInv, NEW c \in Callers, NEW expired \in SUBSET idle, TakeIdle(c, expired)
  PROVE  PoolInv'
<1> USE DEF PoolInv
<1>1. /\ IsFiniteSet(idle) /\ IsFiniteSet(expired)
      /\ Cardinality(idle) \in Nat /\ Cardinality(expired) \in Nat
      /\ Cardinality(idle \ expired) = Cardinality(idle) - Cardinality(expired)
      /\ IsFiniteSet(idle \ expired) /\ Cardinality(idle \ expired) \in Nat
  <2>1. idle \cap expired = expired
    OBVIOUS
  <2>2. IsFiniteSet(idle) /\ IsFiniteSet(expired)
    BY FS_Subset DEF SlotsAreCounted
  <2> QED BY <2>1, <2>2, FS_Difference, FS_CardinalityType
<1>2. c \notin Reserved /\ c \notin Leased
  BY DEF TakeIdle, Reserved, Leased
<1>3. /\ open = Cardinality(idle) + Cardinality(Reserved) /\ open \in 0..MaxOpen
      /\ open' = open - Cardinality(expired) /\ Cardinality(Reserved) \in Nat
      /\ IsFiniteSet(Reserved)
  BY ReservedFinite DEF SlotsAreCounted, PoolTypeOK, TakeIdle
<1>4. open' = Cardinality(idle \ expired) + Cardinality(Reserved) /\ open' \in 0..MaxOpen
  BY <1>1, <1>3, PoolAssumption
<1>5. CASE idle = expired /\ idle' = {} /\ Goto(c, "reserve") /\ UNCHANGED lease
  <2>1. Reserved' = Reserved /\ Leased' = Leased
    BY <1>2, <1>5, GoOut DEF Places
  <2>2. SlotsAreCounted'
    BY <1>1, <1>4, <1>5, <2>1, FS_EmptySet DEF SlotsAreCounted
  <2>3. PoolTypeOK'
    BY <1>4, <1>5 DEF PoolTypeOK, TakeIdle, Goto, Places
  <2>4. ConnectionsHaveOwners' /\ LeasesAreReal'
    BY <1>5, <2>1 DEF ConnectionsHaveOwners, LeasesAreReal, TakeIdle
  <2>5. Closing'
    BY <1>5 DEF Closing, TakeIdle
  <2> QED BY <2>2, <2>3, <2>4, <2>5
<1>6. ASSUME NEW k \in idle \ expired,
             idle' = (idle \ expired) \ {k},
             lease' = [lease EXCEPT ![c] = k],
             Goto(c, "use")
      PROVE  PoolInv'
  <2>1. Reserved' = Reserved \cup {c} /\ Leased' = Leased \cup {c}
    BY <1>6, GoIn, GoUse
  <2>2. Cardinality(Reserved') = Cardinality(Reserved) + 1
    BY <1>2, <1>3, <2>1, FS_AddElement
  <2>3. IsFiniteSet(idle') /\ Cardinality(idle') = Cardinality(idle \ expired) - 1
    BY <1>1, <1>6, FS_RemoveElement
  <2>4. SlotsAreCounted'
    BY <1>1, <1>3, <1>4, <2>2, <2>3 DEF SlotsAreCounted
  <2>5. k \in Connections
    BY DEF PoolTypeOK
  <2>6. PoolTypeOK'
    BY <1>4, <1>6, <2>5 DEF PoolTypeOK, TakeIdle, Goto, Places
  <2>7. lease'[c] = k /\ \A e \in Leased : e # c /\ lease'[e] = lease[e]
    BY <1>2, <1>6 DEF PoolTypeOK, Leased
  <2>8. LeasesAreReal'
    BY <2>1, <2>5, <2>7 DEF LeasesAreReal
  <2>9. ConnectionsHaveOwners'
    <3>1. {lease'[e] : e \in Leased'} = {lease[e] : e \in Leased} \cup {k}
      BY <2>1, <2>7
    <3>2. \A e \in Leased : lease[e] \notin idle
      BY DEF ConnectionsHaveOwners
    <3>3. alive' = (idle \cup {lease[e] : e \in Leased}) \ expired
      BY DEF TakeIdle, ConnectionsHaveOwners
    <3>4. alive' = idle' \cup {lease'[e] : e \in Leased'}
      BY <1>6, <3>1, <3>2, <3>3
    <3>5. \A e \in Leased' : lease'[e] \notin idle'
      BY <1>6, <2>1, <2>7, <3>2
    <3>6. \A d, e \in Leased' : lease'[d] = lease'[e] => d = e
      BY <2>1, <2>7, <3>2 DEF ConnectionsHaveOwners
    <3> QED BY <3>4, <3>5, <3>6 DEF ConnectionsHaveOwners
  <2>10. Closing'
    BY DEF Closing, TakeIdle
  <2> QED BY <2>4, <2>6, <2>8, <2>9, <2>10
<1> QED
  BY <1>5, <1>6 DEF TakeIdle

\* A slot is reserved only below the limit.
LEMMA ReserveKeeps ==
  ASSUME PoolInv, NEW c \in Callers, Reserve(c)
  PROVE  PoolInv'
<1> USE DEF PoolInv
<1>1. c \notin Reserved /\ c \notin Leased
  BY DEF Reserve, Reserved, Leased
<1>2. CASE (shut \/ open >= MaxOpen) /\ Goto(c, "wait") /\ UNCHANGED open
  BY <1>1, <1>2, MoveKeeps DEF Reserve, Places, PoolTypeOK
<1>3. CASE ~shut /\ open < MaxOpen /\ open' = open + 1 /\ Goto(c, "dial")
  <2>1. Reserved' = Reserved \cup {c} /\ Leased' = Leased
    BY <1>1, <1>3, GoIn DEF PoolTypeOK, Goto, Leased
  <2>2. Cardinality(Reserved') = Cardinality(Reserved) + 1 /\ Cardinality(Reserved) \in Nat
    BY <1>1, <2>1, ReservedFinite, FS_AddElement
  <2>3. Cardinality(idle) \in Nat /\ open = Cardinality(idle) + Cardinality(Reserved)
    BY FS_CardinalityType DEF SlotsAreCounted
  <2>4. idle' = idle /\ open' = Cardinality(idle) + Cardinality(Reserved')
    BY <1>3, <2>2, <2>3 DEF Reserve
  <2>5. SlotsAreCounted'
    BY <2>4 DEF SlotsAreCounted
  <2>6. open' \in 0..MaxOpen
    BY <1>3, PoolAssumption DEF PoolTypeOK
  <2>7. PoolTypeOK'
    BY <1>3, <2>6 DEF PoolTypeOK, Reserve, Goto, Places
  <2>8. LeasesAreReal' /\ ConnectionsHaveOwners' /\ Closing'
    BY <2>1 DEF LeasesAreReal, ConnectionsHaveOwners, Closing, Reserve
  <2> QED BY <2>5, <2>7, <2>8
<1> QED BY <1>2, <1>3 DEF Reserve

\* The connection dialled is new, and of the caller alone.
LEMMA DialKeeps ==
  ASSUME PoolInv, NEW c \in Callers, Dial(c)
  PROVE  PoolInv'
<1> USE DEF PoolInv
<1>1. PICK k \in Connections \ alive : alive' = alive \cup {k} /\ lease' = [lease EXCEPT ![c] = k]
  BY DEF Dial
<1>2. c \in Reserved /\ c \notin Leased
  BY DEF Dial, Reserved, Leased
<1>3. Reserved' = Reserved /\ Leased' = Leased \cup {c}
  BY <1>2, GoIn, GoUse DEF Dial
<1>4. SlotsAreCounted'
  BY <1>3 DEF SlotsAreCounted, Dial
<1>5. PoolTypeOK'
  BY <1>1 DEF PoolTypeOK, Dial, Goto, Places
<1>6. lease'[c] = k /\ \A e \in Leased : e # c /\ lease'[e] = lease[e]
  BY <1>1, <1>2 DEF PoolTypeOK, Leased
<1>7. LeasesAreReal'
  BY <1>3, <1>6 DEF LeasesAreReal
<1>8. ConnectionsHaveOwners'
  <2>1. {lease'[e] : e \in Leased'} = {lease[e] : e \in Leased} \cup {k}
    BY <1>3, <1>6
  <2>2. k \notin idle /\ \A e \in Leased : lease[e] # k
    BY DEF ConnectionsHaveOwners
  <2>3. idle' = idle
    BY DEF Dial
  <2>4. alive' = idle' \cup {lease'[e] : e \in Leased'}
    BY <1>1, <2>1, <2>3 DEF ConnectionsHaveOwners
  <2>5. \A e \in Leased' : lease'[e] \notin idle'
    BY <1>3, <1>6, <2>2, <2>3 DEF ConnectionsHaveOwners
  <2>6. \A d, e \in Leased' : lease'[d] = lease'[e] => d = e
    BY <1>3, <1>6, <2>2 DEF ConnectionsHaveOwners
  <2> QED BY <2>4, <2>5, <2>6 DEF ConnectionsHaveOwners
<1>9. Closing'
  BY DEF Closing, Dial
<1> QED BY <1>4, <1>5, <1>7, <1>8, <1>9

\* A dial that failed gives its slot back.
LEMMA DialFailsKeeps ==
  ASSUME PoolInv, NEW c \in Callers, DialFails(c)
  PROVE  PoolInv'
<1> USE DEF PoolInv
<1>1. c \in Reserved /\ c \notin Leased
  BY DEF DialFails, Reserved, Leased
<1>2. Reserved' = Reserved \ {c} /\ Leased' = Leased
  BY <1>1, GoOut DEF DialFails, Places
<1>3. /\ Cardinality(Reserved') = Cardinality(Reserved) - 1
      /\ Cardinality(Reserved') \in Nat /\ Cardinality(Reserved) \in Nat
  BY <1>1, <1>2, ReservedFinite, FS_RemoveElement, FS_CardinalityType
<1>4. Cardinality(idle) \in Nat /\ open = Cardinality(idle) + Cardinality(Reserved)
  BY FS_CardinalityType DEF SlotsAreCounted
<1>5. open \in 0..MaxOpen /\ open' = (IF open > 0 THEN open - 1 ELSE open) /\ idle' = idle
  BY DEF DialFails, PoolTypeOK
<1>6. open' = Cardinality(idle) + Cardinality(Reserved') /\ open' \in 0..MaxOpen
  BY <1>3, <1>4, <1>5, PoolAssumption
<1>7. SlotsAreCounted'
  BY <1>5, <1>6 DEF SlotsAreCounted
<1>8. PoolTypeOK'
  BY <1>6 DEF PoolTypeOK, DialFails, Goto, Places
<1>9. LeasesAreReal' /\ ConnectionsHaveOwners' /\ Closing'
  BY <1>2 DEF LeasesAreReal, ConnectionsHaveOwners, Closing, DialFails
<1> QED BY <1>7, <1>8, <1>9

\* A connection returned is closed, or idle and no longer leased.
LEMMA ReturnKeeps ==
  ASSUME PoolInv, NEW c \in Callers, Return(c)
  PROVE  PoolInv'
<1> USE DEF PoolInv
<1>1. at[c] = "use" /\ c \in Reserved /\ c \in Leased
  BY DEF Return, Reserved, Leased
<1>2. CASE Drop(c)
  BY <1>1, <1>2, DropKeeps DEF Return, Places, PoolTypeOK
<1>3. CASE /\ ~shut /\ ~closed /\ idle' = idle \cup {lease[c]}
           /\ lease' = [lease EXCEPT ![c] = NoConnection]
           /\ UNCHANGED <<open, alive>>
  <2>1. Reserved' = Reserved \ {c} /\ Leased' = Leased \ {c}
    BY GoOut DEF Return, Places
  <2>2. /\ Cardinality(Reserved') = Cardinality(Reserved) - 1
        /\ Cardinality(Reserved) \in Nat /\ Cardinality(Reserved') \in Nat
    BY <1>1, <2>1, ReservedFinite, FS_RemoveElement, FS_CardinalityType
  <2>3. lease[c] \notin idle /\ lease[c] \in Connections
    BY <1>1 DEF ConnectionsHaveOwners, LeasesAreReal
  <2>4. IsFiniteSet(idle') /\ Cardinality(idle') = Cardinality(idle) + 1 /\ Cardinality(idle) \in Nat
    BY <1>3, <2>3, FS_AddElement, FS_CardinalityType DEF SlotsAreCounted
  <2>5. open = Cardinality(idle) + Cardinality(Reserved) /\ open' = open
    BY <1>3 DEF SlotsAreCounted
  <2>6. open' = Cardinality(idle') + Cardinality(Reserved')
    BY <2>2, <2>4, <2>5
  <2>7. SlotsAreCounted'
    BY <2>4, <2>6 DEF SlotsAreCounted
  <2>8. PoolTypeOK'
    BY <1>3, <2>3 DEF PoolTypeOK, Return, Goto, Places
  <2>9. \A e \in Leased' : lease'[e] = lease[e] /\ e \in Leased /\ e # c
    BY <1>3, <2>1 DEF PoolTypeOK, Leased
  <2>10. LeasesAreReal'
    BY <2>9 DEF LeasesAreReal
  <2>11. ConnectionsHaveOwners'
    <3>1. \A e \in Leased' : lease'[e] # lease[c]
      BY <1>1, <2>9 DEF ConnectionsHaveOwners
    <3>2. {lease[e] : e \in Leased} = {lease'[e] : e \in Leased'} \cup {lease[c]}
      BY <1>1, <2>1, <2>9
    <3>3. alive' = idle' \cup {lease'[e] : e \in Leased'}
      BY <1>3, <3>2 DEF ConnectionsHaveOwners
    <3>4. \A e \in Leased' : lease'[e] \notin idle'
      BY <1>3, <2>9, <3>1 DEF ConnectionsHaveOwners
    <3>5. \A d, e \in Leased' : lease'[d] = lease'[e] => d = e
      BY <2>9 DEF ConnectionsHaveOwners
    <3> QED BY <3>3, <3>4, <3>5 DEF ConnectionsHaveOwners
  <2>12. Closing'
    BY <1>3 DEF Closing, Return
  <2> QED BY <2>7, <2>8, <2>10, <2>11, <2>12
<1> QED BY <1>2, <1>3 DEF Return

\* Closing the bucket closes what is idle and gives back its slots.
LEMMA CloseBucketKeeps ==
  ASSUME PoolInv, CloseBucket
  PROVE  PoolInv'
<1> USE DEF PoolInv
<1>1. Reserved' = Reserved /\ Leased' = Leased /\ lease' = lease
  BY DEF CloseBucket, Reserved, Leased
<1>2. /\ Cardinality(idle) \in Nat /\ Cardinality(Reserved) \in Nat
      /\ open = Cardinality(idle) + Cardinality(Reserved) /\ open \in 0..MaxOpen
      /\ open' = open - Cardinality(idle)
  BY ReservedFinite, FS_CardinalityType DEF SlotsAreCounted, PoolTypeOK, CloseBucket
<1>3. open' = Cardinality(Reserved) /\ open' \in 0..MaxOpen
  BY <1>2, PoolAssumption
<1>4. idle' = {} /\ IsFiniteSet(idle') /\ Cardinality(idle') = 0
  BY FS_EmptySet DEF CloseBucket
<1>5. SlotsAreCounted'
  BY <1>1, <1>2, <1>3, <1>4 DEF SlotsAreCounted
<1>6. PoolTypeOK'
  BY <1>3 DEF PoolTypeOK, CloseBucket
<1>7. ConnectionsHaveOwners' /\ LeasesAreReal' /\ Closing'
  <2>1. alive' = {lease[e] : e \in Leased}
    BY DEF CloseBucket, ConnectionsHaveOwners
  <2> QED BY <1>1, <1>4, <2>1 DEF ConnectionsHaveOwners, LeasesAreReal, Closing, CloseBucket
<1> QED BY <1>5, <1>6, <1>7

LEMMA PoolKept == PoolInv /\ [PoolNext]_poolVars => PoolInv'
<1> SUFFICES ASSUME PoolInv, [PoolNext]_poolVars PROVE PoolInv'
  OBVIOUS
<1> USE DEF PoolInv
<1>1. ASSUME NEW c \in Callers, BeginUse(c) PROVE PoolInv'
  <2>1. uses' \in [Callers -> 0..MaxUses] /\ again' \in [Callers -> BOOLEAN]
    BY <1>1, PoolAssumption DEF BeginUse, PoolTypeOK
  <2> QED BY <1>1, <2>1, MoveKeeps DEF BeginUse, Places, Reserved
<1>2. ASSUME NEW c \in Callers, GiveUp(c) PROVE PoolInv'
  BY <1>2, MoveKeeps DEF GiveUp, Places, Reserved, PoolTypeOK
<1>3. ASSUME NEW c \in Callers, NEW expired \in SUBSET idle, TakeIdle(c, expired) PROVE PoolInv'
  BY <1>3, TakeIdleKeeps
<1>4. ASSUME NEW c \in Callers, SkipIdle(c) PROVE PoolInv'
  BY <1>4, MoveKeeps DEF SkipIdle, Places, Reserved, PoolTypeOK
<1>5. ASSUME NEW c \in Callers, Reserve(c) PROVE PoolInv'
  BY <1>5, ReserveKeeps
<1>6. ASSUME NEW c \in Callers, Wake(c) PROVE PoolInv'
  BY <1>6, MoveKeeps DEF Wake, Places, Reserved, PoolTypeOK
<1>7. ASSUME NEW c \in Callers, Dial(c) PROVE PoolInv'
  BY <1>7, DialKeeps
<1>8. ASSUME NEW c \in Callers, DialFails(c) PROVE PoolInv'
  BY <1>8, DialFailsKeeps
<1>9. ASSUME NEW c \in Callers, Return(c) PROVE PoolInv'
  BY <1>9, ReturnKeeps
<1>10. ASSUME NEW c \in Callers, Break(c) PROVE PoolInv'
  <2>1. again' \in [Callers -> BOOLEAN]
    BY <1>10 DEF Break, PoolTypeOK
  <2> QED BY <1>10, <2>1, DropKeeps DEF Break, Places
<1>11. CASE ClosePool
  BY <1>11 DEF ClosePool, PoolTypeOK, SlotsAreCounted, LeasesAreReal, ConnectionsHaveOwners,
               Closing, Reserved, Leased
<1>12. CASE CloseBucket
  BY <1>12, CloseBucketKeeps
<1>13. CASE UNCHANGED poolVars
  BY <1>13 DEF poolVars, PoolTypeOK, SlotsAreCounted, LeasesAreReal, ConnectionsHaveOwners,
               Closing, Reserved, Leased
<1> QED
  BY <1>1, <1>2, <1>3, <1>4, <1>5, <1>6, <1>7, <1>8, <1>9, <1>10, <1>11, <1>12, <1>13
  DEF PoolNext, Proceed

LEMMA PoolAlways == PoolSpec => []PoolInv
BY PoolStarts, PoolKept, PTL DEF PoolSpec
-----------------------------------------------------------------------------
\* The count of open connections stays within the limit, and every variable has its type.
THEOREM PoolTypeCorrect == PoolSpec => []PoolTypeOK
BY PoolAlways, PTL DEF PoolInv

\* No connection is shared by two callers, and none that is not closed is forgotten.
THEOREM OwnersAlways == PoolSpec => []ConnectionsHaveOwners
BY PoolAlways, PTL DEF PoolInv

LEMMA LimitFollows == PoolInv => ConnectionsWithinLimit
<1> SUFFICES ASSUME PoolInv PROVE ConnectionsWithinLimit
  OBVIOUS
<1> USE DEF PoolInv
<1> DEFINE Owned == {lease[c] : c \in Leased}
<1> DEFINE f == [c \in Leased |-> lease[c]]
<1>1. Leased \subseteq Reserved /\ IsFiniteSet(Reserved) /\ Cardinality(Reserved) \in Nat
  BY ReservedFinite DEF Leased, Reserved
<1>2. IsFiniteSet(Leased) /\ Cardinality(Leased) <= Cardinality(Reserved)
  BY <1>1, FS_Subset
<1>3. f \in Surjection(Leased, Owned)
  BY DEF Surjection
<1>4. IsFiniteSet(Owned) /\ Cardinality(Owned) <= Cardinality(Leased)
  BY <1>2, <1>3, FS_Surjection
<1>5. idle \cap Owned = {}
  BY DEF ConnectionsHaveOwners
<1>6. Cardinality(idle \cup Owned) = Cardinality(idle) + Cardinality(Owned) - Cardinality({})
  BY <1>4, <1>5, FS_Union DEF SlotsAreCounted
<1>7. /\ Cardinality(idle) \in Nat /\ Cardinality(Owned) \in Nat /\ Cardinality(Leased) \in Nat
      /\ Cardinality({}) = 0
  BY <1>2, <1>4, FS_CardinalityType, FS_EmptySet DEF SlotsAreCounted
<1>8. open = Cardinality(idle) + Cardinality(Reserved) /\ open \in 0..MaxOpen
  BY DEF SlotsAreCounted, PoolTypeOK
<1>9. Cardinality(idle \cup Owned) <= MaxOpen
  BY <1>1, <1>2, <1>4, <1>6, <1>7, <1>8, PoolAssumption
<1>10. alive = idle \cup Owned
  BY DEF ConnectionsHaveOwners
<1> QED
  BY <1>9, <1>10 DEF ConnectionsWithinLimit

\* The remote host never sees more connections of a process than MaxOpen.
THEOREM LimitHolds == PoolSpec => []ConnectionsWithinLimit
BY PoolAlways, LimitFollows, PTL

\* After Close nothing stays connected but what somebody is still using.
THEOREM ClosedDrains == PoolSpec => []ClosedPoolDrains
<1>1. PoolInv => ClosedPoolDrains
  BY DEF PoolInv, ConnectionsHaveOwners, Closing, ClosedPoolDrains
<1> QED
  BY <1>1, PoolAlways, PTL

\* The pool is safe: for any number of callers, connections are neither shared nor forgotten,
\* stay within the limit, and end with the pool.
THEOREM PoolIsSafe == PoolSpec => []PoolSafe
<1>1. ConnectionsHaveOwners /\ ConnectionsWithinLimit /\ ClosedPoolDrains => PoolSafe
  BY DEF PoolSafe
<1> QED
  BY <1>1, OwnersAlways, LimitHolds, ClosedDrains, PTL

-----------------------------------------------------------------------------
(***************************************************************************)
(* Index checks.  The attempts are counted in the row by statements that   *)
(* name it only, and compared with a copy that the run read when it        *)
(* claimed the row: the invariant says how the row, the copy and the       *)
(* searches made go together at every place of the run, and that a row is  *)
(* free to be claimed only when nobody runs it and an attempt is left.     *)
(***************************************************************************)
CheckStatuses == Ended \cup {"none", "pending", "checking"}
CheckRows == [status : CheckStatuses, attempts : Nat, next : {"none", "later", "due"}, old : BOOLEAN]
RunPlaces == {"rest", "stale", "gather", "load", "mark", "search", "count", "settle"}
RunStates == [at : RunPlaces, attempts : Nat, found : {"none", "invalid", "success", "error"}]

CheckTyped ==
  /\ check \in CheckRows
  /\ day \in {"today", "over", "aged"}
  /\ runner \in [Runners -> RunStates]
  /\ wanted \in Nat /\ tries \in Nat /\ crossed \in BOOLEAN
  /\ budgetLeft \in [manual : Nat, faults : Nat, changes : Nat]

OneInFlight == \A r, s \in InFlight : r = s

\* The searches made when r has counted or is to count its attempt.
AskedBy(r) == runner[r].attempts + (IF runner[r].found = "invalid" THEN 0 ELSE 1)

\* What a run under way knows of the row, and what the row says of it.
Claimed(r) ==
  /\ check.status = "checking" /\ check.next = "none"
  /\ runner[r].attempts < MaxAttempts
  /\ check.attempts = runner[r].attempts + (IF runner[r].at = "settle" THEN 1 ELSE 0)
  /\ tries = IF runner[r].at = "search" THEN runner[r].attempts ELSE AskedBy(r)

\* A row that waits, or is to wait, for a run.
Claimable == check.status \in {"none", "pending"} \/ (check.status = "checking" /\ check.next # "none")

\* The count of a row nobody runs: a search whose run died was not counted.
Counted ==
  /\ tries <= MaxAttempts /\ check.attempts <= MaxAttempts /\ check.attempts <= tries + 1
  /\ Claimable => tries = check.attempts /\ check.attempts < MaxAttempts

\* A tick that is to fail the row listed it when nobody ran it.
ListedIdle ==
  (\E r \in Runners : runner[r].at = "stale") =>
    /\ InFlight = {}
    /\ \/ check.status = "failed_investigation"
       \/ check.status = "checking" /\ check.next = "none"

NextIsReal ==
  /\ check.next # "none" => check.status \in {"pending", "checking"}
  /\ check.next = "later" => check.status = "checking"

Sound ==
  /\ OneInFlight /\ (\A r \in InFlight : Claimed(r))
  /\ (InFlight = {} => Counted) /\ ListedIdle /\ NextIsReal

CheckInv == CheckTyped /\ (crossed \/ Sound)
-----------------------------------------------------------------------------
LEMMA ChecksStart == CheckInit => CheckInv
<1> SUFFICES ASSUME CheckInit PROVE CheckInv
  OBVIOUS
<1>1. CheckTyped
  BY CheckAssumption DEF CheckInit, CheckTyped, CheckRows, RunStates, NoRow, Resting, CheckStatuses, RunPlaces
<1>2. InFlight = {} /\ \A r \in Runners : runner[r].at # "stale"
  BY DEF CheckInit, InFlight, Resting
<1>3. Sound
  BY <1>2, CheckAssumption DEF CheckInit, Sound, OneInFlight, Counted, Claimable, ListedIdle, NextIsReal, NoRow
<1> QED BY <1>1, <1>3 DEF CheckInv

\* A runner that goes from one place where nothing is under way to another.
LEMMA IdleMove ==
  ASSUME CheckTyped, Sound, NEW r \in Runners, r \notin InFlight,
         NEW place \in {"rest", "gather", "load", "mark"},
         runner' \in [Runners -> RunStates],
         runner'[r].at = place, \A s \in Runners \ {r} : runner'[s] = runner[s],
         UNCHANGED <<check, tries>>
  PROVE  Sound'
<1>1. InFlight' = InFlight
  BY DEF InFlight
<1>2. \A s \in InFlight : Claimed(s)'
  BY DEF Sound, Claimed, AskedBy, InFlight
<1>3. ListedIdle'
  BY <1>1 DEF Sound, ListedIdle
<1> QED
  BY <1>1, <1>2, <1>3 DEF Sound, OneInFlight, Counted, Claimable, NextIsReal

LEMMA TickBeginKeeps ==
  ASSUME CheckInv, NEW r \in Runners, TickBegin(r)
  PROVE  CheckInv'
<1> USE DEF CheckInv
<1>1. CheckTyped'
  BY DEF CheckTyped, RunStates, TickBegin, MoveTo, RunPlaces
<1>2. ASSUME ~crossed' PROVE Sound'
  <2>1. ~crossed /\ Sound /\ (Stale => InFlight = {})
    BY <1>2 DEF TickBegin, CheckTyped, CheckRows, RunStates
  <2>2. CASE ~Stale
    BY <1>1, <2>1, <2>2, IdleMove DEF TickBegin, MoveTo, CheckTyped, CheckRows, RunStates, InFlight
  <2>3. CASE Stale
    <3>1. InFlight' = {} /\ InFlight = {}
      BY <2>1, <2>3 DEF TickBegin, MoveTo, CheckTyped, CheckRows, RunStates, InFlight
    <3>2. ListedIdle'
      BY <2>3, <3>1 DEF ListedIdle, TickBegin, Stale
    <3> QED BY <2>1, <3>1, <3>2 DEF TickBegin, Sound, OneInFlight, Counted, Claimable, NextIsReal
  <2> QED BY <2>2, <2>3
<1> QED BY <1>1, <1>2 DEF CheckTyped

LEMMA FailStaleKeeps ==
  ASSUME CheckInv, NEW r \in Runners, FailStale(r)
  PROVE  CheckInv'
<1> USE DEF CheckInv
<1>1. CheckTyped'
  BY DEF CheckTyped, CheckRows, RunStates, FailStale, MoveTo, RunPlaces, WithStatus, CheckStatuses, Ended
<1>2. ASSUME ~crossed' PROVE Sound'
  <2>1. Sound /\ InFlight = {} /\ Counted
    BY <1>2 DEF FailStale, Sound, ListedIdle
  <2>2. InFlight' = {}
    BY <2>1 DEF FailStale, MoveTo, CheckTyped, CheckRows, RunStates, InFlight
  <2>3. check' = [check EXCEPT !.status = "failed_investigation", !.next = "none"]
    BY DEF FailStale, WithStatus, Ended, CheckTyped, CheckRows, RunStates
  <2>4. check'.status = "failed_investigation" /\ check'.next = "none" /\ check'.attempts = check.attempts
    BY <2>3 DEF CheckTyped, CheckRows, RunStates
  <2> QED BY <2>1, <2>2, <2>4 DEF FailStale, Sound, OneInFlight, Counted, Claimable, ListedIdle, NextIsReal
<1> QED BY <1>1, <1>2 DEF CheckTyped

LEMMA GatherKeeps ==
  ASSUME CheckInv, NEW r \in Runners, Gather(r)
  PROVE  CheckInv'
<1> USE DEF CheckInv
<1> DEFINE listed == day = "today" /\ site.published /\ site.enabled
<1>1. CheckTyped'
  BY DEF CheckTyped, CheckRows, RunStates, Gather, RunPlaces, CheckStatuses, Resting
<1>2. ASSUME ~crossed' PROVE Sound'
  <2>1. Sound /\ r \notin InFlight /\ UNCHANGED tries
    BY <1>2 DEF Gather, InFlight
  <2>2. runner'[r].at \in {"load", "rest"} /\ \A s \in Runners \ {r} : runner'[s] = runner[s]
    BY DEF Gather, CheckTyped, CheckRows, RunStates, Resting
  <2>3. CASE ~(listed /\ check.status = "none")
    BY <1>1, <2>1, <2>2, <2>3, IdleMove DEF Gather, CheckTyped, CheckRows, RunStates
  <2>4. CASE listed /\ check.status = "none"
    <3>1. check' = [check EXCEPT !.status = "pending"]
      BY <2>4 DEF Gather
    <3>2. check'.status = "pending" /\ check'.next = check.next /\ check'.attempts = check.attempts
      BY <3>1 DEF CheckTyped, CheckRows, RunStates
    <3>3. InFlight = {} /\ \A s \in Runners : runner[s].at # "stale"
      BY <2>1, <2>4 DEF Sound, Claimed, ListedIdle
    <3>4. InFlight' = {} /\ \A s \in Runners : runner'[s].at # "stale"
      BY <2>2, <3>3 DEF InFlight
    <3> QED
      BY <2>1, <2>4, <3>2, <3>3, <3>4 DEF Sound, OneInFlight, Counted, Claimable, ListedIdle, NextIsReal
  <2> QED BY <2>3, <2>4
<1> QED BY <1>1, <1>2 DEF CheckTyped

LEMMA TakeKeeps ==
  ASSUME CheckInv, NEW r \in Runners, Take(r)
  PROVE  CheckInv'
<1> USE DEF CheckInv
<1>1. CheckTyped'
  BY DEF CheckTyped, RunStates, Take, MoveTo, RunPlaces
<1>2. ASSUME ~crossed' PROVE Sound'
  BY <1>1, <1>2, IdleMove DEF Take, MoveTo, CheckTyped, CheckRows, RunStates, InFlight
<1> QED BY <1>1, <1>2 DEF CheckTyped

LEMMA LoadKeeps ==
  ASSUME CheckInv, NEW r \in Runners, Load(r)
  PROVE  CheckInv'
<1> USE DEF CheckInv
<1>1. CheckTyped'
  <2>1. runner' \in [Runners -> RunStates]
    BY DEF CheckTyped, RunStates, Load, RunPlaces
  <2> QED BY <2>1 DEF CheckTyped, Load
<1>2. ASSUME ~crossed' PROVE Sound'
  BY <1>1, <1>2, IdleMove DEF Load, CheckTyped, CheckRows, RunStates, InFlight
<1> QED BY <1>1, <1>2 DEF CheckTyped

LEMMA MarkKeeps ==
  ASSUME CheckInv, NEW r \in Runners, Mark(r)
  PROVE  CheckInv'
<1> USE DEF CheckInv
<1>1. CheckTyped'
  <2>1. check' \in CheckRows
    BY DEF CheckTyped, CheckRows, Mark, CheckStatuses
  <2>2. runner' \in [Runners -> RunStates]
    BY DEF CheckTyped, RunStates, Mark, RunPlaces, Resting
  <2> QED BY <2>1, <2>2 DEF CheckTyped, Mark
<1>2. ASSUME ~crossed' PROVE Sound'
  <2>1. Sound /\ UNCHANGED tries /\ r \notin InFlight
    BY <1>2 DEF Mark, InFlight
  <2>2. CASE ~Markable
    <3>1. runner' = [runner EXCEPT ![r] = Resting] /\ UNCHANGED check
      BY <2>2 DEF Mark
    <3> QED BY <1>1, <2>1, <3>1, IdleMove DEF CheckTyped, Resting
  <2>3. CASE Markable
    <3>1. check'.status = "checking" /\ check'.next = "none" /\ check'.attempts = check.attempts
      BY <2>3 DEF Mark, CheckTyped, CheckRows, RunStates
    <3>2. InFlight = {} /\ \A s \in Runners : runner[s].at # "stale"
      BY <2>1, <2>3 DEF Markable, DueRetry, Sound, Claimed, ListedIdle
    <3>3. /\ runner'[r].at = IF runner[r].found = "invalid" THEN "count" ELSE "search"
          /\ runner'[r].attempts = check.attempts /\ runner'[r].found = runner[r].found
          /\ \A s \in Runners \ {r} : runner'[s] = runner[s]
      BY <2>3 DEF Mark, CheckTyped, CheckRows, RunStates
    <3>4. InFlight' = {r} /\ \A s \in Runners : runner'[s].at # "stale"
      BY <3>2, <3>3 DEF InFlight
    <3>5. tries = check.attempts /\ check.attempts < MaxAttempts /\ check.attempts \in Nat
      BY <2>1, <2>3, <3>2 DEF Markable, DueRetry, Sound, Counted, Claimable, CheckTyped, CheckRows, RunStates
    <3>6. Claimed(r)'
      BY <2>1, <3>1, <3>3, <3>5 DEF Claimed, AskedBy
    <3> QED
      BY <3>1, <3>4, <3>6 DEF Sound, OneInFlight, ListedIdle, NextIsReal
  <2> QED BY <2>2, <2>3
<1> QED BY <1>1, <1>2 DEF CheckTyped

\* A run under way goes on: nobody else is under way, and nobody is to fail the row.
LEMMA OnlyOne ==
  ASSUME CheckTyped, Sound, NEW r \in InFlight
  PROVE  /\ InFlight = {r} /\ Claimed(r) /\ r \in Runners
         /\ \A s \in Runners : runner[s].at # "stale"
BY DEF Sound, OneInFlight, ListedIdle, InFlight

LEMMA SearchKeeps ==
  ASSUME CheckInv, NEW r \in Runners, NEW found, Search(r, found)
  PROVE  CheckInv'
<1> USE DEF CheckInv
<1>1. CheckTyped'
  <2>1. runner' \in [Runners -> RunStates]
    BY DEF CheckTyped, RunStates, Search, RunPlaces
  <2> QED BY <2>1 DEF CheckTyped, Search
<1>2. ASSUME ~crossed' PROVE Sound'
  <2>1. Sound /\ r \in InFlight /\ UNCHANGED check
    BY <1>2 DEF Search, InFlight
  <2>2. /\ runner'[r].at = "count" /\ runner'[r].attempts = runner[r].attempts
        /\ runner'[r].found # "invalid" /\ \A s \in Runners \ {r} : runner'[s] = runner[s]
    BY DEF Search, CheckTyped, CheckRows, RunStates
  <2>3. InFlight' = {r} /\ \A s \in Runners : runner'[s].at # "stale"
    BY <2>1, <2>2, OnlyOne DEF InFlight
  <2>4. Claimed(r)'
    BY <2>1, <2>2, OnlyOne DEF Claimed, AskedBy, Search
  <2> QED BY <2>1, <2>3, <2>4 DEF Sound, OneInFlight, ListedIdle, NextIsReal
<1> QED BY <1>1, <1>2 DEF CheckTyped

LEMMA CountAttemptKeeps ==
  ASSUME CheckInv, NEW r \in Runners, CountAttempt(r)
  PROVE  CheckInv'
<1> USE DEF CheckInv
<1>1. CheckTyped'
  <2>1. check' \in CheckRows
    <3>1. check.attempts + 1 \in Nat /\ check' = [check EXCEPT !.attempts = check.attempts + 1, !.old = FALSE]
      BY DEF CheckTyped, CheckRows, CountAttempt
    <3> QED BY <3>1 DEF CheckTyped, CheckRows
  <2>2. runner' \in [Runners -> RunStates]
    BY DEF CheckTyped, RunStates, CountAttempt, MoveTo, RunPlaces
  <2> QED BY <2>1, <2>2 DEF CheckTyped, CountAttempt
<1>2. ASSUME ~crossed' PROVE Sound'
  <2>1. Sound /\ r \in InFlight /\ UNCHANGED tries /\ runner[r].at = "count"
    BY <1>2 DEF CountAttempt, InFlight
  <2>2. /\ runner'[r].at = "settle" /\ runner'[r].attempts = runner[r].attempts
        /\ runner'[r].found = runner[r].found /\ \A s \in Runners \ {r} : runner'[s] = runner[s]
    BY DEF CountAttempt, MoveTo, CheckTyped, CheckRows, RunStates
  <2>3. /\ check'.status = check.status /\ check'.next = check.next
        /\ check'.attempts = check.attempts + 1
    BY DEF CountAttempt, CheckTyped, CheckRows, RunStates
  <2>4. InFlight' = {r} /\ \A s \in Runners : runner'[s].at # "stale"
    BY <2>1, <2>2, OnlyOne DEF InFlight
  <2>5. Claimed(r)'
    BY <2>1, <2>2, <2>3, OnlyOne DEF Claimed, AskedBy, CheckTyped, CheckRows, RunStates
  <2> QED BY <2>1, <2>3, <2>4, <2>5 DEF Sound, OneInFlight, ListedIdle, NextIsReal
<1> QED BY <1>1, <1>2 DEF CheckTyped

LEMMA SettleKeeps ==
  ASSUME CheckInv, NEW r \in Runners, Settle(r)
  PROVE  CheckInv'
<1> USE DEF CheckInv
<1>0. /\ check'.attempts = check.attempts /\ check'.old = check.old
      /\ \/ check'.status \in Ended /\ check'.next = "none"
         \/ /\ check'.status = "checking" /\ check'.next = "later"
            /\ runner[r].found = "error" /\ ShouldRetry(r)
      /\ check' \in CheckRows
  BY DEF Settle, WithStatus, Ended, CheckTyped, CheckRows, RunStates, CheckStatuses
<1>1. CheckTyped'
  BY <1>0 DEF CheckTyped, CheckRows, RunStates, Settle, RunPlaces, Resting
<1>2. ASSUME ~crossed' PROVE Sound'
  <2>1. Sound /\ r \in InFlight /\ UNCHANGED tries /\ runner[r].at = "settle"
    BY <1>2 DEF Settle, InFlight
  <2>2. InFlight' = {} /\ \A s \in Runners : runner'[s].at # "stale"
    BY <2>1, OnlyOne DEF InFlight, Settle, CheckTyped, CheckRows, RunStates, Resting
  <2>3. Claimed(r) /\ runner[r].attempts \in Nat /\ MaxAttempts \in Nat
    BY <2>1, OnlyOne, CheckAssumption DEF CheckTyped, CheckRows, RunStates
  <2>4. Counted'
    BY <1>0, <2>1, <2>3 DEF Claimed, AskedBy, Counted, Claimable, ShouldRetry, Ended
  <2> QED BY <1>0, <2>2, <2>4 DEF Sound, OneInFlight, ListedIdle, NextIsReal, Ended
<1> QED BY <1>1, <1>2 DEF CheckTyped

LEMMA LoseKeeps ==
  ASSUME CheckInv, NEW r \in Runners, Lose(r)
  PROVE  CheckInv'
<1> USE DEF CheckInv
<1>1. CheckTyped'
  BY DEF CheckTyped, CheckRows, RunStates, Lose, Spend, RunPlaces, Resting
<1>2. ASSUME ~crossed' PROVE Sound'
  <2>1. Sound /\ UNCHANGED <<check, tries>>
    BY <1>2 DEF Lose
  <2>2. runner'[r].at = "rest" /\ \A s \in Runners \ {r} : runner'[s] = runner[s]
    BY DEF Lose, CheckTyped, CheckRows, RunStates, Resting
  <2>3. CASE r \notin InFlight
    BY <1>1, <2>1, <2>2, <2>3, IdleMove DEF CheckTyped, CheckRows, RunStates
  <2>4. CASE r \in InFlight
    <3>1. InFlight' = {} /\ \A s \in Runners : runner'[s].at # "stale"
      BY <2>1, <2>2, <2>4, OnlyOne DEF InFlight
    <3>2. Claimed(r) /\ runner[r].attempts \in Nat /\ MaxAttempts \in Nat /\ tries \in Nat
      BY <2>1, <2>4, OnlyOne, CheckAssumption DEF CheckTyped, CheckRows, RunStates
    <3>3. Counted'
      BY <2>1, <3>2 DEF Claimed, AskedBy, Counted, Claimable
    <3> QED BY <2>1, <3>1, <3>3 DEF Sound, OneInFlight, ListedIdle, NextIsReal
  <2> QED BY <2>3, <2>4
<1> QED BY <1>1, <1>2 DEF CheckTyped
-----------------------------------------------------------------------------
\* The user starts the check anew: nobody runs it and nobody is to fail it, or it is crossed.
LEMMA ManualRunKeeps ==
  ASSUME CheckInv, ManualRun
  PROVE  CheckInv'
<1> USE DEF CheckInv
<1>1. CheckTyped'
  <2>1. check' \in CheckRows /\ crossed' \in BOOLEAN
    BY DEF ManualRun, Reset, NoRow, CheckStatuses, CheckRows
  <2>2. budgetLeft' \in [manual : Nat, faults : Nat, changes : Nat]
    BY DEF CheckTyped, CheckRows, RunStates, ManualRun, Spend
  <2> QED BY <2>1, <2>2 DEF CheckTyped, ManualRun
<1>2. ASSUME ~crossed' PROVE Sound'
  <2>1. InFlight' = {} /\ \A s \in Runners : runner'[s].at # "stale"
    BY <1>2 DEF ManualRun, InFlight
  <2>2. check'.status = "pending" /\ check'.next = "due" /\ check'.attempts = 0 /\ tries' = 0
    BY DEF ManualRun, Reset, NoRow
  <2>3. Counted'
    BY <2>2, CheckAssumption DEF Counted, Claimable
  <2> QED BY <2>1, <2>2, <2>3 DEF Sound, OneInFlight, ListedIdle, NextIsReal
<1> QED BY <1>1, <1>2 DEF CheckTyped

\* Time passes for the row: neither who runs it nor its count is concerned.
LEMMA TimeKeeps ==
  ASSUME CheckInv, RetryFallsDue \/ AttemptGrowsOld
  PROVE  CheckInv'
<1> USE DEF CheckInv
<1>1. CheckTyped'
  BY DEF CheckTyped, CheckRows, RunStates, RetryFallsDue, AttemptGrowsOld
<1>2. UNCHANGED <<runner, tries, crossed>> /\ InFlight' = InFlight
  BY DEF RetryFallsDue, AttemptGrowsOld, InFlight
<1>3. /\ check'.status = check.status /\ check'.attempts = check.attempts
      /\ check'.next = check.next \/ (check.next = "later" /\ check'.next = "due")
  BY DEF CheckTyped, CheckRows, RunStates, RetryFallsDue, AttemptGrowsOld
<1>4. ASSUME ~crossed' PROVE Sound'
  <2>1. Sound
    BY <1>2, <1>4
  <2>2. \A r \in InFlight : Claimed(r)'
    BY <1>2, <1>3, <2>1 DEF Sound, Claimed, AskedBy
  <2>3. InFlight = {} => Counted'
    BY <1>2, <1>3, <2>1 DEF Sound, Counted, Claimable
  <2> QED BY <1>2, <1>3, <2>1, <2>2, <2>3 DEF Sound, OneInFlight, ListedIdle, NextIsReal
<1> QED BY <1>1, <1>4 DEF CheckTyped

\* What concerns neither the row nor its runs.
LEMMA OthersKeep ==
  ASSUME CheckInv, ChangeSite \/ DayPasses \/ UNCHANGED checkVars
  PROVE  CheckInv'
<1> USE DEF CheckInv
<1>1. CheckTyped'
  BY DEF CheckTyped, CheckRows, RunStates, ChangeSite, Spend, DayPasses, checkVars
<1>2. UNCHANGED <<check, runner, tries, crossed>>
  BY DEF ChangeSite, DayPasses, checkVars
<1>3. Sound => Sound'
  BY <1>2 DEF Sound, InFlight, OneInFlight, Claimed, AskedBy, Counted, Claimable, ListedIdle, NextIsReal
<1> QED BY <1>1, <1>2, <1>3

LEMMA CheckKept == CheckInv /\ [CheckNext]_checkVars => CheckInv'
<1> SUFFICES ASSUME CheckInv, [CheckNext]_checkVars PROVE CheckInv'
  OBVIOUS
<1>1. ASSUME NEW r \in Runners, GoOn(r) \/ Lose(r) PROVE CheckInv'
  BY <1>1, TickBeginKeeps, FailStaleKeeps, GatherKeeps, TakeKeeps, LoadKeeps, MarkKeeps,
     SearchKeeps, CountAttemptKeeps, SettleKeeps, LoseKeeps DEF GoOn
<1> QED
  BY <1>1, ManualRunKeeps, TimeKeeps, OthersKeep DEF CheckNext
-----------------------------------------------------------------------------
LEMMA CheckSound == CheckInv => CheckTypeOK /\ OneRunAtATime /\ AttemptsAreBounded
<1> SUFFICES ASSUME CheckInv PROVE CheckTypeOK /\ OneRunAtATime /\ AttemptsAreBounded
  OBVIOUS
<1>1. CheckTypeOK
  BY DEF CheckInv, CheckTyped, CheckRows, RunStates, CheckTypeOK, CheckStatuses, Sound, NextIsReal, Ended
<1>2. ASSUME ~crossed PROVE OneRunAtATime /\ AttemptsAreBounded
  <2>1. CASE InFlight = {}
    BY <1>2, <2>1, FS_EmptySet DEF CheckInv, OneRunAtATime, AttemptsAreBounded, Sound, Counted
  <2>2. CASE InFlight # {}
    <3>1. PICK r \in InFlight : TRUE
      BY <2>2
    <3>2. InFlight = {r} /\ Claimed(r) /\ r \in Runners
      BY <1>2, OnlyOne DEF CheckInv
    <3>3. Cardinality(InFlight) = 1
      BY <3>2, FS_Singleton
    <3>4. runner[r].attempts \in Nat /\ MaxAttempts \in Nat /\ tries \in Nat /\ check.attempts \in Nat
      BY <3>2, CheckAssumption DEF CheckInv, CheckTyped, CheckRows, RunStates
    <3> QED BY <3>2, <3>3, <3>4 DEF OneRunAtATime, AttemptsAreBounded, Claimed, AskedBy
  <2> QED BY <2>1, <2>2
<1> QED BY <1>1, <1>2 DEF OneRunAtATime, AttemptsAreBounded

\* Nobody who finds a result changes it, the user excepted.
LEMMA ResultsStep ==
  ASSUME CheckInv, [CheckNext]_checkVars, ~crossed, check.status \in Ended,
         check'.status # check.status
  PROVE  budgetLeft'.manual < budgetLeft.manual
<1>1. InFlight = {}
  BY DEF CheckInv, Sound, Claimed, Ended
<1>2. ASSUME NEW r \in Runners, GoOn(r) PROVE FALSE
  <2>1. CASE FailStale(r)
    BY <2>1 DEF CheckInv, CheckTyped, CheckRows, RunStates, Sound, ListedIdle, FailStale, WithStatus, Ended
  <2>2. CASE Gather(r)
    BY <2>2 DEF Gather, Ended
  <2>3. CASE Mark(r)
    BY <2>3 DEF Mark, Markable, DueRetry, Ended
  <2>4. CASE CountAttempt(r) \/ Settle(r)
    BY <1>1, <2>4 DEF CountAttempt, Settle, InFlight
  <2> QED
    BY <1>2, <2>1, <2>2, <2>3, <2>4 DEF GoOn, TickBegin, Take, Load, Search
<1>3. ASSUME NEW r \in Runners, Lose(r) PROVE FALSE
  BY <1>3 DEF Lose
<1>4. CASE ManualRun
  BY <1>4 DEF ManualRun, Spend, CheckInv, CheckTyped, CheckRows, RunStates
<1>5. CASE RetryFallsDue \/ AttemptGrowsOld
  BY <1>5 DEF RetryFallsDue, AttemptGrowsOld, CheckInv, CheckTyped, CheckRows, RunStates
<1> QED
  BY <1>2, <1>3, <1>4, <1>5 DEF CheckNext, ChangeSite, DayPasses, checkVars

\* Types: what the row, the runs and the queue may be, however many run the checks.
THEOREM ChecksAreTyped == CheckSpec => []CheckTypeOK
<1>1. CheckSpec => []CheckInv
  BY ChecksStart, CheckKept, PTL DEF CheckSpec
<1> QED BY <1>1, CheckSound, PTL

\* TryMarkChecking keeps overlapping ticks and workers apart, IncrementAttempts counts every
\* search that comes back, no check gets more than MaxAttempts, and no late write replaces a
\* result, unless the user resets the row or a tick fails it under a run.
THEOREM ChecksStaySound == CheckSpec => ChecksAreSound
<1>1. CheckSpec => []CheckInv
  BY ChecksStart, CheckKept, PTL DEF CheckSpec
<1>2. CheckSpec => []OneRunAtATime /\ []AttemptsAreBounded
  BY <1>1, CheckSound, PTL
<1>3. CheckInv /\ [CheckNext]_checkVars =>
        [check.status \in Ended /\ check'.status # check.status /\ ~crossed =>
           budgetLeft'.manual < budgetLeft.manual]_checkVars
  BY ResultsStep
<1>4. CheckSpec => ResultsAreKept
  BY <1>1, <1>3, PTL DEF CheckSpec, ResultsAreKept
<1> QED BY <1>2, <1>4 DEF ChecksAreSound
-----------------------------------------------------------------------------
(* All of them together. *)

\* A step is one of one component, and leaves the state of the others alone.
LEMMA ConsoleIsEach ==
  ConsoleSpec => /\ LockSpec /\ AgentSpec /\ CacheSpec /\ GuardSpec
                 /\ FilterSpec /\ PoolSpec /\ CheckSpec
<1>1. ConsoleInit => /\ LockInit /\ AgentInit /\ CacheInit /\ GuardInit
                     /\ FilterInit /\ PoolInit /\ CheckInit
  BY DEF ConsoleInit
<1>2. [ConsoleNext]_consoleVars => /\ [LockNext]_lockVars /\ [AgentNext]_agentVars
                                   /\ [CacheNext]_cacheVars /\ [GuardNext]_guardVars
                                   /\ [FilterNext]_filterVars /\ [PoolNext]_poolVars
                                   /\ [CheckNext]_checkVars
  BY DEF ConsoleNext, LockStep, AgentStep, CacheStep, BrowserStep, FilterStep, PoolStep, CheckStep,
         consoleVars
<1> QED BY <1>1, <1>2, PTL DEF ConsoleSpec, LockSpec, AgentSpec, CacheSpec, GuardSpec,
                               FilterSpec, PoolSpec, CheckSpec

\* The cache's entries, its requests and what was taken from it keep their types.
THEOREM CacheTypes == CacheSpec => []CacheTypeOK
<1>1. CacheInv => CacheTypeOK
  BY DEF CacheInv
<1> QED BY <1>1, CacheStarts, CacheKept, PTL DEF CacheSpec

\* Whatever the components do between each other's steps, their state keeps its types, and at
\* rest the address of the index page says what the page shows.
THEOREM ConsoleTypes == ConsoleSpec => []ConsoleTypesOK
<1>1. LockTypeOK /\ AgentTypeOK /\ CacheTypeOK /\ GuardTypeOK
        /\ FiltersTypeOK /\ PoolTypeOK /\ CheckTypeOK => ConsoleTypesOK
  BY DEF ConsoleTypesOK
<1> QED BY <1>1, ConsoleIsEach, LockTypeCorrect, AgentTypes, CacheTypes, GuardTypes, FilterTypes,
           PoolTypeCorrect, ChecksAreTyped, PTL

\* In whatever order the steps of the components come: a domain has one agent at a time, the
\* connections keep their limit and their owners, no lock is stolen, an agent's changes are shown,
\* no page is given an answer that was replaced a time to live ago, a tab is sent to the login page
\* only for the reasons NotThrownOut names, the last choice on the index page settles, and a check
\* runs once and keeps its result.
THEOREM ConsoleIsSafe ==
  ConsoleSpec => /\ [](OneAgentPerDomain /\ PoolSafe)
                 /\ NeverStolen /\ ChangesAreShown /\ ShownIsFresh
                 /\ NotThrownOut /\ ChoiceSettles /\ ChecksAreSound
BY ConsoleIsEach, AgentsAreAlone, PoolIsSafe, LiveLocksAreKept, AgentsShowTheirChanges,
   CacheImplementsFreshReads, NobodyIsThrownOut, ChoicesSettle, ChecksStaySound, PTL
=============================================================================
