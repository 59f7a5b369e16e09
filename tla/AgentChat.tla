------------------------------ MODULE AgentChat ------------------------------
(***************************************************************************)
(* The AI agent of one domain: the chat panel of an editor tab, the event  *)
(* stream it reads, and the sessions and the hub of the server.  An agent  *)
(* works on after its stream is cut; a panel finds it again by the session *)
(* id.  A panel may read two streams at once, and an aborted request may   *)
(* still reach the server.                                                 *)
(***************************************************************************)
EXTENDS Naturals, Sequences, FiniteSets

CONSTANTS
  Panels, Sessions, Paths,
  NoSession,
  Slots,      \* bound: streams a panel may have at once
  MaxChanges, \* bound: how often the agent changes a file in one run
  Budgets     \* bound: how many messages, connections and reloads, and how many lost
              \* requests, cut streams, dropped events, refusals and restarts, a behaviour has

ASSUME AgentAssumption ==
  /\ NoSession \notin Sessions
  /\ Slots \subseteq Nat \ {0} /\ MaxChanges \in Nat
  /\ Budgets \subseteq [asks : Nat, faults : Nat]

VARIABLES
  row,      \* row[s]: agent_sessions.status; "none": no row
  hub,      \* hub[s]: "absent", "active", "said" (last event published), "wrote done" and
            \* "wrote error" (the row is written, the last event is not), "finished", "done"
  active,   \* domainSessions: the session registered for the domain
  buf,      \* buf[s]: events published since s was registered
  changed,  \* changed[s]: files the agent changed in this run of s
  status,   \* status[p]: what the panel shows
  shown,    \* shown[p]: sessionId of the panel
  rollback, \* rollback[p]: the panel has a snapshotId
  saved,    \* saved[p]: agent_session_v1 in the local storage of the panel's browser
  slot,     \* slot[p][k]: a request of the panel and the stream that answers it
  abort,    \* abort[p]: the slot abortRef can abort; 0: none
  stopping, \* stopping[p]: session of a stop request under way
  fresh,    \* fresh[p]: files the editor loaded, or was told of, since an agent changed them
  hung,     \* history: hung[p]: a request or a last event of the panel was lost
  asks, faults  \* how many are left

agentVars == <<row, hub, active, buf, changed, status, shown, rollback, saved, slot,
               abort, stopping, fresh, hung, asks, faults>>

serverVars == <<row, hub, active, buf, changed>>
panelVars == <<status, shown, rollback, saved, abort, stopping, fresh, hung>>
-----------------------------------------------------------------------------
Ends == {"done", "error", "stopped"}
Rows == Ends \cup {"none", "running", "rolled_back"}
Statuses == Ends \cup {"idle", "running"}

Event(kind, s, files, snap) == [kind |-> kind, s |-> s, files |-> files, snap |-> snap]
\* A run that writes its row first, with this end.
Wrote(kind) == IF kind = "done" THEN "wrote done" ELSE "wrote error"

Events == [kind : Ends \cup {"session_start", "file_changed"},
           s : Sessions, files : SUBSET Paths, snap : BOOLEAN]

NoSaved == [s |-> NoSession, status |-> "idle"]

\* sid: session_id of the request, then resolvedSessionId; src: the session relayed; told:
\* refreshedInRun, the files this stream told the editor of.
Free == [state |-> "free", sid |-> NoSession, msg |-> FALSE, src |-> NoSession,
         queue |-> <<>>, more |-> FALSE, heard |-> FALSE, told |-> {}]
SlotStates == {"free", "sent", "starting", "open"}

\* The client goes: a stream ends, a request may still be served, for nobody.
Abandon(r) == IF r.state \in {"sent", "starting"} THEN [r EXCEPT !.heard = FALSE] ELSE Free

\* The answer is a stream of the events of s, or nobody waits for it.
Open(s, r, more) ==
  IF r.heard THEN [r EXCEPT !.state = "open", !.src = s, !.queue = @ \o buf[s], !.more = more]
  ELSE Free

AgentInit ==
  /\ row = [s \in Sessions |-> "none"]
  /\ hub = [s \in Sessions |-> "absent"]
  /\ active = NoSession
  /\ buf = [s \in Sessions |-> <<>>]
  /\ changed = [s \in Sessions |-> {}]
  /\ status = [p \in Panels |-> "idle"]
  /\ shown = [p \in Panels |-> NoSession]
  /\ rollback = [p \in Panels |-> FALSE]
  /\ saved = [p \in Panels |-> NoSaved]
  /\ slot = [p \in Panels |-> [k \in Slots |-> Free]]
  /\ abort = [p \in Panels |-> 0]
  /\ stopping = [p \in Panels |-> NoSession]
  /\ fresh = [p \in Panels |-> Paths]
  /\ hung = [p \in Panels |-> FALSE]
  /\ \E b \in Budgets : asks = b.asks /\ faults = b.faults

Fault == faults > 0 /\ faults' = faults - 1
Ask == asks > 0 /\ asks' = asks - 1

\* doFetch: a new request, which abortRef follows from now on.
Post(p, s, msg) ==
  \E k \in Slots :
    /\ slot[p][k].state = "free"
    /\ slot' = [slot EXCEPT ![p][k] = [Free EXCEPT !.state = "sent", !.sid = s,
                                                   !.msg = msg, !.heard = TRUE]]
    /\ abort' = [abort EXCEPT ![p] = k]
-----------------------------------------------------------------------------
(* The panel *)

\* sendMessage: the input is disabled, and the call refused, while the panel runs.
SendMessage(p) ==
  /\ Ask /\ status[p] # "running"
  /\ Post(p, shown[p], TRUE)
  /\ status' = [status EXCEPT ![p] = "running"]
  /\ hung' = [hung EXCEPT ![p] = FALSE]
  /\ UNCHANGED <<serverVars, shown, rollback, saved, stopping, fresh, faults>>

\* reconnect: the saved chat is shown first, with its snapshot.  A stream already open
\* is not aborted.
Reconnect(p, s) ==
  /\ Post(p, s, FALSE)
  /\ status' = [status EXCEPT ![p] = "running"]
  /\ shown' = [shown EXCEPT ![p] = s]
  /\ rollback' = [rollback EXCEPT ![p] = TRUE]
  /\ hung' = [hung EXCEPT ![p] = FALSE]
  /\ UNCHANGED <<serverVars, saved, stopping, fresh, faults>>

\* The page is loaded anew: what the panel held is gone, its streams end.
Reload(p) ==
  /\ Ask
  /\ status' = [status EXCEPT ![p] = "idle"]
  /\ shown' = [shown EXCEPT ![p] = NoSession]
  /\ rollback' = [rollback EXCEPT ![p] = FALSE]
  /\ abort' = [abort EXCEPT ![p] = 0]
  /\ stopping' = [stopping EXCEPT ![p] = NoSession]
  /\ fresh' = [fresh EXCEPT ![p] = Paths]
  /\ hung' = [hung EXCEPT ![p] = FALSE]
  /\ slot' = [slot EXCEPT ![p] = [k \in Slots |-> Abandon(slot[p][k])]]
  /\ UNCHANGED <<serverVars, saved, faults>>

\* The panel is opened and finds a running session in the local storage.
AutoReconnect(p) ==
  /\ status[p] = "idle" /\ shown[p] = NoSession /\ saved[p].status = "running"
  /\ Reconnect(p, saved[p].s) /\ UNCHANGED asks

\* handleLoadSession, from the list of sessions, open while an agent runs too: a
\* session the server still runs is connected to, another one shown.
LoadSession(p, s) ==
  /\ Ask /\ row[s] # "none"
  /\ \/ /\ hub[s] \notin {"absent", "done"}
        /\ Reconnect(p, s)
     \/ /\ hub[s] \in {"absent", "done"}
        /\ status' = [status EXCEPT ![p] = "done"]
        /\ shown' = [shown EXCEPT ![p] = s]
        /\ rollback' = [rollback EXCEPT ![p] = TRUE]
        /\ UNCHANGED <<serverVars, saved, slot, abort, stopping, fresh, hung, faults>>

ClearMessages(p) ==
  /\ status[p] \in Ends
  /\ status' = [status EXCEPT ![p] = "idle"]
  /\ shown' = [shown EXCEPT ![p] = NoSession]
  /\ rollback' = [rollback EXCEPT ![p] = FALSE]
  /\ saved' = [saved EXCEPT ![p] = NoSaved]
  /\ UNCHANGED <<serverVars, slot, abort, stopping, fresh, hung, asks, faults>>

\* stop: the stream abortRef knows is cut; a session known by its id is then told.
Stop(p) ==
  /\ status[p] = "running" /\ stopping[p] = NoSession
  /\ slot' = IF abort[p] = 0 THEN slot
             ELSE [slot EXCEPT ![p][abort[p]] = Abandon(@)]
  /\ abort' = [abort EXCEPT ![p] = 0]
  /\ IF shown[p] = NoSession
     THEN /\ status' = [status EXCEPT ![p] = "stopped"]
          /\ UNCHANGED stopping
     ELSE /\ stopping' = [stopping EXCEPT ![p] = shown[p]]
          /\ UNCHANGED status
  /\ UNCHANGED <<serverVars, shown, rollback, saved, fresh, hung, asks, faults>>

\* handleAgentStop writes the row, whatever runs; its answer, or its loss, ends stop.
StopReturns(p) ==
  /\ stopping[p] # NoSession
  /\ \/ row' = [row EXCEPT ![stopping[p]] = "stopped"] /\ UNCHANGED faults
     \/ Fault /\ UNCHANGED row
  /\ stopping' = [stopping EXCEPT ![p] = NoSession]
  /\ status' = [status EXCEPT ![p] = "stopped"]
  /\ UNCHANGED <<hub, active, buf, changed, shown, rollback, saved, slot, abort, fresh,
                 hung, asks>>

\* handleRollback: refused while the session is in the hub and not done.  The panel,
\* or another one that lists the session, is then cleared.  (A session with no file to
\* restore is answered so; nothing changes on either side.)
RollBack(p, s) ==
  /\ row[s] \notin {"none", "running", "rolled_back"} /\ hub[s] \in {"absent", "done"}
  /\ \/ shown[p] = s /\ rollback[p] /\ status[p] \in Ends
     \/ status[p] = "idle"                        \* the list of sessions
  /\ row' = [row EXCEPT ![s] = "rolled_back"]
  /\ status' = [status EXCEPT ![p] = "idle"]
  /\ shown' = [shown EXCEPT ![p] = NoSession]
  /\ rollback' = [rollback EXCEPT ![p] = FALSE]
  /\ saved' = [saved EXCEPT ![p] = NoSaved]
  /\ UNCHANGED <<hub, active, buf, changed, slot, abort, stopping, fresh, hung, asks, faults>>
-----------------------------------------------------------------------------
(* The server: handleDomainAgent *)

Serving(p, k) == slot[p][k].state = "sent"

\* The session asked for, or, for a first message, the one registered for the domain.
Target(r) == IF r.sid = NoSession THEN active
             ELSE IF hub[r.sid] = "absent" THEN NoSession ELSE r.sid

\* It is in the hub, at work or just done: its events are replayed, then relayed.  A
\* message that came with the request is not read.
Subscribe(p, k) ==
  LET r == slot[p][k] IN
  /\ Serving(p, k) /\ Target(r) # NoSession
  /\ slot' = [slot EXCEPT ![p][k] = Open(Target(r), r, hub[Target(r)] # "done")]
  /\ UNCHANGED <<serverVars, panelVars, asks, faults>>

\* 410: nothing to reconnect to.  The session id stays in the panel.
Gone(p, k) ==
  LET r == slot[p][k] IN
  /\ Serving(p, k) /\ Target(r) = NoSession /\ ~r.msg
  /\ slot' = [slot EXCEPT ![p][k] = Free]
  /\ IF r.heard
     THEN /\ status' = [status EXCEPT ![p] = "idle"]
          /\ saved' = [saved EXCEPT ![p] = NoSaved]
     ELSE UNCHANGED <<status, saved>>
  /\ UNCHANGED <<serverVars, shown, rollback, abort, stopping, fresh, hung, asks, faults>>

\* A new session gets a row and a snapshot; a resumed one keeps the row it has and
\* gets no snapshot.
Begin(p, k) ==
  LET r == slot[p][k] IN
  /\ Serving(p, k) /\ Target(r) = NoSession /\ r.msg
  /\ \E s \in Sessions :
       /\ IF r.sid = NoSession THEN row[s] = "none" ELSE s = r.sid
       /\ row' = IF r.sid = NoSession THEN [row EXCEPT ![s] = "running"] ELSE row
       /\ slot' = [slot EXCEPT ![p][k] =
            [r EXCEPT !.state = "starting", !.src = s,
             !.queue = IF r.heard THEN <<Event("session_start", s, {}, r.sid = NoSession)>>
                       ELSE <<>>]]
  /\ UNCHANGED <<hub, active, buf, changed, panelVars, asks, faults>>

\* (mistake: the domain was free when the request came)
RegisterAnyway(p, k) ==
  LET r == slot[p][k] IN
  /\ r.state = "starting"
  /\ active' = r.src
  /\ hub' = [hub EXCEPT ![r.src] = "active"]
  /\ buf' = [buf EXCEPT ![r.src] = <<>>]
  /\ changed' = [changed EXCEPT ![r.src] = {}]
  /\ slot' = [slot EXCEPT ![p][k] = IF r.heard THEN [r EXCEPT !.state = "open", !.more = TRUE]
                                        ELSE Free]
  /\ UNCHANGED <<row, panelVars, asks, faults>>

\* registerForDomain: the agent starts, unless the domain has a session by now; then
\* that one is relayed, and the stream stays open if it was done already.
Register(p, k) ==
  LET r == slot[p][k] IN
  /\ r.state = "starting"
  /\ \/ /\ active = NoSession
        /\ active' = r.src
        /\ hub' = [hub EXCEPT ![r.src] = "active"]
        /\ buf' = [buf EXCEPT ![r.src] = <<>>]
        /\ changed' = [changed EXCEPT ![r.src] = {}]
        /\ slot' = [slot EXCEPT ![p][k] = IF r.heard THEN [r EXCEPT !.state = "open", !.more = TRUE]
                                              ELSE Free]
     \/ /\ active # NoSession
        /\ slot' = [slot EXCEPT ![p][k] = Open(active, r, TRUE)]
        /\ UNCHANGED <<hub, active, buf, changed>>
  /\ UNCHANGED <<row, panelVars, asks, faults>>

\* acquireSem: too many agents on the server.  The row of a new session stays running until
\* MarkStale.
Overloaded(p, k) ==
  LET r == slot[p][k] IN
  /\ Fault /\ r.state = "starting"
  /\ slot' = [slot EXCEPT ![p][k] =
       IF r.heard
       THEN [r EXCEPT !.state = "open", !.more = FALSE,
                      !.queue = Append(@, Event("error", r.src, {}, TRUE))]
       ELSE Free]
  /\ UNCHANGED <<serverVars, panelVars, asks>>
-----------------------------------------------------------------------------
(* The agent of a session *)

Subscribed(p, k, s) == slot[p][k].state = "open" /\ slot[p][k].src = s /\ slot[p][k].more

\* publish: the event is kept for those who come later, and dropped for a subscriber
\* whose channel is full.
Publish(s, e) ==
  /\ buf' = [buf EXCEPT ![s] = Append(@, e)]
  /\ \/ /\ slot' = [p \in Panels |-> [k \in Slots |->
             IF Subscribed(p, k, s) THEN [slot[p][k] EXCEPT !.queue = Append(@, e)]
             ELSE slot[p][k]]]
        /\ UNCHANGED <<hung, faults>>
     \/ \E q \in Panels, j \in Slots :
          /\ Fault /\ Subscribed(q, j, s)
          /\ slot' = [p \in Panels |-> [k \in Slots |->
               IF Subscribed(p, k, s) /\ <<p, k>> # <<q, j>>
               THEN [slot[p][k] EXCEPT !.queue = Append(@, e)] ELSE slot[p][k]]]
          /\ hung' = [hung EXCEPT ![q] = @ \/ e.kind \in Ends]

\* A file is changed, perhaps again.
ChangeFile(s, f) ==
  /\ hub[s] = "active" /\ Len(buf[s]) < MaxChanges
  /\ changed' = [changed EXCEPT ![s] = @ \cup {f}]
  /\ fresh' = [p \in Panels |-> fresh[p] \ {f}]
  /\ Publish(s, Event("file_changed", s, {f}, TRUE))
  /\ UNCHANGED <<row, hub, active, status, shown, rollback, saved, abort, stopping, asks>>

\* The agent loop: the last event comes before the row is written, and the row before the
\* streams end.
SayEnd(s, kind) ==
  /\ hub[s] = "active"
  /\ hub' = [hub EXCEPT ![s] = "said"]
  /\ Publish(s, Event(kind, s, changed[s], changed[s] # {}))
  /\ UNCHANGED <<row, active, changed, status, shown, rollback, saved, abort, stopping, fresh,
                 asks>>

\* (mistake: the kind of the first event)
FinishByFirst(s) ==
  /\ hub[s] = "said"
  /\ hub' = [hub EXCEPT ![s] = "finished"]
  /\ row' = [row EXCEPT ![s] = Head(buf[s]).kind]
  /\ UNCHANGED <<active, buf, changed, slot, panelVars, asks, faults>>

Finish(s) ==
  /\ hub[s] = "said"
  /\ hub' = [hub EXCEPT ![s] = "finished"]
  /\ row' = [row EXCEPT ![s] = buf[s][Len(buf[s])].kind]
  /\ UNCHANGED <<active, buf, changed, slot, panelVars, asks, faults>>

\* The other order: a run of one call that has changed its file at most once, or a server
\* without a key for the model, which refuses the run that is registered.
WriteFirst(s, kind) ==
  /\ hub[s] = "active"
  /\ kind \in {"done", "error"} /\ Len(buf[s]) <= IF kind = "done" THEN 1 ELSE 0
  /\ hub' = [hub EXCEPT ![s] = Wrote(kind)]
  /\ row' = [row EXCEPT ![s] = kind]
  /\ UNCHANGED <<active, buf, changed, slot, panelVars, asks, faults>>

SayLast(s, kind) ==
  /\ kind # "stopped" /\ hub[s] = Wrote(kind)
  /\ hub' = [hub EXCEPT ![s] = "finished"]
  /\ Publish(s, Event(kind, s, changed[s], changed[s] # {}))
  /\ UNCHANGED <<row, active, changed, status, shown, rollback, saved, abort, stopping, fresh,
                 asks>>

MarkDone(s) ==
  /\ hub[s] = "finished"
  /\ hub' = [hub EXCEPT ![s] = "done"]
  /\ slot' = [p \in Panels |-> [k \in Slots |->
       IF Subscribed(p, k, s) THEN [slot[p][k] EXCEPT !.more = FALSE] ELSE slot[p][k]]]
  /\ UNCHANGED <<row, active, buf, changed, panelVars, asks, faults>>

\* 30 s later.
Unregister(s) ==
  /\ hub[s] = "done"
  /\ hub' = [hub EXCEPT ![s] = "absent"]
  /\ active' = IF active = s THEN NoSession ELSE active
  /\ buf' = [buf EXCEPT ![s] = <<>>]
  /\ UNCHANGED <<row, changed, slot, panelVars, asks, faults>>

\* MarkStaleRunning: a row that says running after the time a run may take, its own run over.
MarkStale(s) ==
  /\ row[s] = "running" /\ hub[s] = "absent"
  /\ \A p \in Panels, k \in Slots : ~(slot[p][k].state = "starting" /\ slot[p][k].src = s)
  /\ row' = [row EXCEPT ![s] = "stopped"]
  /\ UNCHANGED <<hub, active, buf, changed, slot, panelVars, asks, faults>>

\* Some stream of the panel is read, or some request waits for its answer.
Reading(p) == \E k \in Slots : slot[p][k].heard /\ slot[p][k].state \in {"starting", "open"}
Asking(p) == \E k \in Slots : slot[p][k].heard /\ slot[p][k].state = "sent"

\* The server dies and starts anew: the hub is gone, the rows stay, streams and requests
\* break under the panels.
Restart ==
  /\ Fault
  /\ hub' = [s \in Sessions |-> "absent"] /\ active' = NoSession
  /\ buf' = [s \in Sessions |-> <<>>]
  /\ slot' = [p \in Panels |-> [k \in Slots |-> Free]]
  /\ status' = [p \in Panels |-> IF Reading(p) THEN "error" ELSE status[p]]
  /\ abort' = [p \in Panels |-> IF Reading(p) THEN 0 ELSE abort[p]]
  /\ hung' = [p \in Panels |-> hung[p] \/ Asking(p)]
  /\ UNCHANGED <<row, changed, shown, rollback, saved, stopping, fresh, asks>>
-----------------------------------------------------------------------------
(* readSSEStream *)

OnStart(p, k, e) ==
  /\ shown' = [shown EXCEPT ![p] = e.s]
  /\ rollback' = [rollback EXCEPT ![p] = e.snap]
  /\ saved' = [saved EXCEPT ![p] = [s |-> e.s, status |-> "running"]]
  /\ UNCHANGED <<status, fresh>>

OnFileChanged(p, k, e) ==
  /\ fresh' = [fresh EXCEPT ![p] = @ \cup e.files]
  /\ UNCHANGED <<status, shown, rollback, saved>>

\* The files of the run this stream did not tell of.
Missed(p, k, e) == e.files \ slot[p][k].told

\* (mistake: the files were refreshed one by one)
OnEndOnly(p, k, e) ==
  /\ status' = [status EXCEPT ![p] = e.kind]
  /\ rollback' = [rollback EXCEPT ![p] = @ /\ (e.kind # "stopped" => e.snap)]
  /\ saved' = IF slot[p][k].sid = NoSession THEN saved
              ELSE [saved EXCEPT ![p] = [s |-> slot[p][k].sid, status |-> e.kind]]
  /\ UNCHANGED <<shown, fresh>>

\* (mistake: stopped is shown by the one who stopped)
OnEndUnlessStopped(p, k, e) ==
  /\ status' = IF e.kind = "stopped" THEN status ELSE [status EXCEPT ![p] = e.kind]
  /\ fresh' = [fresh EXCEPT ![p] = IF e.kind = "done" THEN @ \cup Missed(p, k, e) ELSE @]
  /\ rollback' = [rollback EXCEPT ![p] = @ /\ (e.kind # "stopped" => e.snap)]
  /\ UNCHANGED <<saved, shown>>

\* done also refreshes the files this stream did not tell of; error and stopped do not.
OnEnd(p, k, e) ==
  /\ status' = [status EXCEPT ![p] = e.kind]
  /\ fresh' = [fresh EXCEPT ![p] = IF e.kind = "done" THEN @ \cup Missed(p, k, e) ELSE @]
  /\ rollback' = [rollback EXCEPT ![p] = @ /\ (e.kind # "stopped" => e.snap)]
  /\ saved' = IF slot[p][k].sid = NoSession THEN saved
              ELSE [saved EXCEPT ![p] = [s |-> slot[p][k].sid, status |-> e.kind]]
  /\ UNCHANGED shown

ReadEvent(p, k) ==
  LET r == slot[p][k]
      e == Head(r.queue) IN
  /\ r.state \in {"starting", "open"} /\ r.heard /\ r.queue # <<>>
  /\ \/ e.kind = "session_start" /\ OnStart(p, k, e)
     \/ e.kind = "file_changed" /\ OnFileChanged(p, k, e)
     \/ e.kind \in Ends /\ OnEnd(p, k, e)
  /\ slot' = [slot EXCEPT ![p][k] =
       [r EXCEPT !.queue = Tail(@), !.sid = IF e.kind = "session_start" THEN e.s ELSE @,
                 !.told = IF e.kind = "file_changed" THEN @ \cup e.files ELSE @,
                 !.more = @ /\ e.kind \notin Ends]]
  /\ UNCHANGED <<serverVars, abort, stopping, hung, asks, faults>>

\* The stream ends: whatever abortRef follows by now is forgotten.
ReadEnd(p, k) ==
  LET r == slot[p][k] IN
  /\ r.state = "open" /\ r.queue = <<>> /\ ~r.more
  /\ slot' = [slot EXCEPT ![p][k] = Free]
  /\ abort' = [abort EXCEPT ![p] = 0]
  /\ UNCHANGED <<serverVars, status, shown, rollback, saved, stopping, fresh, hung, asks, faults>>

\* The connection breaks under a reader.
ReadFails(p, k) ==
  LET r == slot[p][k] IN
  /\ Fault /\ r.state = "open"
  /\ slot' = [slot EXCEPT ![p][k] = Free]
  /\ abort' = [abort EXCEPT ![p] = 0]
  /\ status' = [status EXCEPT ![p] = "error"]
  /\ UNCHANGED <<serverVars, shown, rollback, saved, stopping, fresh, hung, asks>>

\* A request is answered with an error, or not at all: then nothing catches it and the
\* panel shows that the agent works.
RequestFails(p, k) ==
  LET r == slot[p][k] IN
  /\ Fault /\ r.state = "sent"
  /\ slot' = [slot EXCEPT ![p][k] = Free]
  /\ IF r.heard
     THEN \/ status' = [status EXCEPT ![p] = "error"] /\ UNCHANGED hung
          \/ hung' = [hung EXCEPT ![p] = TRUE] /\ UNCHANGED status
     ELSE UNCHANGED <<status, hung>>
  /\ UNCHANGED <<serverVars, shown, rollback, saved, abort, stopping, fresh, asks>>
-----------------------------------------------------------------------------
Serve(p, k) == Subscribe(p, k) \/ Gone(p, k) \/ Begin(p, k) \/ Register(p, k)
Read(p, k) == ReadEvent(p, k) \/ ReadEnd(p, k)

AgentNext ==
  \/ \E p \in Panels :
       \/ SendMessage(p) \/ Reload(p) \/ AutoReconnect(p) \/ ClearMessages(p)
       \/ Stop(p) \/ StopReturns(p)
       \/ \E s \in Sessions : LoadSession(p, s) \/ RollBack(p, s)
       \/ \E k \in Slots :
            Serve(p, k) \/ Read(p, k) \/ Overloaded(p, k) \/ ReadFails(p, k) \/ RequestFails(p, k)
  \/ \E s \in Sessions :
       \/ \E f \in Paths : ChangeFile(s, f)
       \/ \E kind \in Ends : SayEnd(s, kind) \/ WriteFirst(s, kind) \/ SayLast(s, kind)
       \/ Finish(s) \/ MarkDone(s) \/ Unregister(s) \/ MarkStale(s)
  \/ Restart

AgentSpec == AgentInit /\ [][AgentNext]_agentVars

-----------------------------------------------------------------------------
AgentTypeOK ==
  /\ row \in [Sessions -> Rows]
  /\ hub \in [Sessions -> {"absent", "active", "said", "wrote done", "wrote error", "finished", "done"}]
  /\ active \in Sessions \cup {NoSession}
  /\ buf \in [Sessions -> Seq(Events)]
  /\ changed \in [Sessions -> SUBSET Paths]
  /\ status \in [Panels -> Statuses]
  /\ shown \in [Panels -> Sessions \cup {NoSession}]
  /\ rollback \in [Panels -> BOOLEAN]
  /\ saved \in [Panels -> [s : Sessions \cup {NoSession}, status : Statuses]]
  /\ slot \in [Panels -> [Slots ->
       [state : SlotStates, sid : Sessions \cup {NoSession}, msg : BOOLEAN,
        src : Sessions \cup {NoSession}, queue : Seq(Events), more : BOOLEAN,
        heard : BOOLEAN, told : SUBSET Paths]]]
  /\ abort \in [Panels -> Slots \cup {0}]
  /\ stopping \in [Panels -> Sessions \cup {NoSession}]
  /\ fresh \in [Panels -> SUBSET Paths]
  /\ hung \in [Panels -> BOOLEAN]
  /\ asks \in Nat /\ faults \in Nat

\* Two agents never work on one domain, however the requests that start them overlap.
OneAgentPerDomain ==
  \A s, u \in Sessions : hub[s] = "active" /\ hub[u] = "active" => s = u

\* When a stream ends with done, the editor has, or was told by this stream of, every file
\* that run changed, the ones whose own event was dropped or came before the panel connected
\* included.  (Of a file told of once, a later change whose event is dropped is not shown.)
ChangesAreShown ==
  [][\A p \in Panels, k \in Slots :
       LET r == slot[p][k] IN
       (r.heard /\ r.queue # <<>> /\ Head(r.queue).kind = "done"
         /\ slot'[p][k].state = "open" /\ slot'[p][k].queue = Tail(r.queue))
         => Head(r.queue).files \subseteq fresh'[p] \cup r.told]_agentVars

\* A panel does not show an agent at work for ever: it ends, or the request or the last
\* event was lost, which nothing but Stop or a reload repairs.
RunningEnds ==
  \A p \in Panels : status[p] = "running" ~> (status[p] # "running" \/ hung[p])

\* "stopped": a session its user stopped does not become done or failed.
StopIsFinal ==
  [][\A s \in Sessions : row[s] = "stopped" => row'[s] \in {"stopped", "rolled_back"}]_agentVars
==============================================================================
