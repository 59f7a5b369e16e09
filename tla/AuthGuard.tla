----------------------------- MODULE AuthGuard ------------------------------
(***************************************************************************)
(* The guard of the console's pages (lib/useAuth.ts) in the tabs of one    *)
(* browser: the tabs share the cookies, the access token holds until it    *)
(* expires whatever became of its session, and the guard renews it when    *)
(* the page is opened, on a timer and when the user comes back.            *)
(***************************************************************************)
EXTENDS Naturals

CONSTANTS
  BrowserTabs,
  MaxFailures,   \* MAX_CONSECUTIVE_REFRESH_FAILURES
  MaxLogins,     \* bound: sessions the browser is given
  MaxLoads,      \* bound: pages reloaded
  MaxLost        \* bound: requests that get no answer

ASSUME GuardAssumption == MaxFailures \in Nat \ {0} /\ MaxLogins \in Nat

VARIABLES
  sessions,      \* the sessions the server knows
  logins,    \* how many it has begun
  access,    \* the session of the access cookie, or 0
  refresh,   \* the session of the refresh cookie, or 0
  tabs,      \* the guard of each tab
  loads, lost

guardVars == <<sessions, logins, access, refresh, tabs, loads, lost>>

LoginSessions == 1..MaxLogins
NoFlight == 0
Refused == MaxLogins + 1
Unanswered == MaxLogins + 2
Answers == LoginSessions \cup {Refused, Unanswered}
-----------------------------------------------------------------------------
\* A tab is at the login page ("out"), loading ("renew", "me", "again", "retry"), or in.
\* flight is the answer of the refresh under way: the session it renews, Refused or Unanswered.
Out == [stage |-> "out", flight |-> NoFlight, failures |-> 0]

GuardInit ==
  /\ sessions = {} /\ logins = 0 /\ access = 0 /\ refresh = 0 /\ loads = 0 /\ lost = 0
  /\ tabs = [t \in BrowserTabs |-> Out]

\* What POST /api/refresh with the session's cookie answers; an answer may be lost.
Answer(s) == IF s \in sessions THEN s ELSE Refused

Sent(s, answer) ==
  \/ answer = Answer(s) /\ lost' = lost
  \/ answer = Unanswered /\ lost < MaxLost /\ lost' = lost + 1

\* router.replace("/login"): the middleware sends whoever has an access cookie to /me, which
\* the same guard keeps.
Turned(g, cookie) == [g EXCEPT !.stage = IF cookie = 0 THEN "out" ELSE "in"]

Mounted(answer) == [stage |-> "renew", flight |-> answer, failures |-> 0]

\* Bound: the refresh of the page that is left has returned.
Login(t) ==
  /\ tabs[t].stage = "out" /\ tabs[t].flight = NoFlight /\ logins < MaxLogins
  /\ logins' = logins + 1 /\ sessions' = sessions \cup {logins + 1}
  /\ access' = logins + 1 /\ refresh' = logins + 1
  /\ tabs' = [tabs EXCEPT ![t] = Mounted(logins + 1)]
  /\ UNCHANGED <<loads, lost>>

ReloadPage(t) ==
  /\ tabs[t].stage = "in" /\ tabs[t].flight = NoFlight /\ loads < MaxLoads
  /\ loads' = loads + 1
  /\ \E answer \in Answers :
       Sent(refresh, answer) /\ tabs' = [tabs EXCEPT ![t] = Mounted(answer)]
  /\ UNCHANGED <<sessions, logins, access, refresh>>

\* (mistake: no limit)
RefreshAlways(t) ==
  LET g == tabs[t] IN
  /\ g.stage # "out" /\ g.flight = NoFlight
  /\ \E answer \in Answers :
       Sent(refresh, answer) /\ tabs' = [tabs EXCEPT ![t].flight = answer]
  /\ UNCHANGED <<sessions, logins, access, refresh, loads>>

\* (mistake: after the last refusal the guard does nothing)
RefreshOrRest(t) ==
  LET g == tabs[t] IN
  /\ g.stage # "out" /\ g.failures < MaxFailures /\ g.flight = NoFlight
  /\ \E answer \in Answers :
       Sent(refresh, answer) /\ tabs' = [tabs EXCEPT ![t].flight = answer]
  /\ UNCHANGED <<sessions, logins, access, refresh, loads>>

\* refreshNow, by the timer, on focus or on activity.
RefreshNow(t) ==
  LET g == tabs[t] IN
  /\ g.stage # "out"
  /\ \/ /\ g.failures >= MaxFailures /\ lost' = lost
        /\ tabs' = [tabs EXCEPT ![t] = Turned(g, access)]
     \/ /\ g.failures < MaxFailures /\ g.flight = NoFlight
        /\ \E answer \in Answers :
             Sent(refresh, answer) /\ tabs' = [tabs EXCEPT ![t].flight = answer]
  /\ UNCHANGED <<sessions, logins, access, refresh, loads>>

\* The refresh returns, to its page or to the login page; its cookies are the browser's.
Refreshed(t) ==
  LET g == tabs[t]
      back == [g EXCEPT !.flight = NoFlight, !.stage = IF @ = "renew" THEN "me" ELSE @]
      refused == [back EXCEPT !.failures = @ + 1] IN
  /\ g.flight # NoFlight /\ g.stage # "again"
  /\ \/ /\ g.flight \in LoginSessions /\ access' = g.flight /\ refresh' = g.flight
        /\ tabs' = [tabs EXCEPT ![t] = [back EXCEPT !.failures = 0]]
     \/ /\ g.flight = Refused
        /\ tabs' = [tabs EXCEPT ![t] = IF refused.failures = MaxFailures /\ g.stage # "out"
                                       THEN Turned(refused, access) ELSE refused]
        /\ UNCHANGED <<access, refresh>>
     \/ /\ g.flight = Unanswered /\ tabs' = [tabs EXCEPT ![t] = back]
        /\ UNCHANGED <<access, refresh>>
  /\ UNCHANGED <<sessions, logins, loads, lost>>

\* (mistake: no second try)
FetchMeOnce(t) ==
  LET g == tabs[t] IN
  /\ g.stage = "me" /\ UNCHANGED lost
  /\ tabs' = [tabs EXCEPT ![t] = IF access = 0 THEN Turned(g, access) ELSE [g EXCEPT !.stage = "in"]]
  /\ UNCHANGED <<sessions, logins, access, refresh, loads>>

\* fetchMe: GET /api/me, which authFetch repeats once after a refresh of its own.
FetchMe(t) ==
  LET g == tabs[t] IN
  /\ \/ /\ g.stage \in {"me", "retry"} /\ access # 0
        /\ tabs' = [tabs EXCEPT ![t].stage = "in"] /\ lost' = lost
     \/ /\ g.stage \in {"me", "retry"} /\ lost < MaxLost
        /\ lost' = lost + 1 /\ tabs' = [tabs EXCEPT ![t] = Turned(g, access)]
     \/ /\ g.stage = "me" /\ access = 0 /\ g.flight = NoFlight
        /\ \E answer \in Answers :
             Sent(refresh, answer) /\ tabs' = [tabs EXCEPT ![t].stage = "again", ![t].flight = answer]
     \/ /\ g.stage = "retry" /\ access = 0
        /\ tabs' = [tabs EXCEPT ![t] = Turned(g, access)] /\ lost' = lost
  /\ UNCHANGED <<sessions, logins, access, refresh, loads>>

\* authFetch's refresh returns: it is not counted, and without it the page gives up.
\* Bound: a tab has one refresh under way, refreshNow's or authFetch's.
Again(t) ==
  LET back == [tabs[t] EXCEPT !.flight = NoFlight] IN
  /\ tabs[t].stage = "again"
  /\ \/ /\ tabs[t].flight \in LoginSessions
        /\ access' = tabs[t].flight /\ refresh' = tabs[t].flight
        /\ tabs' = [tabs EXCEPT ![t] = [back EXCEPT !.stage = "retry"]]
     \/ /\ tabs[t].flight \in {Refused, Unanswered}
        /\ tabs' = [tabs EXCEPT ![t] = Turned(back, access)]
        /\ UNCHANGED <<access, refresh>>
  /\ UNCHANGED <<sessions, logins, loads, lost>>

\* handleLogout: to the login page even where the request got no answer.
Logout(t) ==
  /\ tabs[t].stage = "in"
  /\ \/ /\ sessions' = sessions \ {refresh} /\ access' = 0 /\ refresh' = 0 /\ lost' = lost
        /\ tabs' = [tabs EXCEPT ![t].stage = "out"]
     \/ /\ lost < MaxLost /\ lost' = lost + 1
        /\ tabs' = [tabs EXCEPT ![t] = Turned(@, access)]
        /\ UNCHANGED <<sessions, access, refresh>>
  /\ UNCHANGED <<logins, loads>>

\* The sessions are revoked from another device, or the session's time is up.
Revoked ==
  /\ \E s \in sessions : sessions' = sessions \ {s}
  /\ UNCHANGED <<logins, access, refresh, tabs, loads, lost>>

\* The access token is given for longer than a page takes to load.
Expire ==
  /\ access # 0 /\ \A t \in BrowserTabs : tabs[t].stage \in {"in", "out"}
  /\ access' = 0
  /\ UNCHANGED <<sessions, logins, refresh, tabs, loads, lost>>

GuardStep(t) ==
  Login(t) \/ ReloadPage(t) \/ RefreshNow(t) \/ Refreshed(t) \/ FetchMe(t) \/ Again(t) \/ Logout(t)

GuardNext == Revoked \/ Expire \/ \E t \in BrowserTabs : GuardStep(t)

GuardSpec == GuardInit /\ [][GuardNext]_guardVars
-----------------------------------------------------------------------------
GuardTypeOK ==
  /\ sessions \subseteq LoginSessions /\ logins \in 0..MaxLogins
  /\ access \in 0..MaxLogins /\ refresh \in 0..MaxLogins
  /\ tabs \in [BrowserTabs -> [stage : {"out", "renew", "me", "again", "retry", "in"},
                        flight : Answers \cup {NoFlight}, failures : 0..MaxFailures]]

\* Who has not logged out is sent to the login page only when the session has ended, when
\* two requests were lost, or when a page was refused MaxFailures times in a row: one
\* request that fails, an access token that ran out or another tab's session do not do it.
NotThrownOut ==
  [][\A t \in BrowserTabs : tabs[t].stage # "out" /\ ~Logout(t) /\ tabs'[t].stage = "out" =>
       refresh \notin sessions' \/ lost' >= 2 \/ tabs'[t].failures = MaxFailures]_guardVars

\* Once the browser's session has ended, every tab comes to the login page, though the
\* access token was still good and the answer of an earlier refresh may bring it back.
EndedIsNoticed ==
  (refresh \notin sessions) ~> (refresh \in sessions \/ \A t \in BrowserTabs : tabs[t].stage = "out")
==============================================================================
