---------------------------- MODULE BrowserProofs ----------------------------
(***************************************************************************)
(* What the browser of one user shows, for any number of tabs, sessions,   *)
(* texts and pages: the guard sends nobody to the login page who is not to *)
(* go there, and the index page comes to rest with the filters chosen.     *)
(***************************************************************************)
EXTENDS AuthGuard, IndexFilters, TLAPS

(***************************************************************************)
(* The guard.  A tab gives up without an access cookie; the invariant says *)
(* for each place of a page that loads why the cookie may be missing, and  *)
(* that an answer which is still to come is true or counted as lost.       *)
(***************************************************************************)
Loading == {"renew", "me", "again", "retry"}

GuardRecords == [stage : {"out", "renew", "me", "again", "retry", "in"},
                 flight : Answers \cup {NoFlight}, failures : 0..MaxFailures]

\* Whoever is without an access cookie is so because the session has ended.
EndedOrIn == access # 0 \/ refresh \notin sessions

\* The guard g of a tab: a page that loads has its answer coming, and was not refused too
\* often; whichever answer it may get to give up on is true, or was lost.
Guarded(g) ==
  /\ g.flight # NoFlight \/ g.stage \in Loading => g.failures < MaxFailures
  /\ g.stage \in {"renew", "again"} => g.flight # NoFlight
  /\ g.flight = Unanswered => lost >= 1
  /\ g.stage \in {"renew", "again"} /\ g.flight = Refused => EndedOrIn
  /\ g.stage = "me" => EndedOrIn \/ lost >= 1
  /\ g.stage = "again" /\ g.flight = Unanswered => EndedOrIn \/ lost >= 2
  /\ g.stage = "retry" => EndedOrIn

GuardInv == lost \in Nat /\ \A t \in BrowserTabs : Guarded(tabs[t])
-----------------------------------------------------------------------------
LEMMA SentAnswers ==
  ASSUME MaxLogins \in Nat, sessions \subseteq LoginSessions, lost \in Nat,
         NEW s, NEW answer, Sent(s, answer)
  PROVE  /\ answer \in Answers /\ answer # NoFlight
         /\ lost' \in Nat /\ lost' >= lost
         /\ answer = Refused => s \notin sessions
         /\ answer = Unanswered => lost' = lost + 1
<1>1. Refused \in Answers /\ Unanswered \in Answers /\ Refused # Unanswered /\ NoFlight \notin Answers
  BY DEF Answers, LoginSessions, Refused, Unanswered, NoFlight
<1>2. s \in sessions => s \in Answers /\ s # Refused /\ s # Unanswered
  BY DEF Answers, LoginSessions, Refused, Unanswered
<1>3. CASE answer = Answer(s) /\ lost' = lost
  BY <1>1, <1>2, <1>3 DEF Answer
<1>4. CASE answer = Unanswered /\ lost' = lost + 1
  BY <1>1, <1>4
<1> QED BY <1>3, <1>4 DEF Sent

\* What a guard was sure of stays so as long as no access expires under it.
LEMMA GuardedStays ==
  ASSUME lost \in Nat, lost' \in Nat, lost' >= lost, EndedOrIn => EndedOrIn',
         NEW g, Guarded(g)
  PROVE  Guarded(g)'
BY DEF Guarded

\* A step of one tab, which becomes r.
LEMMA OneTab ==
  ASSUME GuardTypeOK, GuardInv, NEW t \in BrowserTabs, NEW r \in GuardRecords,
         tabs' = [tabs EXCEPT ![t] = r], Guarded(r)',
         lost' \in Nat, lost' >= lost, EndedOrIn => EndedOrIn'
  PROVE  tabs' \in [BrowserTabs -> GuardRecords] /\ GuardInv'
<1>1. tabs \in [BrowserTabs -> GuardRecords]
  BY DEF GuardTypeOK, GuardRecords
<1>2. tabs' \in [BrowserTabs -> GuardRecords]
  BY <1>1
<1>3. ASSUME NEW x \in BrowserTabs
      PROVE  Guarded(tabs[x])'
  <2>1. CASE x = t
    <3>1. tabs'[x] = r
      BY <1>1, <2>1
    <3> QED BY <3>1 DEF Guarded
  <2>2. CASE x # t
    <3>1. PICK g : g = tabs[x]
      OBVIOUS
    <3>2. tabs'[x] = g
      BY <1>1, <2>2, <3>1
    <3>3. Guarded(g)
      BY <3>1 DEF GuardInv
    <3>4. Guarded(g)'
      BY <3>3, GuardedStays DEF GuardInv
    <3> QED BY <3>2, <3>4 DEF Guarded
  <2> QED BY <2>1, <2>2
<1> QED BY <1>2, <1>3 DEF GuardInv

\* What a guard is given is a guard.
LEMMA GuardOf ==
  ASSUME GuardTypeOK, NEW t \in BrowserTabs
  PROVE  /\ tabs[t] \in GuardRecords
         /\ \A x : tabs' = [tabs EXCEPT ![t] = x] => tabs'[t] = x
BY DEF GuardTypeOK, GuardRecords

\* A page that is turned away, or stays.
LEMMA TurnedGuard ==
  ASSUME NEW g \in GuardRecords, NEW cookie
  PROVE  /\ Turned(g, cookie) \in GuardRecords
         /\ Turned(g, cookie).stage = IF cookie = 0 THEN "out" ELSE "in"
         /\ Turned(g, cookie).flight = g.flight
         /\ Turned(g, cookie).failures = g.failures
BY DEF Turned, GuardRecords
-----------------------------------------------------------------------------
LEMMA LoginKeeps ==
  ASSUME MaxFailures \in Nat \ {0}, MaxLogins \in Nat, GuardTypeOK, GuardInv,
         NEW t \in BrowserTabs, Login(t)
  PROVE  GuardTypeOK' /\ GuardInv'
<1>1. logins + 1 \in LoginSessions /\ logins + 1 \in 0..MaxLogins /\ logins \in Nat
  BY DEF Login, GuardTypeOK, LoginSessions
<1>2. PICK r : r = Mounted(logins + 1)
  OBVIOUS
<1>3. r \in GuardRecords /\ r.stage = "renew" /\ r.flight = logins + 1 /\ r.failures = 0
  BY <1>1, <1>2 DEF Mounted, GuardRecords, Answers
<1>4. EndedOrIn'
  BY <1>1 DEF Login, EndedOrIn
<1>5. r.flight # Refused /\ r.flight # Unanswered /\ r.flight # NoFlight
  BY <1>1, <1>3 DEF LoginSessions, Refused, Unanswered, NoFlight
<1>6. Guarded(r)'
  BY <1>3, <1>4, <1>5 DEF Guarded
<1>7. lost' \in Nat /\ lost' >= lost
  BY DEF Login, GuardInv
<1>8. tabs' = [tabs EXCEPT ![t] = r]
  BY <1>2 DEF Login
<1>9. tabs' \in [BrowserTabs -> GuardRecords] /\ GuardInv'
  BY <1>3, <1>4, <1>6, <1>7, <1>8, OneTab
<1> QED BY <1>1, <1>9 DEF Login, GuardTypeOK, GuardRecords, LoginSessions

LEMMA ReloadKeeps ==
  ASSUME MaxFailures \in Nat \ {0}, MaxLogins \in Nat, GuardTypeOK, GuardInv,
         NEW t \in BrowserTabs, ReloadPage(t)
  PROVE  GuardTypeOK' /\ GuardInv'
<1>1. PICK answer \in Answers : Sent(refresh, answer) /\ tabs' = [tabs EXCEPT ![t] = Mounted(answer)]
  BY DEF ReloadPage
<1>2. PICK r : r = Mounted(answer)
  OBVIOUS
<1>3. r \in GuardRecords /\ r.stage = "renew" /\ r.flight = answer /\ r.failures = 0
  BY <1>2 DEF Mounted, GuardRecords
<1>4. /\ answer # NoFlight /\ lost' \in Nat /\ lost' >= lost /\ lost \in Nat
      /\ answer = Refused => refresh \notin sessions
      /\ answer = Unanswered => lost' = lost + 1
  BY <1>1, SentAnswers DEF GuardTypeOK, GuardInv
<1>5. EndedOrIn' = EndedOrIn
  BY DEF EndedOrIn, ReloadPage
<1>6. answer = Refused => EndedOrIn'
  BY <1>4 DEF EndedOrIn, ReloadPage
<1>7. Guarded(r)'
  BY <1>3, <1>4, <1>6 DEF Guarded
<1>8. tabs' \in [BrowserTabs -> GuardRecords] /\ GuardInv'
  BY <1>1, <1>2, <1>3, <1>4, <1>5, <1>7, OneTab
<1> QED BY <1>8 DEF ReloadPage, GuardTypeOK, GuardRecords

LEMMA RefreshNowKeeps ==
  ASSUME MaxFailures \in Nat \ {0}, MaxLogins \in Nat, GuardTypeOK, GuardInv,
         NEW t \in BrowserTabs, RefreshNow(t)
  PROVE  /\ GuardTypeOK' /\ GuardInv'
         /\ tabs'[t].stage = "out" => tabs'[t].failures = MaxFailures
<1>1. PICK g : g = tabs[t]
  OBVIOUS
<1>2. g \in GuardRecords /\ Guarded(g) /\ lost \in Nat
  BY <1>1, GuardOf DEF GuardInv
<1>3. EndedOrIn' = EndedOrIn
  BY DEF EndedOrIn, RefreshNow
<1>4. ASSUME NEW r \in GuardRecords, tabs' = [tabs EXCEPT ![t] = r], Guarded(r)',
             lost' \in Nat, lost' >= lost, r.stage = "out" => r.failures = MaxFailures
      PROVE  /\ GuardTypeOK' /\ GuardInv'
             /\ tabs'[t].stage = "out" => tabs'[t].failures = MaxFailures
  <2>1. tabs' \in [BrowserTabs -> GuardRecords] /\ GuardInv'
    BY <1>3, <1>4, OneTab
  <2>2. tabs'[t] = r
    BY <1>4, GuardOf
  <2> QED BY <1>4, <2>1, <2>2 DEF RefreshNow, GuardTypeOK, GuardRecords
<1>5. CASE g.failures >= MaxFailures /\ lost' = lost /\ tabs' = [tabs EXCEPT ![t] = Turned(g, access)]
  <2>1. PICK r : r = Turned(g, access)
    OBVIOUS
  <2>2. /\ r \in GuardRecords /\ r.stage \in {"out", "in"}
        /\ r.flight = g.flight /\ r.failures = g.failures
    BY <1>2, <2>1, TurnedGuard
  <2>3. g.failures = MaxFailures /\ g.flight = NoFlight
    BY <1>2, <1>5 DEF GuardRecords, Guarded
  <2>4. Guarded(r)'
    BY <2>2, <2>3 DEF Guarded, Loading, NoFlight, Unanswered, Refused
  <2>5. tabs' = [tabs EXCEPT ![t] = r] /\ lost' \in Nat /\ lost' >= lost
    BY <1>2, <1>5, <2>1
  <2> QED BY <1>4, <2>2, <2>3, <2>4, <2>5
<1>6. ASSUME g.failures < MaxFailures, g.flight = NoFlight, g.stage # "out", NEW answer \in Answers,
             Sent(refresh, answer), tabs' = [tabs EXCEPT ![t].flight = answer]
      PROVE  /\ GuardTypeOK' /\ GuardInv'
             /\ tabs'[t].stage = "out" => tabs'[t].failures = MaxFailures
  <2>1. PICK r : r = [g EXCEPT !.flight = answer]
    OBVIOUS
  <2>2. r \in GuardRecords /\ r.stage = g.stage /\ r.flight = answer /\ r.failures = g.failures
    BY <1>2, <2>1 DEF GuardRecords
  <2>3. /\ answer # NoFlight /\ lost' \in Nat /\ lost' >= lost
        /\ answer = Unanswered => lost' = lost + 1
    BY <1>2, <1>6, SentAnswers DEF GuardTypeOK
  <2>4. tabs' = [tabs EXCEPT ![t] = r]
    BY <1>1, <1>6, <2>1
  <2>5. g.stage \notin {"renew", "again"}
    BY <1>2, <1>6 DEF Guarded
  <2>6. Guarded(r)'
    BY <1>2, <1>3, <1>6, <2>2, <2>3, <2>5 DEF Guarded
  <2> QED BY <1>4, <1>6, <2>2, <2>3, <2>4, <2>6
<1> QED BY <1>1, <1>5, <1>6 DEF RefreshNow

\* A step of one tab that begins no session.
LEMMA TabStep ==
  ASSUME GuardTypeOK, GuardInv, NEW t \in BrowserTabs, NEW r \in GuardRecords,
         tabs' = [tabs EXCEPT ![t] = r], Guarded(r)',
         lost' \in Nat, lost' >= lost, EndedOrIn => EndedOrIn',
         sessions' \subseteq sessions, logins' = logins,
         access' \in 0..MaxLogins, refresh' \in 0..MaxLogins
  PROVE  GuardTypeOK' /\ GuardInv' /\ tabs'[t] = r
<1>1. tabs' \in [BrowserTabs -> GuardRecords] /\ GuardInv'
  BY OneTab
<1>2. tabs'[t] = r
  BY GuardOf
<1> QED BY <1>1, <1>2 DEF GuardTypeOK, GuardRecords

\* An answer with a session gives its cookies.
LEMMA SessionIn ==
  ASSUME MaxLogins \in Nat, NEW s \in LoginSessions, access' = s
  PROVE  EndedOrIn' /\ s \in 0..MaxLogins /\ s # 0
BY DEF EndedOrIn, LoginSessions

LEMMA RefreshedKeeps ==
  ASSUME MaxFailures \in Nat \ {0}, MaxLogins \in Nat, GuardTypeOK, GuardInv,
         NEW t \in BrowserTabs, Refreshed(t)
  PROVE  /\ GuardTypeOK' /\ GuardInv'
         /\ tabs[t].stage # "out" /\ tabs'[t].stage = "out" => tabs'[t].failures = MaxFailures
<1>1. PICK g : g = tabs[t]
  OBVIOUS
<1>2. /\ g \in GuardRecords /\ Guarded(g) /\ lost \in Nat /\ lost' = lost
      /\ lost' \in Nat /\ lost' >= lost /\ sessions' \subseteq sessions
      /\ sessions' = sessions /\ logins' = logins /\ g.flight # NoFlight /\ g.stage # "again"
      /\ access \in 0..MaxLogins /\ refresh \in 0..MaxLogins
  BY <1>1, GuardOf DEF GuardInv, Refreshed, GuardTypeOK
<1>3. PICK back : back = [g EXCEPT !.flight = NoFlight,
                                   !.stage = IF @ = "renew" THEN "me" ELSE @]
  OBVIOUS
<1>4. /\ back \in GuardRecords /\ back.flight = NoFlight /\ back.failures = g.failures
      /\ back.stage = IF g.stage = "renew" THEN "me" ELSE g.stage
  BY <1>2, <1>3 DEF GuardRecords
<1>5. g.failures < MaxFailures /\ g.failures \in Nat
  BY <1>2 DEF Guarded, GuardRecords
<1>6. back.stage \notin {"renew", "again"} /\ back.flight # Refused /\ back.flight # Unanswered
  BY <1>2, <1>4 DEF NoFlight, Refused, Unanswered
<1>7. CASE g.flight \in LoginSessions /\ access' = g.flight /\ refresh' = g.flight
           /\ tabs' = [tabs EXCEPT ![t] = [back EXCEPT !.failures = 0]]
  <2>1. PICK r : r = [back EXCEPT !.failures = 0]
    OBVIOUS
  <2>2. r \in GuardRecords /\ r.flight = NoFlight /\ r.failures = 0 /\ r.stage = back.stage
    BY <1>4, <2>1 DEF GuardRecords
  <2>3. EndedOrIn' /\ access' \in 0..MaxLogins /\ refresh' \in 0..MaxLogins
    BY <1>7, SessionIn
  <2>4. Guarded(r)'
    BY <1>4, <1>6, <2>2, <2>3 DEF Guarded
  <2>5. tabs' = [tabs EXCEPT ![t] = r] /\ lost' >= lost
    BY <1>2, <1>7, <2>1
  <2>6. GuardTypeOK' /\ GuardInv' /\ tabs'[t] = r
    BY <1>2, <2>2, <2>3, <2>4, <2>5, TabStep
  <2>7. r.stage = "out" => g.stage = "out"
    BY <1>4, <2>2
  <2> QED BY <1>1, <2>6, <2>7
<1>8. ASSUME access' = access, refresh' = refresh
      PROVE  (EndedOrIn => EndedOrIn') /\ access' \in 0..MaxLogins /\ refresh' \in 0..MaxLogins
  BY <1>2, <1>8 DEF EndedOrIn
<1>9. CASE /\ g.flight = Refused /\ access' = access /\ refresh' = refresh
           /\ tabs' = [tabs EXCEPT ![t] =
                         IF [back EXCEPT !.failures = @ + 1].failures = MaxFailures /\ g.stage # "out"
                         THEN Turned([back EXCEPT !.failures = @ + 1], access)
                         ELSE [back EXCEPT !.failures = @ + 1]]
  <2>1. PICK refused : refused = [back EXCEPT !.failures = @ + 1]
    OBVIOUS
  <2>2. /\ refused \in GuardRecords /\ refused.flight = NoFlight
        /\ refused.failures = g.failures + 1 /\ refused.stage = back.stage
    BY <1>4, <1>5, <2>1 DEF GuardRecords
  <2>3. PICK r : r = IF refused.failures = MaxFailures /\ g.stage # "out"
                     THEN Turned(refused, access) ELSE refused
    OBVIOUS
  <2>4. /\ r \in GuardRecords /\ r.flight = NoFlight /\ r.failures = g.failures + 1
        /\ \/ r.stage = back.stage /\ (g.stage # "out" => r.failures < MaxFailures)
           \/ g.stage # "out" /\ r.stage \in {"in", "out"} /\ r.failures = MaxFailures
    BY <1>5, <2>2, <2>3, TurnedGuard
  <2>5. tabs' = [tabs EXCEPT ![t] = r] /\ lost' >= lost
    BY <1>2, <1>9, <2>1, <2>3
  <2>6. g.stage = "renew" => EndedOrIn
    BY <1>2, <1>9 DEF Guarded
  <2>7. Guarded(r)'
    <3>1. CASE r.stage = back.stage /\ (g.stage # "out" => r.failures < MaxFailures)
      BY <1>2, <1>4, <1>6, <1>8, <1>9, <2>4, <2>6, <3>1 DEF Guarded, Loading
    <3>2. CASE r.stage \in {"in", "out"}
      BY <1>4, <1>6, <2>4, <3>2 DEF Guarded, Loading
    <3> QED BY <2>4, <3>1, <3>2
  <2>8. GuardTypeOK' /\ GuardInv' /\ tabs'[t] = r
    BY <1>2, <1>8, <1>9, <2>4, <2>5, <2>7, TabStep
  <2>9. g.stage # "out" /\ r.stage = "out" => r.failures = MaxFailures
    BY <1>4, <2>4
  <2> QED BY <1>1, <2>8, <2>9
<1>10. CASE g.flight = Unanswered /\ access' = access /\ refresh' = refresh
            /\ tabs' = [tabs EXCEPT ![t] = back]
  <2>1. Guarded(back)'
    <3>1. back.stage = "me" => EndedOrIn \/ lost >= 1
      BY <1>2, <1>4, <1>10 DEF Guarded
    <3>2. back.stage = "retry" => EndedOrIn
      BY <1>2, <1>4 DEF Guarded
    <3> QED BY <1>2, <1>4, <1>5, <1>6, <1>8, <1>10, <3>1, <3>2 DEF Guarded
  <2>2. GuardTypeOK' /\ GuardInv' /\ tabs'[t] = back
    BY <1>2, <1>4, <1>8, <1>10, <2>1, TabStep
  <2>3. back.stage = "out" => g.stage = "out"
    BY <1>4
  <2> QED BY <1>1, <2>2, <2>3
<1> QED BY <1>1, <1>3, <1>7, <1>9, <1>10 DEF Refreshed

\* A tab that gives up without an access cookie does so because its session has ended, or two
\* requests were lost.
GivenUp == refresh \notin sessions' \/ lost' >= 2

LEMMA FetchMeKeeps ==
  ASSUME MaxFailures \in Nat \ {0}, MaxLogins \in Nat, GuardTypeOK, GuardInv,
         NEW t \in BrowserTabs, FetchMe(t)
  PROVE  GuardTypeOK' /\ GuardInv' /\ (tabs'[t].stage = "out" => GivenUp)
<1>1. PICK g : g = tabs[t]
  OBVIOUS
<1>2. /\ g \in GuardRecords /\ Guarded(g) /\ lost \in Nat /\ g.stage \in {"me", "retry"}
      /\ sessions' = sessions /\ logins' = logins /\ access' = access /\ refresh' = refresh
      /\ access' \in 0..MaxLogins /\ refresh' \in 0..MaxLogins /\ sessions' \subseteq sessions
  BY <1>1, GuardOf DEF GuardInv, FetchMe, GuardTypeOK
<1>3. (EndedOrIn => EndedOrIn') /\ (EndedOrIn /\ access = 0 => refresh \notin sessions')
  BY <1>2 DEF EndedOrIn
<1>4. g.failures < MaxFailures /\ g.failures \in Nat
  BY <1>2 DEF Guarded, Loading, GuardRecords
<1>5. ASSUME NEW r \in GuardRecords, tabs' = [tabs EXCEPT ![t] = r], Guarded(r)',
             lost' \in Nat, lost' >= lost, r.stage = "out" => GivenUp
      PROVE  GuardTypeOK' /\ GuardInv' /\ (tabs'[t].stage = "out" => GivenUp)
  <2>1. GuardTypeOK' /\ GuardInv' /\ tabs'[t] = r
    BY <1>2, <1>3, <1>5, TabStep
  <2> QED BY <1>5, <2>1
<1>6. ASSUME NEW r \in GuardRecords, r.stage \in {"in", "out"}, r.flight = g.flight,
             r.failures = g.failures, lost' \in Nat, lost' >= lost
      PROVE  Guarded(r)'
  BY <1>2, <1>4, <1>6 DEF Guarded, Loading
<1>7. CASE access # 0 /\ tabs' = [tabs EXCEPT ![t].stage = "in"] /\ lost' = lost
  <2>1. PICK r : r = [g EXCEPT !.stage = "in"]
    OBVIOUS
  <2>2. /\ r \in GuardRecords /\ r.stage = "in" /\ r.flight = g.flight /\ r.failures = g.failures
        /\ tabs' = [tabs EXCEPT ![t] = r] /\ lost' \in Nat /\ lost' >= lost
    BY <1>1, <1>2, <1>7, <2>1 DEF GuardRecords
  <2>3. Guarded(r)'
    BY <1>6, <2>2
  <2> QED BY <1>5, <2>2, <2>3
<1>8. CASE tabs' = [tabs EXCEPT ![t] = Turned(g, access)]
           /\ (lost' = lost + 1 \/ (g.stage = "retry" /\ access = 0 /\ lost' = lost))
  <2>1. PICK r : r = Turned(g, access)
    OBVIOUS
  <2>2. /\ r \in GuardRecords /\ r.stage = (IF access = 0 THEN "out" ELSE "in")
        /\ r.flight = g.flight /\ r.failures = g.failures
        /\ tabs' = [tabs EXCEPT ![t] = r]
    BY <1>2, <1>8, <2>1, TurnedGuard
  <2>3. r.stage \in {"in", "out"} /\ lost' \in Nat /\ lost' >= lost
    BY <1>2, <1>8, <2>2
  <2>4. Guarded(r)'
    BY <1>6, <2>2, <2>3
  <2>5. ASSUME r.stage = "out" PROVE GivenUp
    <3>1. access = 0
      BY <2>2, <2>5
    <3>2. EndedOrIn \/ (g.stage = "me" /\ lost >= 1)
      BY <1>2 DEF Guarded
    <3> QED BY <1>2, <1>3, <1>8, <3>1, <3>2 DEF GivenUp
  <2> QED BY <1>5, <2>2, <2>3, <2>4, <2>5
<1>9. ASSUME g.stage = "me", g.flight = NoFlight, NEW answer \in Answers, Sent(refresh, answer),
             tabs' = [tabs EXCEPT ![t].stage = "again", ![t].flight = answer]
      PROVE  GuardTypeOK' /\ GuardInv' /\ (tabs'[t].stage = "out" => GivenUp)
  <2>1. PICK r : r = [g EXCEPT !.stage = "again", !.flight = answer]
    OBVIOUS
  <2>2. /\ r \in GuardRecords /\ r.stage = "again" /\ r.flight = answer
        /\ r.failures = g.failures /\ tabs' = [tabs EXCEPT ![t] = r]
    BY <1>1, <1>2, <1>9, <2>1 DEF GuardRecords
  <2>3. /\ answer # NoFlight /\ lost' \in Nat /\ lost' >= lost
        /\ answer = Refused => refresh \notin sessions
        /\ answer = Unanswered => lost' = lost + 1
    BY <1>2, <1>9, SentAnswers DEF GuardTypeOK
  <2>4. answer = Refused => EndedOrIn'
    BY <1>2, <2>3 DEF EndedOrIn
  <2>5. answer = Unanswered => EndedOrIn' \/ lost' >= 2
    BY <1>2, <1>3, <1>9, <2>3 DEF Guarded
  <2>6. Guarded(r)'
    BY <1>2, <1>4, <2>2, <2>3, <2>4, <2>5 DEF Guarded
  <2> QED BY <1>5, <2>2, <2>3, <2>6
<1> QED BY <1>1, <1>7, <1>8, <1>9 DEF FetchMe

LEMMA AgainKeeps ==
  ASSUME MaxFailures \in Nat \ {0}, MaxLogins \in Nat, GuardTypeOK, GuardInv,
         NEW t \in BrowserTabs, Again(t)
  PROVE  GuardTypeOK' /\ GuardInv' /\ (tabs'[t].stage = "out" => GivenUp)
<1>1. PICK g : g = tabs[t]
  OBVIOUS
<1>2. /\ g \in GuardRecords /\ Guarded(g) /\ lost \in Nat /\ g.stage = "again"
      /\ lost' = lost /\ lost' \in Nat /\ lost' >= lost /\ sessions' = sessions
      /\ sessions' \subseteq sessions /\ logins' = logins
      /\ access \in 0..MaxLogins /\ refresh \in 0..MaxLogins
  BY <1>1, GuardOf DEF GuardInv, Again, GuardTypeOK
<1>3. PICK back : back = [g EXCEPT !.flight = NoFlight]
  OBVIOUS
<1>4. /\ back \in GuardRecords /\ back.flight = NoFlight /\ back.failures = g.failures
      /\ back.failures < MaxFailures /\ NoFlight # Refused /\ NoFlight # Unanswered
  BY <1>2, <1>3 DEF Guarded, GuardRecords, Loading, NoFlight, Refused, Unanswered
<1>5. CASE /\ g.flight \in LoginSessions /\ access' = g.flight /\ refresh' = g.flight
           /\ tabs' = [tabs EXCEPT ![t] = [back EXCEPT !.stage = "retry"]]
  <2>1. PICK r : r = [back EXCEPT !.stage = "retry"]
    OBVIOUS
  <2>2. /\ r \in GuardRecords /\ r.flight = NoFlight /\ r.failures = g.failures
        /\ r.stage = "retry" /\ tabs' = [tabs EXCEPT ![t] = r]
    BY <1>4, <1>5, <2>1 DEF GuardRecords
  <2>3. EndedOrIn' /\ access' \in 0..MaxLogins /\ refresh' \in 0..MaxLogins
    BY <1>5, SessionIn
  <2>4. Guarded(r)'
    BY <1>4, <2>2, <2>3 DEF Guarded
  <2>5. GuardTypeOK' /\ GuardInv' /\ tabs'[t] = r
    BY <1>2, <2>2, <2>3, <2>4, TabStep
  <2> QED BY <2>2, <2>5
<1>6. CASE /\ g.flight \in {Refused, Unanswered} /\ access' = access /\ refresh' = refresh
           /\ tabs' = [tabs EXCEPT ![t] = Turned(back, access)]
  <2>1. PICK r : r = Turned(back, access)
    OBVIOUS
  <2>2. /\ r \in GuardRecords /\ r.stage = (IF access = 0 THEN "out" ELSE "in")
        /\ r.flight = NoFlight /\ r.failures = g.failures
        /\ tabs' = [tabs EXCEPT ![t] = r]
    BY <1>4, <1>6, <2>1, TurnedGuard
  <2>3. /\ EndedOrIn => EndedOrIn'
        /\ access' \in 0..MaxLogins /\ refresh' \in 0..MaxLogins
        /\ EndedOrIn /\ access = 0 => refresh \notin sessions'
    BY <1>2, <1>6 DEF EndedOrIn
  <2>4. Guarded(r)'
    BY <1>4, <2>2 DEF Guarded, Loading
  <2>5. GuardTypeOK' /\ GuardInv' /\ tabs'[t] = r
    BY <1>2, <2>2, <2>3, <2>4, TabStep
  <2>6. EndedOrIn \/ lost >= 2
    BY <1>2, <1>6 DEF Guarded
  <2> QED BY <1>2, <2>2, <2>3, <2>5, <2>6 DEF GivenUp
<1> QED BY <1>1, <1>3, <1>5, <1>6 DEF Again

LEMMA LogoutKeeps ==
  ASSUME MaxFailures \in Nat \ {0}, MaxLogins \in Nat, GuardTypeOK, GuardInv,
         NEW t \in BrowserTabs, Logout(t)
  PROVE  GuardTypeOK' /\ GuardInv'
<1>1. PICK g : g = tabs[t]
  OBVIOUS
<1>2. /\ g \in GuardRecords /\ Guarded(g) /\ lost \in Nat /\ g.stage = "in"
      /\ logins' = logins /\ sessions \subseteq LoginSessions
      /\ access \in 0..MaxLogins /\ refresh \in 0..MaxLogins
  BY <1>1, GuardOf DEF GuardInv, Logout, GuardTypeOK
<1>3. ASSUME NEW r \in GuardRecords, r.stage \in {"in", "out"}, r.flight = g.flight,
             r.failures = g.failures, lost' \in Nat, lost' >= lost
      PROVE  Guarded(r)'
  BY <1>2, <1>3 DEF Guarded, Loading
<1>4. CASE /\ sessions' = sessions \ {refresh} /\ access' = 0 /\ refresh' = 0 /\ lost' = lost
           /\ tabs' = [tabs EXCEPT ![t].stage = "out"]
  <2>1. PICK r : r = [g EXCEPT !.stage = "out"]
    OBVIOUS
  <2>2. /\ r \in GuardRecords /\ r.flight = g.flight /\ r.failures = g.failures
        /\ r.stage = "out" /\ tabs' = [tabs EXCEPT ![t] = r]
        /\ lost' \in Nat /\ lost' >= lost
    BY <1>1, <1>2, <1>4, <2>1 DEF GuardRecords
  <2>3. 0 \notin sessions' /\ sessions' \subseteq sessions
    BY <1>2, <1>4 DEF LoginSessions
  <2>4. EndedOrIn' /\ access' \in 0..MaxLogins /\ refresh' \in 0..MaxLogins
    BY <1>4, <2>3 DEF EndedOrIn
  <2>5. Guarded(r)'
    BY <1>3, <2>2
  <2> QED BY <1>2, <2>2, <2>3, <2>4, <2>5, TabStep
<1>5. CASE /\ lost' = lost + 1 /\ tabs' = [tabs EXCEPT ![t] = Turned(g, access)]
           /\ sessions' = sessions /\ access' = access /\ refresh' = refresh
  <2>1. PICK r : r = Turned(g, access)
    OBVIOUS
  <2>2. /\ r \in GuardRecords /\ r.stage = (IF access = 0 THEN "out" ELSE "in")
        /\ r.flight = g.flight /\ r.failures = g.failures
        /\ tabs' = [tabs EXCEPT ![t] = r]
    BY <1>2, <1>5, <2>1, TurnedGuard
  <2>3. r.stage \in {"in", "out"} /\ lost' \in Nat /\ lost' >= lost /\ sessions' \subseteq sessions
    BY <1>2, <1>5, <2>2
  <2>4. Guarded(r)'
    BY <1>3, <2>2, <2>3
  <2>5. /\ EndedOrIn => EndedOrIn'
        /\ access' \in 0..MaxLogins /\ refresh' \in 0..MaxLogins
    BY <1>2, <1>5 DEF EndedOrIn
  <2> QED BY <1>2, <2>2, <2>3, <2>4, <2>5, TabStep
<1>6. tabs' = [tabs EXCEPT ![t] = Turned(@, access)] => tabs' = [tabs EXCEPT ![t] = Turned(g, access)]
  BY <1>1
<1> QED BY <1>4, <1>5, <1>6 DEF Logout

LEMMA RevokedKeeps ==
  ASSUME GuardTypeOK, GuardInv, Revoked
  PROVE  GuardTypeOK' /\ GuardInv'
<1>1. sessions' \subseteq sessions /\ tabs' = tabs /\ lost' = lost /\ access' = access /\ refresh' = refresh
  BY DEF Revoked
<1>2. (EndedOrIn => EndedOrIn') /\ lost \in Nat /\ lost' \in Nat /\ lost' >= lost
  BY <1>1 DEF EndedOrIn, GuardInv
<1>3. ASSUME NEW x \in BrowserTabs
      PROVE  Guarded(tabs[x])'
  <2>1. PICK g : g = tabs[x]
    OBVIOUS
  <2>2. Guarded(g)'
    BY <1>2, <2>1, GuardedStays DEF GuardInv
  <2> QED BY <1>1, <2>1, <2>2 DEF Guarded
<1>4. GuardTypeOK'
  BY <1>1 DEF GuardTypeOK, Revoked
<1> QED BY <1>2, <1>3, <1>4 DEF GuardInv

LEMMA ExpireKeeps ==
  ASSUME MaxLogins \in Nat, GuardTypeOK, GuardInv, Expire
  PROVE  GuardTypeOK' /\ GuardInv'
<1>1. ASSUME NEW x \in BrowserTabs
      PROVE  Guarded(tabs[x])'
  BY DEF Expire, GuardInv, Guarded, Loading
<1>2. GuardTypeOK'
  BY DEF GuardTypeOK, Expire
<1> QED BY <1>1, <1>2 DEF GuardInv, Expire
-----------------------------------------------------------------------------
LEMMA GuardStarts ==
  ASSUME MaxFailures \in Nat \ {0}, MaxLogins \in Nat, GuardInit
  PROVE  GuardTypeOK /\ GuardInv
<1>1. GuardTypeOK
  BY DEF GuardInit, GuardTypeOK, Out, LoginSessions, NoFlight
<1>2. \A t \in BrowserTabs : tabs[t].stage = "out" /\ tabs[t].flight = NoFlight
  BY DEF GuardInit, Out
<1>3. NoFlight # Unanswered /\ lost \in Nat
  BY DEF GuardInit, NoFlight, Unanswered
<1>4. \A t \in BrowserTabs : Guarded(tabs[t])
  BY <1>2, <1>3 DEF Guarded, Loading
<1> QED BY <1>1, <1>3, <1>4 DEF GuardInv

\* What a step leaves of the types and the invariant, and the reason of a tab it turns away.
LEMMA GuardSteps ==
  ASSUME MaxFailures \in Nat \ {0}, MaxLogins \in Nat, GuardTypeOK, GuardInv,
         [GuardNext]_guardVars
  PROVE  GuardTypeOK' /\ GuardInv'
<1>1. CASE UNCHANGED guardVars
  <2>1. GuardTypeOK'
    BY <1>1 DEF GuardTypeOK, guardVars
  <2>2. /\ tabs' = tabs /\ lost' = lost /\ (EndedOrIn => EndedOrIn')
        /\ lost \in Nat /\ lost' \in Nat /\ lost' >= lost
    BY <1>1 DEF guardVars, EndedOrIn, GuardInv
  <2>3. ASSUME NEW x \in BrowserTabs
        PROVE  Guarded(tabs[x])'
    <3>1. PICK g : g = tabs[x]
      OBVIOUS
    <3>2. Guarded(g)'
      BY <2>2, <3>1, GuardedStays DEF GuardInv
    <3> QED BY <2>2, <3>1, <3>2 DEF Guarded
  <2> QED BY <2>1, <2>2, <2>3 DEF GuardInv
<1>2. CASE Revoked
  BY <1>2, RevokedKeeps
<1>3. CASE Expire
  BY <1>3, ExpireKeeps
<1>4. ASSUME NEW t \in BrowserTabs, GuardStep(t)
      PROVE  GuardTypeOK' /\ GuardInv'
  BY <1>4, LoginKeeps, ReloadKeeps, RefreshNowKeeps, RefreshedKeeps, FetchMeKeeps, AgainKeeps,
     LogoutKeeps DEF GuardStep
<1> QED BY <1>1, <1>2, <1>3, <1>4 DEF GuardNext

LEMMA GuardAlways == GuardSpec => [](GuardTypeOK /\ GuardInv)
<1>1. GuardInit => GuardTypeOK /\ GuardInv
  BY GuardAssumption, GuardStarts
<1>2. (GuardTypeOK /\ GuardInv) /\ [GuardNext]_guardVars => (GuardTypeOK /\ GuardInv)'
  BY GuardAssumption, GuardSteps
<1> QED BY <1>1, <1>2, PTL DEF GuardSpec

\* A step of one tab is no step of another.
LEMMA OthersStay ==
  ASSUME GuardTypeOK, NEW t \in BrowserTabs, NEW x \in BrowserTabs, x # t, GuardStep(t)
  PROVE  tabs'[x] = tabs[x]
<1>1. tabs \in [BrowserTabs -> GuardRecords]
  BY DEF GuardTypeOK, GuardRecords
<1>2. \A r : tabs' = [tabs EXCEPT ![t] = r] => tabs'[x] = tabs[x]
  BY <1>1
<1>3. CASE Login(t)
  BY <1>2, <1>3 DEF Login
<1>4. CASE ReloadPage(t)
  BY <1>2, <1>4 DEF ReloadPage
<1>5. CASE RefreshNow(t)
  BY <1>2, <1>5 DEF RefreshNow
<1>6. CASE Refreshed(t)
  BY <1>2, <1>6 DEF Refreshed
<1>7. CASE FetchMe(t)
  BY <1>2, <1>7 DEF FetchMe
<1>8. CASE Again(t)
  BY <1>2, <1>8 DEF Again
<1>9. CASE Logout(t)
  BY <1>2, <1>9 DEF Logout
<1> QED BY <1>3, <1>4, <1>5, <1>6, <1>7, <1>8, <1>9 DEF GuardStep

\* lib/useAuth.ts: the types of the guards, of the sessions and of the cookies.
THEOREM GuardTypes == GuardSpec => []GuardTypeOK
BY GuardAlways, PTL

\* lib/useAuth.ts, authFetch: whoever is sent to the login page without having logged out had
\* lost the session, had two requests lost, or was refused MaxFailures times in a row.
THEOREM NobodyIsThrownOut == GuardSpec => NotThrownOut
<1>1. ASSUME GuardTypeOK, GuardInv, [GuardNext]_guardVars, NEW x \in BrowserTabs,
             tabs[x].stage # "out", ~Logout(x), tabs'[x].stage = "out"
      PROVE  refresh \notin sessions' \/ lost' >= 2 \/ tabs'[x].failures = MaxFailures
  <2>1. PICK t \in BrowserTabs : GuardStep(t)
    BY <1>1 DEF GuardNext, guardVars, Revoked, Expire
  <2>2. t = x
    BY <1>1, <2>1, OthersStay
  <2>3. CASE Login(x)
    BY <1>1, <2>3 DEF Login
  <2>4. CASE ReloadPage(x)
    <3>1. PICK answer : tabs' = [tabs EXCEPT ![x] = Mounted(answer)]
      BY <2>4 DEF ReloadPage
    <3>2. tabs'[x] = Mounted(answer)
      BY <1>1, <3>1, GuardOf
    <3> QED BY <1>1, <3>2 DEF Mounted
  <2>5. CASE RefreshNow(x)
    BY <1>1, <2>5, GuardAssumption, RefreshNowKeeps
  <2>6. CASE Refreshed(x)
    BY <1>1, <2>6, GuardAssumption, RefreshedKeeps
  <2>7. CASE FetchMe(x)
    BY <1>1, <2>7, GuardAssumption, FetchMeKeeps DEF GivenUp, FetchMe
  <2>8. CASE Again(x)
    BY <1>1, <2>8, GuardAssumption, AgainKeeps DEF GivenUp
  <2> QED BY <1>1, <2>1, <2>2, <2>3, <2>4, <2>5, <2>6, <2>7, <2>8 DEF GuardStep
<1>2. GuardTypeOK /\ GuardInv /\ [GuardNext]_guardVars
        => [\A t \in BrowserTabs : tabs[t].stage # "out" /\ ~Logout(t) /\ tabs'[t].stage = "out" =>
              refresh \notin sessions' \/ lost' >= 2 \/ tabs'[t].failures = MaxFailures]_guardVars
  BY <1>1
<1> QED BY <1>2, GuardAlways, PTL DEF GuardSpec, NotThrownOut

-----------------------------------------------------------------------------
(***************************************************************************)
(* The filters.  The address asked for is the one the filters ask for, and *)
(* none where it is shown, unless the filters were set back while another  *)
(* was on its way or a project was picked: so its arrival changes nothing. *)
(***************************************************************************)
FilterStates == [status : FilterStatuses, day : Days, search : Words, page : Nat \ {0}]
FilterValues == [status : FilterStatuses, day : Days, search : Words]

\* The address asked for is the one the filters ask for, and none where it is shown.
Asked(s, text, address) == IF ToUrl(s, text) = address THEN NoUrl ELSE ToUrl(s, text)

FiltersTyped ==
  /\ chosen \in FilterStates /\ pages \in 1..MaxPages /\ chosen.page <= pages
  /\ url \in FilterStates /\ nav \in FilterStates \cup {NoUrl} /\ debounced \in Words
  /\ draft \in FilterValues /\ fetches \in Nat /\ busy \in BOOLEAN /\ (busy => fetches > 0)
  /\ strayed \in [crossed : BOOLEAN, back : BOOLEAN, pushed : BOOLEAN]
  /\ ToUrl(chosen, debounced) # url => nav # NoUrl

FiltersInv ==
  /\ ~strayed.back /\ ~strayed.pushed => nav = Asked(chosen, debounced, url)
  /\ ~strayed.crossed /\ ~strayed.back /\ ~strayed.pushed => chosen = wish
-----------------------------------------------------------------------------
LEMMA One == 1 \in Nat \ {0}
OBVIOUS

LEMMA NoAddress == NoUrl \notin FilterStates
BY DEF NoUrl, FilterStates, FilterStatuses

LEMMA ToUrlIs ==
  ASSUME NEW s \in FilterStates, NEW text \in Words
  PROVE  /\ ToUrl(s, text) \in FilterStates /\ ToUrl(s, text).page = s.page
         /\ s.search = text => ToUrl(s, text) = s
         /\ ToUrl(ToUrl(s, text), text) = ToUrl(s, text)
BY DEF ToUrl, FilterStates

LEMMA ClampIs ==
  ASSUME NEW s \in FilterStates, NEW read \in FilterStates, NEW last \in 1..MaxPages,
         MaxPages \in Nat \ {0}
  PROVE  /\ Clamp(read, s, last) \in FilterStates
         /\ s.page <= last => Clamp(read, s, last) = read
         /\ s.page > last => Clamp(read, s, last).page = last
         /\ Clamp(s, s, last).page <= last
BY DEF Clamp, FilterStates

\* The page number comes to rest within the list.
LEMMA ClampTwice ==
  ASSUME MaxPages \in Nat \ {0}, NEW s \in FilterStates, NEW read \in FilterStates,
         NEW last \in 1..MaxPages, NEW second, second = Clamp(read, s, last)
  PROVE  /\ second \in FilterStates /\ Clamp(second, second, last) \in FilterStates
         /\ Clamp(second, second, last).page <= last
<1>1. second \in FilterStates
  BY ClampIs
<1> QED BY <1>1, ClampIs

LEMMA WriteUrlIs ==
  ASSUME NEW s \in FilterStates, NEW text \in Words, NEW address, NEW asked
  PROVE  /\ ToUrl(s, text) # address => WriteUrl(s, text, address, asked) = ToUrl(s, text)
         /\ ToUrl(s, text) = address => WriteUrl(s, text, address, asked) = asked
         /\ asked \in FilterStates \cup {NoUrl} =>
              WriteUrl(s, text, address, asked) \in FilterStates \cup {NoUrl}
BY ToUrlIs DEF WriteUrl

LEMMA ValueIs ==
  ASSUME NEW s \in FilterStates
  PROVE  Value(s) \in FilterValues
BY DEF Value, FilterStates, FilterValues

\* What a change leaves: the address asked for is that of the filters, if they differ from it.
LEMMA Rendered ==
  ASSUME MaxPages \in Nat \ {0},
         NEW s \in FilterStates, NEW text \in Words, NEW address \in FilterStates,
         NEW isNew, NEW last \in 1..MaxPages, NEW was \in Nat,
         NEW bar \in FilterValues,
         FiltersTyped, Render(s, text, address, isNew, last, was), Redraft(bar), pages' = last
  PROVE  FiltersTyped' /\ debounced' = text /\ url' = address
<1>1. PICK second, third, base : second = Clamp(ReadUrl(s, address, isNew), s, last)
                                 /\ third = Clamp(second, second, last)
                                 /\ base = IF isNew THEN NoUrl ELSE nav
  OBVIOUS
<1>2. /\ second \in FilterStates /\ third \in FilterStates /\ third.page <= last
      /\ chosen' = third /\ debounced' = text /\ url' = address
      /\ nav' = WriteUrl(third, text, address, WriteUrl(second, text, address,
                  WriteUrl(s, text, address, base)))
  <2>1. ReadUrl(s, address, isNew) \in FilterStates
    BY DEF ReadUrl
  <2>2. second \in FilterStates /\ third \in FilterStates /\ third.page <= last
    BY <1>1, <2>1, ClampTwice
  <2>3. /\ SettleEffects(s, text, address, isNew, last).s = third
        /\ SettleEffects(s, text, address, isNew, last).nav =
              WriteUrl(third, text, address, WriteUrl(second, text, address,
                WriteUrl(s, text, address, base)))
    BY <1>1 DEF SettleEffects
  <2>4. /\ chosen' = SettleEffects(s, text, address, isNew, last).s
        /\ nav' = SettleEffects(s, text, address, isNew, last).nav
        /\ debounced' = text /\ url' = address
    BY DEF Render
  <2> QED BY <2>2, <2>3, <2>4
<1>3. nav' \in FilterStates \cup {NoUrl}
  BY <1>1, <1>2, WriteUrlIs DEF FiltersTyped
<1>4. ToUrl(third, text) # address => nav' # NoUrl
  BY <1>2, WriteUrlIs, ToUrlIs, NoAddress
<1>5. draft' \in FilterValues
  BY <1>2, ValueIs DEF Redraft, FiltersTyped
<1>6. fetches' \in Nat /\ busy' \in BOOLEAN /\ (busy' => fetches' > 0)
  <2>1. \/ fetches' = was + 1 /\ busy' = TRUE
        \/ fetches' = was /\ busy' = (busy /\ was = fetches)
    BY DEF Render
  <2>2. CASE fetches' = was + 1 /\ busy' = TRUE
    BY <2>2
  <2>3. CASE fetches' = was /\ busy' = (busy /\ was = fetches)
    BY <2>3 DEF FiltersTyped
  <2> QED BY <2>1, <2>2, <2>3
<1>7. strayed' \in [crossed : BOOLEAN, back : BOOLEAN, pushed : BOOLEAN]
  BY DEF Render, FiltersTyped
<1> QED BY <1>2, <1>3, <1>4, <1>5, <1>6, <1>7 DEF FiltersTyped

\* A change on the page: what it sets is kept as it is set, unless the list became shorter,
\* and the address asked for is the one of the filters.
LEMMA RenderedHere ==
  ASSUME MaxPages \in Nat \ {0},
         NEW s \in FilterStates, NEW text \in Words, NEW last \in 1..MaxPages, NEW was,
         FiltersTyped, FiltersInv, Render(s, text, url, FALSE, last, was),
         s.page <= last \/ (s = chosen /\ text = debounced)
  PROVE  /\ chosen' = Clamp(s, s, last)
         /\ ~strayed'.back => ~strayed.back
         /\ strayed'.crossed = strayed.crossed /\ strayed'.pushed = strayed.pushed
         /\ ~strayed'.back /\ ~strayed'.pushed => nav' = Asked(chosen', text, url)
<1>1. PICK third : third = Clamp(s, s, last)
  OBVIOUS
<1>2. third \in FilterStates /\ (s.page <= last => third = s) /\ third.page <= last
  BY <1>1, ClampIs
<1>3. url \in FilterStates /\ strayed \in [crossed : BOOLEAN, back : BOOLEAN, pushed : BOOLEAN]
  BY DEF FiltersTyped
<1>4. Clamp(third, third, last) = third /\ ReadUrl(s, url, FALSE) = s
  BY <1>2, ClampIs DEF ReadUrl
<1>5. /\ SettleEffects(s, text, url, FALSE, last).s = third
      /\ SettleEffects(s, text, url, FALSE, last).nav =
           WriteUrl(third, text, url, WriteUrl(third, text, url, WriteUrl(s, text, url, nav)))
  <2>1. third = Clamp(ReadUrl(s, url, FALSE), s, last) /\ third = Clamp(third, third, last)
    BY <1>1, <1>4
  <2> QED BY <2>1 DEF SettleEffects
<1>6. /\ chosen' = third
      /\ nav' = WriteUrl(third, text, url, WriteUrl(third, text, url, WriteUrl(s, text, url, nav)))
      /\ strayed' = [strayed EXCEPT
                       !.crossed = @ \/ (FALSE /\ text # chosen.search),
                       !.back = @ \/ (~FALSE /\ nav # NoUrl /\ ToUrl(third, text) = url)]
  BY <1>5 DEF Render
<1>7. /\ strayed'.crossed = strayed.crossed /\ strayed'.pushed = strayed.pushed
      /\ ~strayed'.back => ~strayed.back
      /\ ~strayed'.back => nav = NoUrl \/ ToUrl(third, text) # url
  BY <1>3, <1>6
<1>8. ~strayed'.back /\ ~strayed'.pushed => nav' = Asked(third, text, url)
  <2>1. CASE ToUrl(third, text) # url
    BY <1>2, <1>6, <2>1, WriteUrlIs DEF Asked
  <2>2. CASE ToUrl(third, text) = url
    <3>1. nav' = WriteUrl(s, text, url, nav)
      BY <1>2, <1>6, <2>2, WriteUrlIs
    <3>2. ASSUME ~strayed'.back, ~strayed'.pushed
          PROVE  nav' = NoUrl
      <4>1. nav = NoUrl
        BY <1>7, <2>2, <3>2
      <4>2. ToUrl(s, text) = url
        <5>1. CASE s.page <= last
          BY <1>2, <2>2, <5>1
        <5>2. CASE s = chosen /\ text = debounced
          <6>1. nav = Asked(chosen, debounced, url)
            BY <1>7, <3>2 DEF FiltersInv
          <6>2. ToUrl(s, text) # NoUrl
            BY ToUrlIs, NoAddress
          <6> QED BY <4>1, <5>2, <6>1, <6>2 DEF Asked
        <5> QED BY <5>1, <5>2
      <4> QED BY <3>1, <4>1, <4>2, WriteUrlIs
    <3> QED BY <2>2, <3>2 DEF Asked
  <2> QED BY <2>1, <2>2
<1> QED BY <1>1, <1>6, <1>7, <1>8
-----------------------------------------------------------------------------
\* The user chooses: the filters are as chosen, whatever is asked for.
LEMMA ChooseKeeps ==
  ASSUME MaxPages \in Nat \ {0}, FiltersTyped, FiltersInv, NEW bar \in FilterValues,
         NEW s \in FilterStates, s.page <= pages, Choose(s, bar)
  PROVE  FiltersTyped' /\ FiltersInv'
<1>1. /\ pages \in 1..MaxPages /\ debounced \in Words /\ url \in FilterStates /\ fetches \in Nat
      /\ Render(s, debounced, url, FALSE, pages, fetches) /\ pages' = pages /\ wish' = s
      /\ Redraft(bar)
  BY DEF Choose, FiltersTyped
<1>2. FiltersTyped' /\ debounced' = debounced /\ url' = url
  <2>1. PICK isNew : isNew = FALSE
    OBVIOUS
  <2>2. Render(s, debounced, url, isNew, pages, fetches)
    BY <1>1, <2>1
  <2> QED BY <1>1, <2>2, Rendered
<1>3. /\ chosen' = Clamp(s, s, pages)
      /\ ~strayed'.back => ~strayed.back
      /\ strayed'.crossed = strayed.crossed /\ strayed'.pushed = strayed.pushed
      /\ ~strayed'.back /\ ~strayed'.pushed => nav' = Asked(chosen', debounced, url)
  BY <1>1, RenderedHere
<1>4. chosen' = s
  BY <1>1, <1>3, ClampIs
<1> QED BY <1>1, <1>2, <1>3, <1>4 DEF FiltersInv, Asked

LEMMA ApplyKeeps ==
  ASSUME MaxPages \in Nat \ {0}, FiltersTyped, FiltersInv,
         NEW v \in FilterValues, NEW bar \in FilterValues, ApplyFilters(v, bar)
  PROVE  FiltersTyped' /\ FiltersInv'
<1>1. PICK s : s = [status |-> v.status, day |-> v.day, search |-> v.search, page |-> 1]
  OBVIOUS
<1>2. s \in FilterStates /\ s.page = 1
  BY <1>1 DEF FilterStates, FilterValues
<1>3. s.page <= pages
  BY <1>2 DEF FiltersTyped
<1> QED BY <1>1, <1>2, <1>3, ChooseKeeps DEF ApplyFilters

LEMMA ClicksKeep ==
  ASSUME MaxPages \in Nat \ {0}, "" \in Words, FiltersTyped, FiltersInv,
         Apply \/ ResetFilters \/ DateClick \/ ViewDetails
  PROVE  FiltersTyped' /\ FiltersInv'
<1>1. draft \in FilterValues /\ DefaultFilters \in FilterValues /\ Value(chosen) \in FilterValues
  BY ValueIs DEF FiltersTyped, DefaultFilters, FilterValues, FilterStatuses, Days
<1>2. CASE Apply
  BY <1>1, <1>2, ApplyKeeps DEF Apply
<1>3. CASE ResetFilters
  BY <1>1, <1>3, ApplyKeeps DEF ResetFilters
<1>4. CASE DateClick
  <2>1. PICK v : v = [Value(chosen) EXCEPT !.day = IF @ = "monday" THEN "" ELSE "monday"]
    OBVIOUS
  <2>2. v \in FilterValues
    BY <1>1, <2>1 DEF FilterValues, Days
  <2> QED BY <1>1, <1>4, <2>1, <2>2, ApplyKeeps DEF DateClick
<1>5. CASE ViewDetails
  <2>1. PICK v : v = [Value(chosen) EXCEPT !.status = "failed"]
    OBVIOUS
  <2>2. v \in FilterValues
    BY <1>1, <2>1 DEF FilterValues, FilterStatuses
  <2> QED BY <1>1, <1>5, <2>1, <2>2, ApplyKeeps DEF ViewDetails
<1> QED BY <1>2, <1>3, <1>4, <1>5

LEMMA PagerKeeps ==
  ASSUME MaxPages \in Nat \ {0}, FiltersTyped, FiltersInv, TypeSearch \/ PrevPage \/ NextPage
  PROVE  FiltersTyped' /\ FiltersInv'
<1>1. chosen \in FilterStates /\ pages \in 1..MaxPages /\ chosen.page <= pages
  BY DEF FiltersTyped
<1>2. ASSUME NEW s \in FilterStates, s.page <= pages, Choose(s, draft)
      PROVE  FiltersTyped' /\ FiltersInv'
  <2>1. draft \in FilterValues
    BY DEF FiltersTyped
  <2> QED BY <1>2, <2>1, ChooseKeeps
<1>3. CASE TypeSearch
  <2>1. PICK w \in Words : Choose([chosen EXCEPT !.search = w, !.page = 1], draft)
    BY <1>3 DEF TypeSearch
  <2>2. PICK s : s = [chosen EXCEPT !.search = w, !.page = 1]
    OBVIOUS
  <2>3. s \in FilterStates /\ s.page = 1
    BY <1>1, <2>2, One DEF FilterStates
  <2>4. s.page <= pages
    BY <1>1, <2>3
  <2> QED BY <1>2, <2>1, <2>2, <2>3, <2>4
<1>4. CASE PrevPage
  <2>1. PICK s : s = [chosen EXCEPT !.page = @ - 1] /\ Choose(s, draft)
    BY <1>4 DEF PrevPage
  <2>2. chosen.page > 1 /\ chosen.page \in Nat
    BY <1>1, <1>4 DEF PrevPage, FilterStates
  <2>3. s \in FilterStates /\ s.page = chosen.page - 1
    BY <1>1, <2>1, <2>2 DEF FilterStates
  <2>4. s.page <= pages
    BY <1>1, <2>2, <2>3
  <2> QED BY <1>2, <2>1, <2>3, <2>4
<1>5. CASE NextPage
  <2>1. PICK s : s = [chosen EXCEPT !.page = @ + 1] /\ Choose(s, draft)
    BY <1>5 DEF NextPage
  <2>2. chosen.page < pages /\ chosen.page \in Nat
    BY <1>1, <1>5 DEF NextPage, FilterStates
  <2>3. s \in FilterStates /\ s.page = chosen.page + 1
    BY <1>1, <2>1, <2>2 DEF FilterStates
  <2>4. s.page <= pages
    BY <1>1, <2>2, <2>3
  <2> QED BY <1>2, <2>1, <2>3, <2>4
<1> QED BY <1>3, <1>4, <1>5

LEMMA DraftKeeps ==
  ASSUME FiltersTyped, FiltersInv, Draft
  PROVE  FiltersTyped' /\ FiltersInv'
<1>1. draft' \in FilterValues
  BY DEF Draft, FiltersTyped, FilterValues
<1>2. /\ chosen' = chosen /\ pages' = pages /\ url' = url /\ nav' = nav /\ debounced' = debounced
      /\ fetches' = fetches /\ busy' = busy /\ strayed' = strayed /\ wish' = wish
  BY DEF Draft
<1> QED BY <1>1, <1>2 DEF FiltersTyped, FiltersInv, Asked

\* The address of a picked project has no filter; it is asked for though nobody chose it.
LEMMA PickProjectKeeps ==
  ASSUME "" \in Words, FiltersTyped, FiltersInv, PickProject
  PROVE  FiltersTyped' /\ FiltersInv'
<1>1. Blank \in FilterStates /\ nav' = Blank
  <2>1. Blank \in FilterStates
    <3>1. "any" \in FilterStatuses /\ "" \in Days
      BY DEF FilterStatuses, Days
    <3> QED BY <3>1, One DEF Blank, FilterStates
  <2> QED BY <2>1 DEF PickProject
<1>2. /\ chosen' = chosen /\ pages' = pages /\ url' = url /\ debounced' = debounced
      /\ fetches' = fetches /\ busy' = busy /\ wish' = wish /\ draft' = draft
  BY DEF PickProject
<1>3. strayed' \in [crossed : BOOLEAN, back : BOOLEAN, pushed : BOOLEAN] /\ strayed'.pushed
  BY DEF PickProject, FiltersTyped
<1> QED BY <1>1, <1>2, <1>3, NoAddress DEF FiltersTyped, FiltersInv

LEMMA DebounceKeeps ==
  ASSUME MaxPages \in Nat \ {0}, FiltersTyped, FiltersInv, Debounce
  PROVE  FiltersTyped' /\ FiltersInv'
<1>1. PICK s, text, isNew : s = chosen /\ text = chosen.search /\ isNew = FALSE
  OBVIOUS
<1>2. /\ s \in FilterStates /\ text \in Words /\ url \in FilterStates /\ fetches \in Nat
      /\ pages \in 1..MaxPages /\ s.page <= pages /\ pages' = pages /\ wish' = wish
      /\ Render(s, text, url, FALSE, pages, fetches) /\ Render(s, text, url, isNew, pages, fetches)
      /\ Redraft(draft) /\ draft \in FilterValues
  BY <1>1 DEF Debounce, FiltersTyped, FilterStates
<1>3. FiltersTyped' /\ debounced' = text /\ url' = url
  BY <1>2, Rendered
<1>4. /\ chosen' = Clamp(s, s, pages)
      /\ ~strayed'.back => ~strayed.back
      /\ strayed'.crossed = strayed.crossed /\ strayed'.pushed = strayed.pushed
      /\ ~strayed'.back /\ ~strayed'.pushed => nav' = Asked(chosen', text, url)
  BY <1>2, RenderedHere
<1>5. chosen' = chosen
  BY <1>1, <1>2, <1>4, ClampIs
<1> QED BY <1>2, <1>3, <1>4, <1>5 DEF FiltersInv, Asked

\* An answer: the page number comes back into the list, of the page and of the wish alike.
LEMMA LoadedKeeps ==
  ASSUME MaxPages \in Nat \ {0}, FiltersTyped, FiltersInv, Loaded
  PROVE  FiltersTyped' /\ FiltersInv'
<1>1. PICK last \in 1..MaxPages :
        /\ pages' = last /\ Render(chosen, debounced, url, FALSE, last, fetches - 1)
        /\ Redraft(draft)
        /\ wish' = [wish EXCEPT !.page = IF chosen.page > last THEN last ELSE @]
  BY DEF Loaded
<1>2. PICK s, text, was, isNew :
        s = chosen /\ text = debounced /\ was = fetches - 1 /\ isNew = FALSE
  OBVIOUS
<1>3. /\ s \in FilterStates /\ text \in Words /\ url \in FilterStates /\ was \in Nat
      /\ Render(s, text, url, FALSE, last, was) /\ Render(s, text, url, isNew, last, was)
  <2>1. fetches > 0 /\ fetches \in Nat
    BY DEF Loaded, FiltersTyped
  <2>2. was \in Nat
    BY <1>2, <2>1
  <2>3. chosen \in FilterStates /\ debounced \in Words /\ url \in FilterStates
    BY DEF FiltersTyped
  <2> QED BY <1>1, <1>2, <2>2, <2>3
<1>4. FiltersTyped' /\ debounced' = text /\ url' = url
  <2>1. draft \in FilterValues
    BY DEF FiltersTyped
  <2> QED BY <1>1, <1>3, <2>1, Rendered
<1>5. /\ chosen' = Clamp(s, s, last)
      /\ ~strayed'.back => ~strayed.back
      /\ strayed'.crossed = strayed.crossed /\ strayed'.pushed = strayed.pushed
      /\ ~strayed'.back /\ ~strayed'.pushed => nav' = Asked(chosen', text, url)
  BY <1>2, <1>3, RenderedHere
<1>6. chosen = wish => chosen' = wish'
  <2>1. CASE s.page > last
    BY <1>1, <1>2, <1>5, <2>1 DEF Clamp
  <2>2. CASE ~(s.page > last)
    <3>1. chosen = wish => wish' = wish
      BY <1>1, <1>2, <1>3, <2>2 DEF FilterStates
    <3> QED BY <1>2, <1>5, <2>2, <3>1 DEF Clamp
  <2> QED BY <2>1, <2>2
<1> QED BY <1>4, <1>5, <1>6 DEF FiltersInv, Asked

\* The address arrives: it was the one the filters asked for, and asks for no other.
LEMMA NavigatedKeeps ==
  ASSUME MaxPages \in Nat \ {0}, FiltersTyped, FiltersInv, Navigated
  PROVE  /\ FiltersTyped' /\ FiltersInv'
         /\ ~strayed.back /\ ~strayed.pushed => nav' = NoUrl
<1>1. PICK s, text, address, isNew :
        s = chosen /\ text = debounced /\ address = nav /\ isNew = TRUE
  OBVIOUS
<1>2. /\ s \in FilterStates /\ text \in Words /\ address \in FilterStates /\ fetches \in Nat
      /\ pages \in 1..MaxPages /\ s.page <= pages /\ pages' = pages /\ wish' = wish
      /\ Render(s, text, address, TRUE, pages, fetches)
      /\ Render(s, text, address, isNew, pages, fetches)
      /\ Redraft(draft) /\ draft \in FilterValues
  BY <1>1 DEF Navigated, FiltersTyped
<1>3. FiltersTyped' /\ debounced' = text /\ url' = address
  BY <1>2, Rendered
<1>4. strayed' = [strayed EXCEPT
                    !.crossed = @ \/ (TRUE /\ text # chosen.search),
                    !.back = @ \/ (~TRUE /\ nav # NoUrl
                                   /\ ToUrl(SettleEffects(s, text, address, TRUE, pages).s, text) = address)]
  BY <1>2 DEF Render
<1>5. /\ strayed'.back = strayed.back /\ strayed'.pushed = strayed.pushed
      /\ ~strayed'.crossed => ~strayed.crossed /\ text = chosen.search
  BY <1>4 DEF FiltersTyped
<1>6. ASSUME ~strayed.back, ~strayed.pushed
      PROVE  nav' = NoUrl /\ chosen' = ToUrl(s, text)
  <2>1. address = ToUrl(s, text)
    BY <1>1, <1>2, <1>6, NoAddress DEF FiltersInv, Asked
  <2>2. ToUrl(address, text) = address /\ address.page <= pages
    BY <1>2, <2>1, ToUrlIs
  <2>3. Clamp(ReadUrl(s, address, TRUE), s, pages) = address /\ Clamp(address, address, pages) = address
    BY <1>2, <2>2, ClampIs DEF ReadUrl
  <2>4. /\ SettleEffects(s, text, address, TRUE, pages).s = address
        /\ SettleEffects(s, text, address, TRUE, pages).nav =
             WriteUrl(address, text, address, WriteUrl(address, text, address,
               WriteUrl(s, text, address, NoUrl)))
    BY <2>3 DEF SettleEffects
  <2>5. SettleEffects(s, text, address, TRUE, pages).nav = NoUrl
    <3>1. \A r \in FilterStates : \A asked :
            ToUrl(r, text) = address => WriteUrl(r, text, address, asked) = asked
      BY <1>2, WriteUrlIs
    <3> QED BY <1>2, <2>1, <2>2, <2>4, <3>1
  <2>6. chosen' = SettleEffects(s, text, address, TRUE, pages).s
        /\ nav' = SettleEffects(s, text, address, TRUE, pages).nav
    BY <1>2 DEF Render
  <2> QED BY <2>1, <2>4, <2>5, <2>6
<1>7. ~strayed.back /\ ~strayed.pushed => nav' = Asked(chosen', text, address)
  <2>1. ASSUME ~strayed.back, ~strayed.pushed
        PROVE  ToUrl(ToUrl(s, text), text) = address
    BY <1>1, <1>2, <2>1, ToUrlIs, NoAddress DEF FiltersInv, Asked
  <2> QED BY <1>6, <2>1 DEF Asked
<1>8. ~strayed'.crossed /\ ~strayed.back /\ ~strayed.pushed => chosen' = wish'
  BY <1>1, <1>2, <1>5, <1>6, ToUrlIs DEF FiltersInv
<1>9. FiltersInv'
  BY <1>3, <1>5, <1>7, <1>8 DEF FiltersInv, Asked
<1> QED BY <1>3, <1>6, <1>9
-----------------------------------------------------------------------------
LEMMA FiltersStart ==
  ASSUME FilterInit
  PROVE  FiltersTyped /\ FiltersInv
<1>1. PICK address \in FirstUrls :
        /\ url = address /\ debounced = address.search /\ pages = 1
        /\ chosen = Clamp(address, address, 1)
        /\ nav = IF address.page > 1 THEN [address EXCEPT !.page = 1] ELSE NoUrl
        /\ draft = Value(address)
  BY DEF FilterInit
<1>2. /\ address \in FilterStates /\ address.search \in Words /\ address.page \in Nat \ {0}
      /\ 1 \in 1..MaxPages /\ MaxPages \in Nat \ {0}
  <2>1. address \in FilterStates
    BY FilterAssumption DEF FilterStates
  <2>2. address.search \in Words /\ address.page \in Nat \ {0}
    BY <2>1 DEF FilterStates
  <2>3. MaxPages \in Nat \ {0}
    BY FilterAssumption
  <2>4. 1 \in 1..MaxPages
    BY <2>3
  <2> QED BY <2>1, <2>2, <2>3, <2>4
<1>3. draft \in FilterValues
  BY <1>1, <1>2, ValueIs
<1>4. chosen \in FilterStates /\ chosen.page <= 1
  BY <1>1, <1>2, ClampIs
<1>5. fetches = 1 /\ busy = TRUE /\ strayed = [crossed |-> FALSE, back |-> FALSE, pushed |-> FALSE]
      /\ wish = chosen
  BY DEF FilterInit
<1>6. CASE address.page > 1
  <2>1. chosen = [address EXCEPT !.page = 1] /\ nav = chosen
    BY <1>1, <1>6 DEF Clamp
  <2>2. chosen.search = address.search /\ chosen.page = 1
    BY <1>2, <2>1 DEF FilterStates
  <2>3. ToUrl(chosen, debounced) = chosen /\ chosen # url
    BY <1>1, <1>2, <1>4, <1>6, <2>2, ToUrlIs
  <2>4. nav = Asked(chosen, debounced, url) /\ nav # NoUrl /\ nav \in FilterStates
    BY <1>4, <2>1, <2>3, NoAddress DEF Asked
  <2>5. FiltersTyped
    BY <1>1, <1>2, <1>3, <1>4, <1>5, <2>4 DEF FiltersTyped
  <2> QED BY <1>5, <2>4, <2>5 DEF FiltersInv
<1>7. CASE ~(address.page > 1)
  <2>1. chosen = address /\ nav = NoUrl
    BY <1>1, <1>7 DEF Clamp
  <2>2. ToUrl(chosen, debounced) = url
    BY <1>1, <1>2, <2>1, ToUrlIs
  <2>3. nav = Asked(chosen, debounced, url)
    BY <2>1, <2>2 DEF Asked
  <2>4. FiltersTyped
    BY <1>1, <1>2, <1>3, <1>4, <1>5, <2>1, <2>2 DEF FiltersTyped
  <2> QED BY <1>5, <2>3, <2>4 DEF FiltersInv
<1> QED BY <1>6, <1>7

LEMMA FiltersStep ==
  ASSUME FiltersTyped, FiltersInv, [FilterNext]_filterVars
  PROVE  /\ FiltersTyped' /\ FiltersInv'
         /\ nav # NoUrl /\ url' = nav /\ ~strayed.pushed /\ ~strayed.back => nav' = NoUrl
<1>1. MaxPages \in Nat \ {0} /\ "" \in Words
  BY FilterAssumption
<1>2. ~strayed.pushed /\ ~strayed.back /\ nav # NoUrl => nav # url
  BY DEF FiltersInv, Asked
<1>3. CASE UNCHANGED filterVars
  <2>1. FiltersTyped' /\ FiltersInv' /\ url' = url
    BY <1>3 DEF filterVars, FiltersTyped, FiltersInv, Asked
  <2> QED BY <1>2, <2>1
<1>4. CASE Navigated
  BY <1>1, <1>4, NavigatedKeeps
<1>5. CASE Draft \/ PickProject
  <2>1. FiltersTyped' /\ FiltersInv'
    BY <1>1, <1>5, DraftKeeps, PickProjectKeeps
  <2>2. url' = url
    BY <1>5 DEF Draft, PickProject
  <2> QED BY <1>2, <2>1, <2>2
<1>6. CASE TypeSearch \/ PrevPage \/ NextPage \/ Apply \/ ResetFilters \/ DateClick \/ ViewDetails
  <2>1. FiltersTyped' /\ FiltersInv'
    BY <1>1, <1>6, PagerKeeps, ClicksKeep
  <2>2. url' = url
    BY <1>6 DEF TypeSearch, PrevPage, NextPage, Apply, ResetFilters, DateClick, ViewDetails,
                ApplyFilters, Choose, Render
  <2> QED BY <1>2, <2>1, <2>2
<1>7. CASE Debounce \/ Loaded
  <2>1. FiltersTyped' /\ FiltersInv'
    BY <1>1, <1>7, DebounceKeeps, LoadedKeeps
  <2>2. url' = url
    BY <1>7 DEF Debounce, Loaded, Render
  <2> QED BY <1>2, <2>1, <2>2
<1> QED BY <1>3, <1>4, <1>5, <1>6, <1>7 DEF FilterNext

LEMMA FiltersAlways == FilterSpec => [](FiltersTyped /\ FiltersInv)
<1>1. FilterInit => FiltersTyped /\ FiltersInv
  BY FiltersStart
<1>2. (FiltersTyped /\ FiltersInv) /\ [FilterNext]_filterVars => (FiltersTyped /\ FiltersInv)'
  BY FiltersStep
<1> QED BY <1>1, <1>2, PTL DEF FilterSpec

\* monitoring/indexing: types, and at rest the address says what the page shows.
THEOREM FilterTypes == FilterSpec => []FiltersTypeOK
<1>1. ASSUME FiltersTyped
      PROVE  FiltersTypeOK
  <2>1. /\ chosen \in FilterStates /\ pages \in 1..MaxPages /\ chosen.page <= pages
        /\ MaxPages \in Nat \ {0} /\ draft \in FilterValues /\ (busy => fetches > 0)
    BY <1>1, FilterAssumption DEF FiltersTyped
  <2>2. /\ chosen.status \in FilterStatuses /\ chosen.day \in Days /\ chosen.search \in Words
        /\ chosen.page \in Nat \ {0}
    BY <2>1 DEF FilterStates
  <2>3. chosen.page \in 1..MaxPages
    BY <2>1, <2>2
  <2>4. nav = NoUrl /\ debounced = chosen.search => url = chosen
    BY <1>1, <2>1, <2>2, ToUrlIs DEF FiltersTyped
  <2> QED BY <2>1, <2>2, <2>3, <2>4 DEF FiltersTypeOK, FilterValues
<1>2. FiltersTyped => FiltersTypeOK
  BY <1>1
<1> QED BY <1>2, FiltersAlways, PTL

\* monitoring/indexing, its two effects: the page comes to rest with what the user chose
\* last, and the arrival of an address asks for no other.
THEOREM ChoicesSettle == FilterSpec => ChoiceSettles
<1>1. FiltersTyped /\ FiltersInv => ChosenIsKept
  BY DEF FiltersInv, ChosenIsKept
<1>2. FiltersTyped /\ FiltersInv /\ [FilterNext]_filterVars
        => [nav # NoUrl /\ url' = nav /\ ~(strayed.pushed \/ strayed.back) => nav' = NoUrl]_filterVars
  BY FiltersStep
<1> QED BY <1>1, <1>2, FiltersAlways, PTL DEF FilterSpec, ChoiceSettles, AddressSettles
=============================================================================
