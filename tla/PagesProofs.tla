---------------------------- MODULE PagesProofs -----------------------------
(***************************************************************************)
(* The link of a site, for any number of tasks, links and workers, and     *)
(* the pages of the console, for any page, any number of actions and loads *)
(* under way and any budget.                                               *)
(*                                                                         *)
(* The link.  The page is read in one statement and written in another,    *)
(* the row and the site are told later still, and a run may die in between *)
(* and be begun again: the invariant says what a run knows at each place,  *)
(* that one task at most is to be run, and that a link on the page is      *)
(* either that of the site's last task or that of the task to be run.      *)
(***************************************************************************)
EXTENDS ProjectPages, LegacyImportProofs, ScheduleProofs, TLAPS

Statuses == Wanted \cup Final \cup {"none"}
Acts == {"insert", "remove"}
Places == {"rest", "look", "read", "write", "record", "tell"}
SiteStatuses == Wanted \cup Final \cup {"ready", "needs_relink"}
RowSet == [st : Statuses, act : Acts, link : Links, att : Nat, due : BOOLEAN, old : BOOLEAN]
RunSet == [at : Places, task : Tasks \cup {NoTask}, act : Acts, link : Links, att : Nat,
           prev : Links, page : [Links -> Nat]]
SchedSet == [at : {"rest", "row", "domain"}, task : Tasks \cup {NoTask}, act : Acts]

LinkTyped ==
  /\ rows \in [Tasks -> RowSet]
  /\ setting \in Links
  /\ domain \in [st : SiteStatuses, last : Tasks \cup {NoTask}]
  /\ html \in [Links -> Nat]
  /\ sched \in SchedSet /\ (sched.at = "rest" <=> sched.task = NoTask)
  /\ msgs \in [Tasks -> Nat]
  /\ crew \in [Workers -> RunSet]
  /\ \A w \in Workers : crew[w].at = "rest" <=> crew[w].task = NoTask
  /\ crossed \in BOOLEAN /\ outrun \in BOOLEAN

\* A row that waits for a retry may be retried.
RetriesInLimit ==
  \A t \in Tasks : rows[t].st = "pending" /\ ~rows[t].due => rows[t].att <= MaxRetries

\* Somebody is to run t, or runs it.
Awaited(t) ==
  rows[t].st \in Wanted \/ msgs[t] > 0 \/ \E w \in Workers : crew[w].task = t

OneRun == \A v, w \in Workers : crew[v].at # "rest" /\ crew[w].at # "rest" => v = w

OneTask ==
  \A t, u \in Tasks : (Awaited(t) \/ sched.task = t) /\ (Awaited(u) \/ sched.task = u) => t = u

RowsThere ==
  /\ \A t \in Tasks : Awaited(t) \/ sched.task = t => Exists(t)
  /\ domain.last # NoTask => Exists(domain.last)

\* The page has the link alone, or none at all.
OnlyLink(page, link) == \A k \in Links : page[k] = IF k = link THEN 1 ELSE 0
Bare(page) == \A k \in Links : page[k] = 0
Result(page, act, link) == IF act = "insert" THEN OnlyLink(page, link) ELSE Bare(page)

OneLink == \A k, l \in Links : html[k] <= 1 /\ (k # l => html[k] = 0 \/ html[l] = 0)

\* A link on the page is that of the last task, or that of a task to be run, which will find it:
\* an insertion looks for its own, a removal only when no other task is the last.
LinksAreKnown ==
  \A k \in Links : html[k] > 0 =>
    \/ domain.last # NoTask /\ rows[domain.last].link = k
    \/ \E t \in Tasks : Awaited(t) /\ rows[t].link = k /\ (rows[t].act = "remove" => ~Other(t))

\* What a run knows at each place.
RunKnows(w) ==
  LET me == crew[w]
      t == me.task IN
  /\ me.act = rows[t].act /\ me.link = rows[t].link /\ me.prev = Prev(t)
  /\ me.att = rows[t].att /\ me.att > 0
  /\ me.at = "read" => me.act = "insert" /\ Bare(html)
  /\ me.at = "write" => Result(me.page, me.act, me.link)
  /\ me.at \in {"record", "tell"} => Result(html, me.act, me.link)
RunsKnow == \A w \in Workers : crew[w].at # "rest" => RunKnows(w)

\* A site that says how it ended is at rest, with the page of its last task.
SiteIsTrue ==
  domain.st \in {"inserted", "removed"} =>
    /\ \A w \in Workers : crew[w].at = "rest"
    /\ domain.last # NoTask
    /\ Result(html, IF domain.st = "inserted" THEN "insert" ELSE "remove", rows[domain.last].link)

\* A task that was enqueued waits in the queue, or was begun.
Begun(t) == msgs[t] > 0 \/ rows[t].att > 0
EnqueuedIsBegun == sched.at = "row" => Begun(sched.task)

\* A site that says that its link is worked at, or is to be told so, is.
SiteIsWorkedAt ==
  ~outrun /\ (domain.st \in {"searching", "removing"} \/ sched.at = "domain") =>
    \E t \in Tasks : Awaited(t) /\ Begun(t)

Agreed ==
  /\ OneRun /\ OneTask /\ RowsThere /\ OneLink /\ LinksAreKnown /\ RunsKnow
  /\ SiteIsTrue /\ EnqueuedIsBegun /\ SiteIsWorkedAt

LinkInv == LinkTyped /\ RetriesInLimit /\ (crossed \/ Agreed)
-----------------------------------------------------------------------------
(***************************************************************************)
(* What the operators of the model do, whoever uses them.                  *)
(***************************************************************************)
\* An UPDATE by id concerns one row that exists, and neither its link nor its action.
LEMMA WriteRows ==
  ASSUME rows \in [Tasks -> RowSet], NEW t \in Tasks, NEW st \in Statuses \ {"none"},
         NEW att \in Nat, NEW due \in BOOLEAN, Write(t, st, att, due)
  PROVE  /\ rows' \in [Tasks -> RowSet]
         /\ \A u \in Tasks : rows'[u].link = rows[u].link /\ rows'[u].act = rows[u].act
         /\ \A u \in Tasks : Exists(u)' <=> Exists(u)
         /\ \A u \in Tasks : u # t => rows'[u] = rows[u]
         /\ Exists(t) => rows'[t].st = st /\ rows'[t].att = att /\ rows'[t].due = due
         /\ ~Exists(t) => rows' = rows
<1>1. CASE ~Exists(t)
  BY <1>1 DEF Write, Exists
<1>2. CASE Exists(t)
  <2>1. rows' = [rows EXCEPT ![t] = [rows[t] EXCEPT !.st = st, !.att = att, !.due = due, !.old = FALSE]]
    BY <1>2 DEF Write
  <2>2. [rows[t] EXCEPT !.st = st, !.att = att, !.due = due, !.old = FALSE] \in RowSet
    BY DEF RowSet
  <2>3. rows' \in [Tasks -> RowSet]
    BY <2>1, <2>2
  <2>4. /\ rows'[t].link = rows[t].link /\ rows'[t].act = rows[t].act
        /\ rows'[t].st = st /\ rows'[t].att = att /\ rows'[t].due = due
    BY <2>1 DEF RowSet
  <2>5. \A u \in Tasks : u # t => rows'[u] = rows[u]
    BY <2>1
  <2> QED BY <1>2, <2>3, <2>4, <2>5 DEF Exists
<1> QED BY <1>1, <1>2

\* A row that is started anew, or created.
NewRow(act, link) == [NoRow EXCEPT !.st = "pending", !.act = act, !.link = link]

LEMMA NewRowIs ==
  ASSUME NEW act \in Acts, NEW link \in Links
  PROVE  /\ NewRow(act, link) \in RowSet
         /\ NewRow(act, link).st = "pending" /\ NewRow(act, link).due
         /\ NewRow(act, link).act = act /\ NewRow(act, link).link = link
BY DEF NewRow, NoRow, RowSet, Statuses, Wanted

\* A new row takes a place nobody uses.
LEMMA CreatedRow ==
  ASSUME NEW act, Create(act)
  PROVE  \E t \in Tasks : /\ ~Exists(t) /\ ~InHand(t) /\ t # domain.last
                          /\ rows' = [rows EXCEPT ![t] = NewRow(act, setting)]
<1> DEFINE unused == {t \in Tasks : ~Exists(t) /\ ~InHand(t) /\ t # domain.last}
           new == CHOOSE t \in unused : TRUE
<1>1. unused # {} /\ rows' = [rows EXCEPT ![new] = NewRow(act, setting)]
  BY DEF Create, NewRow
<1>2. new \in unused
  BY <1>1
<1> QED BY <1>1, <1>2

LEMMA LiveIs ==
  ASSUME LinkTyped, NEW t \in Tasks
  PROVE  Live(t) <=> Awaited(t) \/ sched.task = t
BY LinkAssumption DEF LinkTyped, Live, InHand, RunOf, Busy, ActiveTasks, Awaited

LEMMA InHandIs ==
  ASSUME LinkTyped, NEW t \in Tasks
  PROVE  InHand(t) <=> msgs[t] > 0 \/ sched.task = t \/ \E w \in Workers : crew[w].task = t
BY LinkAssumption DEF LinkTyped, InHand, RunOf, Busy

\* A run under way has a task.
LEMMA RunHasTask ==
  ASSUME LinkTyped, NEW w \in Workers, crew[w].at # "rest"
  PROVE  crew[w].task \in Tasks
BY DEF LinkTyped, RunSet

LEMMA DoingIs == \A act : Doing(act) \in {"searching", "removing"}
BY DEF Doing

LEMMA DoneIs == \A act : Done(act) \in {"inserted", "removed"}
BY DEF Done

\* A worker that goes on with its run, or ends it, stays one worker among those there are.
LEMMA GotoTyped ==
  ASSUME LinkTyped, NEW w \in Workers, crew[w].at # "rest", NEW place \in Places \ {"rest"},
         Goto(w, place)
  PROVE  /\ crew' \in [Workers -> RunSet]
         /\ \A v \in Workers : crew'[v].at = "rest" <=> crew'[v].task = NoTask
BY DEF LinkTyped, RunSet, Goto, Places

LEMMA GoWriteTyped ==
  ASSUME LinkTyped, NEW w \in Workers, crew[w].at # "rest", NEW page \in [Links -> Nat],
         GoWrite(w, page)
  PROVE  /\ crew' \in [Workers -> RunSet]
         /\ \A v \in Workers : crew'[v].at = "rest" <=> crew'[v].task = NoTask
<1> DEFINE run == [crew[w] EXCEPT !.at = "write", !.page = page]
<1>1. run \in RunSet /\ run.at = "write" /\ run.task = crew[w].task
  BY DEF LinkTyped, RunSet, Places
<1>2. crew' = [crew EXCEPT ![w] = run]
  BY DEF GoWrite, LinkTyped
<1> QED BY <1>1, <1>2 DEF LinkTyped

LEMMA FreeTyped ==
  ASSUME LinkTyped, NEW w \in Workers, crew' = [crew EXCEPT ![w] = Free]
  PROVE  /\ crew' \in [Workers -> RunSet]
         /\ \A v \in Workers : crew'[v].at = "rest" <=> crew'[v].task = NoTask
<1>1. Links # {} /\ AnyLink \in Links
  BY DEF LinkTyped, AnyLink
<1>2. Free \in RunSet /\ Free.at = "rest" /\ Free.task = NoTask
  BY <1>1 DEF Free, RunSet, Places, Acts, NoLinks
<1> QED BY <1>2 DEF LinkTyped

-----------------------------------------------------------------------------
(***************************************************************************)
(* Steps of a kind.                                                        *)
(***************************************************************************)
\* What is left alone when no link, no action and no attempt of a row changes.
RowsAlike ==
  \A t \in Tasks : /\ rows'[t].link = rows[t].link /\ rows'[t].act = rows[t].act
                   /\ rows'[t].att = rows[t].att
                   /\ Exists(t)' <=> Exists(t)

LEMMA AlikePrev ==
  ASSUME LinkTyped, \A t \in Tasks : rows'[t].link = rows[t].link /\ (Exists(t)' <=> Exists(t)),
         domain'.last = domain.last
  PROVE  \A t \in Tasks : (Other(t)' <=> Other(t)) /\ Prev(t)' = Prev(t)
<1>1. domain.last \in Tasks \cup {NoTask}
  BY DEF LinkTyped
<1>2. \A t \in Tasks : Other(t)' <=> Other(t)
  BY <1>1 DEF Other
<1> QED BY <1>1, <1>2 DEF Prev, Other

\* The scheduler and the clock take no run further: what is agreed on stays so.
LEMMA AlikeAgreed ==
  ASSUME LinkTyped, Agreed, RowsAlike,
         \A t \in Tasks : Awaited(t) => Awaited(t)',
         \A t \in Tasks : Awaited(t)' \/ sched'.task = t => Awaited(t) \/ sched.task = t,
         UNCHANGED <<html, crew>>, domain'.last = domain.last,
         domain'.st \in {"inserted", "removed"} => domain' = domain
  PROVE  /\ OneRun' /\ OneTask' /\ RowsThere' /\ OneLink' /\ LinksAreKnown' /\ RunsKnow' /\ SiteIsTrue'
<1>1. domain.last \in Tasks \cup {NoTask}
  BY DEF LinkTyped
<1>2. \A t \in Tasks : (Other(t)' <=> Other(t)) /\ Prev(t)' = Prev(t)
  BY AlikePrev DEF RowsAlike
<1>3. OneRun' /\ OneLink'
  BY DEF Agreed, OneRun, OneLink
<1>4. OneTask'
  BY DEF Agreed, OneTask
<1>5. RowsThere'
  BY <1>1 DEF Agreed, RowsThere, RowsAlike
<1>6. LinksAreKnown'
  BY <1>1, <1>2 DEF Agreed, LinksAreKnown, RowsAlike
<1>7. RunsKnow'
  <2> SUFFICES ASSUME NEW w \in Workers, crew[w].at # "rest" PROVE RunKnows(w)'
    BY DEF RunsKnow
  <2>1. RunKnows(w) /\ crew[w].task \in Tasks
    BY RunHasTask DEF Agreed, RunsKnow
  <2> QED BY <2>1, <1>2 DEF RunKnows, RowsAlike
<1>8. SiteIsTrue'
  BY <1>1 DEF Agreed, SiteIsTrue, RowsAlike
<1> QED BY <1>3, <1>4, <1>5, <1>6, <1>7, <1>8

\* A run goes on to a place of which it knows what it should.
LEMMA RunGoesOn ==
  ASSUME LinkTyped, Agreed, RowsAlike, NEW w \in Workers, crew[w].at # "rest", crew'[w].at # "rest",
         crew'[w].task = crew[w].task, crew'[w].act = crew[w].act, crew'[w].link = crew[w].link,
         crew'[w].att = crew[w].att, crew'[w].prev = crew[w].prev,
         \A v \in Workers : v # w => crew'[v] = crew[v],
         \A t \in Tasks : t # crew[w].task => rows'[t].st = rows[t].st,
         UNCHANGED <<domain, sched, msgs, outrun>>,
         html' = html \/ Result(html', crew[w].act, crew[w].link),
         crew'[w].at = "read" => crew[w].act = "insert" /\ Bare(html'),
         crew'[w].at = "write" => Result(crew'[w].page, crew[w].act, crew[w].link),
         crew'[w].at \in {"record", "tell"} => Result(html', crew[w].act, crew[w].link)
  PROVE  Agreed'
<1> DEFINE t == crew[w].task
<1>1. t \in Tasks /\ domain.last \in Tasks \cup {NoTask}
  BY RunHasTask DEF LinkTyped
<1>2. \A u \in Tasks : (Other(u)' <=> Other(u)) /\ Prev(u)' = Prev(u)
  BY AlikePrev DEF RowsAlike
<1>3. \A u \in Tasks : Awaited(u)' <=> Awaited(u)
  BY DEF Awaited
<1>4. RunKnows(w) /\ \A v \in Workers : v # w => crew[v].at = "rest"
  BY DEF Agreed, RunsKnow, OneRun
<1>5. OneRun'
  BY <1>4 DEF OneRun
<1>6. OneTask'
  BY <1>3 DEF Agreed, OneTask
<1>7. RowsThere'
  BY <1>1, <1>3 DEF Agreed, RowsThere, RowsAlike
<1>8. OneLink'
  BY DEF Agreed, OneLink, Result, OnlyLink, Bare
<1>9. LinksAreKnown'
  <2>1. CASE html' = html
    BY <2>1, <1>1, <1>2, <1>3 DEF Agreed, LinksAreKnown, RowsAlike
  <2>2. CASE Result(html', crew[w].act, crew[w].link) /\ crew[w].act = "insert"
    <3>1. \A k \in Links : html'[k] > 0 => k = crew[w].link
      BY <2>2 DEF Result, OnlyLink
    <3>2. Awaited(t)' /\ rows'[t].link = crew[w].link /\ rows'[t].act = "insert"
      BY <1>1, <1>4, <2>2 DEF Awaited, RunKnows, RowsAlike
    <3> QED BY <1>1, <3>1, <3>2 DEF LinksAreKnown
  <2>3. CASE Result(html', crew[w].act, crew[w].link) /\ crew[w].act # "insert"
    BY <2>3 DEF Result, Bare, LinksAreKnown
  <2> QED BY <2>1, <2>2, <2>3
<1>10. RunsKnow'
  <2>1. RunKnows(w)'
    BY <1>1, <1>2, <1>4 DEF RunKnows, RowsAlike
  <2> QED BY <2>1, <1>4 DEF RunsKnow
<1>11. SiteIsTrue'
  BY DEF Agreed, SiteIsTrue
<1>12. \A u \in Tasks : Begun(u)' <=> Begun(u)
  BY DEF Begun, RowsAlike
<1>13. EnqueuedIsBegun'
  <2>1. sched.at = "row" => sched.task \in Tasks
    BY DEF LinkTyped, SchedSet
  <2> QED BY <1>12, <2>1 DEF Agreed, EnqueuedIsBegun
<1>14. SiteIsWorkedAt'
  BY <1>3, <1>12 DEF Agreed, SiteIsWorkedAt
<1> QED BY <1>5, <1>6, <1>7, <1>8, <1>9, <1>10, <1>11, <1>13, <1>14 DEF Agreed

-----------------------------------------------------------------------------
(***************************************************************************)
(* The scheduler and the clock.                                            *)
(***************************************************************************)
LEMMA InvInitially == LinkInit => LinkInv
<1> SUFFICES ASSUME LinkInit PROVE LinkInv
  OBVIOUS
<1>1. AnyLink \in Links
  BY DEF LinkInit, AnyLink
<1>2. LinkTyped
  <2>1. rows \in [Tasks -> RowSet]
    BY <1>1 DEF LinkInit, NoRow, RowSet, Statuses, Acts
  <2>2. crew \in [Workers -> RunSet]
    BY <1>1 DEF LinkInit, Free, NoLinks, RunSet, Places, Acts
  <2>3. \A w \in Workers : crew[w].at = "rest" /\ crew[w].task = NoTask
    BY DEF LinkInit, Free
  <2>4. html \in [Links -> Nat] /\ msgs \in [Tasks -> Nat] /\ setting \in Links
    BY DEF LinkInit, NoLinks
  <2>5. sched \in SchedSet /\ sched.at = "rest" /\ sched.task = NoTask
    BY DEF LinkInit, Idle, SchedSet, Acts
  <2>6. domain \in [st : SiteStatuses, last : Tasks \cup {NoTask}]
    BY DEF LinkInit, SiteStatuses
  <2> QED BY <2>1, <2>2, <2>3, <2>4, <2>5, <2>6 DEF LinkInit, LinkTyped
<1>3. RetriesInLimit
  BY DEF LinkInit, RetriesInLimit, NoRow
<1>4. \A t \in Tasks : ~Awaited(t) /\ sched.task # t
  BY LinkAssumption DEF LinkInit, Awaited, NoRow, Free, Idle, Wanted
<1>5. \A w \in Workers : crew[w].at = "rest"
  BY DEF LinkInit, Free
<1>6. OneRun /\ OneTask /\ RowsThere /\ RunsKnow
  BY <1>4, <1>5 DEF LinkInit, OneRun, OneTask, RowsThere, RunsKnow
<1>7. OneLink /\ LinksAreKnown
  BY DEF LinkInit, OneLink, LinksAreKnown, NoLinks
<1>8. SiteIsTrue /\ EnqueuedIsBegun /\ SiteIsWorkedAt
  BY DEF LinkInit, SiteIsTrue, EnqueuedIsBegun, SiteIsWorkedAt, Idle
<1> QED BY <1>2, <1>3, <1>6, <1>7, <1>8 DEF LinkInv, Agreed

\* Only the status of a row is written, with one a task is to be run in.
LEMMA WriteWantedAlike ==
  ASSUME LinkTyped, NEW t \in Tasks, NEW st \in Wanted, Write(t, st, rows[t].att, rows[t].due)
  PROVE  /\ rows' \in [Tasks -> RowSet] /\ RowsAlike
         /\ \A u \in Tasks : u # t => rows'[u] = rows[u]
         /\ Exists(t) => rows'[t].st = st /\ rows'[t].due = rows[t].due
         /\ ~Exists(t) => rows' = rows
<1>1. rows[t].att \in Nat /\ rows[t].due \in BOOLEAN /\ rows \in [Tasks -> RowSet] /\ st \in Statuses \ {"none"}
  BY DEF LinkTyped, RowSet, Statuses, Wanted
<1>2. /\ rows' \in [Tasks -> RowSet]
      /\ \A u \in Tasks : rows'[u].link = rows[u].link /\ rows'[u].act = rows[u].act
      /\ \A u \in Tasks : Exists(u)' <=> Exists(u)
      /\ \A u \in Tasks : u # t => rows'[u] = rows[u]
      /\ Exists(t) => rows'[t].st = st /\ rows'[t].att = rows[t].att /\ rows'[t].due = rows[t].due
      /\ ~Exists(t) => rows' = rows
  BY <1>1, WriteRows
<1>3. \A u \in Tasks : rows'[u].att = rows[u].att
  BY <1>2
<1> QED BY <1>2, <1>3 DEF RowsAlike

LEMMA ResetStuckKeeps ==
  ASSUME LinkInv, NEW t \in Tasks, ResetStuck(t)
  PROVE  LinkInv'
<1> USE DEF LinkInv
<1>1. /\ rows' \in [Tasks -> RowSet] /\ RowsAlike
      /\ \A u \in Tasks : u # t => rows'[u] = rows[u]
      /\ rows'[t].st = "pending" /\ rows'[t].due = rows[t].due
  BY WriteWantedAlike DEF ResetStuck, Wanted, Exists
<1>2. rows[t].att <= MaxRetries
  BY LinkAssumption DEF ResetStuck, LinkTyped, RowSet
<1>3. LinkTyped'
  BY <1>1 DEF ResetStuck, LinkTyped
<1>4. RetriesInLimit'
  BY <1>1, <1>2 DEF RetriesInLimit, RowsAlike
<1>5. ASSUME ~crossed' PROVE Agreed'
  <2>1. Agreed
    BY <1>5 DEF ResetStuck
  <2>2. \A u \in Tasks : Awaited(u) <=> Awaited(u)'
    BY <1>1 DEF ResetStuck, Awaited, Wanted
  <2>3. \A u \in Tasks : Begun(u) <=> Begun(u)'
    BY <1>1 DEF ResetStuck, Begun, RowsAlike
  <2>4. OneRun' /\ OneTask' /\ RowsThere' /\ OneLink' /\ LinksAreKnown' /\ RunsKnow' /\ SiteIsTrue'
    BY <1>1, <2>1, <2>2, AlikeAgreed DEF ResetStuck
  <2>5. EnqueuedIsBegun' /\ SiteIsWorkedAt'
    BY <2>1, <2>2, <2>3 DEF ResetStuck, Agreed, EnqueuedIsBegun, SiteIsWorkedAt
  <2> QED BY <2>4, <2>5 DEF Agreed
<1> QED BY <1>3, <1>4, <1>5 DEF LinkTyped

\* A flag of a row changes.
LEMMA FlagKeeps ==
  ASSUME LinkInv, NEW t \in Tasks, NEW due \in BOOLEAN, NEW old \in BOOLEAN, rows[t].due => due,
         rows' = [rows EXCEPT ![t] = [rows[t] EXCEPT !.due = due, !.old = old]],
         UNCHANGED <<setting, domain, html, sched, msgs, crew, crossed, outrun>>
  PROVE  LinkInv'
<1> USE DEF LinkInv
<1>1. rows'[t] = [rows[t] EXCEPT !.due = due, !.old = old] /\ \A u \in Tasks : u # t => rows'[u] = rows[u]
  BY DEF LinkTyped
<1>2. rows'[t] \in RowSet
  BY <1>1 DEF LinkTyped, RowSet
<1>3. LinkTyped'
  BY <1>2 DEF LinkTyped
<1>4. /\ rows'[t].st = rows[t].st /\ rows'[t].att = rows[t].att /\ rows'[t].due = due
      /\ rows'[t].link = rows[t].link /\ rows'[t].act = rows[t].act
  BY <1>1 DEF LinkTyped, RowSet
<1>5. RowsAlike /\ \A u \in Tasks : rows'[u].st = rows[u].st
  BY <1>1, <1>4 DEF RowsAlike, Exists
<1>6. RetriesInLimit'
  BY <1>1, <1>4 DEF RetriesInLimit
<1>7. ASSUME ~crossed' PROVE Agreed'
  <2>1. \A u \in Tasks : (Awaited(u) <=> Awaited(u)') /\ (Begun(u) <=> Begun(u)')
    BY <1>5 DEF Awaited, Begun, RowsAlike
  <2>2. OneRun' /\ OneTask' /\ RowsThere' /\ OneLink' /\ LinksAreKnown' /\ RunsKnow' /\ SiteIsTrue'
    BY <1>5, <1>7, <2>1, AlikeAgreed
  <2>3. EnqueuedIsBegun' /\ SiteIsWorkedAt'
    <3>1. sched.at = "row" => sched.task \in Tasks
      BY DEF LinkTyped, SchedSet
    <3> QED BY <1>7, <2>1, <3>1 DEF Agreed, EnqueuedIsBegun, SiteIsWorkedAt
  <2> QED BY <2>2, <2>3 DEF Agreed
<1> QED BY <1>3, <1>6, <1>7 DEF LinkTyped

LEMMA GrowOldKeeps ==
  ASSUME LinkInv, NEW t \in Tasks, GrowOld(t)
  PROVE  LinkInv'
<1>1. rows' = [rows EXCEPT ![t] = [rows[t] EXCEPT !.due = rows[t].due, !.old = TRUE]]
  BY DEF GrowOld, LinkInv, LinkTyped, RowSet
<1>2. rows[t].due \in BOOLEAN
  BY DEF LinkInv, LinkTyped, RowSet
<1> QED BY <1>1, <1>2, FlagKeeps DEF GrowOld

LEMMA FallDueKeeps ==
  ASSUME LinkInv, NEW t \in Tasks, FallDue(t)
  PROVE  LinkInv'
<1>1. rows' = [rows EXCEPT ![t] = [rows[t] EXCEPT !.due = TRUE, !.old = rows[t].old]]
  BY DEF FallDue, LinkInv, LinkTyped, RowSet
<1>2. rows[t].old \in BOOLEAN
  BY DEF LinkInv, LinkTyped, RowSet
<1> QED BY <1>1, <1>2, FlagKeeps DEF FallDue

LEMMA EnqueueKeeps ==
  ASSUME LinkInv, NEW t \in Tasks, Enqueue(t)
  PROVE  LinkInv'
<1> USE DEF LinkInv
<1>1. msgs' \in [Tasks -> Nat] /\ msgs'[t] > 0 /\ \A u \in Tasks : u # t => msgs'[u] = msgs[u]
  BY DEF Enqueue, LinkTyped
<1>2. sched' \in SchedSet /\ sched'.at = "row" /\ sched'.task = t /\ t # NoTask
  BY LinkAssumption DEF Enqueue, LinkTyped, SchedSet, RowSet
<1>3. LinkTyped'
  BY <1>1, <1>2 DEF Enqueue, LinkTyped
<1>4. RetriesInLimit'
  BY DEF Enqueue, RetriesInLimit
<1>5. ASSUME ~crossed' PROVE Agreed'
  <2>1. Agreed /\ RowsAlike
    BY <1>5 DEF Enqueue, RowsAlike, Exists
  <2>2. \A u \in Tasks : (Awaited(u) <=> Awaited(u)')
    BY <1>1 DEF Enqueue, Awaited, Wanted
  <2>3. \A u \in Tasks : Begun(u) => Begun(u)'
    BY <1>1 DEF Enqueue, Begun
  <2>4. Awaited(t)
    BY DEF Enqueue, Awaited, Wanted
  <2>5. \A u \in Tasks : Awaited(u)' \/ sched'.task = u => Awaited(u) \/ sched.task = u
    BY <1>2, <2>2, <2>4
  <2>6. OneRun' /\ OneTask' /\ RowsThere' /\ OneLink' /\ LinksAreKnown' /\ RunsKnow' /\ SiteIsTrue'
    BY <2>1, <2>2, <2>5, AlikeAgreed DEF Enqueue
  <2>7. EnqueuedIsBegun'
    BY <1>1, <1>2 DEF EnqueuedIsBegun, Begun
  <2>8. SiteIsWorkedAt'
    BY <1>2, <2>1, <2>2, <2>3 DEF Enqueue, Agreed, SiteIsWorkedAt
  <2> QED BY <2>6, <2>7, <2>8 DEF Agreed
<1> QED BY <1>3, <1>4, <1>5 DEF LinkTyped

LEMMA MarkRowKeeps ==
  ASSUME LinkInv, MarkRow
  PROVE  LinkInv'
<1> USE DEF LinkInv
<1>1. PICK t \in Tasks : t = sched.task /\ Doing(sched.act) \in Wanted \ {"pending"}
  BY DEF MarkRow, LinkTyped, SchedSet, Doing, Wanted
<1>2. sched' \in SchedSet /\ sched'.at = "domain" /\ sched'.task = t
  BY <1>1 DEF MarkRow, LinkTyped, SchedSet
<1>3. /\ rows' \in [Tasks -> RowSet] /\ RowsAlike
      /\ \A u \in Tasks : u # t => rows'[u] = rows[u]
      /\ Exists(t) => rows'[t].st = Doing(sched.act) /\ rows'[t].due = rows[t].due
      /\ ~Exists(t) => rows' = rows
  <2>1. Write(t, Doing(sched.act), rows[t].att, rows[t].due) /\ Doing(sched.act) \in Wanted
    BY <1>1 DEF MarkRow
  <2> QED BY <1>1, <2>1, WriteWantedAlike
<1>4. LinkTyped'
  BY <1>1, <1>2, <1>3, LinkAssumption DEF MarkRow, LinkTyped
<1>5. RetriesInLimit'
  BY <1>1, <1>3 DEF RetriesInLimit
<1>6. ASSUME ~crossed' PROVE Agreed'
  <2>1. Agreed
    BY <1>6 DEF MarkRow
  <2>2. Exists(t) /\ rows'[t].st \in Wanted /\ Awaited(t)'
    BY <1>1, <1>3, <2>1 DEF Agreed, RowsThere, Awaited
  <2>3. \A u \in Tasks : u # t => (Awaited(u) <=> Awaited(u)')
    BY <1>3 DEF MarkRow, Awaited
  <2>4. \A u \in Tasks : Begun(u) <=> Begun(u)'
    BY <1>3 DEF MarkRow, Begun, RowsAlike
  <2>5. OneRun' /\ OneTask' /\ RowsThere' /\ OneLink' /\ LinksAreKnown' /\ RunsKnow' /\ SiteIsTrue'
    BY <1>2, <1>3, <2>1, <2>2, <2>3, AlikeAgreed DEF MarkRow
  <2>6. EnqueuedIsBegun'
    BY <1>2 DEF EnqueuedIsBegun
  <2>7. Begun(t)'
    BY <1>1, <2>1, <2>4 DEF MarkRow, Agreed, EnqueuedIsBegun
  <2>8. SiteIsWorkedAt'
    BY <1>1, <2>2, <2>7 DEF SiteIsWorkedAt
  <2> QED BY <2>5, <2>6, <2>8 DEF Agreed
<1> QED BY <1>4, <1>5, <1>6 DEF LinkTyped

\* The scheduler leaves its item, with the site marked or not.
LEMMA ItemLeftKeeps ==
  ASSUME LinkInv, sched' = Idle, sched.at # "rest", domain' \in [st : SiteStatuses, last : Tasks \cup {NoTask}],
         domain'.last = domain.last,
         domain' = domain \/ (sched.at = "domain" /\ domain'.st \in {"searching", "removing"}),
         UNCHANGED <<rows, setting, html, msgs, crew, crossed, outrun>>
  PROVE  LinkInv'
<1> USE DEF LinkInv
<1>1. Idle \in SchedSet /\ Idle.at = "rest" /\ Idle.task = NoTask
  BY DEF Idle, SchedSet, Acts
<1>2. LinkTyped' /\ RetriesInLimit'
  BY <1>1 DEF LinkTyped, RetriesInLimit
<1>3. ASSUME ~crossed' PROVE Agreed'
  <2>1. Agreed /\ RowsAlike
    BY <1>3 DEF RowsAlike, Exists
  <2>2. \A u \in Tasks : (Awaited(u) <=> Awaited(u)') /\ (Begun(u) <=> Begun(u)') /\ sched'.task # u
    BY <1>1, LinkAssumption DEF Awaited, Begun
  <2>3. OneRun' /\ OneTask' /\ RowsThere' /\ OneLink' /\ LinksAreKnown' /\ RunsKnow' /\ SiteIsTrue'
    BY <2>1, <2>2, AlikeAgreed
  <2>4. EnqueuedIsBegun' /\ SiteIsWorkedAt'
    BY <1>1, <2>1, <2>2 DEF Agreed, EnqueuedIsBegun, SiteIsWorkedAt
  <2> QED BY <2>3, <2>4 DEF Agreed
<1> QED BY <1>2, <1>3 DEF LinkTyped

LEMMA MarkDomainKeeps ==
  ASSUME LinkInv, MarkDomain
  PROVE  LinkInv'
<1>1. /\ domain' \in [st : SiteStatuses, last : Tasks \cup {NoTask}]
      /\ domain'.last = domain.last /\ domain'.st \in {"searching", "removing"}
  BY DEF MarkDomain, LinkInv, LinkTyped, Doing, SiteStatuses, Wanted
<1> QED BY <1>1, ItemLeftKeeps DEF MarkDomain

LEMMA LoseTickKeeps ==
  ASSUME LinkInv, LoseTick
  PROVE  LinkInv'
BY ItemLeftKeeps DEF LoseTick, LinkInv, LinkTyped

-----------------------------------------------------------------------------
(***************************************************************************)
(* The workers.                                                            *)
(***************************************************************************)
LEMMA BeginKeeps ==
  ASSUME LinkInv, NEW w \in Workers, NEW t \in Tasks, Begin(w, t)
  PROVE  LinkInv'
<1> USE DEF LinkInv
<1>1. msgs' \in [Tasks -> Nat] /\ \A u \in Tasks : u # t => msgs'[u] = msgs[u]
  BY DEF Begin, LinkTyped
<1>2. CASE ~Exists(t)
  <2>1. LinkTyped' /\ RetriesInLimit'
    BY <1>1, <1>2 DEF Begin, LinkTyped, RetriesInLimit
  <2>2. crossed
    BY <1>2 DEF Begin, LinkTyped, Agreed, RowsThere, Awaited
  <2> QED BY <1>2, <2>1, <2>2 DEF Begin
<1>3. CASE Exists(t)
  <2> DEFINE told == rows[t]
             run == [at |-> "look", task |-> t, act |-> told.act, link |-> told.link, att |-> told.att + 1,
                     prev |-> Prev(t), page |-> NoLinks]
  <2>1. told \in RowSet /\ Prev(t) \in Links
    BY DEF LinkTyped, RowSet, Prev, Other
  <2>2. run \in RunSet /\ run.at # "rest" /\ run.task # NoTask
    BY <2>1, LinkAssumption DEF RunSet, RowSet, Places, NoLinks
  <2>3. /\ crew' = [crew EXCEPT ![w] = run]
        /\ Write(t, Doing(told.act), told.att + 1, told.due)
        /\ domain' = [domain EXCEPT !.st = Doing(told.act)]
        /\ crossed' = (crossed \/ Busy # {})
    BY <1>3 DEF Begin
  <2>4. Doing(told.act) \in {"searching", "removing"} /\ told.att + 1 \in Nat /\ told.due \in BOOLEAN
    BY <2>1 DEF Doing, RowSet
  <2>5. /\ rows' \in [Tasks -> RowSet]
        /\ \A u \in Tasks : rows'[u].link = rows[u].link /\ rows'[u].act = rows[u].act
        /\ \A u \in Tasks : Exists(u)' <=> Exists(u)
        /\ \A u \in Tasks : u # t => rows'[u] = rows[u]
        /\ rows'[t].st = Doing(told.act) /\ rows'[t].att = told.att + 1
    <3>1. rows \in [Tasks -> RowSet] /\ Doing(told.act) \in Statuses \ {"none"}
      BY <2>4 DEF LinkTyped, Statuses, Wanted
    <3> QED BY <3>1, <1>3, <2>3, <2>4, WriteRows
  <2>6. /\ domain' \in [st : SiteStatuses, last : Tasks \cup {NoTask}]
        /\ domain'.last = domain.last /\ domain'.st \in {"searching", "removing"}
    BY <2>3, <2>4 DEF LinkTyped, SiteStatuses, Wanted
  <2>7. crew' \in [Workers -> RunSet] /\ crew'[w] = run /\ \A v \in Workers : v # w => crew'[v] = crew[v]
    BY <2>2, <2>3 DEF LinkTyped
  <2>8. LinkTyped'
    <3>1. crossed' \in BOOLEAN
      BY <2>3 DEF LinkTyped
    <3>2. \A v \in Workers : crew'[v].at = "rest" <=> crew'[v].task = NoTask
      BY <2>2, <2>7 DEF LinkTyped
    <3> QED BY <1>1, <2>5, <2>6, <2>7, <3>1, <3>2 DEF Begin, LinkTyped
  <2>9. RetriesInLimit'
    BY <2>4, <2>5 DEF RetriesInLimit
  <2>10. ASSUME ~crossed' PROVE Agreed'
    <3>1. Agreed /\ \A v \in Workers : crew[v].at = "rest" /\ crew[v].task = NoTask
      BY <2>10, <2>3 DEF Busy, LinkTyped
    <3>2. Awaited(t) /\ Awaited(t)'
      BY <2>2, <2>7 DEF Begin, Awaited
    <3>3. \A u \in Tasks : u # t => (Awaited(u)' <=> Awaited(u))
      <4>1. \A u \in Tasks, v \in Workers : u # t => crew'[v].task # u /\ crew[v].task # u
        BY <2>7, <3>1, LinkAssumption
      <4> QED BY <1>1, <2>5, <4>1 DEF Awaited
    <3>4. \A u \in Tasks : (Other(u)' <=> Other(u)) /\ Prev(u)' = Prev(u)
      BY <2>5, <2>6, AlikePrev
    <3>5. domain.last \in Tasks \cup {NoTask} /\ UNCHANGED <<html, sched, outrun>>
      BY DEF LinkTyped, Begin
    <3>6. OneRun' /\ OneLink' /\ SiteIsTrue'
      BY <2>6, <2>7, <3>1, <3>5 DEF OneRun, OneLink, SiteIsTrue, Agreed
    <3>7. OneTask' /\ RowsThere'
      BY <2>5, <2>6, <3>1, <3>2, <3>3, <3>5 DEF Agreed, OneTask, RowsThere
    <3>8. LinksAreKnown'
      BY <2>5, <2>6, <3>1, <3>2, <3>3, <3>4, <3>5 DEF Agreed, LinksAreKnown
    <3>9. RunsKnow'
      <4>1. RunKnows(w)'
        BY <2>1, <2>5, <2>7, <3>4 DEF RunKnows, RowSet
      <4> QED BY <4>1, <2>7, <3>1 DEF RunsKnow
    <3>10. Begun(t)'
      BY <2>1, <2>5 DEF Begun, RowSet
    <3>11. EnqueuedIsBegun'
      <4>1. sched.at = "row" => sched.task = t
        BY <3>1, <3>2 DEF Agreed, OneTask, LinkTyped, SchedSet
      <4> QED BY <3>5, <3>10, <4>1 DEF EnqueuedIsBegun
    <3>12. SiteIsWorkedAt'
      BY <3>2, <3>10 DEF SiteIsWorkedAt
    <3> QED BY <3>6, <3>7, <3>8, <3>9, <3>11, <3>12 DEF Agreed
  <2> QED BY <2>8, <2>9, <2>10 DEF LinkTyped
<1> QED BY <1>2, <1>3

\* The run w knows its task, and everything on the page.
LEMMA RunSees ==
  ASSUME LinkTyped, Agreed, NEW w \in Workers, crew[w].at # "rest"
  PROVE  /\ RunKnows(w)
         /\ \A k \in Links : html[k] > 0 =>
              k = crew[w].prev \/ (k = crew[w].link /\ crew[w].act = "insert")
<1> DEFINE t == crew[w].task
<1>1. t \in Tasks /\ domain.last \in Tasks \cup {NoTask} /\ RunKnows(w) /\ crew[w].act \in Acts
  BY RunHasTask DEF Agreed, RunsKnow, LinkTyped, RunSet
<1>2. Awaited(t) /\ \A u \in Tasks : Awaited(u) => u = t
  BY <1>1 DEF Awaited, Agreed, OneTask
<1> SUFFICES ASSUME NEW k \in Links, html[k] > 0
             PROVE  k = crew[w].prev \/ (k = crew[w].link /\ crew[w].act = "insert")
  BY <1>1
<1>3. CASE domain.last # NoTask /\ rows[domain.last].link = k
  BY <1>1, <1>3 DEF RunKnows, Prev, Other, Agreed, RowsThere
<1>4. CASE \E u \in Tasks : Awaited(u) /\ rows[u].link = k /\ (rows[u].act = "remove" => ~Other(u))
  BY <1>1, <1>2, <1>4 DEF RunKnows, Prev, Acts
<1> QED BY <1>3, <1>4 DEF Agreed, LinksAreKnown

\* The run w goes to a place, and leaves everything else alone.
LEMMA LookGoes ==
  ASSUME LinkInv, NEW w \in Workers, crew[w].at # "rest", NEW place \in {"read", "record"}, Goto(w, place),
         ~crossed => IF place = "read" THEN crew[w].act = "insert" /\ Bare(html)
                                       ELSE Result(html, crew[w].act, crew[w].link),
         UNCHANGED <<rows, setting, domain, html, sched, msgs, crossed, outrun>>
  PROVE  LinkInv'
<1> USE DEF LinkInv
<1>1. LinkTyped' /\ RetriesInLimit'
  <2>1. place \in Places \ {"rest"}
    BY DEF Places
  <2>2. crew' \in [Workers -> RunSet] /\ \A v \in Workers : crew'[v].at = "rest" <=> crew'[v].task = NoTask
    BY <2>1, GotoTyped
  <2> QED BY <2>2 DEF LinkTyped, RetriesInLimit
<1>2. crew'[w] = [crew[w] EXCEPT !.at = place] /\ \A v \in Workers : v # w => crew'[v] = crew[v]
  BY DEF Goto, LinkTyped
<1>3. /\ crew'[w].at = place /\ crew'[w].task = crew[w].task /\ crew'[w].act = crew[w].act
      /\ crew'[w].link = crew[w].link /\ crew'[w].att = crew[w].att /\ crew'[w].prev = crew[w].prev
  BY <1>2 DEF LinkTyped, RunSet
<1>4. ASSUME ~crossed' PROVE Agreed'
  <2>1. Agreed /\ RowsAlike
    BY <1>4 DEF RowsAlike, Exists
  <2> QED BY <1>2, <1>3, <1>4, <2>1, RunGoesOn
<1> QED BY <1>1, <1>4 DEF LinkTyped

\* The run w has the page it is to write.
LEMMA LookWrites ==
  ASSUME LinkInv, NEW w \in Workers, crew[w].at # "rest", NEW page \in [Links -> Nat], GoWrite(w, page),
         ~crossed => Result(page, crew[w].act, crew[w].link),
         UNCHANGED <<rows, setting, domain, html, sched, msgs, crossed, outrun>>
  PROVE  LinkInv'
<1> USE DEF LinkInv
<1>1. LinkTyped' /\ RetriesInLimit'
  <2>1. crew' \in [Workers -> RunSet] /\ \A v \in Workers : crew'[v].at = "rest" <=> crew'[v].task = NoTask
    BY GoWriteTyped
  <2> QED BY <2>1 DEF LinkTyped, RetriesInLimit
<1>2. crew'[w] = [crew[w] EXCEPT !.at = "write", !.page = page] /\ \A v \in Workers : v # w => crew'[v] = crew[v]
  BY DEF GoWrite, LinkTyped
<1>3. /\ crew'[w].at = "write" /\ crew'[w].task = crew[w].task /\ crew'[w].act = crew[w].act
      /\ crew'[w].link = crew[w].link /\ crew'[w].att = crew[w].att /\ crew'[w].prev = crew[w].prev
      /\ crew'[w].page = page
  BY <1>2 DEF LinkTyped, RunSet
<1>4. ASSUME ~crossed' PROVE Agreed'
  <2>1. Agreed /\ RowsAlike
    BY <1>4 DEF RowsAlike, Exists
  <2> QED BY <1>2, <1>3, <1>4, <2>1, RunGoesOn
<1> QED BY <1>1, <1>4 DEF LinkTyped

LEMMA LookKeeps ==
  ASSUME LinkInv, NEW w \in Workers, Look(w)
  PROVE  LinkInv'
<1> DEFINE own == crew[w].link
           prev == crew[w].prev
           page == [html EXCEPT ![prev] = 0, ![own] = @ + html[prev]]
<1>1. /\ own \in Links /\ prev \in Links /\ html \in [Links -> Nat]
      /\ crew[w].at # "rest" /\ crew[w].act = "insert" /\ LinkTyped /\ (crossed \/ Agreed)
      /\ UNCHANGED <<rows, setting, domain, html, sched, msgs, crossed, outrun>>
  BY DEF LinkInv, LinkTyped, RunSet, Look
<1>2. CASE prev # own /\ html[prev] > 0 /\ GoWrite(w, page)
  <2>1. page \in [Links -> Nat]
    BY <1>1
  <2>2. Agreed => OnlyLink(page, own)
    BY <1>1, <1>2 DEF Agreed, OneLink, OnlyLink
  <2> QED BY <1>1, <1>2, <2>1, <2>2, LookWrites DEF Result
<1>3. CASE (prev = own \/ html[prev] = 0) /\ Goto(w, IF html[own] > 0 THEN "record" ELSE "read")
  <2>1. CASE html[own] > 0
    <3>1. Agreed => OnlyLink(html, own)
      BY <1>1, <2>1 DEF Agreed, OneLink, OnlyLink
    <3> QED BY <1>1, <1>3, <2>1, <3>1, LookGoes DEF Result
  <2>2. CASE ~(html[own] > 0)
    <3>1. Agreed => Bare(html)
      BY <1>1, <1>3, <2>2, RunSees DEF Bare
    <3> QED BY <1>1, <1>3, <2>2, <3>1, LookGoes
  <2> QED BY <2>1, <2>2
<1> QED BY <1>2, <1>3 DEF Look

LEMMA LookToRemoveKeeps ==
  ASSUME LinkInv, NEW w \in Workers, LookToRemove(w)
  PROVE  LinkInv'
<1> DEFINE prev == crew[w].prev
           page == [html EXCEPT ![prev] = 0]
<1>1. /\ prev \in Links /\ html \in [Links -> Nat]
      /\ crew[w].at # "rest" /\ crew[w].act = "remove" /\ LinkTyped /\ (crossed \/ Agreed)
      /\ UNCHANGED <<rows, setting, domain, html, sched, msgs, crossed, outrun>>
  BY DEF LinkInv, LinkTyped, RunSet, LookToRemove
<1>2. Agreed => \A k \in Links : k # prev => html[k] = 0
  BY <1>1, RunSees
<1>3. CASE html[prev] > 0 /\ GoWrite(w, page)
  <2>1. page \in [Links -> Nat] /\ (Agreed => Bare(page))
    BY <1>1, <1>2 DEF Bare
  <2> QED BY <1>1, <1>3, <2>1, LookWrites DEF Result
<1>4. CASE html[prev] = 0 /\ Goto(w, "record")
  <2>1. Agreed => Bare(html)
    BY <1>2, <1>4 DEF Bare
  <2> QED BY <1>1, <1>4, <2>1, LookGoes DEF Result
<1> QED BY <1>3, <1>4 DEF LookToRemove

LEMMA ReadPageKeeps ==
  ASSUME LinkInv, NEW w \in Workers, ReadPage(w)
  PROVE  LinkInv'
<1> DEFINE own == crew[w].link
           page == [html EXCEPT ![own] = @ + 1]
<1>1. /\ own \in Links /\ html \in [Links -> Nat]
      /\ crew[w].at = "read" /\ LinkTyped /\ (crossed \/ Agreed) /\ GoWrite(w, page)
      /\ UNCHANGED <<rows, setting, domain, html, sched, msgs, crossed, outrun>>
  BY DEF LinkInv, LinkTyped, RunSet, ReadPage
<1>2. page \in [Links -> Nat]
  BY <1>1
<1>3. Agreed => crew[w].act = "insert" /\ Bare(html)
  BY <1>1, RunSees DEF RunKnows
<1>4. Agreed => crew[w].act = "insert" /\ OnlyLink(page, own)
  BY <1>1, <1>3 DEF Bare, OnlyLink
<1> QED BY <1>1, <1>2, <1>4, LookWrites DEF Result

LEMMA WritePageKeeps ==
  ASSUME LinkInv, NEW w \in Workers, WritePage(w)
  PROVE  LinkInv'
<1> USE DEF LinkInv
<1> DEFINE run == [crew[w] EXCEPT !.at = "record", !.page = NoLinks]
<1>1. /\ run \in RunSet /\ run.at = "record" /\ run.task = crew[w].task /\ run.act = crew[w].act
      /\ run.link = crew[w].link /\ run.att = crew[w].att /\ run.prev = crew[w].prev
  BY DEF LinkTyped, RunSet, Places, NoLinks
<1>2. crew'[w] = run /\ crew' = [crew EXCEPT ![w] = run] /\ \A v \in Workers : v # w => crew'[v] = crew[v]
  BY DEF WritePage, LinkTyped
<1>3. html' = crew[w].page /\ html' \in [Links -> Nat] /\ crew[w].at = "write"
  BY DEF WritePage, LinkTyped, RunSet
<1>4. LinkTyped'
  BY <1>1, <1>2, <1>3 DEF WritePage, LinkTyped
<1>5. RetriesInLimit'
  BY DEF WritePage, RetriesInLimit
<1>6. ASSUME ~crossed' PROVE Agreed'
  <2>1. Agreed /\ RowsAlike /\ UNCHANGED <<rows, domain, sched, msgs, outrun>>
    BY <1>6 DEF WritePage, RowsAlike, Exists
  <2>2. Result(html', crew[w].act, crew[w].link)
    BY <1>3, <2>1 DEF Agreed, RunsKnow, RunKnows
  <2> QED BY <1>1, <1>2, <1>3, <2>1, <2>2, RunGoesOn
<1> QED BY <1>4, <1>5, <1>6 DEF LinkTyped

LEMMA RecordKeeps ==
  ASSUME LinkInv, NEW w \in Workers, Record(w)
  PROVE  LinkInv'
<1> USE DEF LinkInv
<1>1. crew[w].at = "record" /\ Goto(w, "tell") /\ UNCHANGED <<setting, domain, html, sched, msgs, crossed, outrun>>
  BY DEF Record
<1>2. PICK t \in Tasks : t = crew[w].task
  BY <1>1, RunHasTask
<1>3. Done(crew[w].act) \in Final /\ crew[w].att \in Nat /\ rows[t].due \in BOOLEAN
  BY DEF Done, Final, LinkTyped, RunSet, RowSet
<1>4. /\ rows' \in [Tasks -> RowSet]
      /\ \A u \in Tasks : rows'[u].link = rows[u].link /\ rows'[u].act = rows[u].act
      /\ \A u \in Tasks : Exists(u)' <=> Exists(u)
      /\ \A u \in Tasks : u # t => rows'[u] = rows[u]
      /\ Exists(t) => rows'[t].st = Done(crew[w].act) /\ rows'[t].att = crew[w].att
      /\ ~Exists(t) => rows' = rows
  <2>1. rows \in [Tasks -> RowSet] /\ Done(crew[w].act) \in Statuses \ {"none"}
    BY <1>3 DEF LinkTyped, Statuses, Final
  <2>2. Write(t, Done(crew[w].act), crew[w].att, rows[t].due)
    BY <1>2 DEF Record
  <2> QED BY <1>3, <2>1, <2>2, WriteRows
<1>5. crew' \in [Workers -> RunSet] /\ \A v \in Workers : crew'[v].at = "rest" <=> crew'[v].task = NoTask
  <2>1. "tell" \in Places \ {"rest"}
    BY DEF Places
  <2> QED BY <1>1, <2>1, GotoTyped
<1>6. LinkTyped'
  BY <1>1, <1>4, <1>5 DEF LinkTyped
<1>7. RetriesInLimit'
  BY <1>3, <1>4 DEF RetriesInLimit, Final
<1>8. crew'[w] = [crew[w] EXCEPT !.at = "tell"] /\ \A v \in Workers : v # w => crew'[v] = crew[v]
  BY <1>1 DEF Goto, LinkTyped
<1>9. /\ crew'[w].at = "tell" /\ crew'[w].task = crew[w].task /\ crew'[w].act = crew[w].act
      /\ crew'[w].link = crew[w].link /\ crew'[w].att = crew[w].att /\ crew'[w].prev = crew[w].prev
  BY <1>8 DEF LinkTyped, RunSet
<1>10. ASSUME ~crossed' PROVE Agreed'
  <2>1. Agreed /\ RunKnows(w)
    BY <1>1, <1>10 DEF Agreed, RunsKnow
  <2>2. \A u \in Tasks : rows'[u].att = rows[u].att
    BY <1>2, <1>4, <2>1 DEF RunKnows
  <2>3. RowsAlike /\ Result(html, crew[w].act, crew[w].link)
    BY <1>1, <1>4, <2>1, <2>2 DEF RowsAlike, RunKnows
  <2> QED BY <1>1, <1>2, <1>4, <1>8, <1>9, <2>1, <2>3, RunGoesOn
<1> QED BY <1>6, <1>7, <1>10, <1>1 DEF LinkTyped

\* A run ends: the worker is free.
LEMMA RunEnds ==
  ASSUME LinkTyped, Agreed, NEW w \in Workers, crew[w].at # "rest", crew' = [crew EXCEPT ![w] = Free]
  PROVE  /\ \A v \in Workers : crew'[v].at = "rest" /\ crew'[v].task = NoTask
         /\ \A u \in Tasks : Awaited(u) \/ sched.task = u => u = crew[w].task
         /\ Awaited(crew[w].task)
<1>1. crew[w].task \in Tasks
  BY RunHasTask
<1>2. \A v \in Workers : v # w => crew[v].at = "rest" /\ crew[v].task = NoTask
  BY DEF Agreed, OneRun, LinkTyped
<1>3. Awaited(crew[w].task)
  BY DEF Awaited
<1> QED BY <1>1, <1>2, <1>3 DEF Agreed, OneTask, Free, LinkTyped

LEMMA TellKeeps ==
  ASSUME LinkInv, NEW w \in Workers, Tell(w)
  PROVE  LinkInv'
<1> USE DEF LinkInv
<1>1. /\ crew[w].at = "tell" /\ crew' = [crew EXCEPT ![w] = Free]
      /\ domain' = [st |-> Done(crew[w].act), last |-> crew[w].task]
      /\ outrun' = (outrun \/ sched.at = "domain")
      /\ UNCHANGED <<rows, setting, html, sched, msgs, crossed>>
  BY DEF Tell
<1>2. PICK t \in Tasks : t = crew[w].task
  BY <1>1, RunHasTask
<1>3. LinkTyped'
  <2>1. crew' \in [Workers -> RunSet] /\ \A v \in Workers : crew'[v].at = "rest" <=> crew'[v].task = NoTask
    BY <1>1, FreeTyped
  <2>2. domain' \in [st : SiteStatuses, last : Tasks \cup {NoTask}]
    BY <1>1, <1>2 DEF Done, SiteStatuses, Final
  <2>3. outrun' \in BOOLEAN
    BY <1>1 DEF LinkTyped
  <2> QED BY <1>1, <2>1, <2>2, <2>3 DEF LinkTyped
<1>4. RetriesInLimit'
  BY <1>1 DEF RetriesInLimit
<1>5. ASSUME ~crossed' PROVE Agreed'
  <2>1. Agreed /\ RunKnows(w) /\ crew[w].act \in Acts
    BY <1>1, <1>5 DEF Agreed, RunsKnow, LinkTyped, RunSet
  <2>2. /\ \A v \in Workers : crew'[v].at = "rest" /\ crew'[v].task = NoTask
        /\ \A u \in Tasks : Awaited(u) \/ sched.task = u => u = t
        /\ Awaited(t)
    BY <1>1, <1>2, <2>1, RunEnds
  <2>3. Result(html, crew[w].act, rows[t].link) /\ rows[t].att > 0 /\ Exists(t)
    BY <1>1, <1>2, <2>1, <2>2 DEF RunKnows, Agreed, RowsThere
  <2>4. \A u \in Tasks : Awaited(u)' => Awaited(u)
    BY <1>1, <2>2, LinkAssumption DEF Awaited
  <2>5. domain'.last = t /\ domain'.st = Done(crew[w].act)
    BY <1>1, <1>2
  <2>6. OneRun' /\ RunsKnow' /\ OneLink'
    BY <1>1, <2>1, <2>2 DEF OneRun, RunsKnow, OneLink, Agreed
  <2>7. OneTask'
    BY <1>1, <2>2, <2>4 DEF OneTask
  <2>8. RowsThere'
    <3>1. \A u \in Tasks : Exists(u)' <=> Exists(u)
      BY <1>1 DEF Exists
    <3> QED BY <1>1, <2>2, <2>3, <2>4, <2>5, <3>1 DEF RowsThere
  <2>9. LinksAreKnown'
    <3>1. \A k \in Links : html'[k] > 0 => rows'[t].link = k
      BY <1>1, <2>3 DEF Result, OnlyLink, Bare
    <3> QED BY <2>5, <3>1, LinkAssumption DEF LinksAreKnown
  <2>10. SiteIsTrue'
    <3>1. Result(html', IF domain'.st = "inserted" THEN "insert" ELSE "remove", rows'[t].link)
      BY <1>1, <2>1, <2>3, <2>5 DEF Done, Acts, Result
    <3> QED BY <2>2, <2>5, <3>1, LinkAssumption DEF SiteIsTrue
  <2>11. EnqueuedIsBegun'
    <3>1. sched.at = "row" => sched.task = t
      BY <2>2, LinkAssumption DEF LinkTyped, SchedSet
    <3> QED BY <1>1, <2>3, <3>1 DEF EnqueuedIsBegun, Begun
  <2>12. SiteIsWorkedAt'
    BY <1>1, <2>5 DEF SiteIsWorkedAt, Done
  <2> QED BY <2>6, <2>7, <2>8, <2>9, <2>10, <2>11, <2>12 DEF Agreed
<1> QED BY <1>1, <1>3, <1>4, <1>5 DEF LinkTyped

LEMMA FailKeeps ==
  ASSUME LinkInv, NEW w \in Workers, Fail(w)
  PROVE  LinkInv'
<1> USE DEF LinkInv
<1>1. PICK t \in Tasks : t = crew[w].task /\ crew[w].at # "rest"
  BY RunHasTask DEF Fail
<1>2. PICK st \in {"failed", "pending"} :
        /\ st = "pending" => MayRetry(crew[w].att)
        /\ Write(t, st, crew[w].att, st = "failed" /\ rows[t].due)
        /\ domain' = IF Exists(t) THEN [domain EXCEPT !.st = st] ELSE domain
        /\ crossed' = (crossed \/ (st = "failed" /\ LeftBy(t) /\ domain.last # t))
  BY <1>1 DEF Fail
<1>3. /\ outrun' = (outrun \/ sched.at = "domain") /\ crew' = [crew EXCEPT ![w] = Free]
      /\ UNCHANGED <<setting, html, sched, msgs>>
  BY DEF Fail
<1>4. crew[w].att \in Nat /\ (st = "failed" /\ rows[t].due) \in BOOLEAN
  BY DEF LinkTyped, RunSet
<1>5. /\ rows' \in [Tasks -> RowSet]
      /\ \A u \in Tasks : rows'[u].link = rows[u].link /\ rows'[u].act = rows[u].act
      /\ \A u \in Tasks : Exists(u)' <=> Exists(u)
      /\ \A u \in Tasks : u # t => rows'[u] = rows[u]
      /\ Exists(t) => rows'[t].st = st /\ rows'[t].att = crew[w].att
      /\ ~Exists(t) => rows' = rows
  <2>1. rows \in [Tasks -> RowSet] /\ st \in Statuses \ {"none"}
    BY DEF LinkTyped, Statuses, Wanted, Final
  <2> QED BY <1>2, <1>4, <2>1, WriteRows
<1>6. LinkTyped'
  <2>1. crew' \in [Workers -> RunSet] /\ \A v \in Workers : crew'[v].at = "rest" <=> crew'[v].task = NoTask
    BY <1>3, FreeTyped
  <2>2. domain' \in [st : SiteStatuses, last : Tasks \cup {NoTask}]
    BY <1>2 DEF LinkTyped, SiteStatuses, Wanted, Final
  <2>3. outrun' \in BOOLEAN /\ crossed' \in BOOLEAN
    BY <1>2, <1>3 DEF LinkTyped
  <2> QED BY <1>3, <1>5, <2>1, <2>2, <2>3 DEF LinkTyped
<1>7. RetriesInLimit'
  <2>1. rows'[t].st = "pending" /\ Exists(t) => rows'[t].att <= MaxRetries
    BY <1>2, <1>5 DEF MayRetry
  <2> QED BY <1>5, <2>1 DEF RetriesInLimit, Exists
<1>8. ASSUME ~crossed' PROVE Agreed'
  <2>1. Agreed /\ RunKnows(w) /\ ~crossed
    BY <1>1, <1>2, <1>8 DEF Agreed, RunsKnow
  <2>2. /\ \A v \in Workers : crew'[v].at = "rest" /\ crew'[v].task = NoTask
        /\ \A u \in Tasks : Awaited(u) \/ sched.task = u => u = t
        /\ Awaited(t)
    BY <1>1, <1>3, <2>1, RunEnds
  <2>3. Exists(t) /\ rows[t].att > 0
    BY <1>1, <2>1, <2>2 DEF RunKnows, Agreed, RowsThere
  <2>4. rows'[t].st = st /\ rows'[t].att > 0
    BY <1>1, <1>5, <2>1, <2>3 DEF RunKnows
  <2>5. \A u \in Tasks : Awaited(u)' => u = t
    <3>1. \A u \in Tasks : u # t => ~Awaited(u)
      BY <2>2
    <3> QED BY <1>3, <1>5, <2>2, <3>1, LinkAssumption DEF Awaited
  <2>6. domain'.last = domain.last /\ domain'.st = st /\ domain.last \in Tasks \cup {NoTask}
    BY <1>2, <2>3 DEF LinkTyped
  <2>7. \A u \in Tasks : Other(u)' <=> Other(u)
    BY <1>5, <2>6, AlikePrev
  <2>8. OneRun' /\ RunsKnow' /\ OneLink' /\ SiteIsTrue'
    BY <1>3, <2>1, <2>2, <2>6 DEF OneRun, RunsKnow, OneLink, SiteIsTrue, Agreed
  <2>9. OneTask' /\ RowsThere'
    BY <1>3, <1>5, <2>1, <2>2, <2>3, <2>5, <2>6 DEF OneTask, RowsThere, Agreed
  <2>10. LinksAreKnown'
    <3> SUFFICES ASSUME NEW k \in Links, html[k] > 0
                 PROVE  \/ domain.last # NoTask /\ rows[domain.last].link = k
                        \/ \E u \in Tasks : /\ Awaited(u)' /\ rows[u].link = k
                                            /\ rows[u].act = "remove" => ~Other(u)
      BY <1>3, <1>5, <2>6, <2>7 DEF LinksAreKnown
    <3>1. CASE domain.last # NoTask /\ rows[domain.last].link = k
      BY <3>1
    <3>2. CASE ~(domain.last # NoTask /\ rows[domain.last].link = k)
      <4>1. rows[t].link = k /\ (rows[t].act = "remove" => ~Other(t))
        BY <2>1, <2>2, <3>2 DEF Agreed, LinksAreKnown
      <4>2. LeftBy(t) /\ domain.last # t
        BY <2>6, <3>2, <4>1, LinkAssumption DEF LeftBy, Other
      <4>3. st = "pending"
        BY <1>2, <1>8, <4>2
      <4> QED BY <2>4, <4>1, <4>3 DEF Awaited, Wanted
    <3> QED BY <3>1, <3>2
  <2>11. EnqueuedIsBegun'
    <3>1. sched.at = "row" => sched.task = t
      BY <2>2, LinkAssumption DEF LinkTyped, SchedSet
    <3> QED BY <1>3, <2>4, <3>1 DEF EnqueuedIsBegun, Begun
  <2>12. SiteIsWorkedAt'
    BY <1>3, <2>6 DEF SiteIsWorkedAt
  <2> QED BY <2>8, <2>9, <2>10, <2>11, <2>12 DEF Agreed
<1> QED BY <1>6, <1>7, <1>8, <1>2 DEF LinkTyped

LEMMA DieKeeps ==
  ASSUME LinkInv, NEW w \in Workers, Die(w)
  PROVE  LinkInv'
<1> USE DEF LinkInv
<1>1. PICK t \in Tasks : t = crew[w].task /\ crew[w].at # "rest"
  BY RunHasTask DEF Die
<1>2. /\ msgs' = [msgs EXCEPT ![t] = @ + 1] /\ crew' = [crew EXCEPT ![w] = Free]
      /\ UNCHANGED <<rows, setting, domain, html, sched, crossed, outrun>>
  BY <1>1 DEF Die
<1>3. msgs' \in [Tasks -> Nat] /\ msgs'[t] > 0 /\ \A u \in Tasks : u # t => msgs'[u] = msgs[u]
  BY <1>2 DEF LinkTyped
<1>4. LinkTyped'
  <2>1. crew' \in [Workers -> RunSet] /\ \A v \in Workers : crew'[v].at = "rest" <=> crew'[v].task = NoTask
    BY <1>2, FreeTyped
  <2> QED BY <1>2, <1>3, <2>1 DEF LinkTyped
<1>5. RetriesInLimit'
  BY <1>2 DEF RetriesInLimit
<1>6. ASSUME ~crossed' PROVE Agreed'
  <2>1. Agreed
    BY <1>2, <1>6
  <2>2. /\ \A v \in Workers : crew'[v].at = "rest" /\ crew'[v].task = NoTask
        /\ \A u \in Tasks : Awaited(u) \/ sched.task = u => u = t
        /\ Awaited(t)
    BY <1>1, <1>2, <2>1, RunEnds
  <2>3. \A u \in Tasks : Awaited(u)' <=> Awaited(u)
    <3>1. Awaited(t)'
      BY <1>3 DEF Awaited
    <3>2. \A u \in Tasks : u # t => ~Awaited(u)
      BY <2>2
    <3>3. \A u \in Tasks : u # t => ~Awaited(u)'
      BY <1>2, <1>3, <2>2, <3>2, LinkAssumption DEF Awaited
    <3> QED BY <2>2, <3>1, <3>2, <3>3
  <2>4. \A u \in Tasks : /\ (Other(u)' <=> Other(u)) /\ (Exists(u)' <=> Exists(u))
                         /\ (Begun(u) => Begun(u)')
    BY <1>2, <1>3 DEF Other, Exists, Begun
  <2>5. domain.last \in Tasks \cup {NoTask} /\ (sched.at = "row" => sched.task \in Tasks)
    BY DEF LinkTyped, SchedSet
  <2>6. OneRun' /\ RunsKnow' /\ OneLink'
    BY <1>2, <2>1, <2>2 DEF OneRun, RunsKnow, OneLink, Agreed
  <2>7. OneTask' /\ RowsThere' /\ LinksAreKnown'
    BY <1>2, <2>1, <2>3, <2>4, <2>5 DEF OneTask, RowsThere, LinksAreKnown, Agreed
  <2>8. SiteIsTrue'
    BY <1>1, <1>2, <2>1 DEF SiteIsTrue, Agreed
  <2>9. EnqueuedIsBegun' /\ SiteIsWorkedAt'
    BY <1>2, <2>1, <2>3, <2>4, <2>5 DEF EnqueuedIsBegun, SiteIsWorkedAt, Agreed
  <2> QED BY <2>6, <2>7, <2>8, <2>9 DEF Agreed
<1> QED BY <1>2, <1>4, <1>5, <1>6 DEF LinkTyped

-----------------------------------------------------------------------------
(***************************************************************************)
(* The users, the schedules and the publication of a generation.           *)
(***************************************************************************)
\* A row is put to its start, the site told or not.
LEMMA RestartKeeps ==
  ASSUME LinkInv, NEW t \in Tasks, NEW act \in Acts, NEW link \in Links, Restart(t, act, link),
         UNCHANGED <<setting, html, sched, msgs, crew, outrun>>,
         domain' = [domain EXCEPT !.st = "pending"]
           \/ (domain' = domain /\ domain.st \in {"ready", "needs_relink", "pending"})
  PROVE  LinkInv'
<1> USE DEF LinkInv
<1>1. rows' = [rows EXCEPT ![t] = NewRow(act, link)]
  BY DEF Restart, NewRow
<1>2. /\ rows' \in [Tasks -> RowSet] /\ \A u \in Tasks : u # t => rows'[u] = rows[u]
      /\ rows'[t].st = "pending" /\ rows'[t].due /\ rows'[t].act = act /\ rows'[t].link = link
  BY <1>1, NewRowIs DEF LinkTyped
<1>3. /\ domain' \in [st : SiteStatuses, last : Tasks \cup {NoTask}] /\ domain'.last = domain.last
      /\ domain'.st \in {"ready", "needs_relink", "pending"} /\ domain.last \in Tasks \cup {NoTask}
  BY DEF LinkTyped, SiteStatuses, Wanted
<1>4. LinkTyped'
  <2>1. crossed' \in BOOLEAN
    BY DEF Restart, LinkTyped
  <2> QED BY <1>2, <1>3, <2>1 DEF LinkTyped
<1>5. RetriesInLimit'
  BY <1>2 DEF RetriesInLimit
<1>6. ASSUME ~crossed' PROVE Agreed'
  <2>1. /\ Agreed /\ ~InHand(t) /\ (\A u \in Tasks : u # t => ~Live(u))
        /\ ~(LeftBy(t) /\ (link # rows[t].link \/ (Other(t) /\ act = "remove")))
    BY <1>6 DEF Restart
  <2>2. \A u \in Tasks : /\ msgs[u] = 0 /\ sched.task # u /\ (\A w \in Workers : crew[w].task # u)
                         /\ (u # t => ~Awaited(u))
    BY <2>1, LiveIs, InHandIs DEF Awaited, LinkTyped
  <2>3. sched.at = "rest" /\ \A w \in Workers : crew[w].at = "rest"
    BY <2>2, RunHasTask DEF LinkTyped, SchedSet
  <2>4. Awaited(t)' /\ Exists(t)' /\ \A u \in Tasks : u # t => ~Awaited(u)'
    BY <1>2, <2>2 DEF Awaited, Exists, Wanted
  <2>5. OneRun' /\ OneLink' /\ RunsKnow' /\ SiteIsTrue' /\ EnqueuedIsBegun' /\ SiteIsWorkedAt'
    BY <1>3, <2>1, <2>3 DEF Agreed, OneRun, OneLink, RunsKnow, SiteIsTrue, EnqueuedIsBegun, SiteIsWorkedAt
  <2>6. OneTask'
    BY <2>2, <2>4 DEF OneTask
  <2>7. domain.last # NoTask => Exists(domain.last) /\ Exists(domain.last)'
    BY <1>2, <1>3, <2>1, <2>4 DEF Agreed, RowsThere, Exists
  <2>8. RowsThere'
    BY <1>3, <2>2, <2>4, <2>7 DEF RowsThere
  <2>9. Other(t)' <=> Other(t)
    BY <1>3, <2>7 DEF Other
  <2>10. LinksAreKnown'
    <3> SUFFICES ASSUME NEW k \in Links, html[k] > 0
                 PROVE  \/ domain.last # NoTask /\ rows'[domain.last].link = k
                        \/ link = k /\ (act = "remove" => ~Other(t))
      BY <1>2, <1>3, <2>4, <2>9 DEF LinksAreKnown
    <3>1. CASE domain.last \notin {NoTask, t} /\ rows[domain.last].link = k
      BY <1>2, <1>3, <3>1
    <3>2. CASE ~(domain.last \notin {NoTask, t} /\ rows[domain.last].link = k)
      <4>1. rows[t].link = k
        BY <2>1, <2>4, <2>2, <3>2 DEF Agreed, LinksAreKnown
      <4>2. LeftBy(t)
        BY <3>2, <4>1 DEF LeftBy, Other
      <4> QED BY <2>1, <4>1, <4>2
    <3> QED BY <3>1, <3>2
  <2> QED BY <2>5, <2>6, <2>8, <2>10 DEF Agreed
<1> QED BY <1>4, <1>5, <1>6 DEF LinkTyped

\* A new row where there was none, when no task is to be run.
LEMMA CreateKeeps ==
  ASSUME LinkInv, NEW act \in Acts, Create(act), ActiveTasks = {},
         UNCHANGED <<setting, html, sched, msgs, crew, outrun>>,
         domain' = [domain EXCEPT !.st = "pending"]
           \/ (domain' = domain /\ domain.st \in {"ready", "needs_relink", "pending"})
  PROVE  LinkInv'
<1> USE DEF LinkInv
<1>1. PICK t \in Tasks : /\ ~Exists(t) /\ ~InHand(t) /\ t # domain.last
                         /\ rows' = [rows EXCEPT ![t] = NewRow(act, setting)]
  BY CreatedRow
<1>2. /\ rows' \in [Tasks -> RowSet] /\ \A u \in Tasks : u # t => rows'[u] = rows[u]
      /\ rows'[t].st = "pending" /\ rows'[t].due /\ rows'[t].act = act /\ rows'[t].link = setting
  <2>1. setting \in Links
    BY DEF LinkTyped
  <2> QED BY <1>1, <2>1, NewRowIs DEF LinkTyped
<1>3. /\ domain' \in [st : SiteStatuses, last : Tasks \cup {NoTask}] /\ domain'.last = domain.last
      /\ domain'.st \in {"ready", "needs_relink", "pending"} /\ domain.last \in Tasks \cup {NoTask}
  BY DEF LinkTyped, SiteStatuses, Wanted
<1>4. LinkTyped'
  <2>1. crossed' \in BOOLEAN
    BY DEF Create, LinkTyped
  <2> QED BY <1>2, <1>3, <2>1 DEF LinkTyped
<1>5. RetriesInLimit'
  BY <1>2 DEF RetriesInLimit
<1>6. ASSUME ~crossed' PROVE Agreed'
  <2>1. Agreed /\ \A u \in Tasks : ~InHand(u)
    BY <1>6 DEF Create
  <2>2. \A u \in Tasks : /\ msgs[u] = 0 /\ sched.task # u /\ (\A w \in Workers : crew[w].task # u)
                         /\ rows[u].st \notin Wanted /\ ~Awaited(u)
    BY <2>1, InHandIs DEF Awaited, LinkTyped, ActiveTasks
  <2>3. sched.at = "rest" /\ \A w \in Workers : crew[w].at = "rest"
    BY <2>2, RunHasTask DEF LinkTyped, SchedSet
  <2>4. Exists(t)' /\ \A u \in Tasks : u # t => ~Awaited(u)'
    BY <1>2, <2>2 DEF Awaited, Exists
  <2>5. OneRun' /\ OneLink' /\ RunsKnow' /\ SiteIsTrue' /\ EnqueuedIsBegun' /\ SiteIsWorkedAt'
    BY <1>3, <2>1, <2>3 DEF Agreed, OneRun, OneLink, RunsKnow, SiteIsTrue, EnqueuedIsBegun, SiteIsWorkedAt
  <2>6. OneTask'
    BY <2>2, <2>4 DEF OneTask
  <2>7. RowsThere'
    BY <1>1, <1>2, <1>3, <2>1, <2>2, <2>4 DEF Agreed, RowsThere, Exists
  <2>8. LinksAreKnown'
    BY <1>1, <1>2, <1>3, <2>1, <2>2 DEF Agreed, LinksAreKnown
  <2> QED BY <2>5, <2>6, <2>7, <2>8 DEF Agreed
<1> QED BY <1>4, <1>5, <1>6 DEF LinkTyped

LEMMA RunKeeps ==
  ASSUME LinkInv, NEW act \in Acts, Run(act)
  PROVE  LinkInv'
<1>1. setting \in Links
  BY DEF LinkInv, LinkTyped
<1>2. CASE \E t \in Tasks : ActiveTask(t) /\ Restart(t, act, setting)
  BY <1>1, <1>2, RestartKeeps DEF Run
<1>3. CASE ActiveTasks = {} /\ Create(act)
  BY <1>3, CreateKeeps DEF Run
<1> QED BY <1>2, <1>3 DEF Run, StartOrRestart

LEMMA RetryKeeps ==
  ASSUME LinkInv, NEW t \in Tasks, Retry(t)
  PROVE  LinkInv'
<1>1. rows[t].act \in Acts /\ rows[t].link \in Links
  BY DEF LinkInv, LinkTyped, RowSet
<1> QED BY <1>1, RestartKeeps DEF Retry

LEMMA ScheduleKeeps ==
  ASSUME LinkInv, Schedule
  PROVE  LinkInv'
<1>1. setting \in Links /\ (\A t \in Tasks : rows[t].act \in Acts) /\ "insert" \in Acts
  BY DEF LinkInv, LinkTyped, RowSet, Acts
<1>2. CASE \E t \in Tasks : ActiveTask(t) /\ Restart(t, rows[t].act, setting)
  BY <1>1, <1>2, RestartKeeps DEF Schedule
<1>3. CASE ActiveTasks = {} /\ Create("insert")
  BY <1>1, <1>3, CreateKeeps DEF Schedule
<1> QED BY <1>2, <1>3 DEF Schedule

LEMMA DeleteKeeps ==
  ASSUME LinkInv, NEW t \in Tasks, Delete(t)
  PROVE  LinkInv'
<1> USE DEF LinkInv
<1>1. rows' = [rows EXCEPT ![t] = NoRow] /\ UNCHANGED <<setting, domain, html, sched, msgs, crew, outrun>>
  BY DEF Delete
<1>2. /\ rows' \in [Tasks -> RowSet] /\ rows'[t].st = "none"
      /\ \A u \in Tasks : u # t => rows'[u] = rows[u]
  <2>1. NoRow \in RowSet /\ NoRow.st = "none"
    BY DEF LinkTyped, NoRow, AnyLink, RowSet, Statuses, Acts
  <2> QED BY <1>1, <2>1 DEF LinkTyped
<1>3. LinkTyped'
  <2>1. crossed' \in BOOLEAN
    BY DEF Delete, LinkTyped
  <2> QED BY <1>1, <1>2, <2>1 DEF LinkTyped
<1>4. RetriesInLimit'
  BY <1>2 DEF RetriesInLimit
<1>5. ASSUME ~crossed' PROVE Agreed'
  <2>1. /\ Agreed /\ ~InHand(t) /\ t # domain.last
        /\ ~(rows[t].st \in Wanted /\ (rows[t].att > 0 \/ LeftBy(t)))
    BY <1>5 DEF Delete, ActiveTasks
  <2>2. msgs[t] = 0 /\ sched.task # t /\ \A w \in Workers : crew[w].task # t
    BY <2>1, InHandIs DEF LinkTyped
  <2>3. ~Awaited(t)' /\ \A u \in Tasks : u # t => (Awaited(u)' <=> Awaited(u))
    BY <1>1, <1>2, <2>2 DEF Awaited, Wanted
  <2>4. domain.last \in Tasks \cup {NoTask} /\ (sched.at # "rest" => sched.task \in Tasks)
    BY DEF LinkTyped, SchedSet
  <2>5. \A u \in Tasks : (Other(u)' <=> Other(u)) /\ (u # t => Prev(u)' = Prev(u))
    BY <1>1, <1>2, <2>1, <2>4 DEF Other, Prev, Exists
  <2>6. OneRun' /\ OneLink' /\ SiteIsTrue'
    BY <1>1, <1>2, <2>1, <2>4 DEF Agreed, OneRun, OneLink, SiteIsTrue
  <2>7. OneTask' /\ RowsThere'
    BY <1>1, <1>2, <2>1, <2>2, <2>3, <2>4 DEF Agreed, OneTask, RowsThere, Exists
  <2>8. LinksAreKnown'
    <3> SUFFICES ASSUME NEW k \in Links, html[k] > 0,
                        ~(domain.last # NoTask /\ rows[domain.last].link = k)
                 PROVE  \E u \in Tasks \ {t} : /\ Awaited(u) /\ rows[u].link = k
                                               /\ rows[u].act = "remove" => ~Other(u)
      BY <1>1, <1>2, <2>1, <2>3, <2>4, <2>5 DEF LinksAreKnown
    <3>1. PICK u \in Tasks : Awaited(u) /\ rows[u].link = k /\ (rows[u].act = "remove" => ~Other(u))
      BY <2>1 DEF Agreed, LinksAreKnown
    <3>2. u # t
      BY <2>1, <2>2, <3>1 DEF Awaited, LeftBy, Other
    <3> QED BY <3>1, <3>2
  <2>9. RunsKnow'
    <3> SUFFICES ASSUME NEW w \in Workers, crew[w].at # "rest" PROVE RunKnows(w)'
      BY <1>1 DEF RunsKnow
    <3>1. RunKnows(w) /\ crew[w].task \in Tasks /\ crew[w].task # t
      BY <2>1, <2>2, RunHasTask DEF Agreed, RunsKnow
    <3> QED BY <1>1, <1>2, <2>5, <3>1 DEF RunKnows
  <2>10. \A u \in Tasks : u # t => (Begun(u)' <=> Begun(u))
    BY <1>1, <1>2 DEF Begun
  <2>11. EnqueuedIsBegun'
    BY <1>1, <2>1, <2>2, <2>4, <2>10 DEF Agreed, EnqueuedIsBegun
  <2>12. SiteIsWorkedAt'
    <3>1. rows[t].att \in Nat
      BY DEF LinkTyped, RowSet
    <3>2. \A u \in Tasks : Awaited(u) /\ Begun(u) => u # t
      BY <2>1, <2>2, <3>1 DEF Awaited, Begun
    <3> QED BY <1>1, <2>1, <2>3, <2>10, <3>2 DEF Agreed, SiteIsWorkedAt
  <2> QED BY <2>6, <2>7, <2>8, <2>9, <2>11, <2>12 DEF Agreed
<1> QED BY <1>3, <1>4, <1>5 DEF LinkTyped

LEMMA ChangeSettingKeeps ==
  ASSUME LinkInv, ChangeSetting
  PROVE  LinkInv'
<1>1. setting' \in Links /\ UNCHANGED <<rows, domain, html, sched, msgs, crew, crossed, outrun>>
  BY DEF ChangeSetting
<1>2. LinkTyped' /\ RetriesInLimit'
  BY <1>1 DEF LinkInv, LinkTyped, RetriesInLimit
<1>3. Agreed' <=> Agreed
  BY <1>1 DEF Agreed, OneRun, OneTask, RowsThere, OneLink, LinksAreKnown, RunsKnow, RunKnows, SiteIsTrue,
       EnqueuedIsBegun, SiteIsWorkedAt, Awaited, Begun, Exists, Other, Prev, Result, OnlyLink, Bare
<1> QED BY <1>1, <1>2, <1>3 DEF LinkInv

LEMMA RegenerateKeeps ==
  ASSUME LinkInv, Regenerate
  PROVE  LinkInv'
<1> USE DEF LinkInv
<1>1. /\ UNCHANGED <<rows, setting, html, sched, msgs, crew, crossed, outrun>>
      /\ domain' = [domain EXCEPT !.st = "needs_relink"]
  BY DEF Regenerate
<1>2. /\ domain' \in [st : SiteStatuses, last : Tasks \cup {NoTask}]
      /\ domain'.last = domain.last /\ domain'.st = "needs_relink"
  BY <1>1 DEF LinkTyped, SiteStatuses
<1>3. LinkTyped' /\ RetriesInLimit'
  BY <1>1, <1>2 DEF LinkTyped, RetriesInLimit
<1>4. ASSUME ~crossed' PROVE Agreed'
  <2>1. Agreed
    BY <1>1, <1>4
  <2>2. \A u \in Tasks : (Awaited(u)' <=> Awaited(u)) /\ (Begun(u)' <=> Begun(u)) /\ (Exists(u)' <=> Exists(u))
    BY <1>1 DEF Awaited, Begun, Exists
  <2>3. \A u \in Tasks : (Other(u)' <=> Other(u)) /\ Prev(u)' = Prev(u)
    BY <1>1, <1>2 DEF Other, Prev, Exists
  <2>4. OneRun' /\ OneTask' /\ RowsThere' /\ OneLink' /\ LinksAreKnown'
    BY <1>1, <1>2, <2>1, <2>2, <2>3 DEF Agreed, OneRun, OneTask, RowsThere, OneLink, LinksAreKnown
  <2>5. RunsKnow'
    <3> SUFFICES ASSUME NEW w \in Workers, crew[w].at # "rest" PROVE RunKnows(w)'
      BY <1>1 DEF RunsKnow
    <3>1. RunKnows(w) /\ crew[w].task \in Tasks
      BY <2>1, RunHasTask DEF Agreed, RunsKnow
    <3> QED BY <1>1, <2>3, <3>1 DEF RunKnows, Result, OnlyLink, Bare
  <2>6. SiteIsTrue' /\ EnqueuedIsBegun' /\ SiteIsWorkedAt'
    BY <1>1, <1>2, <2>1, <2>2 DEF Agreed, SiteIsTrue, EnqueuedIsBegun, Begun, SiteIsWorkedAt
  <2> QED BY <2>4, <2>5, <2>6 DEF Agreed
<1> QED BY <1>3, <1>4 DEF LinkTyped

LEMMA PublishKeeps ==
  ASSUME LinkInv, Publish
  PROVE  LinkInv'
<1> USE DEF LinkInv
<1>1. /\ UNCHANGED <<rows, setting, sched, msgs, crew, outrun>>
      /\ html' = NoLinks /\ domain' = [domain EXCEPT !.st = "needs_relink"]
      /\ crossed' = (crossed \/ Busy # {} \/ sched.at # "rest" \/ ActiveTasks # {})
  BY DEF Publish
<1>2. html' \in [Links -> Nat] /\ \A k \in Links : html'[k] = 0
  BY <1>1 DEF NoLinks
<1>3. /\ domain' \in [st : SiteStatuses, last : Tasks \cup {NoTask}]
      /\ domain'.last = domain.last /\ domain'.st = "needs_relink"
  BY <1>1 DEF LinkTyped, SiteStatuses
<1>4. LinkTyped' /\ RetriesInLimit'
  <2>1. crossed' \in BOOLEAN
    BY <1>1 DEF LinkTyped
  <2> QED BY <1>1, <1>2, <1>3, <2>1 DEF LinkTyped, RetriesInLimit
<1>5. ASSUME ~crossed' PROVE Agreed'
  <2>1. Agreed /\ sched.at = "rest" /\ \A w \in Workers : crew[w].at = "rest"
    BY <1>1, <1>5 DEF Busy, LinkTyped
  <2>2. \A u \in Tasks : Awaited(u)' <=> Awaited(u)
    BY <1>1 DEF Awaited
  <2>3. OneRun' /\ OneLink' /\ LinksAreKnown' /\ RunsKnow' /\ SiteIsTrue' /\ EnqueuedIsBegun' /\ SiteIsWorkedAt'
    BY <1>1, <1>2, <1>3, <2>1 DEF OneRun, OneLink, LinksAreKnown, RunsKnow, SiteIsTrue, EnqueuedIsBegun, SiteIsWorkedAt
  <2>4. OneTask' /\ RowsThere'
    BY <1>1, <1>3, <2>1, <2>2 DEF Agreed, OneTask, RowsThere, Exists
  <2> QED BY <2>3, <2>4 DEF Agreed
<1> QED BY <1>4, <1>5 DEF LinkTyped

-----------------------------------------------------------------------------
LEMMA InvIsInductive ==
  ASSUME LinkInv, [LinkNext]_linkVars
  PROVE  LinkInv'
<1>1. ASSUME NEW t \in Tasks,
             ResetStuck(t) \/ Enqueue(t) \/ Retry(t) \/ Delete(t) \/ GrowOld(t) \/ FallDue(t)
      PROVE  LinkInv'
  BY <1>1, ResetStuckKeeps, EnqueueKeeps, RetryKeeps, DeleteKeeps, GrowOldKeeps, FallDueKeeps
<1>2. CASE MarkRow \/ MarkDomain \/ LoseTick
  BY <1>2, MarkRowKeeps, MarkDomainKeeps, LoseTickKeeps
<1>3. ASSUME NEW w \in Workers, WorkOn(w) PROVE LinkInv'
  <2>1. ASSUME NEW t \in Tasks, Begin(w, t) PROVE LinkInv'
    BY <2>1, BeginKeeps
  <2> QED BY <1>3, <2>1, LookKeeps, LookToRemoveKeeps, ReadPageKeeps, WritePageKeeps, RecordKeeps,
             TellKeeps DEF WorkOn
<1>4. ASSUME NEW w \in Workers, Fail(w) \/ Die(w) PROVE LinkInv'
  BY <1>4, FailKeeps, DieKeeps
<1>5. ASSUME NEW act \in {"insert", "remove"}, Run(act) PROVE LinkInv'
  BY <1>5, RunKeeps DEF Acts
<1>6. CASE ChangeSetting \/ Regenerate \/ Publish \/ Schedule
  BY <1>6, ChangeSettingKeeps, RegenerateKeeps, PublishKeeps, ScheduleKeeps
<1>7. CASE UNCHANGED linkVars
  <2>1. UNCHANGED <<rows, setting, domain, html, sched, msgs, crew, crossed, outrun>>
    BY <1>7 DEF linkVars
  <2> QED BY <2>1 DEF LinkInv, LinkTyped, RetriesInLimit, Agreed, OneRun, OneTask, RowsThere, OneLink,
       LinksAreKnown, RunsKnow, RunKnows, SiteIsTrue, EnqueuedIsBegun, SiteIsWorkedAt, Awaited, Begun,
       Exists, Other, Prev, Result, OnlyLink, Bare
<1> QED BY <1>1, <1>2, <1>3, <1>4, <1>5, <1>6, <1>7 DEF LinkNext

\* The links, the attempts and the places of a run are of their types, and a row that waits for a
\* retry (NextRetryAt) may be retried.
THEOREM LinkTypes == LinkSpec => []LinkTypeOK
<1>1. LinkInv => LinkTypeOK
  <2> SUFFICES ASSUME LinkInv PROVE LinkTypeOK
    OBVIOUS
  <2>1. \A t \in Tasks : rows[t].st \in Wanted \cup Final \cup {"none"} /\ rows[t].link \in Links /\ rows[t].att \in Nat
    BY DEF LinkInv, LinkTyped, RowSet, Statuses
  <2>2. \A w \in Workers : crew[w].at \in Places
    BY DEF LinkInv, LinkTyped, RunSet
  <2>3. setting \in Links /\ domain.last \in Tasks \cup {NoTask} /\ \A k \in Links : html[k] \in Nat
    BY DEF LinkInv, LinkTyped
  <2> QED BY <2>1, <2>2, <2>3 DEF LinkInv, RetriesInLimit, LinkTypeOK, Places
<1> QED BY <1>1, InvInitially, InvIsInductive, PTL DEF LinkSpec

\* When nothing is under way no task is to be run, and the site says what its page has.
LEMMA QuietIsTrue ==
  ASSUME LinkTyped, Agreed, Quiet
  PROVE  PageAsRecorded /\ SiteNotStuck
<1>1. \A t \in Tasks : ~Awaited(t)
  <2>1. \A w \in Workers : crew[w].task = NoTask
    BY DEF Quiet, Busy, LinkTyped
  <2> QED BY <2>1, LinkAssumption DEF Quiet, ActiveTasks, Awaited
<1>2. SiteNotStuck
  BY <1>1 DEF Agreed, SiteIsWorkedAt, SiteNotStuck
<1>3. PageAsRecorded
  BY DEF Agreed, SiteIsTrue, Result, OnlyLink, Bare, PageAsRecorded
<1> QED BY <1>2, <1>3

\* Page, task and site agree on the link of a site (ProcessTask, the tick of the scheduler, and
\* what users do between them), whatever fails, dies, is delivered again or is reset as stuck.
THEOREM LinkStaysKept == LinkSpec => []LinkIsKept
<1>1. LinkInv => LinkOnce
  <2> SUFFICES ASSUME LinkInv, ~crossed, NEW k \in Links, NEW l \in Links
               PROVE  html[k] + (IF l # k THEN html[l] ELSE 0) <= 1
    BY DEF LinkOnce
  <2>1. html[k] \in Nat /\ html[l] \in Nat /\ OneLink
    BY DEF LinkInv, LinkTyped, Agreed
  <2> QED BY <2>1 DEF OneLink
<1>2. LinkInv => PageAsRecorded /\ SiteNotStuck
  BY QuietIsTrue DEF LinkInv, PageAsRecorded, SiteNotStuck
<1>3. LinkInv => LinkIsKept
  BY <1>1, <1>2 DEF LinkIsKept
<1> QED BY <1>3, InvInitially, InvIsInductive, PTL DEF LinkSpec
-----------------------------------------------------------------------------
(***************************************************************************)
(* The pages.  What is shown goes out of date while requests are under     *)
(* way; `SoundLoad` says what a load that may still be shown has to bring, *)
(* and `Knows` that whatever was read of the item is what it was, or older.*)
(***************************************************************************)
Ver(p) == [st : p.life \cup {"none", "gone"}, ver : Nat]
Chosen == [filter : 1..2, page : 1..2]
ListsOf(p) == [q : Selections, at : Selections, seen : Ver(p)]
LoadsOf(p) ==
  [q : Selections, by : Slots \cup {0}, silent : BOOLEAN, last : BOOLEAN, right : BOOLEAN,
   got : Ver(p)]
CallsOf(p) ==
  [act : {a.name : a \in p.acts} \cup {"none"}, q : Selections,
   stage : {"idle", "sent", "done", "refused", "loading"}, seen : Nat, got : Ver(p)]
FlagsOf(p) == {"list"} \cup UNION {a.flags : a \in p.acts}
Budgets == [clicks : Nat, turns : Nat, shifts : Nat, losses : Nat]

QueryOf(p, s) ==
  [filter |-> IF "filter" \in p.sends THEN s.filter ELSE 0,
   page |-> IF "page" \in p.sends THEN s.page ELSE 0]

PagesTyped ==
  /\ panel \in Panels
  /\ item \in Ver(panel) /\ item.ver # 0 /\ item.st # "none"
  /\ sel \in Chosen /\ list \in ListsOf(panel)
  /\ loads \subseteq LoadsOf(panel) /\ calls \in [Slots -> CallsOf(panel)]
  /\ raised \subseteq FlagsOf(panel)
  /\ kept \in BOOLEAN /\ astray \in BOOLEAN /\ lowered \in BOOLEAN
  /\ written \in Nat /\ budget \in Budgets

\* What was read of the item, which is `it` now.
Knows(x, it) == x.ver <= it.ver /\ (x.ver = it.ver => x.st = it.st)

\* A load that will be taken for an answer to the controls s is one, and has every change the
\* page was told of.
SoundLoad(l, p, s, it, w) ==
  /\ Knows(l.got, it)
  /\ l.last /\ l.right => l.q = QueryOf(p, s)
  /\ l.last /\ l.got # Nothing => l.got.ver >= w

ReadsSound ==
  /\ \A l \in loads : SoundLoad(l, panel, sel, item, written)
  /\ Knows(list.seen, item) /\ \A k \in Slots : Knows(calls[k].got, item)
  /\ written <= item.ver

\* What is shown is true, or an answer will come.
ListTrue ==
  astray \/ loads # {} \/ (list.q = QueryOf(panel, sel) /\ list.seen.ver >= written)

\* A call c of button a.
SoundCall(c, a, it) ==
  c.stage = "sent" => c.seen <= it.ver /\ (c.seen = it.ver => it.st \in a.on)

CallsSound ==
  /\ \A a \in panel.acts, k \in Slots :
       calls[k].act = a.name => SoundCall(calls[k], a, item) /\ (lowered \/ a.flags \subseteq raised)
  /\ \A k \in Slots : calls[k].act = "none" => calls[k] = Rest
  /\ OnceAtATime

PageInv == PagesTyped /\ ReadsSound /\ ListTrue /\ CallsSound
-----------------------------------------------------------------------------
(* Selections, loads and calls *)

LEMMA QueryIs ==
  /\ \A s : Query(s) = QueryOf(panel, s)
  /\ \A p : \A s \in Selections : QueryOf(p, s) \in Selections
  /\ Chosen \subseteq Selections /\ NoQuery \in Selections
BY DEF Query, QueryOf, Chosen, Selections, NoQuery

LEMMA NothingIs ==
  ASSUME NEW p, NEW it, it.ver \in Nat, it.ver # 0
  PROVE  Nothing \in Ver(p) /\ Knows(Nothing, it)
BY DEF Nothing, Ver, Knows

LEMMA LoadIs ==
  ASSUME NEW s \in Selections, NEW shown \in Selections, NEW by \in Slots \cup {0},
         NEW silent \in BOOLEAN
  PROVE  /\ Load(s, shown, by, silent) \in LoadsOf(panel)
         /\ Load(s, shown, by, silent).got = Nothing
         /\ Load(s, shown, by, silent).right =>
              Load(s, shown, by, silent).q = QueryOf(panel, shown)
<1>1. PICK right \in BOOLEAN : right = (Query(s) = Query(shown))
  OBVIOUS
<1>2. PICK q \in Selections : q = Query(s)
  BY QueryIs
<1>3. Load(s, shown, by, silent) =
        [q |-> q, by |-> by, silent |-> silent, last |-> TRUE, right |-> right, got |-> Nothing]
  BY <1>1, <1>2 DEF Load
<1>4. Nothing \in Ver(panel)
  BY DEF Nothing, Ver
<1>5. right => q = QueryOf(panel, shown)
  BY <1>1, <1>2, QueryIs
<1> QED BY <1>3, <1>4, <1>5 DEF LoadsOf

\* A load comes after those under way: none of them is the last any more.
LEMMA AfterIs ==
  ASSUME PagesTyped, NEW ls \in SUBSET LoadsOf(panel), \A m \in ls : Knows(m.got, item),
         NEW l \in LoadsOf(panel), l.got = Nothing, NEW s, l.right => l.q = QueryOf(panel, s)
  PROVE  /\ After(ls, l) \in SUBSET LoadsOf(panel) /\ After(ls, l) # {}
         /\ \A m \in After(ls, l) : \A w : SoundLoad(m, panel, s, item, w)
         /\ \A m \in After(ls, l) : Knows(m.got, item)
<1>1. item.ver \in Nat /\ item.ver # 0
  BY DEF PagesTyped, Ver
<1>2. Knows(l.got, item)
  BY <1>1, NothingIs
<1>3. ASSUME NEW m \in After(ls, l)
      PROVE  /\ m \in LoadsOf(panel) /\ Knows(m.got, item)
             /\ \A w : SoundLoad(m, panel, s, item, w)
  <2>1. CASE m = l
    BY <1>2, <2>1 DEF SoundLoad
  <2>2. CASE m # l
    <3>1. PICK n \in ls : m = [n EXCEPT !.last = FALSE]
      BY <2>2 DEF After
    <3>2. m \in LoadsOf(panel) /\ m.last = FALSE /\ m.got = n.got
      BY <3>1 DEF LoadsOf
    <3> QED BY <3>1, <3>2 DEF SoundLoad
  <2> QED BY <2>1, <2>2
<1>4. After(ls, l) # {}
  BY DEF After
<1> QED BY <1>3, <1>4

\* The item stays, or gets a new version.
LEMMA KnownStays ==
  ASSUME NEW it, NEW new, it.ver \in Nat, new = it \/ new.ver = it.ver + 1
  PROVE  /\ \A x : x.ver \in Nat /\ Knows(x, it) => Knows(x, new)
         /\ \A l, p, s, w : l.got.ver \in Nat /\ SoundLoad(l, p, s, it, w) =>
              SoundLoad(l, p, s, new, w)
         /\ \A c, a : c.seen \in Nat /\ SoundCall(c, a, it) => SoundCall(c, a, new)
<1>1. new.ver \in Nat /\ new.ver >= it.ver /\ (new = it \/ new.ver > it.ver)
  OBVIOUS
<1>2. ASSUME NEW x, x.ver \in Nat, Knows(x, it) PROVE Knows(x, new)
  BY <1>1, <1>2 DEF Knows
<1>3. ASSUME NEW l, NEW p, NEW s, NEW w, l.got.ver \in Nat, SoundLoad(l, p, s, it, w)
      PROVE  SoundLoad(l, p, s, new, w)
  BY <1>2, <1>3 DEF SoundLoad
<1>4. ASSUME NEW c, NEW a, c.seen \in Nat, SoundCall(c, a, it) PROVE SoundCall(c, a, new)
  BY <1>1, <1>4 DEF SoundCall
<1> QED BY <1>2, <1>3, <1>4

LEMMA ActIs ==
  ASSUME panel \in Panels, NEW k \in Slots, NEW a \in panel.acts, calls[k].act = a.name
  PROVE  Act(k) = a
<1>1. \A b \in panel.acts : b.name = a.name => b = a
  BY PanelAssumption
<1> QED BY <1>1 DEF Act

LEMMA PageSpends ==
  ASSUME PagesTyped, NEW what \in {"clicks", "turns", "shifts", "losses"},
         budget[what] > 0, budget' = [budget EXCEPT ![what] = @ - 1]
  PROVE  budget' \in Budgets
<1>1. budget \in Budgets
  BY DEF PagesTyped
<1>2. CASE what = "clicks"
  BY <1>1, <1>2 DEF Budgets
<1>3. CASE what = "turns"
  BY <1>1, <1>3 DEF Budgets
<1>4. CASE what = "shifts"
  BY <1>1, <1>4 DEF Budgets
<1>5. CASE what = "losses"
  BY <1>1, <1>5 DEF Budgets
<1> QED BY <1>2, <1>3, <1>4, <1>5

\* Calls go on or end; a flag that comes down under one that goes on is noted.
LEMMA CallsGoOn ==
  ASSUME PageInv, panel' = panel, item' = item \/ item'.ver = item.ver + 1,
         \A j \in Slots : \/ calls'[j] = Rest \/ calls'[j] = calls[j]
                          \/ /\ calls'[j].act = calls[j].act /\ calls'[j].seen = calls[j].seen
                             /\ calls'[j].stage # "sent" /\ calls[j].act # "none",
         \/ Note
         \/ lowered' = lowered /\ raised \subseteq raised'
         \/ \A j \in Slots : calls'[j] = Rest
  PROVE  CallsSound'
<1>1. panel \in Panels /\ item.ver \in Nat /\ \A j \in Slots : calls[j].seen \in Nat
  BY DEF PageInv, PagesTyped, Ver, CallsOf
<1>2. \A a \in panel.acts : a.name # "none"
  BY <1>1, PanelAssumption
<1>3. \A a \in panel.acts, j \in Slots : calls'[j].act = a.name =>
        /\ calls'[j] # Rest /\ calls[j].act = a.name /\ calls'[j].seen = calls[j].seen
        /\ (calls'[j].stage = "sent" => calls[j].stage = "sent")
  BY <1>2 DEF Rest
<1>4. ASSUME NEW a \in panel.acts, NEW j \in Slots, NEW c, c = calls'[j], c.act = a.name
      PROVE  SoundCall(c, a, item') /\ (lowered' \/ a.flags \subseteq raised')
  <2>1. /\ c # Rest /\ calls[j].act = a.name /\ c.seen = calls[j].seen
        /\ (c.stage = "sent" => calls[j].stage = "sent")
    BY <1>3, <1>4
  <2>2. SoundCall(calls[j], a, item) /\ (lowered \/ a.flags \subseteq raised)
    BY <2>1 DEF PageInv, CallsSound
  <2>3. SoundCall(calls[j], a, item')
    BY <1>1, <2>2, KnownStays
  <2>4. Act(j) = a
    BY <1>1, <2>1, ActIs
  <2>5. Note => lowered' \/ a.flags \subseteq raised'
    BY <1>4, <2>1, <2>2, <2>4 DEF Note
  <2>6. lowered' = lowered /\ raised \subseteq raised' => lowered' \/ a.flags \subseteq raised'
    BY <2>2
  <2>7. SoundCall(c, a, item')
    BY <2>1, <2>3 DEF SoundCall
  <2> QED BY <1>4, <2>1, <2>5, <2>6, <2>7
<1>5. OnceAtATime'
  <2> SUFFICES ASSUME NEW a \in panel.acts, NEW j \in Slots, NEW k \in Slots, j # k,
                      calls'[j].act = a.name, calls'[k].act = a.name
               PROVE  ~a.lock /\ (a.busy \cap a.flags # {} => lowered')
    BY DEF OnceAtATime
  <2>1. calls[j].act = a.name /\ calls[k].act = a.name /\ calls'[j] # Rest
    BY <1>3
  <2>2. ~a.lock /\ (a.busy \cap a.flags # {} => lowered)
    BY <2>1 DEF PageInv, CallsSound, OnceAtATime
  <2>3. lowered => lowered'
    BY <2>1 DEF Note
  <2> QED BY <2>2, <2>3
<1>6. \A j \in Slots : calls'[j].act = "none" => calls'[j] = Rest
  BY DEF PageInv, CallsSound
<1> QED BY <1>4, <1>5, <1>6 DEF CallsSound
-----------------------------------------------------------------------------
(* The actions of the pages *)

\* The controls, the timer: loads are asked for, or the selection is as good as it was.
LEMMA AskKeeps ==
  ASSUME PageInv, UNCHANGED <<panel, item, list, calls, kept, astray, lowered, written>>,
         sel' \in Chosen, budget' \in Budgets, raised' \in {raised, raised \cup {"list"}},
         \/ loads' = loads /\ QueryOf(panel, sel') = QueryOf(panel, sel)
         \/ /\ loads' \in SUBSET LoadsOf(panel) /\ loads' # {}
            /\ \A m \in loads' : \A w : SoundLoad(m, panel, sel', item, w)
  PROVE  PageInv'
<1>1. loads' \in SUBSET LoadsOf(panel)
  BY DEF PageInv, PagesTyped
<1>2. PagesTyped'
  BY <1>1 DEF PageInv, PagesTyped, FlagsOf
<1>3. \A l \in loads' : SoundLoad(l, panel, sel', item, written)
  BY DEF PageInv, ReadsSound, SoundLoad
<1>4. ReadsSound'
  BY <1>3 DEF PageInv, ReadsSound
<1>5. ListTrue'
  BY DEF PageInv, ListTrue
<1>6. CallsSound'
  BY DEF PageInv, CallsSound, OnceAtATime
<1> QED BY <1>2, <1>4, <1>5, <1>6 DEF PageInv

LEMMA LoadAdded ==
  ASSUME PageInv, NEW s \in Selections, NEW shown \in Selections, NEW by \in Slots \cup {0},
         NEW silent \in BOOLEAN
  PROVE  /\ After(loads, Load(s, shown, by, silent)) \in SUBSET LoadsOf(panel)
         /\ After(loads, Load(s, shown, by, silent)) # {}
         /\ \A m \in After(loads, Load(s, shown, by, silent)) :
              Knows(m.got, item) /\ \A w : SoundLoad(m, panel, shown, item, w)
<1>1. PagesTyped /\ loads \in SUBSET LoadsOf(panel) /\ \A m \in loads : Knows(m.got, item)
  BY DEF PageInv, PagesTyped, ReadsSound, SoundLoad
<1>2. PICK l \in LoadsOf(panel) :
        /\ l = Load(s, shown, by, silent) /\ l.got = Nothing
        /\ l.right => l.q = QueryOf(panel, shown)
  BY LoadIs
<1> QED BY <1>1, <1>2, AfterIs

\* The first load of a selection may be for the one before; the second is for the new one.
LEMMA SelectAsks ==
  ASSUME PageInv, NEW s \in Chosen, NEW first \in Selections, Select(s, first), s # sel
  PROVE  /\ sel' = s /\ raised' \in {raised, raised \cup {"list"}}
         /\ loads' \in SUBSET LoadsOf(panel) /\ loads' # {}
         /\ \A m \in loads' : \A w : SoundLoad(m, panel, sel', item, w)
<1>1. PICK one : one = IF first = sel THEN loads ELSE After(loads, Load(first, s, 0, FALSE))
  OBVIOUS
<1>2. PICK two : two = IF first = s THEN one ELSE After(one, Load(s, s, 0, FALSE))
  OBVIOUS
<1>3. sel' = s /\ loads' = two /\ raised' \in {raised, raised \cup {"list"}}
  BY <1>1, <1>2 DEF Select
<1>4. s \in Selections
  BY QueryIs
<1>5. PagesTyped /\ loads \in SUBSET LoadsOf(panel) /\ \A m \in loads : Knows(m.got, item)
  BY DEF PageInv, PagesTyped, ReadsSound, SoundLoad
<1>6. first # sel =>
        /\ one \in SUBSET LoadsOf(panel) /\ one # {}
        /\ \A m \in one : Knows(m.got, item) /\ \A w : SoundLoad(m, panel, s, item, w)
  BY <1>1, <1>4, LoadAdded
<1>7. CASE first = s
  BY <1>1, <1>2, <1>3, <1>6, <1>7
<1>8. CASE first # s
  <2>1. one \in SUBSET LoadsOf(panel) /\ \A m \in one : Knows(m.got, item)
    BY <1>1, <1>5, <1>6
  <2>2. PICK l \in LoadsOf(panel) :
          /\ l = Load(s, s, 0, FALSE) /\ l.got = Nothing /\ (l.right => l.q = QueryOf(panel, s))
    BY <1>4, LoadIs
  <2>3. /\ After(one, l) \in SUBSET LoadsOf(panel) /\ After(one, l) # {}
        /\ \A m \in After(one, l) : \A w : SoundLoad(m, panel, s, item, w)
    BY <1>5, <2>1, <2>2, AfterIs
  <2> QED BY <1>2, <1>3, <1>8, <2>2, <2>3
<1> QED BY <1>7, <1>8

LEMMA ChooseFilterKeeps ==
  ASSUME PageInv, ChooseFilter
  PROVE  PageInv'
<1>1. /\ UNCHANGED <<panel, item, list, calls, kept, astray, lowered, written>>
      /\ Spend("turns") /\ panel \in Panels /\ sel \in Chosen
  BY DEF ChooseFilter, PageInv, PagesTyped
<1>2. budget' \in Budgets
  BY <1>1, PageSpends DEF PageInv, Spend
<1>3. PICK other \in 1..2 : other = 3 - sel.filter /\ other # sel.filter
  BY <1>1 DEF Chosen
<1>4. PICK page \in 1..2 : page = IF panel.reset = "no" THEN sel.page ELSE 1
  BY <1>1 DEF Chosen
<1>5. PICK reset \in Chosen : reset = [filter |-> other, page |-> page]
  BY DEF Chosen
<1>6. reset # sel
  BY <1>3, <1>5
<1>7. PICK first \in Selections :
        first = IF "filter" \notin panel.deps THEN sel
                ELSE IF panel.reset = "effect" THEN [filter |-> other, page |-> sel.page]
                ELSE reset
  <2>1. [filter |-> other, page |-> sel.page] \in Chosen
    BY <1>1 DEF Chosen
  <2> QED BY <1>1, <2>1, QueryIs
<1>8. IF "filter" \in panel.deps \/ ("page" \in panel.deps /\ reset.page # sel.page)
      THEN Select(reset, first)
      ELSE sel' = reset /\ UNCHANGED <<loads, raised>>
  BY <1>3, <1>4, <1>5, <1>7 DEF ChooseFilter
<1>9. CASE "filter" \in panel.deps \/ ("page" \in panel.deps /\ reset.page # sel.page)
  BY <1>1, <1>2, <1>6, <1>8, <1>9, SelectAsks, AskKeeps
<1>10. CASE ~("filter" \in panel.deps \/ ("page" \in panel.deps /\ reset.page # sel.page))
  <2>1. panel.sends \subseteq panel.deps
    BY <1>1, PanelAssumption
  <2>2. QueryOf(panel, reset) = QueryOf(panel, sel)
    BY <1>10, <2>1 DEF QueryOf
  <2> QED BY <1>1, <1>2, <1>8, <1>10, <2>2, AskKeeps
<1> QED BY <1>9, <1>10

LEMMA TurnKeeps ==
  ASSUME PageInv, Turn
  PROVE  PageInv'
<1>1. /\ UNCHANGED <<panel, item, list, calls, kept, astray, lowered, written>>
      /\ Spend("turns") /\ panel \in Panels /\ sel \in Chosen /\ "page" \in panel.sends
  BY DEF Turn, PageInv, PagesTyped
<1>2. budget' \in Budgets
  BY <1>1, PageSpends DEF PageInv, Spend
<1>3. PICK s : s = [sel EXCEPT !.page = 3 - @]
  OBVIOUS
<1>4. s \in Chosen /\ s \in Selections /\ s # sel
  BY <1>1, <1>3 DEF Chosen, Selections
<1>5. "page" \in panel.deps
  BY <1>1, PanelAssumption
<1>6. Select(s, s)
  BY <1>3, <1>5 DEF Turn
<1> QED BY <1>1, <1>2, <1>4, <1>6, SelectAsks, AskKeeps

LEMMA RefreshKeeps ==
  ASSUME PageInv, Refresh
  PROVE  PageInv'
<1>1. /\ UNCHANGED <<panel, item, sel, list, calls, kept, astray, lowered, written>>
      /\ Spend("clicks") /\ sel \in Chosen
  BY DEF Refresh, PageInv, PagesTyped
<1>2. budget' \in Budgets
  BY <1>1, PageSpends DEF PageInv, Spend
<1>3. PICK quiet \in BOOLEAN : quiet = (panel.refresh = "quiet")
  OBVIOUS
<1>4. /\ loads' = After(loads, Load(sel, sel, 0, quiet))
      /\ raised' \in {raised, raised \cup {"list"}}
  BY <1>3 DEF Refresh
<1>5. sel \in Selections
  BY <1>1, QueryIs
<1>6. /\ loads' \in SUBSET LoadsOf(panel) /\ loads' # {}
      /\ \A m \in loads' : \A w : SoundLoad(m, panel, sel, item, w)
  BY <1>4, <1>5, LoadAdded
<1> QED BY <1>1, <1>2, <1>4, <1>6, AskKeeps

LEMMA TickKeeps ==
  ASSUME PageInv, Tick
  PROVE  PageInv'
<1>1. /\ UNCHANGED <<panel, item, sel, list, calls, kept, astray, lowered, written, budget>>
      /\ panel \in Panels /\ sel \in Chosen /\ list \in ListsOf(panel) /\ budget \in Budgets
  BY DEF Tick, PageInv, PagesTyped
<1>2. PICK s \in Selections : s = IF panel.polled = "then" THEN list.at ELSE sel
  BY <1>1, QueryIs DEF ListsOf
<1>3. panel.silent \in BOOLEAN
  BY <1>1, PanelAssumption
<1>4. /\ loads' = After(loads, Load(s, sel, 0, panel.silent))
      /\ raised' \in {raised, raised \cup {"list"}}
  BY <1>2 DEF Tick
<1>5. sel \in Selections
  BY <1>1, QueryIs
<1>6. /\ loads' \in SUBSET LoadsOf(panel) /\ loads' # {}
      /\ \A m \in loads' : \A w : SoundLoad(m, panel, sel, item, w)
  BY <1>3, <1>4, <1>5, LoadAdded
<1> QED BY <1>1, <1>4, <1>6, AskKeeps
-----------------------------------------------------------------------------
(* The buttons and the server *)

LEMMA ClickKeeps ==
  ASSUME PageInv, NEW k \in Slots, NEW a \in panel.acts, Click(a, k)
  PROVE  PageInv'
<1>1. /\ UNCHANGED <<panel, item, sel, loads, kept, lowered, written>> /\ Spend("clicks")
      /\ calls[k] = Rest /\ list.seen.st \in a.on /\ a.busy \cap raised = {}
      /\ (a.lock => \A j \in Slots : calls[j].act # a.name)
      /\ raised' = raised \cup a.flags
  BY DEF Click
<1>2. /\ panel \in Panels /\ sel \in Chosen /\ sel \in Selections /\ list \in ListsOf(panel)
      /\ calls \in [Slots -> CallsOf(panel)] /\ item \in Ver(panel) /\ item.ver \in Nat
      /\ list.seen.ver \in Nat /\ item.ver # 0
  BY QueryIs DEF PageInv, PagesTyped, ListsOf, Ver
<1>3. PICK c : c = [act |-> a.name, q |-> sel, stage |-> "sent", seen |-> list.seen.ver,
                    got |-> Nothing]
  OBVIOUS
<1>4. calls' = [calls EXCEPT ![k] = c]
  BY <1>3 DEF Click
<1>5. /\ c \in CallsOf(panel) /\ c.act = a.name /\ c.got = Nothing /\ c.seen = list.seen.ver
      /\ c.got = Nothing
  BY <1>2, <1>3, NothingIs DEF CallsOf
<1>6. /\ a.name # "none" /\ a.shows \in panel.life \cup {"none"}
      /\ \A b \in panel.acts : a.name = b.name => a = b
  BY <1>2, PanelAssumption
<1>7. \A j \in Slots : calls'[j] = IF j = k THEN c ELSE calls[j]
  BY <1>2, <1>4
<1>8. budget' \in Budgets
  BY <1>1, PageSpends DEF PageInv, Spend
<1>9. \/ UNCHANGED <<list, astray>>
      \/ /\ list' = [list EXCEPT !.seen = [st |-> a.shows, ver |-> 0]]
         /\ astray' = TRUE /\ a.shows # "none"
  BY DEF Click
<1>10. /\ list' \in ListsOf(panel) /\ Knows(list'.seen, item) /\ astray' \in BOOLEAN
       /\ astray' \/ (list' = list /\ astray' = astray)
  <2>1. CASE UNCHANGED <<list, astray>>
    BY <1>2, <2>1 DEF PageInv, PagesTyped, ReadsSound
  <2>2. CASE list' = [list EXCEPT !.seen = [st |-> a.shows, ver |-> 0]] /\ astray' = TRUE
    <3>1. PICK x : x = [st |-> a.shows, ver |-> 0]
      OBVIOUS
    <3>2. x \in Ver(panel) /\ x.ver = 0
      BY <1>6, <3>1 DEF Ver
    <3>3. list' \in ListsOf(panel) /\ list'.seen = x
      BY <1>2, <2>2, <3>1, <3>2 DEF ListsOf
    <3>4. Knows(x, item)
      BY <1>2, <3>2 DEF Knows
    <3> QED BY <2>2, <3>3, <3>4
  <2> QED BY <1>9, <2>1, <2>2
<1>11. PagesTyped'
  <2>1. calls' \in [Slots -> CallsOf(panel)]
    BY <1>2, <1>4, <1>5
  <2>2. raised' \subseteq FlagsOf(panel)
    BY <1>1 DEF PageInv, PagesTyped, FlagsOf
  <2> QED BY <1>1, <1>8, <1>10, <2>1, <2>2 DEF PageInv, PagesTyped
<1>12. ReadsSound'
  <2>1. \A j \in Slots : Knows(calls'[j].got, item)
    <3>1. Knows(Nothing, item)
      BY <1>2, NothingIs
    <3> QED BY <1>5, <1>7, <3>1 DEF PageInv, ReadsSound
  <2> QED BY <1>1, <1>10, <2>1 DEF PageInv, ReadsSound
<1>13. ListTrue'
  BY <1>1, <1>10 DEF PageInv, ListTrue
<1>14. CallsSound'
  <2>1. ASSUME NEW b \in panel.acts, NEW j \in Slots, NEW d, d = calls'[j], d.act = b.name
        PROVE  SoundCall(d, b, item) /\ (lowered \/ b.flags \subseteq raised')
    <3>1. CASE j = k
      <4>1. b = a /\ d = c
        BY <1>5, <1>6, <1>7, <2>1, <3>1
      <4>2. Knows(list.seen, item)
        BY DEF PageInv, ReadsSound
      <4>3. SoundCall(c, a, item)
        BY <1>1, <1>5, <4>2 DEF SoundCall, Knows
      <4> QED BY <1>1, <4>1, <4>3
    <3>2. CASE j # k
      <4>1. d = calls[j]
        BY <1>7, <2>1, <3>2
      <4>2. SoundCall(calls[j], b, item) /\ (lowered \/ b.flags \subseteq raised)
        BY <2>1, <4>1 DEF PageInv, CallsSound
      <4> QED BY <1>1, <4>1, <4>2
    <3> QED BY <3>1, <3>2
  <2>2. ASSUME NEW b \in panel.acts, NEW i \in Slots, NEW j \in Slots, i # j,
               calls'[i].act = b.name, calls'[j].act = b.name
        PROVE  ~b.lock /\ (b.busy \cap b.flags # {} => lowered)
    <3>1. CASE i # k /\ j # k
      BY <1>7, <2>2, <3>1 DEF PageInv, CallsSound, OnceAtATime
    <3>2. ASSUME NEW m \in Slots, calls[m].act = a.name
          PROVE  ~a.lock /\ (a.busy \cap a.flags # {} => lowered)
      BY <1>1, <3>2 DEF PageInv, CallsSound
    <3>3. CASE i = k
      <4>1. b = a /\ calls[j].act = a.name
        BY <1>5, <1>6, <1>7, <2>2, <3>3
      <4> QED BY <3>2, <4>1
    <3>4. CASE j = k
      <4>1. b = a /\ calls[i].act = a.name
        BY <1>5, <1>6, <1>7, <2>2, <3>4
      <4> QED BY <3>2, <4>1
    <3> QED BY <3>1, <3>3, <3>4
  <2>3. \A j \in Slots : calls'[j].act = "none" => calls'[j] = Rest
    BY <1>5, <1>6, <1>7 DEF PageInv, CallsSound
  <2> QED BY <1>1, <2>1, <2>2, <2>3 DEF CallsSound, OnceAtATime
<1> QED BY <1>11, <1>12, <1>13, <1>14 DEF PageInv

\* The item gets a version.
LEMMA ItemMoves ==
  ASSUME PageInv, UNCHANGED <<panel, sel, list, loads, raised, kept, astray, lowered, written>>,
         NEW st \in panel.life \cup {"gone"}, item' = [st |-> st, ver |-> item.ver + 1],
         budget' \in Budgets, calls' \in [Slots -> CallsOf(panel)],
         \A j \in Slots : Knows(calls'[j].got, item'), CallsSound'
  PROVE  PageInv'
<1>1. item.ver \in Nat /\ panel \in Panels /\ "none" \notin panel.life
  BY PanelAssumption DEF PageInv, PagesTyped, Ver
<1>2. item' \in Ver(panel) /\ item'.ver = item.ver + 1 /\ item'.st # "none"
  BY <1>1 DEF Ver
<1>3. PagesTyped'
  BY <1>1, <1>2 DEF PageInv, PagesTyped
<1>4. ReadsSound'
  <2>1. \A l \in loads : l.got.ver \in Nat
    BY DEF PageInv, PagesTyped, LoadsOf, Ver
  <2>2. list.seen.ver \in Nat
    BY DEF PageInv, PagesTyped, ListsOf, Ver
  <2>3. (\A l \in loads : SoundLoad(l, panel, sel, item', written)) /\ Knows(list.seen, item')
    BY <1>1, <1>2, <2>1, <2>2, KnownStays DEF PageInv, ReadsSound
  <2>4. written <= item'.ver
    BY <1>1, <1>2 DEF PageInv, PagesTyped, ReadsSound
  <2> QED BY <2>3, <2>4 DEF ReadsSound
<1>5. ListTrue'
  BY DEF PageInv, ListTrue
<1> QED BY <1>3, <1>4, <1>5 DEF PageInv

LEMMA ShiftKeeps ==
  ASSUME PageInv, Shift
  PROVE  PageInv'
<1>1. /\ UNCHANGED <<panel, sel, list, loads, calls, raised, kept, astray, lowered, written>>
      /\ Spend("shifts") /\ panel \in Panels
      /\ item.ver \in Nat /\ calls \in [Slots -> CallsOf(panel)]
  BY DEF Shift, PageInv, PagesTyped, Ver
<1>2. budget' \in Budgets
  BY <1>1, PageSpends DEF PageInv, Spend
<1>3. PICK m \in panel.moves : item' = [st |-> m[2], ver |-> item.ver + 1]
  BY DEF Shift
<1>4. PICK st \in panel.life \cup {"gone"} : st = m[2]
  BY <1>1, PanelAssumption
<1>5. item' = [st |-> st, ver |-> item.ver + 1] /\ item'.ver = item.ver + 1
  BY <1>3, <1>4
<1>6. \A j \in Slots : calls[j].got.ver \in Nat
  BY <1>1 DEF CallsOf, Ver
<1>7. \A j \in Slots : Knows(calls[j].got, item')
  BY <1>1, <1>5, <1>6, KnownStays DEF PageInv, ReadsSound
<1>8. CallsSound'
  BY <1>1, <1>5, CallsGoOn
<1> QED BY <1>1, <1>2, <1>4, <1>5, <1>7, <1>8, ItemMoves

\* A call under way is one of a button of the page.
LEMMA CallOfButton ==
  ASSUME PageInv, NEW k \in Slots, calls[k] # Rest
  PROVE  \E a \in panel.acts : calls[k].act = a.name /\ Act(k) = a /\ a.name # "none"
<1>1. calls[k] \in CallsOf(panel) /\ calls[k].act # "none" /\ panel \in Panels
  BY DEF PageInv, PagesTyped, CallsSound
<1>2. PICK a \in panel.acts : calls[k].act = a.name
  BY <1>1 DEF CallsOf
<1>3. Act(k) = a
  BY <1>1, <1>2, ActIs
<1> QED BY <1>1, <1>2, <1>3

LEMMA PerformKeeps ==
  ASSUME PageInv, NEW k \in Slots, Perform(k)
  PROVE  PageInv'
<1>1. /\ UNCHANGED <<panel, sel, list, loads, raised, kept, astray, lowered, written, budget>>
      /\ panel \in Panels /\ item.ver \in Nat /\ calls \in [Slots -> CallsOf(panel)]
      /\ budget \in Budgets /\ calls[k].stage = "sent" /\ calls[k] # Rest
  BY DEF Perform, PageInv, PagesTyped, Ver, Rest
<1>2. PICK a \in panel.acts : calls[k].act = a.name /\ Act(k) = a /\ a.name # "none"
  BY <1>1, CallOfButton
<1>3. PICK c \in CallsOf(panel) : c = calls[k] /\ c.act = a.name
  BY <1>1, <1>2
<1>4. CASE item.st \in DOMAIN a.does
  <2>1. PICK st \in panel.life \cup {"gone"} : st = a.does[item.st]
    BY <1>1, <1>4, PanelAssumption
  <2>10. PICK ver \in Nat : ver = item.ver + 1
    BY <1>1
  <2>2. PICK new \in Ver(panel) : new = [st |-> st, ver |-> ver]
    BY DEF Ver
  <2>3. PICK d : d = [c EXCEPT !.stage = "done", !.got = new]
    OBVIOUS
  <2>4. item' = new /\ calls' = [calls EXCEPT ![k] = d]
    <3>1. /\ item' = new
          /\ calls' = [calls EXCEPT ![k].stage = "done", ![k].got = item']
      BY <1>2, <1>4, <2>1, <2>2, <2>10 DEF Perform
    <3> QED BY <1>3, <2>3, <3>1
  <2>5. /\ d \in CallsOf(panel) /\ d.act = c.act /\ d.seen = c.seen /\ d.stage = "done"
        /\ d.got = new /\ new.ver = item.ver + 1
    BY <2>2, <2>3, <2>10 DEF CallsOf
  <2>6. \A j \in Slots : calls'[j] = IF j = k THEN d ELSE calls[j]
    BY <1>1, <2>4
  <2>7. calls' \in [Slots -> CallsOf(panel)]
    BY <1>1, <2>4, <2>5
  <2>8. \A j \in Slots : Knows(calls'[j].got, new)
    <3>1. \A j \in Slots : calls[j].got.ver \in Nat
      BY <1>1 DEF CallsOf, Ver
    <3>2. \A j \in Slots : Knows(calls[j].got, new)
      BY <1>1, <2>5, <3>1, KnownStays DEF PageInv, ReadsSound
    <3>3. Knows(new, new)
      BY <2>2 DEF Knows, Ver
    <3> QED BY <2>5, <2>6, <3>2, <3>3
  <2>9. CallsSound'
    BY <1>1, <1>2, <1>3, <2>4, <2>5, <2>6, CallsGoOn
  <2> QED BY <1>1, <2>1, <2>2, <2>4, <2>7, <2>8, <2>9, <2>10, ItemMoves
<1>5. CASE item.st \notin DOMAIN a.does
  <2>1. PICK d : d = [c EXCEPT !.stage = "refused"]
    OBVIOUS
  <2>2. item' = item /\ calls' = [calls EXCEPT ![k] = d]
    BY <1>2, <1>3, <1>5, <2>1 DEF Perform
  <2>3. /\ d \in CallsOf(panel) /\ d.act = c.act /\ d.seen = c.seen /\ d.stage = "refused"
        /\ d.got = c.got
    BY <2>1 DEF CallsOf
  <2>4. \A j \in Slots : calls'[j] = IF j = k THEN d ELSE calls[j]
    BY <1>1, <2>2
  <2>5. PagesTyped'
    <3>1. calls' \in [Slots -> CallsOf(panel)]
      BY <1>1, <2>2, <2>3
    <3> QED BY <1>1, <2>2, <3>1 DEF PageInv, PagesTyped
  <2>6. ReadsSound'
    BY <1>1, <1>3, <2>2, <2>3, <2>4 DEF PageInv, ReadsSound
  <2>7. ListTrue'
    BY <1>1 DEF PageInv, ListTrue
  <2>8. CallsSound'
    BY <1>1, <1>2, <1>3, <2>2, <2>3, <2>4, CallsGoOn
  <2> QED BY <2>5, <2>6, <2>7, <2>8 DEF PageInv
<1> QED BY <1>4, <1>5

LEMMA ReadKeeps ==
  ASSUME PageInv, NEW by, NEW silent, Read(by, silent)
  PROVE  PageInv'
<1>1. /\ UNCHANGED <<panel, item, sel, list, calls, raised, kept, astray, lowered, written, budget>>
      /\ item \in Ver(panel) /\ item.ver \in Nat /\ loads \subseteq LoadsOf(panel)
      /\ written <= item.ver
  BY DEF Read, PageInv, PagesTyped, ReadsSound, Ver
<1>2. PICK l \in loads : loads' = (loads \ {l}) \cup {[l EXCEPT !.got = item]}
  BY DEF Read
<1>3. PICK m : m = [l EXCEPT !.got = item]
  OBVIOUS
<1>4. /\ m \in LoadsOf(panel) /\ m.got = item /\ m.last = l.last /\ m.right = l.right /\ m.q = l.q
  BY <1>1, <1>2, <1>3 DEF LoadsOf
<1>5. loads' \subseteq LoadsOf(panel) /\ loads' # {} /\ \A n \in loads' : n = m \/ n \in loads
  BY <1>1, <1>2, <1>3, <1>4
<1>6. SoundLoad(m, panel, sel, item, written)
  <2>1. SoundLoad(l, panel, sel, item, written)
    BY DEF PageInv, ReadsSound
  <2>2. Knows(item, item) /\ item.ver >= written
    BY <1>1 DEF Knows, PageInv, PagesTyped
  <2> QED BY <1>4, <2>1, <2>2 DEF SoundLoad
<1>7. PagesTyped'
  BY <1>1, <1>5 DEF PageInv, PagesTyped
<1>8. ReadsSound'
  BY <1>1, <1>5, <1>6 DEF PageInv, ReadsSound
<1>9. ListTrue'
  BY <1>5 DEF ListTrue
<1>10. CallsSound'
  BY <1>1 DEF PageInv, CallsSound, OnceAtATime
<1> QED BY <1>7, <1>8, <1>9, <1>10 DEF PageInv
-----------------------------------------------------------------------------
(* The answers *)

\* An action ends: its call goes to rest.
LEMMA CallRests ==
  ASSUME PageInv, NEW k \in Slots, calls' = [calls EXCEPT ![k] = Rest]
  PROVE  /\ calls' \in [Slots -> CallsOf(panel)]
         /\ \A j \in Slots : calls'[j] \in {Rest, calls[j]}
         /\ \A j \in Slots : Knows(calls'[j].got, item)
<1>1. Rest \in CallsOf(panel) /\ Rest.got = Nothing
  BY QueryIs DEF Rest, CallsOf, Nothing, Ver
<1>2. calls \in [Slots -> CallsOf(panel)] /\ item.ver \in Nat /\ item.ver # 0
  BY DEF PageInv, PagesTyped, Ver
<1>3. Knows(Nothing, item)
  BY <1>2, NothingIs
<1>4. \A j \in Slots : calls'[j] \in {Rest, calls[j]}
  BY <1>2
<1>5. \A j \in Slots : Knows(calls[j].got, item)
  BY DEF PageInv, ReadsSound
<1> QED BY <1>1, <1>2, <1>3, <1>4, <1>5

\* The item stays; what is shown and under way is as the hypotheses say.
LEMMA AnswerKeeps ==
  ASSUME PageInv, UNCHANGED <<panel, item, sel>>,
         list' \in ListsOf(panel), Knows(list'.seen, item),
         loads' \in SUBSET LoadsOf(panel), \A l \in loads' : SoundLoad(l, panel, sel, item, written'),
         calls' \in [Slots -> CallsOf(panel)], \A j \in Slots : Knows(calls'[j].got, item),
         \A j \in Slots : \/ calls'[j] = Rest \/ calls'[j] = calls[j]
                          \/ /\ calls'[j].act = calls[j].act /\ calls'[j].seen = calls[j].seen
                             /\ calls'[j].stage # "sent" /\ calls[j].act # "none",
         Note \/ (lowered' = lowered /\ raised \subseteq raised') \/ \A j \in Slots : calls'[j] = Rest,
         raised' \subseteq FlagsOf(panel), kept' \in BOOLEAN, astray' \in BOOLEAN, lowered' \in BOOLEAN,
         written' \in Nat, written' <= item.ver, budget' \in Budgets,
         astray' \/ loads' # {} \/ (list'.q = QueryOf(panel, sel) /\ list'.seen.ver >= written')
  PROVE  PageInv'
<1>1. PagesTyped'
  BY DEF PageInv, PagesTyped
<1>2. ReadsSound'
  BY DEF ReadsSound
<1>3. ListTrue'
  BY DEF ListTrue
<1>4. CallsSound'
  BY CallsGoOn
<1> QED BY <1>1, <1>2, <1>3, <1>4 DEF PageInv

LEMMA NoteIs ==
  ASSUME PageInv, Note
  PROVE  lowered' \in BOOLEAN
BY DEF PageInv, PagesTyped, Note

\* What is true as long as neither the page nor the item moves.
LEMMA PageRests ==
  ASSUME PageInv
  PROVE  /\ list \in ListsOf(panel) /\ Knows(list.seen, item) /\ list.q \in Selections
         /\ loads \in SUBSET LoadsOf(panel) /\ \A l \in loads : SoundLoad(l, panel, sel, item, written)
         /\ \A l \in loads : Knows(l.got, item)
         /\ calls \in [Slots -> CallsOf(panel)] /\ \A j \in Slots : Knows(calls[j].got, item)
         /\ \A j \in Slots : calls[j].got.ver \in Nat /\ calls[j].got.ver <= item.ver
         /\ raised \subseteq FlagsOf(panel) /\ kept \in BOOLEAN /\ astray \in BOOLEAN
         /\ lowered \in BOOLEAN /\ written \in Nat /\ written <= item.ver /\ budget \in Budgets
         /\ item.ver \in Nat /\ panel \in Panels /\ sel \in Selections
         /\ astray \/ loads # {} \/ (list.q = QueryOf(panel, sel) /\ list.seen.ver >= written)
<1>1. \A j \in Slots : calls[j].got.ver \in Nat
  BY DEF PageInv, PagesTyped, CallsOf, Ver
<1> QED BY <1>1, QueryIs
        DEF PageInv, PagesTyped, ReadsSound, ListTrue, ListsOf, SoundLoad, Knows, Ver

LEMMA EndsKeep ==
  ASSUME PageInv, NEW k \in Slots, calls' = [calls EXCEPT ![k] = Rest], Note,
         raised' \subseteq raised, budget' \in Budgets,
         UNCHANGED <<panel, item, sel, list, loads, kept, astray, written>>
  PROVE  PageInv'
<1>1. /\ calls' \in [Slots -> CallsOf(panel)] /\ \A j \in Slots : calls'[j] \in {Rest, calls[j]}
      /\ \A j \in Slots : Knows(calls'[j].got, item)
  BY CallRests
<1>2. raised' \subseteq FlagsOf(panel) /\ lowered' \in BOOLEAN
  BY PageRests, NoteIs
<1> QED BY <1>1, <1>2, PageRests, AnswerKeeps

LEMMA ReturnOnlyKeeps ==
  ASSUME PageInv, NEW k \in Slots, ReturnOnly(k)
  PROVE  PageInv'
BY EndsKeep, PageRests DEF ReturnOnly, Finally

LEMMA CallFailsKeeps ==
  ASSUME PageInv, NEW k \in Slots, CallFails(k)
  PROVE  PageInv'
<1>1. /\ Spend("losses") /\ Finally(k) /\ Note
      /\ UNCHANGED <<panel, item, sel, list, loads, kept, astray, written>>
  BY DEF CallFails
<1>2. budget' \in Budgets
  BY <1>1, PageSpends DEF PageInv, Spend
<1> QED BY <1>1, <1>2, EndsKeep DEF Finally

LEMMA ReturnLeaveKeeps ==
  ASSUME PageInv, NEW k \in Slots, ReturnLeave(k)
  PROVE  PageInv'
<1>1. /\ calls[k].stage = "done" /\ Act(k).reload = "leave"
      /\ list' = Blank /\ loads' = {} /\ raised' = {} /\ calls' = [j \in Slots |-> Rest]
      /\ written' = 0 /\ UNCHANGED <<panel, item, sel, kept, astray, lowered, budget>>
  BY DEF ReturnLeave
<1>2. PICK a \in panel.acts : Act(k) = a
  BY <1>1, CallOfButton DEF Rest
<1>3. panel.sends = {}
  BY <1>1, <1>2, PageRests, PanelAssumption
<1>4. NoQuery = QueryOf(panel, sel)
  BY <1>3 DEF NoQuery, QueryOf
<1>5. Nothing \in Ver(panel) /\ Knows(Nothing, item) /\ Nothing.ver = 0
  BY NothingIs DEF PageInv, PagesTyped, Ver, Nothing
<1>6. /\ list' \in ListsOf(panel) /\ list'.seen = Nothing /\ list'.q = NoQuery
  BY <1>1, <1>5, QueryIs DEF Blank, ListsOf
<1>7. Rest \in CallsOf(panel) /\ Rest.got = Nothing
  BY <1>5, QueryIs DEF Rest, CallsOf
<1>8. calls' \in [Slots -> CallsOf(panel)] /\ \A j \in Slots : calls'[j] = Rest
  BY <1>1, <1>7
<1>9. \A j \in Slots : Knows(calls'[j].got, item)
  BY <1>5, <1>7, <1>8
<1>10. list'.q = QueryOf(panel, sel) /\ list'.seen.ver >= written' /\ written' <= item.ver
  BY <1>1, <1>4, <1>5, <1>6, PageRests
<1> QED BY <1>1, <1>5, <1>6, <1>8, <1>9, <1>10, PageRests, AnswerKeeps

LEMMA ReturnAnswerKeeps ==
  ASSUME PageInv, NEW k \in Slots, ReturnAnswer(k)
  PROVE  PageInv'
<1>1. /\ list' = [list EXCEPT !.seen = calls[k].got]
      /\ loads' = {[l EXCEPT !.last = FALSE] : l \in loads}
      /\ written' = calls[k].got.ver /\ Finally(k) /\ Note
      /\ UNCHANGED <<panel, item, sel, kept, astray, budget>>
  BY DEF ReturnAnswer
<1>2. PICK got \in Ver(panel) : got = calls[k].got /\ Knows(got, item)
  BY PageRests DEF CallsOf
<1>3. list' \in ListsOf(panel) /\ list'.seen = got /\ list'.q = list.q
  BY <1>1, <1>2, PageRests DEF ListsOf
<1>4. loads' \in SUBSET LoadsOf(panel) /\ \A l \in loads' : SoundLoad(l, panel, sel, item, written')
  <2> SUFFICES ASSUME NEW l \in loads
               PROVE  /\ [l EXCEPT !.last = FALSE] \in LoadsOf(panel)
                      /\ SoundLoad([l EXCEPT !.last = FALSE], panel, sel, item, written')
    BY <1>1
  <2>1. PICK m : m = [l EXCEPT !.last = FALSE]
    OBVIOUS
  <2>2. m \in LoadsOf(panel) /\ m.last = FALSE /\ m.got = l.got
    BY <2>1, PageRests DEF LoadsOf
  <2> QED BY <2>1, <2>2, PageRests DEF SoundLoad
<1>5. calls' = [calls EXCEPT ![k] = Rest] /\ raised' \subseteq raised
  BY <1>1 DEF Finally
<1>6. /\ calls' \in [Slots -> CallsOf(panel)] /\ \A j \in Slots : calls'[j] \in {Rest, calls[j]}
      /\ \A j \in Slots : Knows(calls'[j].got, item)
  BY <1>5, CallRests
<1>7. astray' \/ loads' # {} \/ (list'.q = QueryOf(panel, sel) /\ list'.seen.ver >= written')
  <2>1. loads # {} => loads' # {}
    BY <1>1
  <2>2. written' \in Nat /\ list'.seen.ver = written'
    BY <1>1, <1>2, <1>3, PageRests
  <2> QED BY <1>1, <1>3, <2>1, <2>2, PageRests
<1>8. raised' \subseteq FlagsOf(panel) /\ lowered' \in BOOLEAN
  BY <1>1, <1>5, PageRests, NoteIs
<1>9. list'.seen = got /\ Knows(list'.seen, item) /\ written' \in Nat /\ written' <= item.ver
  BY <1>1, <1>2, <1>3, PageRests
<1> QED BY <1>1, <1>3, <1>4, <1>6, <1>7, <1>8, <1>9, PageRests, AnswerKeeps

\* A load is asked for on behalf of call k, with the selection of its click.
LEMMA Reloaded ==
  ASSUME PageInv, NEW k \in Slots, NEW by \in Slots \cup {0},
         loads' = After(loads, Load(calls[k].q, sel, by, FALSE))
  PROVE  /\ loads' \in SUBSET LoadsOf(panel) /\ loads' # {}
         /\ \A l \in loads' : \A w : SoundLoad(l, panel, sel, item, w)
<1>1. calls[k].q \in Selections /\ sel \in Selections
  BY PageRests DEF CallsOf
<1> QED BY <1>1, LoadAdded

\* ... and the call ends at once.
LEMMA ReloadEnds ==
  ASSUME PageInv, NEW k \in Slots, calls' = [calls EXCEPT ![k] = Rest],
         loads' = After(loads, Load(calls[k].q, sel, 0, FALSE)),
         raised' = (raised \ Act(k).flags) \cup {"list"}, Note,
         written' \in {written, calls[k].got.ver},
         UNCHANGED <<panel, item, sel, list, kept, astray, budget>>
  PROVE  PageInv'
<1>1. /\ loads' \in SUBSET LoadsOf(panel) /\ loads' # {}
      /\ \A l \in loads' : \A w : SoundLoad(l, panel, sel, item, w)
  BY Reloaded
<1>2. /\ calls' \in [Slots -> CallsOf(panel)] /\ \A j \in Slots : calls'[j] \in {Rest, calls[j]}
      /\ \A j \in Slots : Knows(calls'[j].got, item)
  BY CallRests
<1>3. raised' \subseteq FlagsOf(panel) /\ lowered' \in BOOLEAN
  BY PageRests, NoteIs DEF FlagsOf
<1>4. written' \in Nat /\ written' <= item.ver
  BY PageRests
<1> QED BY <1>1, <1>2, <1>3, <1>4, PageRests, AnswerKeeps

LEMMA ReturnLoadKeeps ==
  ASSUME PageInv, NEW k \in Slots, ReturnLoad(k)
  PROVE  PageInv'
<1>1. /\ calls[k].stage = "done"
      /\ loads' = After(loads, Load(calls[k].q, sel, k, FALSE))
      /\ calls' = [calls EXCEPT ![k].stage = "loading"]
      /\ raised' = raised \cup {"list"} /\ written' = calls[k].got.ver
      /\ UNCHANGED <<panel, item, sel, list, kept, astray, lowered, budget>>
  BY DEF ReturnLoad
<1>2. /\ loads' \in SUBSET LoadsOf(panel) /\ loads' # {}
      /\ \A l \in loads' : \A w : SoundLoad(l, panel, sel, item, w)
  BY <1>1, Reloaded
<1>3. PICK c \in CallsOf(panel) : c = calls[k] /\ c.act # "none"
  BY <1>1, PageRests, CallOfButton DEF Rest
<1>4. PICK d : d = [c EXCEPT !.stage = "loading"]
  OBVIOUS
<1>5. /\ d \in CallsOf(panel) /\ d.act = c.act /\ d.seen = c.seen /\ d.stage = "loading"
      /\ d.got = c.got
  BY <1>4 DEF CallsOf
<1>6. calls' = [calls EXCEPT ![k] = d]
  BY <1>1, <1>3, <1>4
<1>7. calls' \in [Slots -> CallsOf(panel)] /\ \A j \in Slots : calls'[j] = IF j = k THEN d ELSE calls[j]
  BY <1>5, <1>6, PageRests
<1>8. \A j \in Slots : Knows(calls'[j].got, item)
  BY <1>3, <1>5, <1>7, PageRests
<1>9. \A j \in Slots : \/ calls'[j] = calls[j]
                       \/ /\ calls'[j].act = calls[j].act /\ calls'[j].seen = calls[j].seen
                          /\ calls'[j].stage # "sent" /\ calls[j].act # "none"
  BY <1>3, <1>5, <1>7
<1>10. raised' \subseteq FlagsOf(panel) /\ written' \in Nat /\ written' <= item.ver
  BY <1>1, PageRests DEF FlagsOf
<1> QED BY <1>1, <1>2, <1>7, <1>8, <1>9, <1>10, PageRests, AnswerKeeps

LEMMA ReturnApartKeeps ==
  ASSUME PageInv, NEW k \in Slots, ReturnApart(k)
  PROVE  PageInv'
BY ReloadEnds DEF ReturnApart

LEMMA ReturnCachedKeeps ==
  ASSUME PageInv, NEW k \in Slots, ReturnCached(k)
  PROVE  PageInv'
<1>1. /\ UNCHANGED <<panel, item, sel, list, kept, astray, written, budget>> /\ Note
      /\ \/ Finally(k) /\ UNCHANGED loads
         \/ /\ loads' = After(loads, Load(calls[k].q, sel, 0, FALSE))
            /\ calls' = [calls EXCEPT ![k] = Rest]
            /\ raised' = (raised \ Act(k).flags) \cup {"list"}
  BY DEF ReturnCached
<1>2. CASE Finally(k) /\ UNCHANGED loads
  BY <1>1, <1>2, PageRests, EndsKeep DEF Finally
<1>3. CASE /\ loads' = After(loads, Load(calls[k].q, sel, 0, FALSE))
           /\ calls' = [calls EXCEPT ![k] = Rest]
           /\ raised' = (raised \ Act(k).flags) \cup {"list"}
  BY <1>1, <1>3, ReloadEnds
<1> QED BY <1>1, <1>2, <1>3

\* A load is over, and the call that awaits it.
LEMMA OverEnds ==
  ASSUME PageInv, NEW l \in loads, Over(l), UNCHANGED <<panel, item, sel>>
  PROVE  /\ loads' \in SUBSET LoadsOf(panel)
         /\ \A m \in loads' : SoundLoad(m, panel, sel, item, written)
         /\ calls' \in [Slots -> CallsOf(panel)] /\ \A j \in Slots : calls'[j] \in {Rest, calls[j]}
         /\ \A j \in Slots : Knows(calls'[j].got, item)
         /\ raised' \subseteq FlagsOf(panel) /\ Note /\ lowered' \in BOOLEAN
<1>1. loads' = loads \ {l} /\ raised' \subseteq raised /\ Note
      /\ calls' = IF l.by = 0 THEN calls ELSE [calls EXCEPT ![l.by] = Rest]
  BY DEF Over
<1>2. l.by \in Slots \cup {0}
  BY PageRests DEF LoadsOf
<1>3. /\ calls' \in [Slots -> CallsOf(panel)] /\ \A j \in Slots : calls'[j] \in {Rest, calls[j]}
      /\ \A j \in Slots : Knows(calls'[j].got, item)
  <2>1. CASE l.by = 0
    BY <1>1, <2>1, PageRests
  <2>2. CASE l.by # 0
    BY <1>1, <1>2, <2>2, CallRests
  <2> QED BY <2>1, <2>2
<1> QED BY <1>1, <1>3, PageRests, NoteIs

LEMMA ArriveKeeps ==
  ASSUME PageInv, NEW by, NEW silent, Arrive(by, silent)
  PROVE  PageInv'
<1>1. kept' = panel.cached /\ UNCHANGED <<panel, item, sel, written, budget>>
  BY DEF Arrive
<1>2. PICK l \in loads :
        /\ l.got # Nothing /\ Over(l) /\ list' = [q |-> l.q, at |-> sel, seen |-> l.got]
        /\ astray' = ~(l.last /\ l.right)
  BY DEF Arrive
<1>3. l \in LoadsOf(panel) /\ SoundLoad(l, panel, sel, item, written)
  BY PageRests
<1>4. /\ list' \in ListsOf(panel) /\ list'.seen = l.got /\ list'.q = l.q
      /\ Knows(list'.seen, item)
  BY <1>2, <1>3, PageRests DEF LoadsOf, ListsOf, SoundLoad
<1>5. astray' \/ (list'.q = QueryOf(panel, sel) /\ list'.seen.ver >= written')
  BY <1>1, <1>2, <1>3, <1>4 DEF SoundLoad
<1>6. kept' \in BOOLEAN /\ astray' \in BOOLEAN
  BY <1>1, <1>2, PageRests, PanelAssumption
<1>7. /\ loads' \in SUBSET LoadsOf(panel)
      /\ \A m \in loads' : SoundLoad(m, panel, sel, item, written)
      /\ calls' \in [Slots -> CallsOf(panel)] /\ \A j \in Slots : calls'[j] \in {Rest, calls[j]}
      /\ \A j \in Slots : Knows(calls'[j].got, item)
      /\ raised' \subseteq FlagsOf(panel) /\ Note /\ lowered' \in BOOLEAN
  BY <1>1, <1>2, OverEnds
<1> QED BY <1>1, <1>4, <1>5, <1>6, <1>7, PageRests, AnswerKeeps

LEMMA LoadFailsKeeps ==
  ASSUME PageInv, LoadFails
  PROVE  PageInv'
<1>1. /\ Spend("losses") /\ list' \in {Blank, list} /\ astray' = TRUE
      /\ UNCHANGED <<panel, item, sel, kept, written>>
  BY DEF LoadFails
<1>2. PICK l \in loads : Over(l)
  BY DEF LoadFails
<1>3. budget' \in Budgets
  BY <1>1, PageSpends DEF PageInv, Spend
<1>4. Nothing \in Ver(panel) /\ Knows(Nothing, item)
  BY NothingIs DEF PageInv, PagesTyped, Ver
<1>5. Blank \in ListsOf(panel) /\ Blank.seen = Nothing
  BY <1>4, QueryIs DEF Blank, ListsOf
<1>6. list' \in ListsOf(panel) /\ Knows(list'.seen, item)
  BY <1>1, <1>4, <1>5, PageRests
<1>7. /\ loads' \in SUBSET LoadsOf(panel)
      /\ \A m \in loads' : SoundLoad(m, panel, sel, item, written)
      /\ calls' \in [Slots -> CallsOf(panel)] /\ \A j \in Slots : calls'[j] \in {Rest, calls[j]}
      /\ \A j \in Slots : Knows(calls'[j].got, item)
      /\ raised' \subseteq FlagsOf(panel) /\ Note /\ lowered' \in BOOLEAN
  BY <1>1, <1>2, OverEnds
<1> QED BY <1>1, <1>3, <1>6, <1>7, PageRests, AnswerKeeps
-----------------------------------------------------------------------------
(* The first state, and every step *)

LEMMA PageStarts == PageInit => PageInv
<1> SUFFICES ASSUME PageInit PROVE PageInv
  OBVIOUS
<1>1. /\ panel \in Panels /\ sel = [filter |-> 1, page |-> 1] /\ kept = (loads = {})
      /\ calls = [k \in Slots |-> Rest] /\ astray = FALSE /\ lowered = FALSE /\ written = 0
      /\ budget \in PageBudgets
  BY DEF PageInit
<1>2. PICK st \in panel.life : item = [st |-> st, ver |-> 1]
  BY DEF PageInit
<1>3. item \in Ver(panel) /\ item.ver = 1 /\ item.st # "none"
  BY <1>1, <1>2, PanelAssumption DEF Ver
<1>4. sel \in Chosen /\ sel \in Selections /\ budget \in Budgets
  BY <1>1, PageAssumption DEF Chosen, Selections, Budgets
<1>5. Nothing \in Ver(panel) /\ Knows(Nothing, item)
  BY <1>3, NothingIs
<1>6. calls \in [Slots -> CallsOf(panel)] /\ \A k \in Slots : Knows(calls[k].got, item)
  <2>1. Rest \in CallsOf(panel) /\ Rest.got = Nothing
    BY <1>5, QueryIs DEF CallsOf, Rest
  <2> QED BY <1>1, <1>5, <2>1
<1>7. CallsSound
  <2>1. \A a \in panel.acts : a.name # "none"
    BY <1>1, PanelAssumption
  <2>2. \A k \in Slots : calls[k] = Rest /\ calls[k].act = "none"
    BY <1>1 DEF Rest
  <2> QED BY <2>1, <2>2 DEF CallsSound, OnceAtATime
<1>8. kept \in BOOLEAN /\ astray \in BOOLEAN /\ lowered \in BOOLEAN
  BY <1>1
<1>9. item \in Ver(panel) /\ item.ver # 0 /\ written \in Nat
  BY <1>1, <1>3
<1>10. CASE list = Blank /\ loads = {Load(sel, sel, 0, FALSE)} /\ raised = {"list"}
  <2>1. PICK l \in LoadsOf(panel) :
          l = Load(sel, sel, 0, FALSE) /\ l.got = Nothing /\ (l.right => l.q = QueryOf(panel, sel))
    BY <1>4, LoadIs
  <2>2. loads = {l} /\ SoundLoad(l, panel, sel, item, written)
    BY <1>5, <1>10, <2>1 DEF SoundLoad
  <2>3. list \in ListsOf(panel) /\ list.seen = Nothing
    BY <1>5, <1>10, QueryIs DEF ListsOf, Blank
  <2>4. PagesTyped
    <3>1. panel \in Panels /\ item.st # "none" /\ raised \subseteq FlagsOf(panel)
      BY <1>1, <1>3, <1>10 DEF FlagsOf
    <3> QED BY <1>4, <1>6, <1>8, <1>9, <2>2, <2>3, <3>1 DEF PagesTyped
  <2>5. ReadsSound
    BY <1>1, <1>3, <1>5, <1>6, <2>2, <2>3 DEF ReadsSound
  <2>6. ListTrue
    BY <2>2 DEF ListTrue
  <2> QED BY <1>7, <2>4, <2>5, <2>6 DEF PageInv
<1>11. CASE /\ \E old \in panel.life :
                list = [q |-> Query(sel), at |-> sel, seen |-> [st |-> old, ver |-> 0]]
           /\ loads = {} /\ raised = {}
  <2>1. PICK old \in panel.life :
          list = [q |-> Query(sel), at |-> sel, seen |-> [st |-> old, ver |-> 0]]
    BY <1>11
  <2>2. PICK q \in Selections : q = Query(sel) /\ q = QueryOf(panel, sel)
    BY <1>4, QueryIs
  <2>3. [st |-> old, ver |-> 0] \in Ver(panel)
    BY DEF Ver
  <2>4. list \in ListsOf(panel) /\ list.q = QueryOf(panel, sel) /\ list.seen.ver = 0
    BY <1>4, <2>1, <2>2, <2>3 DEF ListsOf
  <2>5. PagesTyped
    <3>1. panel \in Panels /\ item.st # "none" /\ raised \subseteq FlagsOf(panel)
      BY <1>1, <1>3, <1>11
    <3> QED BY <1>4, <1>6, <1>11, <1>8, <1>9, <2>4, <3>1 DEF PagesTyped
  <2>6. ReadsSound
    BY <1>1, <1>3, <1>6, <1>11, <2>4 DEF ReadsSound, Knows
  <2>7. ListTrue
    BY <1>1, <2>4 DEF ListTrue
  <2> QED BY <1>7, <2>5, <2>6, <2>7 DEF PageInv
<1> QED BY <1>10, <1>11 DEF PageInit

LEMMA PageSteps == PageInv /\ [PageNext]_pageVars => PageInv'
<1> SUFFICES ASSUME PageInv, [PageNext]_pageVars PROVE PageInv'
  OBVIOUS
<1>1. CASE ChooseFilter \/ Turn \/ Refresh \/ Tick
  BY <1>1, ChooseFilterKeeps, TurnKeeps, RefreshKeeps, TickKeeps
<1>2. CASE Shift \/ LoadFails
  BY <1>2, ShiftKeeps, LoadFailsKeeps
<1>3. ASSUME NEW k \in Slots, Perform(k) \/ CallFails(k) PROVE PageInv'
  BY <1>3, PerformKeeps, CallFailsKeeps
<1>4. ASSUME NEW k \in Slots, NEW a \in panel.acts, Click(a, k) PROVE PageInv'
  BY <1>4, ClickKeeps
<1>5. ASSUME NEW k \in Slots, Return(k) PROVE PageInv'
  <2>1. CASE ReturnOnly(k) \/ ReturnLeave(k) \/ ReturnAnswer(k)
    BY <2>1, ReturnOnlyKeeps, ReturnLeaveKeeps, ReturnAnswerKeeps
  <2>2. CASE ReturnLoad(k) \/ ReturnApart(k) \/ ReturnCached(k)
    BY <2>2, ReturnLoadKeeps, ReturnApartKeeps, ReturnCachedKeeps
  <2> QED BY <1>5, <2>1, <2>2 DEF Return
<1>6. ASSUME NEW by \in Slots \cup {0}, NEW silent \in BOOLEAN, Read(by, silent) \/ Arrive(by, silent)
      PROVE  PageInv'
  BY <1>6, ReadKeeps, ArriveKeeps
<1>7. CASE UNCHANGED pageVars
  <2>1. UNCHANGED <<panel, item, sel, list, loads, calls, raised, kept, astray, lowered, written, budget>>
    BY <1>7 DEF pageVars
  <2> QED BY <2>1 DEF PageInv, PagesTyped, ReadsSound, ListTrue, CallsSound, OnceAtATime
<1> QED BY <1>1, <1>2, <1>3, <1>4, <1>5, <1>6, <1>7 DEF PageNext
-----------------------------------------------------------------------------
(* Refusals *)

\* A call that was refused was so before, and the item only gets newer.
LEMMA RefusedStays ==
  ASSUME PageInv, RefusedOnlyIfChanged, item' = item \/ item'.ver = item.ver + 1,
         \A k \in Slots : calls'[k].stage = "refused" => calls'[k] = calls[k]
  PROVE  RefusedOnlyIfChanged'
<1>1. item.ver \in Nat /\ \A k \in Slots : calls[k].seen \in Nat
  BY DEF PageInv, PagesTyped, Ver, CallsOf
<1> QED BY <1>1 DEF RefusedOnlyIfChanged

\* What is refused was sent when the page showed an older item: OffersFit.
LEMMA RefusedWasOld ==
  ASSUME PageInv, RefusedOnlyIfChanged, \A p \in Panels : OffersFit(p), NEW k \in Slots, Perform(k)
  PROVE  RefusedOnlyIfChanged'
<1>1. /\ panel \in Panels /\ item.ver \in Nat /\ calls \in [Slots -> CallsOf(panel)]
      /\ calls[k].stage = "sent" /\ calls[k] # Rest /\ item.st # "none" /\ calls[k].seen \in Nat
  BY DEF Perform, PageInv, PagesTyped, Ver, CallsOf, Rest
<1>2. PICK a \in panel.acts : calls[k].act = a.name /\ Act(k) = a /\ a.name # "none"
  BY <1>1, CallOfButton
<1>3. CASE item.st \in DOMAIN a.does
  <2>1. /\ item' = [st |-> a.does[item.st], ver |-> item.ver + 1]
        /\ calls' = [calls EXCEPT ![k].stage = "done", ![k].got = item']
    BY <1>2, <1>3 DEF Perform
  <2>2. item'.ver = item.ver + 1
    BY <2>1
  <2>3. \A j \in Slots : calls'[j].stage = "refused" => calls'[j] = calls[j]
    <3>1. PICK new : new = item'
      OBVIOUS
    <3>2. PICK c \in CallsOf(panel) : c = calls[k]
      BY <1>1
    <3>3. PICK d : d = [c EXCEPT !.stage = "done", !.got = new]
      OBVIOUS
    <3>4. d.stage = "done" /\ calls' = [calls EXCEPT ![k] = d]
      BY <2>1, <3>1, <3>2, <3>3 DEF CallsOf
    <3> QED BY <1>1, <3>4
  <2> QED BY <2>2, <2>3, RefusedStays
<1>4. CASE item.st \notin DOMAIN a.does
  <2>1. calls' = [calls EXCEPT ![k].stage = "refused"] /\ item' = item
    BY <1>2, <1>4 DEF Perform
  <2>2. a.name \in NeverAccepted \/ calls[k].seen < item.ver
    <3>1. calls[k].seen <= item.ver /\ (calls[k].seen = item.ver => item.st \in a.on)
      BY <1>1, <1>2 DEF PageInv, CallsSound, SoundCall
    <3>2. a.name \in NeverAccepted \/ item.st \notin a.on
      BY <1>1, <1>4 DEF OffersFit
    <3> QED BY <1>1, <3>1, <3>2
  <2>3. PICK c \in CallsOf(panel) : c = calls[k] /\ c.act = a.name
    BY <1>1, <1>2
  <2>4. PICK d : d = [c EXCEPT !.stage = "refused"]
    OBVIOUS
  <2>5. d.act = a.name /\ d.seen = c.seen /\ calls' = [calls EXCEPT ![k] = d]
    BY <2>1, <2>3, <2>4 DEF CallsOf
  <2> QED BY <1>1, <2>1, <2>2, <2>3, <2>5 DEF RefusedOnlyIfChanged
<1> QED BY <1>3, <1>4

LEMMA RefusalsKeep ==
  ASSUME \A p \in Panels : OffersFit(p), PageInv, RefusedOnlyIfChanged, [PageNext]_pageVars
  PROVE  RefusedOnlyIfChanged'
<1>1. calls \in [Slots -> CallsOf(panel)]
  BY DEF PageInv, PagesTyped
<1>2. Rest.stage # "refused"
  BY DEF Rest
<1>3. CASE item' = item /\ calls' = calls
  BY <1>3, RefusedStays
<1>4. ASSUME NEW k, NEW c, item' = item, calls' = [calls EXCEPT ![k] = c], c.stage # "refused"
      PROVE  RefusedOnlyIfChanged'
  <2>1. \A j \in Slots : calls'[j] = c \/ calls'[j] = calls[j]
    BY <1>1, <1>4
  <2> QED BY <1>4, <2>1, RefusedStays
<1>5. CASE ChooseFilter \/ Turn \/ Refresh \/ Tick
  <2>1. item' = item /\ calls' = calls
    BY <1>5 DEF ChooseFilter, Turn, Refresh, Tick
  <2> QED BY <1>3, <2>1
<1>6. CASE Shift
  <2>1. calls' = calls /\ item'.ver = item.ver + 1
    BY <1>6 DEF Shift
  <2> QED BY <2>1, RefusedStays
<1>7. ASSUME NEW l, Over(l), item' = item
      PROVE  RefusedOnlyIfChanged'
  <2>1. calls' = calls \/ calls' = [calls EXCEPT ![l.by] = Rest]
    BY <1>7 DEF Over
  <2> QED BY <1>2, <1>3, <1>4, <1>7, <2>1
<1>8. CASE LoadFails
  BY <1>7, <1>8 DEF LoadFails
<1>9. ASSUME NEW k \in Slots, NEW a \in panel.acts, Click(a, k) PROVE RefusedOnlyIfChanged'
  <2>1. PICK c : c = [act |-> a.name, q |-> sel, stage |-> "sent", seen |-> list.seen.ver, got |-> Nothing]
    OBVIOUS
  <2>2. calls' = [calls EXCEPT ![k] = c] /\ item' = item /\ c.stage = "sent"
    BY <1>9, <2>1 DEF Click
  <2> QED BY <1>4, <2>2
<1>10. ASSUME NEW k \in Slots, Return(k) \/ CallFails(k) PROVE RefusedOnlyIfChanged'
  <2>1. CASE ReturnOnly(k) \/ ReturnAnswer(k) \/ ReturnApart(k) \/ ReturnCached(k) \/ CallFails(k)
    <3>1. item' = item /\ calls' = [calls EXCEPT ![k] = Rest]
      BY <2>1 DEF ReturnOnly, ReturnAnswer, ReturnApart, ReturnCached, CallFails, Finally
    <3> QED BY <1>2, <1>4, <3>1
  <2>2. CASE ReturnLeave(k)
    <3>1. item' = item /\ \A j \in Slots : calls'[j] = Rest
      BY <2>2 DEF ReturnLeave
    <3> QED BY <1>2, <3>1, RefusedStays
  <2>3. CASE ReturnLoad(k)
    <3>1. PICK c \in CallsOf(panel) : c = calls[k]
      BY <1>1
    <3>2. PICK d : d = [c EXCEPT !.stage = "loading"]
      OBVIOUS
    <3>3. d.stage = "loading" /\ item' = item /\ calls' = [calls EXCEPT ![k] = d]
      BY <2>3, <3>1, <3>2 DEF ReturnLoad, CallsOf
    <3> QED BY <1>4, <3>3
  <2> QED BY <1>10, <2>1, <2>2, <2>3 DEF Return
<1>11. ASSUME NEW by \in Slots \cup {0}, NEW silent \in BOOLEAN, Read(by, silent) \/ Arrive(by, silent)
       PROVE  RefusedOnlyIfChanged'
  <2>1. CASE Read(by, silent)
    BY <1>3, <2>1 DEF Read
  <2>2. CASE Arrive(by, silent)
    BY <1>7, <2>2 DEF Arrive
  <2> QED BY <1>11, <2>1, <2>2
<1>12. CASE UNCHANGED pageVars
  BY <1>3, <1>12 DEF pageVars
<1> QED BY <1>5, <1>6, <1>8, <1>9, <1>10, <1>11, <1>12, RefusedWasOld DEF PageNext
-----------------------------------------------------------------------------
\* Lists, loads and calls of a page are of their types, and the flags that are up are its own
\* (the useState and useRef of a page).
THEOREM PageTypes == PageSpec => []PageTypeOK
<1>1. PageInv => PageTypeOK
  <2> SUFFICES ASSUME PageInv PROVE PageTypeOK
    OBVIOUS
  <2>1. Ver(panel) = Versions
    BY DEF Ver, Versions
  <2>2. item \in Versions /\ item # Nothing
    BY <2>1 DEF PageInv, PagesTyped, Nothing
  <2>3. list \in [q : Selections, at : Selections, seen : Versions] /\ sel \in Selections
    BY <2>1, QueryIs DEF PageInv, PagesTyped, ListsOf
  <2>4. loads \subseteq [q : Selections, by : Slots \cup {0}, silent : BOOLEAN, last : BOOLEAN,
                         right : BOOLEAN, got : Versions]
    BY <2>1 DEF PageInv, PagesTyped, LoadsOf
  <2>5. calls \in [Slots -> [act : {a.name : a \in panel.acts} \cup {"none"}, q : Selections,
                             stage : {"idle", "sent", "done", "refused", "loading"},
                             seen : Nat, got : Versions]]
    BY <2>1 DEF PageInv, PagesTyped, CallsOf
  <2>6. budget \in [{"clicks", "turns", "shifts", "losses"} -> Nat]
    BY DEF PageInv, PagesTyped, Budgets
  <2>7. /\ panel \in Panels /\ raised \subseteq {"list"} \cup UNION {a.flags : a \in panel.acts}
        /\ {kept, astray, lowered} \subseteq BOOLEAN /\ written \in Nat
    BY DEF PageInv, PagesTyped, FlagsOf
  <2> QED BY <2>2, <2>3, <2>4, <2>5, <2>6, <2>7 DEF PageTypeOK
<1> QED BY <1>1, PageStarts, PageSteps, PTL DEF PageSpec

\* When nothing is under way a page shows what its controls select, with every change its own
\* buttons were told of, unless the last answer came out of turn or was an error (the load of a
\* page, its effects and its timer), in whatever order the answers come.
THEOREM ShownStaysTrue == PageSpec => []ShownIsTrue
<1>1. PageInv => ShownIsTrue
  BY QueryIs DEF PageInv, ListTrue, ShownIsTrue, ShownIsSelected, OwnChangesAreShown, Settled
<1> QED BY <1>1, PageStarts, PageSteps, PTL DEF PageSpec

\* Where the offers of every page fit their handlers, a button is not sent twice while its first
\* call is under way, unless a load took its flag down, and the server refuses a call only if the
\* item changed since the page showed it (the handlers of the buttons, and what they call).
THEOREM ClicksStaySound ==
  ASSUME \A p \in Panels : OffersFit(p)
  PROVE  PageSpec => []ClicksAreSound
<1>1. PageInit => RefusedOnlyIfChanged
  <2>1. PageInit => \A k \in Slots : calls[k].stage = "idle"
    BY DEF PageInit, Rest
  <2> QED BY <2>1 DEF RefusedOnlyIfChanged
<1>2. PageInv /\ RefusedOnlyIfChanged /\ [PageNext]_pageVars => RefusedOnlyIfChanged'
  BY RefusalsKeep
<1>3. PageInv /\ RefusedOnlyIfChanged => ClicksAreSound
  BY DEF PageInv, CallsSound, ClicksAreSound
<1> QED BY <1>1, <1>2, <1>3, PageStarts, PageSteps, PTL DEF PageSpec
-----------------------------------------------------------------------------
(* The pages, the imports, the schedules and the links together. *)

\* A step is one of one component, and leaves the state of the others alone.
LEMMA ProjectIsEach == ProjectSpec => PageSpec /\ ImportSpec /\ ScheduleSpec /\ LinkSpec
<1>1. ProjectInit => PageInit /\ ImportInit /\ ScheduleInit /\ LinkInit
  BY DEF ProjectInit
<1>2. [ProjectNext]_projectVars => /\ [PageNext]_pageVars /\ [ImportNext]_importVars
                                   /\ [ScheduleNext]_scheduleVars /\ [LinkNext]_linkVars
  BY DEF ProjectNext, PageStep, ImportStep, FormStep, LinkStep, projectVars
<1> QED BY <1>1, <1>2, PTL DEF ProjectSpec, PageSpec, ImportSpec, ScheduleSpec, LinkSpec

\* Whatever pages, imports, schedules and link tasks do between each other's steps, their state
\* keeps its types, an interval of an import that is known runs, and the buttons of a schedule are
\* disabled exactly while its one request is under way.
THEOREM ProjectTypes == ProjectSpec => []PagesTypesOK
<1>1. PageTypeOK /\ ImportTypeOK /\ ScheduleTypeOK /\ LinkTypeOK => PagesTypesOK
  BY DEF PagesTypesOK
<1> QED BY <1>1, ProjectIsEach, PageTypes, ImportTypes, ScheduleTypes, LinkTypes, PTL

\* In whatever order the steps of the components come: a page at rest shows what its controls
\* select, an import says at its end what was done and is followed to it, a link is on its page
\* once, and a schedule runs as it was shown to the one who saved it.
THEOREM ProjectIsSafe == ProjectSpec => [](ShownIsTrue /\ ImportSafe /\ LinkIsKept) /\ FormsAreTrue
BY ProjectIsEach, ShownStaysTrue, ImportsAreSafe, LinkStaysKept, FormsStayTrue, PTL
=============================================================================
