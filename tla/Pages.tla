------------------------------- MODULE Pages -------------------------------
(***************************************************************************)
(* A page of the console: a list, or one object, loaded from the API, the  *)
(* filter and page number that select it, the timer that reloads it while  *)
(* something is under way, and the buttons that act on one item and then   *)
(* reload.  Answers may come in any order; none is ever aborted.  What     *)
(* differs from page to page is in the record `panel`: see Screens.        *)
(***************************************************************************)
EXTENDS Naturals, FiniteSets

CONSTANTS
  Panels,       \* the pages: records, one of which `panel` is
  Flags,        \* the names of flags
  Slots,        \* bound: actions under way at once
  MaxLoads,     \* bound: loads the user or the timer have under way at once
  PageBudgets   \* bound: clicks, changes of the selection, moves of the server and
                \* lost requests of a behaviour

ASSUME PageAssumption ==
  /\ 0 \notin Slots /\ MaxLoads \in Nat \ {0}
  /\ PageBudgets \subseteq [clicks : Nat, turns : Nat, shifts : Nat, losses : Nat]

\* Whatever a request carries of the selection, a change of it loads again; a page that is left
\* shows one object; names tell the buttons of a page apart; nothing gets a status of no life.
ASSUME PanelAssumption ==
  \A p \in Panels :
    /\ "none" \notin p.life /\ p.sends \subseteq p.deps
    /\ p.cached \in BOOLEAN /\ p.silent \in BOOLEAN
    /\ \A m \in p.moves : m[2] \in p.life \cup {"gone"}
    /\ \A a \in p.acts :
         /\ a.name # "none" /\ \A b \in p.acts : a.name = b.name => a = b
         /\ \A st \in DOMAIN a.does : a.does[st] \in p.life \cup {"gone"}
         /\ a.shows \in p.life \cup {"none"}
         /\ a.reload = "leave" => p.sends = {}

VARIABLES
  panel,     \* the page, an element of Panels
  item,      \* the item on the server: its status, and how often it was changed
  sel,       \* filter and page number the controls show
  list,      \* what is shown: the selection it answers, the one the controls showed when it
             \* came, and the item as it was read
  loads,     \* calls of the page's load under way
  calls,     \* calls[k]: the action under way in k
  raised,    \* flags that are up: "list" (loading) and the flags of the actions
  kept,      \* the browser keeps an answer for 15 s
  astray,    \* history: the last answer came out of turn, or was an error
  lowered,   \* history: a load took the flag of an action under way down
  written,   \* history: the last change an action of this page was told of
  budget     \* what is left of an element of PageBudgets

pageVars == <<panel, item, sel, list, loads, calls, raised, kept, astray, lowered, written, budget>>
-----------------------------------------------------------------------------
Nothing == [st |-> "none", ver |-> 0]
NoQuery == [filter |-> 0, page |-> 0]
Blank == [q |-> NoQuery, at |-> NoQuery, seen |-> Nothing]
Rest == [act |-> "none", q |-> NoQuery, stage |-> "idle", seen |-> 0, got |-> Nothing]

\* The part of a selection the request carries.
Query(s) == [filter |-> IF "filter" \in panel.sends THEN s.filter ELSE 0,
             page |-> IF "page" \in panel.sends THEN s.page ELSE 0]

Act(k) == CHOOSE a \in panel.acts : a.name = calls[k].act
Settled == loads = {} /\ \A k \in Slots : calls[k] = Rest

Spend(kind) == budget[kind] > 0 /\ budget' = [budget EXCEPT ![kind] = @ - 1]

\* A load for the selection s, sent when the controls show `shown`; by: the action that
\* awaits it, 0 for none.  The ones before it are overtaken.
Load(s, shown, by, silent) ==
  [q |-> Query(s), by |-> by, silent |-> silent, last |-> TRUE, right |-> Query(s) = Query(shown),
   got |-> Nothing]
After(ls, l) == {[m EXCEPT !.last = FALSE] : m \in ls} \cup {l}

\* The first visit, or, where answers are kept for a while, one that finds an answer.
PageInit ==
  /\ panel \in Panels
  /\ \E st \in panel.life : item = [st |-> st, ver |-> 1]
  /\ sel = [filter |-> 1, page |-> 1]
  /\ \/ /\ list = Blank
        /\ loads = {Load(sel, sel, 0, FALSE)}
        /\ raised = {"list"}
     \/ /\ panel.cached
        /\ \E st \in panel.life :
             list = [q |-> Query(sel), at |-> sel, seen |-> [st |-> st, ver |-> 0]]
        /\ loads = {} /\ raised = {}
  /\ kept = (loads = {})
  /\ calls = [k \in Slots |-> Rest]
  /\ astray = FALSE /\ lowered = FALSE /\ written = 0
  /\ budget \in PageBudgets
-----------------------------------------------------------------------------
(* The controls *)

Select(s, first) ==
  LET one == IF first = sel THEN loads ELSE After(loads, Load(first, s, 0, FALSE))
      two == IF first = s THEN one ELSE After(one, Load(s, s, 0, FALSE)) IN
  /\ sel' = s
  /\ loads' = two
  /\ raised' = IF two = loads THEN raised ELSE raised \cup {"list"}

\* A filter.  Where the page number is set back by an effect, the effect that loads runs
\* first with the old number; where the handler sets both, it runs once.
ChooseFilter ==
  /\ Spend("turns") /\ panel.sends \cup panel.deps # {}
  /\ Cardinality(loads) < MaxLoads
  /\ LET other == 3 - sel.filter
         reset == [filter |-> other, page |-> IF panel.reset = "no" THEN sel.page ELSE 1]
         first == IF "filter" \notin panel.deps THEN sel
                  ELSE IF panel.reset = "effect" THEN [filter |-> other, page |-> sel.page]
                  ELSE reset IN
     IF "filter" \in panel.deps \/ ("page" \in panel.deps /\ reset.page # sel.page)
     THEN Select(reset, first)
     ELSE sel' = reset /\ UNCHANGED <<loads, raised>>
  /\ UNCHANGED <<panel, item, list, calls, kept, astray, lowered, written>>

\* (mistake: past the last page)
TurnOn ==
  /\ Spend("turns") /\ "page" \in panel.sends
  /\ Cardinality(loads) < MaxLoads
  /\ LET s == [sel EXCEPT !.page = @ + 1] IN Select(s, s)
  /\ UNCHANGED <<panel, item, list, calls, kept, astray, lowered, written>>

\* (mistake: the page number is no dependency of the effect)
TurnOnly ==
  /\ Spend("turns") /\ "page" \in panel.sends
  /\ sel' = [sel EXCEPT !.page = 3 - @]
  /\ UNCHANGED <<panel, item, list, loads, calls, raised, kept, astray, lowered, written>>

Turn ==
  /\ Spend("turns") /\ "page" \in panel.sends
  /\ Cardinality(loads) < MaxLoads
  /\ panel.pager = "held" => "list" \notin raised
  /\ LET s == [sel EXCEPT !.page = 3 - @] IN
     IF "page" \in panel.deps THEN Select(s, s) ELSE sel' = s /\ UNCHANGED <<loads, raised>>
  /\ UNCHANGED <<panel, item, list, calls, kept, astray, lowered, written>>

\* The refresh button, disabled while the page loads; where it is not, it loads quietly.
Refresh ==
  /\ Spend("clicks") /\ panel.refresh # "none"
  /\ Cardinality(loads) < MaxLoads
  /\ panel.refresh = "held" => "list" \notin raised
  /\ LET quiet == panel.refresh = "quiet" IN
     /\ loads' = After(loads, Load(sel, sel, 0, quiet))
     /\ raised' = IF quiet THEN raised ELSE raised \cup {"list"}
  /\ UNCHANGED <<panel, item, sel, list, calls, kept, astray, lowered, written>>

\* The interval, set anew with every answer, that runs while the item shown is under way.
Tick ==
  /\ list.seen.st \in panel.polls
  /\ Cardinality(loads) < MaxLoads
  /\ LET s == IF panel.polled = "then" THEN list.at ELSE sel IN
     loads' = After(loads, Load(s, sel, 0, panel.silent))
  /\ raised' = IF panel.silent THEN raised ELSE raised \cup {"list"}
  /\ UNCHANGED <<panel, item, sel, list, calls, kept, astray, lowered, written, budget>>

\* (mistake: the button is not disabled)
ClickAgain(a, k) ==
  /\ Spend("clicks") /\ calls[k] = Rest /\ list.seen.st \in a.on
  /\ calls' = [calls EXCEPT ![k] = [act |-> a.name, q |-> sel, stage |-> "sent",
                                    seen |-> list.seen.ver, got |-> Nothing]]
  /\ raised' = raised \cup a.flags
  /\ UNCHANGED <<panel, item, sel, list, loads, kept, astray, lowered, written>>

\* A button of the item: shown and enabled for its status, and not while one of the
\* flags that disable it is up.  A lock is taken where the handler asks for one.  Where
\* the outcome is shown before it is known, what is shown is no answer any more.
Click(a, k) ==
  /\ Spend("clicks") /\ calls[k] = Rest
  /\ list.seen.st \in a.on /\ a.busy \cap raised = {}
  /\ a.lock => \A j \in Slots : calls[j].act # a.name
  /\ calls' = [calls EXCEPT ![k] = [act |-> a.name, q |-> sel, stage |-> "sent",
                                    seen |-> list.seen.ver, got |-> Nothing]]
  /\ raised' = raised \cup a.flags
  /\ IF a.shows = "none"
     THEN UNCHANGED <<list, astray>>
     ELSE /\ list' = [list EXCEPT !.seen = [st |-> a.shows, ver |-> 0]]
          /\ astray' = TRUE
  /\ UNCHANGED <<panel, item, sel, loads, kept, lowered, written>>
-----------------------------------------------------------------------------
(* The server *)

Perform(k) ==
  /\ calls[k].stage = "sent"
  /\ LET does == Act(k).does IN
     IF item.st \in DOMAIN does
     THEN /\ item' = [st |-> does[item.st], ver |-> item.ver + 1]
          /\ calls' = [calls EXCEPT ![k].stage = "done", ![k].got = item']
     ELSE /\ calls' = [calls EXCEPT ![k].stage = "refused"]
          /\ UNCHANGED item
  /\ UNCHANGED <<panel, sel, list, loads, raised, kept, astray, lowered, written, budget>>

\* A worker, the scheduler or another user.
Shift ==
  /\ Spend("shifts")
  /\ \E m \in panel.moves : m[1] = item.st /\ item' = [st |-> m[2], ver |-> item.ver + 1]
  /\ UNCHANGED <<panel, sel, list, loads, calls, raised, kept, astray, lowered, written>>

Read(by, silent) ==
  /\ \E l \in loads :
       /\ l.by = by /\ l.silent = silent /\ l.got = Nothing
       /\ loads' = (loads \ {l}) \cup {[l EXCEPT !.got = item]}
  /\ UNCHANGED <<panel, item, sel, list, calls, raised, kept, astray, lowered, written, budget>>
-----------------------------------------------------------------------------
(* The answers *)

\* A flag that comes down although an action that raised it is still under way.
Note == lowered' = (lowered \/ \E k \in Slots :
          calls'[k] # Rest /\ Act(k).flags \cap (raised \ raised') # {})

\* finally: the flags of a handler come down, whoever else had raised them.
Finally(k) ==
  /\ calls' = [calls EXCEPT ![k] = Rest]
  /\ raised' = raised \ Act(k).flags

\* (mistake: no finally)
ReturnRaised(k) ==
  /\ \/ calls[k].stage = "refused"
     \/ calls[k].stage = "done" /\ Act(k).reload = "none"
  /\ calls' = [calls EXCEPT ![k] = Rest] /\ UNCHANGED raised /\ Note
  /\ UNCHANGED <<panel, item, sel, list, loads, kept, astray, written, budget>>

\* A refusal, and a change after which nothing is loaded.
ReturnOnly(k) ==
  /\ \/ calls[k].stage = "refused"
     \/ calls[k].stage = "done" /\ Act(k).reload = "none"
  /\ Finally(k) /\ Note
  /\ UNCHANGED <<panel, item, sel, list, loads, kept, astray, written, budget>>

\* The page is left: what comes later is for nobody.
ReturnLeave(k) ==
  /\ calls[k].stage = "done" /\ Act(k).reload = "leave"
  /\ list' = Blank /\ loads' = {} /\ raised' = {}
  /\ calls' = [j \in Slots |-> Rest]
  /\ written' = 0
  /\ UNCHANGED <<panel, item, sel, kept, astray, lowered, budget>>

\* The answer itself is shown.
ReturnAnswer(k) ==
  /\ calls[k].stage = "done" /\ Act(k).reload = "answer"
  /\ list' = [list EXCEPT !.seen = calls[k].got]
  /\ loads' = {[l EXCEPT !.last = FALSE] : l \in loads}
  /\ written' = calls[k].got.ver
  /\ Finally(k) /\ Note
  /\ UNCHANGED <<panel, item, sel, kept, astray, budget>>

\* (mistake: a load under way will do)
ReturnLoadOnce(k) ==
  /\ calls[k].stage = "done" /\ Act(k).reload = "load"
  /\ loads' = IF loads = {} THEN After(loads, Load(calls[k].q, sel, 0, FALSE)) ELSE loads
  /\ calls' = [calls EXCEPT ![k] = Rest]
  /\ raised' = (raised \ Act(k).flags) \cup {"list"}
  /\ written' = calls[k].got.ver /\ Note
  /\ UNCHANGED <<panel, item, sel, list, kept, astray, budget>>

\* The page is loaded again, with the selection of the click, and the handler awaits it.
ReturnLoad(k) ==
  /\ calls[k].stage = "done" /\ Act(k).reload = "load"
  /\ loads' = After(loads, Load(calls[k].q, sel, k, FALSE))
  /\ calls' = [calls EXCEPT ![k].stage = "loading"]
  /\ raised' = raised \cup {"list"}
  /\ written' = calls[k].got.ver
  /\ UNCHANGED <<panel, item, sel, list, kept, astray, lowered, budget>>

\* ... or does not.
ReturnApart(k) ==
  /\ calls[k].stage = "done" /\ Act(k).reload = "apart"
  /\ loads' = After(loads, Load(calls[k].q, sel, 0, FALSE))
  /\ calls' = [calls EXCEPT ![k] = Rest]
  /\ raised' = (raised \ Act(k).flags) \cup {"list"}
  /\ written' = calls[k].got.ver
  /\ Note
  /\ UNCHANGED <<panel, item, sel, list, kept, astray, budget>>

\* ... or the answer that is kept may do.
ReturnCached(k) ==
  /\ calls[k].stage = "done" /\ Act(k).reload = "cached"
  /\ \/ /\ kept
        /\ Finally(k) /\ UNCHANGED loads
     \/ /\ loads' = After(loads, Load(calls[k].q, sel, 0, FALSE))
        /\ calls' = [calls EXCEPT ![k] = Rest]
        /\ raised' = (raised \ Act(k).flags) \cup {"list"}
  /\ Note
  /\ UNCHANGED <<panel, item, sel, list, kept, astray, written, budget>>

Return(k) ==
  \/ ReturnOnly(k) \/ ReturnLeave(k) \/ ReturnAnswer(k)
  \/ ReturnLoad(k) \/ ReturnApart(k) \/ ReturnCached(k)

\* A load ends: its flag comes down, and the handler that awaits it ends too.
Over(l) ==
  /\ loads' = loads \ {l}
  /\ raised' = raised \ ((IF l.silent THEN {} ELSE {"list"})
                          \cup (IF l.by = 0 THEN {} ELSE Act(l.by).flags))
  /\ calls' = IF l.by = 0 THEN calls ELSE [calls EXCEPT ![l.by] = Rest]
  /\ Note

Arrive(by, silent) ==
  /\ \E l \in loads :
       /\ l.by = by /\ l.silent = silent /\ l.got # Nothing
       /\ Over(l)
       /\ list' = [q |-> l.q, at |-> sel, seen |-> l.got]
       /\ astray' = ~(l.last /\ l.right)
  /\ kept' = panel.cached
  /\ UNCHANGED <<panel, item, sel, written, budget>>

\* The error is caught by the load: the list stays, or is emptied, with a message.
LoadFails ==
  /\ Spend("losses")
  /\ \E l \in loads : Over(l)
  /\ list' = IF panel.clears THEN Blank ELSE list
  /\ astray' = TRUE
  /\ UNCHANGED <<panel, item, sel, kept, written>>

\* A request that is lost, or whose answer is.
CallFails(k) ==
  /\ Spend("losses")
  /\ calls[k].stage \in {"sent", "done"}
  /\ Finally(k) /\ Note
  /\ UNCHANGED <<panel, item, sel, list, loads, kept, astray, written>>
-----------------------------------------------------------------------------
PageNext ==
  \/ ChooseFilter \/ Turn \/ Refresh \/ Tick \/ Shift \/ LoadFails
  \/ \E k \in Slots :
       Perform(k) \/ Return(k) \/ CallFails(k) \/ \E a \in panel.acts : Click(a, k)
  \/ \E by \in Slots \cup {0}, silent \in BOOLEAN : Read(by, silent) \/ Arrive(by, silent)

PageSpec == PageInit /\ [][PageNext]_pageVars
-----------------------------------------------------------------------------
Versions == [st : panel.life \cup {"none", "gone"}, ver : Nat]
Selections == [filter : 0..2, page : 0..2]

PageTypeOK ==
  /\ panel \in Panels
  /\ item \in Versions /\ item # Nothing
  /\ sel \in Selections
  /\ list \in [q : Selections, at : Selections, seen : Versions]
  /\ loads \subseteq [q : Selections, by : Slots \cup {0}, silent : BOOLEAN, last : BOOLEAN,
                      right : BOOLEAN, got : Versions]
  /\ calls \in [Slots -> [act : {a.name : a \in panel.acts} \cup {"none"}, q : Selections,
                          stage : {"idle", "sent", "done", "refused", "loading"},
                          seen : Nat, got : Versions]]
  /\ raised \subseteq {"list"} \cup UNION {a.flags : a \in panel.acts}
  /\ {kept, astray, lowered} \subseteq BOOLEAN
  /\ written \in Nat
  /\ budget \in [{"clicks", "turns", "shifts", "losses"} -> Nat]

\* When nothing is under way the page shows what its controls select, unless the last
\* answer was overtaken by an older one, was asked for with an older selection, or failed.
ShownIsSelected == Settled /\ ~astray => list.q = Query(sel)

\* ... and it shows every change its own actions were told of and load or show.
OwnChangesAreShown == Settled /\ ~astray => list.seen.ver >= written

\* What a page shows at rest is what its controls select, with its own changes in it.
ShownIsTrue == ShownIsSelected /\ OwnChangesAreShown

\* An action that is locked, or whose button its flag disables, is not sent twice, unless
\* a load took that flag down before the answer came; a lock is never lost.
OnceAtATime ==
  \A a \in panel.acts, j, k \in Slots :
    j # k /\ calls[j].act = a.name /\ calls[k].act = a.name =>
      ~a.lock /\ (a.busy \cap a.flags # {} => lowered)

\* The server refuses an action a page offers only if the item changed meanwhile: what
\* the button is enabled for is what the handler of the server accepts.  Left out are the Cancel
\* of a cancelled generation and the steps of one under way, offered and never accepted.
NeverAccepted == {"cancel again", "force step"}
RefusedOnlyIfChanged ==
  \A k \in Slots :
    calls[k].stage = "refused" => calls[k].act \in NeverAccepted \/ calls[k].seen < item.ver

\* The buttons of page p are enabled for nothing but what their handlers accept; "none" is what is
\* shown before anything is loaded.
OffersFit(p) ==
  \A a \in p.acts : a.name \in NeverAccepted \/ a.on \ {"none"} \subseteq DOMAIN a.does

\* An action a page offers is sent once, and is one the server accepts of what the page shows.
ClicksAreSound == OnceAtATime /\ RefusedOnlyIfChanged

\* A page that follows work under way does not show it as under way for ever once it ended.
Active == {"pending", "processing", "pause_requested", "cancelling", "searching", "removing"}
PollFollows ==
  panel.polls # {} /\ <>[](item.st \notin Active) => <>[](list.seen.st \notin Active)

\* No button stays disabled for ever: a flag that is raised comes down.
FlagsFall == \A f \in Flags : f \in raised ~> f \notin raised
==============================================================================
