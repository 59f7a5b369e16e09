----------------------------- MODULE IndexFilters -----------------------------
(***************************************************************************)
(* The filters of the index monitoring page (monitoring/indexing) and its  *)
(* address: the bar where filters are drafted (IndexFiltersBar), the       *)
(* filters applied, the search text and its debounced copy, the page       *)
(* number, and the two effects that copy the address to the filters and    *)
(* the filters to the address.                                             *)
(*                                                                         *)
(* An effect sees the values of the render it belongs to, and what it sets *)
(* is seen by the next one: SettleEffects follows the renders that a       *)
(* change causes, to the one that changes nothing.  A change of the        *)
(* address takes a round trip; one that is asked for replaces the one      *)
(* under way.                                                              *)
(***************************************************************************)
EXTENDS Naturals

CONSTANTS
  Words,        \* texts of the search box, "" among them
  MaxPages,     \* bound: pages of a list
  MaxFetches,   \* bound: loads under way when an address arrives
  FirstUrls,    \* addresses the page is opened at
  FilterBudgets \* bounds: changes drafted, clicks, texts typed, projects picked

VARIABLES
  chosen,     \* status, day, search and page: the state of the page
  debounced,  \* the search text 400 ms after the last key
  draft,      \* what the bar shows: status, day and search
  url,        \* the address
  nav,        \* the address asked for, or NoUrl
  fetches,    \* loads of the list under way
  busy,       \* the flag `loading`
  pages,      \* how many pages the last answer has
  wish,       \* history: what the user chose last
  strayed,    \* history: an address arrived before the text was debounced; the filters were
              \* back at the address shown while another was asked for; a project was picked
  moves       \* what is left of the budget

filterVars == <<chosen, debounced, draft, url, nav, fetches, busy, pages, wish, strayed, moves>>

NoUrl == [status |-> "none", day |-> "none", search |-> "none", page |-> 0]
Blank == [status |-> "any", day |-> "", search |-> "", page |-> 1]
DefaultFilters == [status |-> "any", day |-> "", search |-> ""]

FilterStatuses == {"any", "failed"}
Days == {"", "monday"}
Value(s) == [status |-> s.status, day |-> s.day, search |-> s.search]

\* What the page is opened at, and the bounds.
ASSUME FilterAssumption ==
  /\ MaxPages \in Nat \ {0} /\ "" \in Words
  /\ FirstUrls \subseteq [status : FilterStatuses, day : Days, search : Words, page : Nat \ {0}]

SpendMove(what) == moves[what] > 0 /\ moves' = [moves EXCEPT ![what] = @ - 1]

-----------------------------------------------------------------------------
(* The effects *)

ToUrl(s, text) == [s EXCEPT !.search = text]
\* What the list is asked for.
Query(s, text) == ToUrl(s, text)

\* (mistake: the address is read after every change, not only when it is new)
ReadEveryTime(s, address, isNew) == address
ReadUrl(s, address, isNew) == IF isNew THEN address ELSE s
\* (mistake: the address follows the text before it is debounced)
WriteTyped(s, text, address, asked) == IF s # address THEN s ELSE asked
WriteUrl(s, text, address, asked) == IF ToUrl(s, text) # address THEN ToUrl(s, text) ELSE asked

\* (mistake: the page stays past the end of a list that became shorter)
ClampNone(read, seen, last) == read
Clamp(read, seen, last) == IF seen.page > last THEN [read EXCEPT !.page = last] ELSE read

\* State s, debounced text, address and number of pages after a change: three renders do.
SettleEffects(s, text, address, isNew, last) ==
  LET second == Clamp(ReadUrl(s, address, isNew), s, last)
      third == Clamp(second, second, last)
      first == WriteUrl(s, text, address, IF isNew THEN NoUrl ELSE nav) IN
  [s |-> third,
   nav |-> WriteUrl(third, text, address, WriteUrl(second, text, address, first))]

\* The list is loaded again when what it is asked for changes.
Render(s, text, address, isNew, last, was) ==
  LET end == SettleEffects(s, text, address, isNew, last) IN
  /\ chosen' = end.s /\ debounced' = text /\ url' = address /\ nav' = end.nav
  /\ IF Query(end.s, text) # Query(chosen, debounced)
     THEN fetches' = was + 1 /\ busy' = TRUE
     ELSE fetches' = was /\ busy' = (busy /\ was = fetches)
  /\ strayed' =
       [strayed EXCEPT !.crossed = @ \/ (isNew /\ text # chosen.search),
                       !.back = @ \/ (~isNew /\ nav # NoUrl /\ ToUrl(end.s, text) = address)]
\* The bar shows the filters applied when they change, whatever it held.
Redraft(bar) == draft' = IF Value(chosen') # Value(chosen) THEN Value(chosen') ELSE bar

-----------------------------------------------------------------------------
(* The user *)

\* A handler sets the filters, and what the user wants from then on.
Choose(s, bar) ==
  /\ Render(s, debounced, url, FALSE, pages, fetches) /\ Redraft(bar)
  /\ wish' = s /\ UNCHANGED pages
ApplyFilters(v, bar) ==
  Choose([status |-> v.status, day |-> v.day, search |-> v.search, page |-> 1], bar)

Draft ==
  /\ ~busy /\ SpendMove("drafts")
  /\ \/ \E s \in FilterStatuses \ {draft.status} : draft' = [draft EXCEPT !.status = s]
     \/ \E d \in Days \ {draft.day} : draft' = [draft EXCEPT !.day = d]
  /\ UNCHANGED <<chosen, debounced, url, nav, fetches, busy, pages, wish, strayed>>

\* The search box is not drafted: each key is applied.
TypeSearch ==
  /\ ~busy /\ SpendMove("keys")
  /\ \E w \in Words \ {chosen.search} : Choose([chosen EXCEPT !.search = w, !.page = 1], draft)

Apply == ~busy /\ draft # Value(chosen) /\ ApplyFilters(draft, draft) /\ SpendMove("clicks")
ResetFilters ==
  ~busy /\ draft # Value(chosen) /\ SpendMove("clicks") /\ ApplyFilters(DefaultFilters, DefaultFilters)

\* A day of the calendar and the alert of failed checks are not disabled by a load.
DateClick ==
  /\ SpendMove("clicks")
  /\ ApplyFilters([Value(chosen) EXCEPT !.day = IF @ = "monday" THEN "" ELSE "monday"], draft)
ViewDetails == SpendMove("clicks") /\ ApplyFilters([Value(chosen) EXCEPT !.status = "failed"], draft)

PrevPage ==
  ~busy /\ chosen.page > 1 /\ SpendMove("clicks") /\ Choose([chosen EXCEPT !.page = @ - 1], draft)
NextPage ==
  ~busy /\ chosen.page < pages /\ SpendMove("clicks") /\ Choose([chosen EXCEPT !.page = @ + 1], draft)

\* A manager picks a project: the address loses every filter.
PickProject ==
  /\ SpendMove("picks")
  /\ nav' = Blank /\ strayed' = [strayed EXCEPT !.pushed = TRUE]
  /\ UNCHANGED <<chosen, debounced, draft, url, fetches, busy, pages, wish>>

-----------------------------------------------------------------------------
(* Time and the network *)

Debounce ==
  /\ debounced # chosen.search
  /\ Render(chosen, chosen.search, url, FALSE, pages, fetches) /\ Redraft(draft)
  /\ UNCHANGED <<pages, wish, moves>>

\* The address arrives.  A text typed since is the user's loss.
Navigated ==
  /\ nav # NoUrl /\ fetches < MaxFetches
  /\ Render(chosen, debounced, nav, TRUE, pages, fetches) /\ Redraft(draft)
  /\ UNCHANGED <<pages, wish, moves>>

\* An answer of the list, or an error, which leaves the number of pages.
Loaded ==
  /\ fetches > 0
  /\ \E last \in 1..MaxPages :
       /\ pages' = last
       /\ Render(chosen, debounced, url, FALSE, last, fetches - 1) /\ Redraft(draft)
       /\ wish' = [wish EXCEPT !.page = IF chosen.page > last THEN last ELSE @]
  /\ UNCHANGED moves

-----------------------------------------------------------------------------
FilterInit ==
  /\ \E address \in FirstUrls :
       /\ url = address /\ debounced = address.search /\ pages = 1
       /\ chosen = Clamp(address, address, 1)
       /\ nav = IF address.page > 1 THEN [address EXCEPT !.page = 1] ELSE NoUrl
       /\ draft = Value(address)
  /\ wish = chosen /\ fetches = 1 /\ busy = TRUE
  /\ strayed = [crossed |-> FALSE, back |-> FALSE, pushed |-> FALSE]
  /\ moves \in FilterBudgets

FilterNext ==
  \/ Draft \/ TypeSearch \/ Apply \/ ResetFilters \/ DateClick \/ ViewDetails \/ PrevPage \/ NextPage
  \/ PickProject \/ Debounce \/ Navigated \/ Loaded

FilterSpec == FilterInit /\ [][FilterNext]_filterVars
-----------------------------------------------------------------------------
\* The type invariant.  When the search text is debounced and no address is asked for, the
\* address says what the page shows.
FiltersTypeOK ==
  /\ chosen.status \in FilterStatuses /\ chosen.day \in Days /\ chosen.search \in Words
  /\ chosen.page \in 1..MaxPages /\ pages \in 1..MaxPages /\ chosen.page <= pages
  /\ draft \in [status : FilterStatuses, day : Days, search : Words]
  /\ busy => fetches > 0
  /\ nav = NoUrl /\ debounced = chosen.search => url = chosen

\* What the user chose last, in the box, the bar, the calendar or the pager, is what the page
\* comes to rest with, unless an address arrived before a text was debounced, the filters were
\* set back while another address was on its way, or a project was picked.
ChosenIsKept ==
  nav = NoUrl /\ debounced = chosen.search /\ ~(strayed.crossed \/ strayed.back \/ strayed.pushed) =>
    chosen = wish

\* An address the page asked for is the last: its arrival asks for no other, so that the two
\* effects do not take turns, unless the filters were set back meanwhile or a project picked.
AddressSettles ==
  [][nav # NoUrl /\ url' = nav /\ ~(strayed.pushed \/ strayed.back) => nav' = NoUrl]_filterVars

\* The page comes to rest with what was chosen, and its two effects do not take turns.
ChoiceSettles == []ChosenIsKept /\ AddressSettles
==============================================================================
