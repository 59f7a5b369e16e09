----------------------------- MODULE IndexCheck -----------------------------
(***************************************************************************)
(* The check of one site for one day: the row of domain_index_checks, the  *)
(* ticks of the index checker, which may overlap, the worker that runs     *)
(* checks on demand, and the user who starts the check anew.  A run claims *)
(* the row by a conditional UPDATE (TryMarkChecking); every other write    *)
(* names the row only.  Nothing here has a clock: a delay is over at some  *)
(* time, and what the answer of the search engine says is left out.        *)
(***************************************************************************)
EXTENDS Naturals, FiniteSets

CONSTANTS
  Ticks, Workers,  \* those who run checks
  MaxAttempts,     \* maxRetryAttemptsPerDay
  CheckBudgets     \* bounds: manual runs, faults and settings changed

ASSUME CheckAssumption ==
  /\ MaxAttempts \in Nat \ {0}
  /\ CheckBudgets \subseteq [manual : Nat, faults : Nat, changes : Nat]

VARIABLES
  check,      \* the row: status, attempts, next_retry_at; `old`: last_attempt_at is 20 min ago
  day,        \* "today", "over" since midnight, "aged" when created_at is a day ago
  site,       \* the site is published; index checks are enabled for it
  runner,     \* runner[r]: where r is, the attempts it read, what it found
  wanted,     \* tasks of the index queue
  tries,      \* searches since the user started the check anew
  crossed,    \* the row was reset or failed under a run that goes on
  budgetLeft

checkVars == <<check, day, site, runner, wanted, tries, crossed, budgetLeft>>

Runners == Ticks \cup Workers
Ended == {"success", "failed_investigation"}
Resting == [at |-> "rest", attempts |-> 0, found |-> "none"]
NoRow == [status |-> "none", attempts |-> 0, next |-> "none", old |-> FALSE]
InFlight == {r \in Runners : runner[r].at \in {"search", "count", "settle"}}

CheckInit ==
  /\ check = NoRow
  /\ day = "today"
  /\ site = [published |-> TRUE, enabled |-> TRUE]
  /\ runner = [r \in Runners |-> Resting]
  /\ wanted = 0
  /\ tries = 0
  /\ crossed = FALSE
  /\ budgetLeft \in CheckBudgets

MoveTo(r, place) == runner' = [runner EXCEPT ![r].at = place]
Spend(what) == budgetLeft[what] > 0 /\ budgetLeft' = [budgetLeft EXCEPT ![what] = @ - 1]

\* UpdateStatus: an end clears the retry.
WithStatus(st) ==
  [check EXCEPT !.status = st, !.next = IF st \in Ended THEN "none" ELSE @]
-----------------------------------------------------------------------------
\* (mistake: a row whose first attempt never came back is never old enough)
StaleIfCounted == check.status = "checking" /\ check.next = "none" /\ check.old /\ check.attempts > 0

\* ListStaleChecking.
Stale == check.status = "checking" /\ check.next = "none" /\ check.old

\* RunIndexCheckerTick begins, reading the stale checks.
TickBegin(r) ==
  /\ r \in Ticks /\ runner[r].at = "rest"
  /\ MoveTo(r, IF Stale THEN "stale" ELSE "gather")
  /\ crossed' = (crossed \/ (Stale /\ InFlight # {}))
  /\ UNCHANGED <<check, day, site, wanted, tries, budgetLeft>>

\* failStaleChecks, the row listed before.
FailStale(r) ==
  /\ runner[r].at = "stale"
  /\ check' = WithStatus("failed_investigation")
  /\ MoveTo(r, "gather")
  /\ UNCHANGED <<day, site, wanted, tries, crossed, budgetLeft>>

\* ListPendingRetries, which asks neither for the day nor for the settings.
DueRetry == check.status = "checking" /\ check.next = "due"

\* The check of today is created for a site that is published and not left out, and is due
\* while it is pending.
Gather(r) ==
  /\ runner[r].at = "gather"
  /\ LET listed == day = "today" /\ site.published /\ site.enabled
         due == DueRetry \/ (listed /\ check.status \in {"none", "pending"}) IN
     /\ check' = IF listed /\ check.status = "none" THEN [check EXCEPT !.status = "pending"] ELSE check
     /\ runner' = [runner EXCEPT ![r] = IF due THEN [@ EXCEPT !.at = "load"] ELSE Resting]
  /\ UNCHANGED <<day, site, wanted, tries, crossed, budgetLeft>>

\* The worker takes a task of the index queue.
Take(r) ==
  /\ r \in Workers /\ runner[r].at = "rest" /\ wanted > 0
  /\ wanted' = wanted - 1
  /\ MoveTo(r, "load")
  /\ UNCHANGED <<check, day, site, tries, crossed, budgetLeft>>

\* ProcessCheckByID reads the check and the site.
Load(r) ==
  /\ runner[r].at = "load"
  /\ runner' = [runner EXCEPT ![r].at = "mark",
                              ![r].found = IF site.published THEN "none" ELSE "invalid"]
  /\ UNCHANGED <<check, day, site, wanted, tries, crossed, budgetLeft>>

\* (mistake: a check that is being run may be claimed again)
MarkableTwice == check.status \in {"pending", "checking"} /\ check.next # "later"

\* (mistake: whatever is not being run may be claimed)
MarkableUnlessChecking == check.status # "checking" \/ DueRetry

\* The WHERE of TryMarkChecking.
Markable == check.status = "pending" \/ DueRetry

\* TryMarkChecking.
Mark(r) ==
  /\ runner[r].at = "mark"
  /\ \/ /\ Markable
        /\ check' = [check EXCEPT !.status = "checking", !.next = "none", !.old = FALSE]
        /\ runner' = [runner EXCEPT
             ![r].at = IF runner[r].found = "invalid" THEN "count" ELSE "search",
             ![r].attempts = check.attempts]
     \/ ~Markable /\ runner' = [runner EXCEPT ![r] = Resting] /\ UNCHANGED check
  /\ UNCHANGED <<day, site, wanted, tries, crossed, budgetLeft>>

\* The search engine answers, or does not.
Search(r, found) ==
  /\ runner[r].at = "search" /\ found \in {"success", "error"}
  /\ tries' = tries + 1
  /\ runner' = [runner EXCEPT ![r].at = "count", ![r].found = found]
  /\ UNCHANGED <<check, day, site, wanted, crossed, budgetLeft>>

\* The history and IncrementAttempts.
CountAttempt(r) ==
  /\ runner[r].at = "count"
  /\ check' = [check EXCEPT !.attempts = @ + 1, !.old = FALSE]
  /\ MoveTo(r, "settle")
  /\ UNCHANGED <<day, site, wanted, tries, crossed, budgetLeft>>

\* (mistake: the last attempt is followed by another)
RetryOnceMore(r) == runner[r].attempts < MaxAttempts /\ day # "aged"

\* ShouldRetry, of the check as it was claimed and this attempt.
ShouldRetry(r) == runner[r].attempts + 1 < MaxAttempts /\ day # "aged"

\* (mistake: the next retry is set for the last attempt too)
SettleWithRetry(r) ==
  /\ runner[r].at = "settle"
  /\ check' = IF runner[r].found = "success" THEN WithStatus("success")
            ELSE IF runner[r].found = "error" /\ ShouldRetry(r)
            THEN [WithStatus("checking") EXCEPT !.next = "later"]
            ELSE [WithStatus("failed_investigation") EXCEPT !.next = "later"]
  /\ runner' = [runner EXCEPT ![r] = Resting]
  /\ UNCHANGED <<day, site, wanted, tries, crossed, budgetLeft>>

\* SetNextRetry and UpdateStatus.
Settle(r) ==
  /\ runner[r].at = "settle"
  /\ check' = IF runner[r].found = "success" THEN WithStatus("success")
            ELSE IF runner[r].found = "error" /\ ShouldRetry(r)
            THEN [WithStatus("checking") EXCEPT !.next = "later"]
            ELSE WithStatus("failed_investigation")
  /\ runner' = [runner EXCEPT ![r] = Resting]
  /\ UNCHANGED <<day, site, wanted, tries, crossed, budgetLeft>>

\* A process dies, or its context is over and every later statement fails.  A worker that is
\* shut down puts its task back; one that crashes loses it, as the task has no retries.
Lose(r) ==
  /\ runner[r].at # "rest" /\ Spend("faults")
  /\ runner' = [runner EXCEPT ![r] = Resting]
  /\ wanted' \in {wanted} \cup (IF r \in Workers THEN {wanted + 1} ELSE {})
  /\ UNCHANGED <<check, day, site, tries, crossed>>
-----------------------------------------------------------------------------
\* UpsertManualByDomainAndDate.
Reset == [NoRow EXCEPT !.status = "pending", !.next = "due"]

\* POST index-checks: reset and enqueue; the queue may refuse.
ManualRun ==
  /\ day = "today" /\ site.published /\ Spend("manual")
  /\ check' = Reset
  /\ tries' = 0
  /\ crossed' = (InFlight # {} \/ \E r \in Runners : runner[r].at = "stale")
  /\ wanted' \in {wanted, wanted + 1}
  /\ UNCHANGED <<day, site, runner>>

ChangeSite ==
  /\ Spend("changes")
  /\ \/ site' = [site EXCEPT !.published = ~@]
     \/ site' = [site EXCEPT !.enabled = ~@]
  /\ UNCHANGED <<check, day, runner, wanted, tries, crossed>>

\* The delay of CalculateNextRetry is over.
RetryFallsDue ==
  /\ check.next = "later" /\ check' = [check EXCEPT !.next = "due"]
  /\ UNCHANGED <<day, site, runner, wanted, tries, crossed, budgetLeft>>

\* IndexCheckStaleTimeout is over: a tick is cut off after the same 20 minutes, so it is not
\* one of its own checks.
AttemptGrowsOld ==
  /\ check.status = "checking" /\ ~check.old /\ InFlight \cap Ticks = {}
  /\ check' = [check EXCEPT !.old = TRUE]
  /\ UNCHANGED <<day, site, runner, wanted, tries, crossed, budgetLeft>>

DayPasses ==
  /\ \/ day = "today" /\ day' = "over"
     \/ day = "over" /\ day' = "aged"
  /\ UNCHANGED <<check, site, runner, wanted, tries, crossed, budgetLeft>>

GoOn(r) ==
  \/ TickBegin(r) \/ FailStale(r) \/ Gather(r) \/ Take(r) \/ Load(r) \/ Mark(r)
  \/ \E found \in {"success", "error"} : Search(r, found)
  \/ CountAttempt(r) \/ Settle(r)

CheckNext ==
  \/ \E r \in Runners : GoOn(r) \/ Lose(r)
  \/ ManualRun \/ ChangeSite \/ RetryFallsDue \/ AttemptGrowsOld \/ DayPasses

CheckSpec == CheckInit /\ [][CheckNext]_checkVars
-----------------------------------------------------------------------------
\* The type invariant: only a check under way waits for a retry, or was reset to run at once.
CheckTypeOK ==
  /\ check.status \in Ended \cup {"none", "pending", "checking"}
  /\ check.attempts \in Nat
  /\ check.next \in {"none", "later", "due"} /\ check.old \in BOOLEAN
  /\ check.status \in Ended \cup {"none"} => check.next = "none" \/ crossed
  /\ check.next = "later" => check.status = "checking" \/ crossed
  /\ day \in {"today", "over", "aged"}
  /\ wanted \in Nat /\ tries \in Nat

\* Ticks that overlap, and a tick and the worker, do not run the same check at the same time,
\* unless the user reset it or a tick failed it while it was being run.
OneRunAtATime == crossed \/ Cardinality(InFlight) <= 1

\* The search engine is asked at most MaxAttempts times about a site in a day, each time
\* counted, whoever dies in between, unless the user starts the check anew.
AttemptsAreBounded ==
  crossed \/ (tries <= MaxAttempts /\ check.attempts <= MaxAttempts
              /\ (InFlight = {} => check.attempts <= tries + 1))

\* The result of a check stays until the user starts it anew: no tick runs it again, and no
\* late write replaces it.
ResultsAreKept ==
  [][check.status \in Ended /\ check'.status # check.status /\ ~crossed =>
       budgetLeft'.manual < budgetLeft.manual]_checkVars

\* A check is run by one goroutine at a time, and the search engine is asked at most MaxAttempts
\* times a day, each counted, unless the user reset it or a tick failed it under a run that goes
\* on; a result stays until the user starts the check anew.
ChecksAreSound == []OneRunAtATime /\ []AttemptsAreBounded /\ ResultsAreKept

\* A check that was begun ends, whoever dies in between and although the day is over; one
\* that waits to begin does, unless its day is over or its site was left out.
CheckEnds ==
  /\ check.status = "checking" ~> check.status \in Ended \cup {"pending"}
  /\ check.status = "pending" ~>
       check.status # "pending" \/ day # "today" \/ ~site.published \/ ~site.enabled
==============================================================================
