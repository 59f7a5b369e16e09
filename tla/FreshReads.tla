----------------------------- MODULE FreshReads -----------------------------
(***************************************************************************)
(* What a page may rely on when it is given an answer without a request    *)
(* being sent: it is less than Ttl old.  The data on the server are a      *)
(* version, which grows; `until` keeps when each version was replaced.     *)
(***************************************************************************)
EXTENDS Naturals

CONSTANTS Ttl, MaxNow, MaxData

VARIABLES
  now,      \* the clock
  data,     \* the version on the server
  until,    \* until[v]: when version v was replaced
  served    \* the version last answered at once

freshVars == <<now, data, until, served>>

\* v is the version on the server, or was less than Ttl ago.
Fresh(v) == v = data \/ (v < data /\ now < until[v] + Ttl)

FreshInit == now = 0 /\ data = 1 /\ until = [v \in 1..MaxData |-> 0] /\ served = 0

Wait == now < MaxNow /\ now' = now + 1 /\ UNCHANGED <<data, until, served>>

Change ==
  /\ data < MaxData /\ data' = data + 1
  /\ until' = [until EXCEPT ![data] = now]
  /\ UNCHANGED <<now, served>>

Answer == served' \in 1..data /\ Fresh(served') /\ UNCHANGED <<now, data, until>>

FreshSpec == FreshInit /\ [][Wait \/ Change \/ Answer]_freshVars
==============================================================================
