--------------------------- MODULE ConsoleServices ---------------------------
(***************************************************************************)
(* What the pages of the console rest on: the locks of files (FileLock),   *)
(* the agent of a domain (AgentChat), the cache of answers (AuthCache),    *)
(* the guard of a page (AuthGuard), the address of the index page          *)
(* (IndexFilters), and on the server the SSH connections (SSHPool) and the *)
(* index check of a site (IndexCheck).  They share no state that two of    *)
(* them change: a step is one of one of them.                              *)
(***************************************************************************)
EXTENDS FileLock, AgentChat, AuthCache, AuthGuard, IndexFilters, SSHPool, IndexCheck

consoleVars ==
  <<lockVars, agentVars, cacheVars, guardVars, filterVars, poolVars, checkVars>>

ConsoleInit ==
  /\ LockInit /\ AgentInit /\ CacheInit /\ GuardInit
  /\ FilterInit /\ PoolInit /\ CheckInit

LockStep ==
  LockNext /\ UNCHANGED <<agentVars, cacheVars, guardVars, filterVars, poolVars, checkVars>>
AgentStep ==
  AgentNext /\ UNCHANGED <<lockVars, cacheVars, guardVars, filterVars, poolVars, checkVars>>
CacheStep ==
  CacheNext /\ UNCHANGED <<lockVars, agentVars, guardVars, filterVars, poolVars, checkVars>>
BrowserStep ==
  GuardNext /\ UNCHANGED <<lockVars, agentVars, cacheVars, filterVars, poolVars, checkVars>>
FilterStep ==
  FilterNext /\ UNCHANGED <<lockVars, agentVars, cacheVars, guardVars, poolVars, checkVars>>
PoolStep ==
  PoolNext /\ UNCHANGED <<lockVars, agentVars, cacheVars, guardVars, filterVars, checkVars>>
CheckStep ==
  CheckNext /\ UNCHANGED <<lockVars, agentVars, cacheVars, guardVars, filterVars, poolVars>>

ConsoleNext ==
  LockStep \/ AgentStep \/ CacheStep \/ BrowserStep \/ FilterStep \/ PoolStep \/ CheckStep

ConsoleSpec == ConsoleInit /\ [][ConsoleNext]_consoleVars
-----------------------------------------------------------------------------
\* The type invariants; at rest the address of the index page says what the page shows.
ConsoleTypesOK ==
  /\ LockTypeOK /\ AgentTypeOK /\ CacheTypeOK /\ GuardTypeOK
  /\ FiltersTypeOK /\ PoolTypeOK /\ CheckTypeOK
==============================================================================
