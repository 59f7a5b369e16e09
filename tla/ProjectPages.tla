---------------------------- MODULE ProjectPages -----------------------------
(***************************************************************************)
(* The pages of the console (Pages), the dialog that imports sites and the *)
(* workers behind it (LegacyImport), the schedules of a project            *)
(* (ScheduleForms), and the link tasks that its pages start and list       *)
(* (LinkTask).  They share no state that both change: a step is one of one *)
(* of them.                                                                *)
(***************************************************************************)
EXTENDS Pages, LegacyImport, ScheduleForms, LinkTask

projectVars == <<pageVars, importVars, scheduleVars, linkVars>>

ProjectInit == PageInit /\ ImportInit /\ ScheduleInit /\ LinkInit

PageStep == PageNext /\ UNCHANGED <<importVars, scheduleVars, linkVars>>
ImportStep == ImportNext /\ UNCHANGED <<pageVars, scheduleVars, linkVars>>
FormStep == ScheduleNext /\ UNCHANGED <<pageVars, importVars, linkVars>>
LinkStep == LinkNext /\ UNCHANGED <<pageVars, importVars, scheduleVars>>

ProjectNext == PageStep \/ ImportStep \/ FormStep \/ LinkStep

ProjectSpec == ProjectInit /\ [][ProjectNext]_projectVars
-----------------------------------------------------------------------------
\* The type invariants; unless requests overlapped, the buttons of a schedule are disabled
\* exactly while one is under way.
PagesTypesOK == PageTypeOK /\ ImportTypeOK /\ ScheduleTypeOK /\ LinkTypeOK
==============================================================================
