------------------------------ MODULE MCEditor ------------------------------
(***************************************************************************)
(* The editor page on a small instance: in a behaviour, code mode with two *)
(* tabs, or content mode.  What users do is split over the behaviours:     *)
(* each has a small set of actions and as many steps as it needs.          *)
(***************************************************************************)
EXTENDS EditorPage, TLC

CONSTANTS t1, t2, f1, f2, p1, p2, blank, x, y, z

Symmetry == Permutations(Tabs)

MCSites == {[f \in Files |-> IF f = f1 THEN p1 ELSE p2], [f \in Files |-> IF f = f1 THEN p2 ELSE NoPath]}

Habit(acts, n, lost) == [does |-> acts, moves |-> n, losses |-> lost]

MCHabits ==
  {Habit({}, 5, 0), Habit({}, 4, 1),
   Habit({"delete", "restore"}, 4, 0), Habit({"revert"}, 3, 0),
   Habit({"upload"}, 3, 0), Habit({"create", "mkdir"}, 3, 0), Habit({"rmdir"}, 3, 1),
   Habit({"move"}, 4, 0), Habit({"regenerate"}, 3, 0)}

Budget(edits, picks, pubs, files, others, losses) ==
  [edits |-> edits, picks |-> picks, pubs |-> pubs, files |-> files, others |-> others, losses |-> losses]

MCValues == {y, z}
MCBudgets ==
  {Budget(2, 0, 1, 0, 1, 0), Budget(1, 1, 1, 0, 1, 0), Budget(1, 0, 1, 0, 0, 1),
   Budget(1, 0, 2, 0, 0, 0), Budget(1, 0, 1, 1, 0, 0),
   Budget(0, 0, 0, 2, 0, 0), Budget(0, 0, 0, 1, 0, 1), Budget(0, 0, 0, 1, 1, 0), Budget(0, 1, 0, 0, 0, 0)}

\* The initial states of EditorPage that are tried: those of one mode, with one of the other.
MCInit ==
  /\ mode \in {"code", "content"}
  /\ Init /\ (mode = "content" => habit = Habit({}, 5, 0) /\ row[f1].path = p1)
  /\ ContentInit /\ (\A p \in Paths : site[p].html.head # z) /\ (left.files + left.picks > 0 => sheet = NoText)
  /\ mode = "code" =>
       left = Budget(0, 0, 0, 2, 0, 0) /\ open = NoPage /\ sheet = NoText /\ known.there = Paths

MCSpec == MCInit /\ [][EditorPageNext]_<<mode, vars, contentVars>>
=============================================================================
