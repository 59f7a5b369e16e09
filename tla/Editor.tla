------------------------------- MODULE Editor -------------------------------
(***************************************************************************)
(* The code editor of one domain: browser tabs (useEditorPageActions,      *)
(* useFileActions, the editor page and its panels) over the file API       *)
(* (editor_file_handlers.go) and its tables site_files, file_revisions.    *)
(*                                                                         *)
(* A tab is a React page: a click starts an async handler, which reads the *)
(* state of the render it was made in, awaits requests, and then sets      *)
(* state.  While a request is away only some of the controls are disabled, *)
(* so the user, the other tabs and the answers interleave.  A handler of   *)
(* the server is one step, except saving, which checks the version in one  *)
(* statement and writes in later ones, and reading, which takes the        *)
(* version before the bytes.                                               *)
(*                                                                         *)
(* hasty, held, raced and stored are history: they record what happened    *)
(* and guard nothing.                                                      *)
(***************************************************************************)
EXTENDS Naturals, FiniteSets, FiniteSetsExt, Functions

CONSTANTS
  Tabs,        \* open editor pages, of the same or of different users
  Files,       \* rows of site_files, by id
  Paths,       \* paths a file may have
  Folder,      \* the paths below the one folder of the site
  Texts,       \* contents
  Blank,       \* the empty text
  NoFile, NoPath, NoText, NoAct,
  MaxVersion,  \* bound: version of a file
  Sites,       \* where the files are at first
  Habits       \* what users do: file actions, and bounds on everything done and lost

ActKinds == {"open", "create", "mkdir", "move", "delete", "rmdir", "restore",
             "upload", "revert", "regenerate"}

ASSUME EditorAssumption ==
  /\ IsFiniteSet(Files)
  /\ Folder \subseteq Paths
  /\ Sites \subseteq [Files -> Paths \cup {NoPath}]
  /\ \A s \in Sites : \A f, g \in Files : s[f] = s[g] => f = g \/ s[f] = NoPath
  /\ Habits \subseteq [does : SUBSET ActKinds, moves : Nat, losses : Nat]
  /\ NoFile \notin Files
  /\ NoText \notin Texts
  /\ Blank \in Texts
  /\ NoPath \notin Paths
  /\ MaxVersion \in Nat \ {0}

VARIABLES
  row,       \* row[f]: path, deleted_at and version in site_files; version 0: no row
  disk,      \* disk[p]: the bytes at p in the content backend
  revs,      \* revs[f][v]: content of the revision of f at version v
  listed,    \* listed[t][p]: `files`, the file the tab believes to be at p
  sel,       \* sel[t]: `selection`
  buf,       \* buf[t]: `dirtyState`
  conflict,  \* conflict[t]: `conflictState`, the version the modal shows; 0: closed
  loading,   \* loading[t]: `fileLoading`
  saving,    \* saving[t]: `saving`
  loads,     \* loads[t]: the calls of loadFile under way
  save,      \* save[t]: the call of saveFile under way
  act,       \* act[t]: the file action under way
  stored,    \* history: stored[f][v], what f held when it got version v
  held,      \* history: held[p], the files that were ever at p
  raced,     \* history: a file was written while a save of it was past its check
  hasty,     \* history: tabs whose user went on while a request was under way, or which
             \* were open when versions restarted
  moves, faults,
  habit      \* the element of Habits this behaviour has

server == <<row, disk, revs, stored, held, raced>>
page   == <<listed, sel, buf, conflict, loading, saving>>
vars   == <<server, page, loads, save, act, hasty, moves, faults, habit>>

-----------------------------------------------------------------------------
(* The file store. *)

Versions == 1 .. MaxVersion
NoSel == [path |-> NoPath, file |-> NoFile, ver |-> 0]
Empty == [orig |-> Blank, cur |-> Blank, dirty |-> FALSE]
NoSave == [phase |-> "none", path |-> NoPath, file |-> NoFile, text |-> NoText, expect |-> 0,
           ver |-> 0, force |-> FALSE]
Idle == [kind |-> NoAct, phase |-> "none", path |-> NoPath, to |-> NoPath,
         file |-> NoFile, text |-> NoText, dirty |-> FALSE, open |-> NoPath]

NoRow == [path |-> NoPath, gone |-> FALSE, ver |-> 0]
Rows == {f \in Files : row[f].ver > 0}
At(p) == {f \in Rows : row[f].path = p /\ ~row[f].gone}
Trash(p) == {f \in Rows : row[f].path = p /\ row[f].gone}
Listing == [p \in Paths |-> IF At(p) = {} THEN NoFile ELSE CHOOSE f \in At(p) : TRUE]

\* CreateRevision: ON CONFLICT (file_id, version) DO NOTHING.
AddRevision(r, v, text) == IF r[v] = NoText THEN [r EXCEPT ![v] = text] ELSE r

\* A save of f is between its check and its answer.
Saving(f) == \E t \in Tabs : save[t].phase \in {"passed", "written", "counted"} /\ save[t].file = f

\* A new version of f in one step: the baseline of what it replaces, the bytes,
\* version + 1 and the revision of what was written.
Replace(f, text) ==
  LET v == row[f].ver + 1  p == row[f].path IN
  /\ v \in Versions
  /\ row' = [row EXCEPT ![f].ver = v, ![f].gone = FALSE]
  /\ disk' = [disk EXCEPT ![p] = text]
  /\ revs' = [revs EXCEPT ![f] =
       AddRevision(IF disk[p] = NoText THEN @ ELSE AddRevision(@, row[f].ver, disk[p]), v, text)]
  /\ stored' = [stored EXCEPT ![f][v] = text]
  /\ raced' = (raced \/ Saving(f))
  /\ UNCHANGED held

Fresh == CHOOSE f \in Files : f \notin Rows

CreateRow(f, p, text) ==
  /\ row' = [row EXCEPT ![f] = [path |-> p, gone |-> FALSE, ver |-> 1]]
  /\ disk' = [disk EXCEPT ![p] = text]
  /\ revs' = [revs EXCEPT ![f] = AddRevision(@, 1, text)]
  /\ stored' = [stored EXCEPT ![f][1] = text]
  /\ held' = [held EXCEPT ![p] = @ \cup {f}]
  /\ UNCHANGED raced

Init ==
  \E seed \in Sites, text \in Texts \ {Blank} :
    /\ row = [f \in Files |-> IF seed[f] = NoPath THEN NoRow
                               ELSE [path |-> seed[f], gone |-> FALSE, ver |-> 1]]
    /\ disk = [p \in Paths |-> IF \E f \in Files : seed[f] = p THEN text ELSE NoText]
    /\ revs = [f \in Files |-> [v \in Versions |-> NoText]]
    /\ stored = [f \in Files |-> [v \in Versions |->
                   IF v = 1 /\ seed[f] # NoPath THEN text ELSE NoText]]
    /\ held = [p \in Paths |-> {f \in Files : seed[f] = p}]
    /\ raced = FALSE
    /\ listed = [t \in Tabs |-> [p \in Paths |-> NoFile]]
    /\ sel = [t \in Tabs |-> NoSel]
    /\ buf = [t \in Tabs |-> Empty]
    /\ conflict = [t \in Tabs |-> 0]
    /\ loading = [t \in Tabs |-> FALSE]
    /\ saving = [t \in Tabs |-> FALSE]
    /\ loads = [t \in Tabs |-> {}]
    /\ save = [t \in Tabs |-> NoSave]
    /\ act = [t \in Tabs |-> [Idle EXCEPT !.kind = "open", !.phase = "sent"]]
    /\ hasty = {}
    /\ moves = 0
    /\ faults = 0
    /\ habit \in Habits

-----------------------------------------------------------------------------
(* What a user can do now. *)

\* The page is drawn, and no conflict modal covers it.
Usable(t) == act[t].kind # "open" /\ conflict[t] = 0

\* `currentFile`: the list has the selected path.
HasFile(t) == sel[t].path # NoPath /\ listed[t][sel[t].path] # NoFile

CanSave(t) == HasFile(t) /\ buf[t].dirty /\ ~saving[t]

\* The file tree is replaced by a text while a file is being loaded.
TreeShown(t) == ~loading[t]

Busy(t) == loads[t] # {} \/ save[t] # NoSave \/ act[t] # Idle

\* The user of t does something.
User(t) ==
  /\ moves < habit.moves
  /\ moves' = moves + 1
  /\ hasty' = IF Busy(t) THEN hasty \cup {t} ELSE hasty

\* loadFile, past its question: the request for a file is sent.
Request(f, p) == [file |-> f, path |-> p, phase |-> "sent", text |-> NoText, ver |-> 0, closes |-> FALSE]

\* Monaco's onChange.
Type(t, text) ==
  /\ User(t)
  /\ Usable(t) /\ HasFile(t) /\ text # buf[t].cur
  /\ buf' = [buf EXCEPT ![t].cur = text, ![t].dirty = (text # buf[t].orig)]
  /\ UNCHANGED <<server, listed, sel, conflict, loading, saving, loads, save, act, faults>>

\* A click in the tree.  With unsaved changes the user is asked, and here agrees.
SelectFile(t, p) ==
  /\ User(t)
  /\ Usable(t) /\ TreeShown(t) /\ listed[t][p] # NoFile
  /\ loads' = [loads EXCEPT ![t] = @ \cup {Request(listed[t][p], p)}]
  /\ loading' = [loading EXCEPT ![t] = TRUE]
  /\ UNCHANGED <<server, listed, sel, buf, conflict, saving, save, act, faults>>

\* A click on a folder drops the selection and the buffer without a question.
SelectFolder(t) ==
  /\ User(t)
  /\ Usable(t) /\ TreeShown(t) /\ \E p \in Folder : listed[t][p] # NoFile
  /\ sel' = [sel EXCEPT ![t] = NoSel]
  /\ buf' = [buf EXCEPT ![t] = Empty]
  /\ UNCHANGED <<server, listed, conflict, loading, saving, loads, save, act, faults>>

RevertBuffer(t) ==
  /\ User(t)
  /\ Usable(t) /\ buf[t].dirty /\ ~saving[t]
  /\ buf' = [buf EXCEPT ![t].cur = buf[t].orig, ![t].dirty = FALSE]
  /\ UNCHANGED <<server, listed, sel, conflict, loading, saving, loads, save, act, faults>>

SendSave(t, expect, force) ==
  /\ save' = [save EXCEPT ![t] = [NoSave EXCEPT !.phase = "sent", !.path = sel[t].path,
                                   !.text = buf[t].cur, !.expect = expect, !.force = force]]
  /\ saving' = [saving EXCEPT ![t] = TRUE]

OnSave(t) ==
  /\ User(t)
  /\ Usable(t) /\ CanSave(t)
  /\ SendSave(t, sel[t].ver, FALSE)
  /\ UNCHANGED <<server, listed, sel, buf, conflict, loading, loads, act, faults>>

\* The modal: its buttons are disabled while saving.
OnConflictOverwrite(t) ==
  /\ User(t)
  /\ conflict[t] > 0 /\ ~saving[t]
  /\ IF sel[t] = NoSel
     THEN /\ conflict' = [conflict EXCEPT ![t] = 0]
          /\ UNCHANGED <<save, saving>>
     ELSE /\ SendSave(t, conflict[t], TRUE)
          /\ UNCHANGED conflict
  /\ UNCHANGED <<server, listed, sel, buf, loading, loads, act, faults>>

\* Reload asks before it drops the buffer; answered with No the modal closes all the
\* same.  While the file loads the modal stays, with its buttons.
OnConflictReload(t, agreed) ==
  /\ User(t)
  /\ conflict[t] > 0 /\ ~saving[t]
  /\ IF agreed /\ HasFile(t)
     THEN /\ loads' = [loads EXCEPT ![t] = @ \cup
                         {[Request(listed[t][sel[t].path], sel[t].path) EXCEPT !.closes = TRUE]}]
          /\ loading' = [loading EXCEPT ![t] = TRUE]
          /\ UNCHANGED conflict
     ELSE /\ conflict' = [conflict EXCEPT ![t] = 0]
          /\ UNCHANGED <<loads, loading>>
  /\ UNCHANGED <<server, listed, sel, buf, saving, save, act, faults>>

OnConflictCancel(t) ==
  /\ User(t)
  /\ conflict[t] > 0 /\ ~saving[t]
  /\ conflict' = [conflict EXCEPT ![t] = 0]
  /\ UNCHANGED <<server, listed, sel, buf, loading, saving, loads, save, act, faults>>

-----------------------------------------------------------------------------
(* loadFile: the answer of the server, and what the handler does with it. *)

Lose == faults < habit.losses /\ faults' = faults + 1

\* handleGetFile: the row, then the bytes.  A file that is gone answers 404.
LoadRow(t, q) ==
  /\ q \in loads[t] /\ q.phase = "sent"
  /\ loads' = [loads EXCEPT ![t] = (@ \ {q}) \cup
       {IF At(q.path) = {} THEN [q EXCEPT !.phase = "failed"]
        ELSE [q EXCEPT !.phase = "row", !.ver = row[Listing[q.path]].ver]}]
  /\ UNCHANGED <<server, page, save, act, hasty, moves, faults>>

\* (mistake: no bytes are a text too)
LoadAnyBytes(t, q) ==
  /\ q \in loads[t] /\ q.phase = "row"
  /\ loads' = [loads EXCEPT ![t] = (@ \ {q}) \cup {[q EXCEPT !.phase = "done", !.text = disk[q.path]]}]
  /\ UNCHANGED <<server, page, save, act, hasty, moves, faults>>

LoadBytes(t, q) ==
  /\ q \in loads[t] /\ q.phase = "row"
  /\ loads' = [loads EXCEPT ![t] = (@ \ {q}) \cup
       {IF disk[q.path] = NoText THEN [q EXCEPT !.phase = "failed", !.ver = 0]
        ELSE [q EXCEPT !.phase = "done", !.text = disk[q.path]]}]
  /\ UNCHANGED <<server, page, save, act, hasty, moves, faults>>

LoadLost(t, q) ==
  /\ Lose
  /\ q \in loads[t] /\ q.phase # "failed"
  /\ loads' = [loads EXCEPT ![t] = (@ \ {q}) \cup
       {[q EXCEPT !.phase = "failed", !.text = NoText, !.ver = 0]}]
  /\ UNCHANGED <<server, page, save, act, hasty, moves>>

\* The selection and the buffer are replaced, whatever they are by now.
LoadReturns(t, q) ==
  /\ q \in loads[t] /\ q.phase \in {"done", "failed"}
  /\ loads' = [loads EXCEPT ![t] = @ \ {q}]
  /\ loading' = [loading EXCEPT ![t] = FALSE]
  /\ conflict' = IF q.closes THEN [conflict EXCEPT ![t] = 0] ELSE conflict
  /\ IF q.phase = "done"
     THEN /\ sel' = [sel EXCEPT ![t] = [path |-> q.path, file |-> q.file, ver |-> q.ver]]
          /\ buf' = [buf EXCEPT ![t] = [orig |-> q.text, cur |-> q.text, dirty |-> FALSE]]
     ELSE UNCHANGED <<sel, buf>>
  /\ act' = IF act[t].kind = "open" THEN [act EXCEPT ![t] = Idle] ELSE act
  /\ UNCHANGED <<server, listed, saving, save, hasty, moves, faults>>

-----------------------------------------------------------------------------
(* saveFile and handleUpdateFile. *)

\* (mistake: the version is not compared)
SaveUnchecked(t) ==
  LET p == save[t].path  f == Listing[p] IN
  /\ save[t].phase = "sent" /\ At(p) # {} /\ disk[p] # NoText
  /\ save' = [save EXCEPT ![t].phase = "passed", ![t].file = f]
  /\ revs' = [revs EXCEPT ![f] = AddRevision(@, row[f].ver, disk[p])]
  /\ raced' = (raced \/ Saving(f))
  /\ UNCHANGED <<row, disk, stored, held, page, loads, act, hasty, moves, faults>>

\* (mistake: what the file holds gets no revision)
SaveWithoutBaseline(t) ==
  LET p == save[t].path  f == Listing[p] IN
  /\ save[t].phase = "sent" /\ At(p) # {} /\ row[f].ver = save[t].expect
  /\ save' = [save EXCEPT ![t].phase = "passed", ![t].file = f]
  /\ raced' = (raced \/ Saving(f))
  /\ UNCHANGED <<revs, row, disk, stored, held, page, loads, act, hasty, moves, faults>>

\* The row is read and its version compared; what the file holds gets a revision.
SaveCheck(t) ==
  LET p == save[t].path  f == Listing[p] IN
  /\ save[t].phase = "sent"
  /\ IF At(p) # {} /\ row[f].ver # save[t].expect
     THEN /\ save' = [save EXCEPT ![t].phase = "conflict", ![t].ver = row[f].ver]
          /\ UNCHANGED <<revs, raced>>
     ELSE IF At(p) = {} \/ disk[p] = NoText
     THEN /\ save' = [save EXCEPT ![t].phase = "failed"]
          /\ UNCHANGED <<revs, raced>>
     ELSE /\ save' = [save EXCEPT ![t].phase = "passed", ![t].file = f]
          /\ revs' = [revs EXCEPT ![f] = AddRevision(@, row[f].ver, disk[p])]
          /\ raced' = (raced \/ Saving(f))
  /\ UNCHANGED <<row, disk, stored, held, page, loads, act, hasty, moves, faults>>

SaveBytes(t) ==
  /\ save[t].phase = "passed"
  /\ save' = [save EXCEPT ![t].phase = "written"]
  /\ disk' = [disk EXCEPT ![save[t].path] = save[t].text]
  /\ UNCHANGED <<row, revs, stored, held, raced, page, loads, act, hasty, moves, faults>>

SaveCount(t) ==
  LET f == save[t].file  v == row[f].ver + 1 IN
  /\ save[t].phase = "written" /\ v \in Versions
  /\ IF f \in Rows
     THEN /\ save' = [save EXCEPT ![t].phase = "counted"]
          /\ row' = [row EXCEPT ![f].ver = v]
          /\ stored' = [stored EXCEPT ![f][v] = save[t].text]
     ELSE /\ save' = [save EXCEPT ![t].phase = "failed"]
          /\ UNCHANGED <<row, stored>>
  /\ UNCHANGED <<disk, revs, held, raced, page, loads, act, hasty, moves, faults>>

\* The row is read again for its version; the revision of the new text is added.
SaveDone(t) ==
  LET f == save[t].file IN
  /\ save[t].phase = "counted" /\ f \in Rows
  /\ save' = [save EXCEPT ![t].phase = "done", ![t].ver = row[f].ver]
  /\ revs' = [revs EXCEPT ![f] = AddRevision(@, row[f].ver, save[t].text)]
  /\ UNCHANGED <<row, disk, stored, held, raced, page, loads, act, hasty, moves, faults>>

\* The request never arrives, or its answer is lost.
SaveLost(t) ==
  /\ Lose
  /\ save[t].phase \in {"sent", "done", "conflict"}
  /\ save' = [save EXCEPT ![t].phase = "failed"]
  /\ UNCHANGED <<server, page, loads, act, hasty, moves>>

\* The buffer as it is now becomes the saved text, the selection as it is now gets
\* the version.
SaveSucceeds(t) ==
  /\ save[t].phase = "done"
  /\ buf' = [buf EXCEPT ![t].orig = buf[t].cur, ![t].dirty = FALSE]
  /\ sel' = IF sel[t] = NoSel THEN sel ELSE [sel EXCEPT ![t].ver = save[t].ver]
  /\ conflict' = IF save[t].force THEN [conflict EXCEPT ![t] = 0] ELSE conflict
  /\ save' = [save EXCEPT ![t] = [NoSave EXCEPT !.phase = "listing"]]
  /\ UNCHANGED <<server, listed, loading, saving, loads, act, hasty, moves, faults>>

\* (mistake: the buffer is marked clean after a conflict too)
SaveConflictsClean(t) ==
  /\ save[t].phase = "conflict"
  /\ conflict' = [conflict EXCEPT ![t] = save[t].ver]
  /\ buf' = [buf EXCEPT ![t].orig = buf[t].cur, ![t].dirty = FALSE]
  /\ save' = [save EXCEPT ![t] = NoSave]
  /\ saving' = [saving EXCEPT ![t] = FALSE]
  /\ UNCHANGED <<server, listed, sel, loading, loads, act, hasty, moves, faults>>

SaveConflicts(t) ==
  /\ save[t].phase = "conflict"
  /\ conflict' = [conflict EXCEPT ![t] = save[t].ver]
  /\ save' = [save EXCEPT ![t] = NoSave]
  /\ saving' = [saving EXCEPT ![t] = FALSE]
  /\ UNCHANGED <<server, listed, sel, buf, loading, loads, act, hasty, moves, faults>>

SaveFails(t) ==
  /\ save[t].phase = "failed"
  /\ save' = [save EXCEPT ![t] = NoSave]
  /\ saving' = [saving EXCEPT ![t] = FALSE]
  /\ UNCHANGED <<server, listed, sel, buf, conflict, loading, loads, act, hasty, moves, faults>>

\* loadFiles at the end of a save.
SaveLists(t) ==
  /\ save[t].phase = "listing"
  /\ listed' = [listed EXCEPT ![t] = Listing]
  /\ save' = [save EXCEPT ![t] = NoSave]
  /\ saving' = [saving EXCEPT ![t] = FALSE]
  /\ UNCHANGED <<server, sel, buf, conflict, loading, loads, act, hasty, moves, faults>>

-----------------------------------------------------------------------------
(* File actions: useFileActions, FileHistory and the pages of content mode. *)

\* The handler starts, in the render of the click: it keeps that render's dirtyState,
\* and the path it will open when it is done.
Start(t, a) ==
  /\ User(t)
  /\ Usable(t) /\ act[t] = Idle /\ a.kind \in habit.does
  /\ act' = [act EXCEPT ![t] = [a EXCEPT !.phase = "sent", !.dirty = buf[t].dirty]]
  /\ UNCHANGED <<server, page, loads, save, faults>>

OnCreateFile(t, p) == Start(t, [Idle EXCEPT !.kind = "create", !.path = p, !.text = Blank, !.open = p])
OnCreateFolder(t) == Start(t, [Idle EXCEPT !.kind = "mkdir"])

\* onRename and onMove differ in what the prompt asks for.
OnMove(t, p) ==
  /\ sel[t].path \notin {NoPath, p}
  /\ Start(t, [Idle EXCEPT !.kind = "move", !.path = sel[t].path, !.to = p, !.open = p])

OnDelete(t) ==
  /\ sel[t] # NoSel
  /\ Start(t, [Idle EXCEPT !.kind = "delete", !.path = sel[t].path])

OnDeleteFolder(t) ==
  /\ TreeShown(t) /\ \E p \in Folder : listed[t][p] # NoFile
  /\ Start(t, [Idle EXCEPT !.kind = "rmdir"])

OnRestoreDeleted(t, p) ==
  /\ Trash(p) # {}
  /\ Start(t, [Idle EXCEPT !.kind = "restore", !.path = p, !.open = p])

OnUpload(t, p, text) == Start(t, [Idle EXCEPT !.kind = "upload", !.path = p, !.text = text])

\* FileHistory lists the revisions of the selected file; the one picked can be brought back.
Offered(t, v) == sel[t] # NoSel /\ revs[sel[t].file][v] # NoText

OnRevert(t, v) ==
  /\ Offered(t, v)
  /\ Start(t, [Idle EXCEPT !.kind = "revert", !.path = sel[t].path,
                           !.file = sel[t].file, !.text = revs[sel[t].file][v],
                           !.open = sel[t].path])

Served(t, phase) ==
  /\ act[t].phase = "sent"
  /\ act' = [act EXCEPT ![t].phase = phase]
  /\ UNCHANGED <<page, loads, save, hasty, moves, faults>>

\* handleCreateDomainFile looks for bytes at the path, not for a row.
ServeCreate(t) ==
  LET p == act[t].path IN
  /\ act[t].kind = "create"
  /\ IF disk[p] # NoText \/ Rows = Files
     THEN Served(t, "failed") /\ UNCHANGED server
     ELSE Served(t, "done") /\ CreateRow(Fresh, p, act[t].text)

\* handleMoveFile: the bytes, then the row; the version stays.
ServeMove(t) ==
  LET p == act[t].path  q == act[t].to IN
  /\ act[t].kind = "move"
  /\ IF disk[q] # NoText \/ disk[p] = NoText
     THEN Served(t, "failed") /\ UNCHANGED server
     ELSE /\ Served(t, "done")
          /\ disk' = [disk EXCEPT ![q] = disk[p], ![p] = NoText]
          /\ row' = [f \in Files |-> IF f \in At(p) THEN [row[f] EXCEPT !.path = q] ELSE row[f]]
          /\ held' = [held EXCEPT ![q] = @ \cup At(p)]
          /\ raced' = (raced \/ \E f \in At(p) : Saving(f))
          /\ UNCHANGED <<revs, stored>>

\* softDeleteSingle on each file: its text becomes a revision, the row stays in the trash.
SoftDelete(fs) ==
  /\ revs' = [f \in Files |->
       IF f \in fs /\ disk[row[f].path] # NoText
       THEN AddRevision(revs[f], row[f].ver, disk[row[f].path]) ELSE revs[f]]
  /\ disk' = [p \in Paths |-> IF At(p) \cap fs # {} THEN NoText ELSE disk[p]]
  /\ row' = [f \in Files |-> IF f \in fs THEN [row[f] EXCEPT !.gone = TRUE] ELSE row[f]]
  /\ raced' = (raced \/ \E f \in fs : Saving(f))
  /\ UNCHANGED <<stored, held>>

ServeDelete(t) ==
  /\ act[t].kind = "delete"
  /\ IF At(act[t].path) = {}
     THEN Served(t, "failed") /\ UNCHANGED server
     ELSE Served(t, "done") /\ SoftDelete(At(act[t].path))

ServeRmdir(t) ==
  /\ act[t].kind = "rmdir"
  /\ Served(t, "done")
  /\ SoftDelete(UNION {At(p) : p \in Folder})

\* handleRestoreFile: some row with this path, with its latest revision.
ServeRestore(t) ==
  LET p == act[t].path IN
  /\ act[t].kind = "restore"
  /\ \E f \in At(p) \cup Trash(p) :
       IF f \in At(p) \/ At(p) # {} \/ \A v \in Versions : revs[f][v] = NoText
       THEN Served(t, "failed") /\ UNCHANGED server
       ELSE Served(t, "done")
            /\ Replace(f, revs[f][Max({v \in Versions : revs[f][v] # NoText})])

ServeUpload(t) ==
  LET p == act[t].path IN
  /\ act[t].kind = "upload"
  /\ IF At(p) # {}
     THEN Served(t, "done") /\ Replace(Listing[p], act[t].text)
     ELSE IF Rows = Files
     THEN Served(t, "failed") /\ UNCHANGED server
     ELSE Served(t, "done") /\ CreateRow(Fresh, p, act[t].text)

\* handleRevertFile: the revision must be of the file that is at the path now.
ServeRevert(t) ==
  LET p == act[t].path IN
  /\ act[t].kind = "revert"
  /\ IF At(p) = {} \/ act[t].file # Listing[p]
     THEN Served(t, "failed") /\ UNCHANGED server
     ELSE Served(t, "done") /\ Replace(Listing[p], act[t].text)

ServeOther(t) ==
  /\ act[t].kind \in {"open", "mkdir"}
  /\ Served(t, "done") /\ UNCHANGED server

Serve(t) ==
  \/ ServeCreate(t) \/ ServeMove(t) \/ ServeDelete(t) \/ ServeRmdir(t)
  \/ ServeRestore(t) \/ ServeUpload(t) \/ ServeRevert(t) \/ ServeOther(t)

ActLost(t) ==
  /\ Lose
  /\ act[t].phase \in {"sent", "done"}
  /\ act' = [act EXCEPT ![t].phase = "failed"]
  /\ UNCHANGED <<server, page, loads, save, hasty, moves>>

ActFails(t) ==
  /\ act[t].phase = "failed"
  /\ act' = [act EXCEPT ![t] = Idle]
  /\ UNCHANGED <<server, page, loads, save, hasty, moves, faults>>

\* A deletion drops the selection and the buffer before the list is fetched.
Dropped(t) ==
  \/ act[t].kind = "delete"
  \/ act[t].kind = "rmdir" /\ sel[t].path \in Folder

ActReturns(t) ==
  /\ act[t].phase = "done"
  /\ act' = [act EXCEPT ![t].phase = "listing"]
  /\ IF Dropped(t)
     THEN sel' = [sel EXCEPT ![t] = NoSel] /\ buf' = [buf EXCEPT ![t] = Empty]
     ELSE UNCHANGED <<sel, buf>>
  /\ UNCHANGED <<server, listed, conflict, loading, saving, loads, save, hasty, moves, faults>>

\* The list arrives; the file to be opened is loaded if the list has it, and if the
\* user agrees to drop what was unsaved when the handler started.
ActLists(t, agreed) ==
  /\ act[t].phase = "listing" /\ act[t].kind # "open"
  /\ agreed => act[t].dirty
  /\ listed' = [listed EXCEPT ![t] = Listing]
  /\ sel' = IF act[t].kind = "mkdir" THEN [sel EXCEPT ![t] = NoSel] ELSE sel
  /\ LET p == act[t].open IN
     IF p # NoPath /\ At(p) # {} /\ (act[t].dirty => agreed)
     THEN /\ loads' = [loads EXCEPT ![t] = @ \cup {Request(Listing[p], p)}]
          /\ loading' = [loading EXCEPT ![t] = TRUE]
     ELSE UNCHANGED <<loads, loading>>
  /\ act' = [act EXCEPT ![t] = Idle]
  /\ UNCHANGED <<server, buf, conflict, saving, save, hasty, moves, faults>>

\* The first list: some file of it is opened, the one in the address or the first.
Opens(t) ==
  /\ act[t].phase = "listing" /\ act[t].kind = "open"
  /\ listed' = [listed EXCEPT ![t] = Listing]
  /\ IF \A p \in Paths : At(p) = {}
     THEN act' = [act EXCEPT ![t] = Idle] /\ UNCHANGED <<loads, loading>>
     ELSE \E p \in {q \in Paths : At(q) # {}} :
            /\ loads' = [loads EXCEPT ![t] = {Request(Listing[p], p)}]
            /\ loading' = [loading EXCEPT ![t] = TRUE]
            /\ act' = [act EXCEPT ![t].phase = "opening"]
  /\ UNCHANGED <<server, sel, buf, conflict, saving, save, hasty, moves, faults>>

\* The site is generated again: SyncPublishedFilesFromMap clears revisions and trash
\* and counts the versions from 1 before it updates the files.
Regenerate(text) ==
  /\ "regenerate" \in habit.does /\ moves < habit.moves /\ MaxVersion >= 2
  /\ moves' = moves + 1
  /\ row' = [f \in Files |-> IF f \in Rows /\ ~row[f].gone THEN [row[f] EXCEPT !.ver = 2] ELSE NoRow]
  /\ disk' = [p \in Paths |-> IF At(p) = {} THEN disk[p] ELSE text]
  /\ revs' = [f \in Files |-> [v \in Versions |-> NoText]]
  /\ stored' = [f \in Files |-> [v \in Versions |->
        IF v = 2 /\ f \in Rows /\ ~row[f].gone THEN text ELSE NoText]]
  /\ raced' = (raced \/ \E f \in Files : Saving(f))
  /\ hasty' = Tabs
  /\ UNCHANGED <<held, page, loads, save, act, faults>>

-----------------------------------------------------------------------------
Clicks(t) ==
  \/ \E text \in Texts : Type(t, text)
  \/ \E p \in Paths : SelectFile(t, p)
  \/ SelectFolder(t) \/ RevertBuffer(t) \/ OnSave(t)
  \/ OnConflictOverwrite(t) \/ OnConflictCancel(t)
  \/ \E agreed \in BOOLEAN : OnConflictReload(t, agreed)
  \/ \E p \in Paths : OnCreateFile(t, p) \/ OnMove(t, p) \/ OnRestoreDeleted(t, p)
  \/ \E p \in Paths, text \in Texts : OnUpload(t, p, text)
  \/ \E v \in Versions : OnRevert(t, v)
  \/ OnCreateFolder(t) \/ OnDelete(t) \/ OnDeleteFolder(t)

SaveSteps(t) ==
  \/ SaveCheck(t) \/ SaveBytes(t) \/ SaveCount(t) \/ SaveDone(t)
  \/ SaveSucceeds(t) \/ SaveConflicts(t) \/ SaveFails(t) \/ SaveLists(t)

LoadSteps(t) == \E q \in loads[t] : LoadRow(t, q) \/ LoadBytes(t, q) \/ LoadReturns(t, q)

ActSteps(t) ==
  \/ Serve(t) \/ ActReturns(t) \/ ActFails(t) \/ Opens(t)
  \/ \E agreed \in BOOLEAN : ActLists(t, agreed)

Losses(t) == SaveLost(t) \/ ActLost(t) \/ \E q \in loads[t] : LoadLost(t, q)

Step ==
  \/ \E t \in Tabs : Clicks(t) \/ SaveSteps(t) \/ LoadSteps(t) \/ ActSteps(t) \/ Losses(t)
  \/ \E text \in Texts : Regenerate(text)

Next == Step /\ UNCHANGED habit

Spec == Init /\ [][Next]_vars

-----------------------------------------------------------------------------
(* Properties. *)

TypeOK ==
  /\ row \in [Files -> [path : Paths \cup {NoPath}, gone : BOOLEAN, ver : 0 .. MaxVersion]]
  /\ disk \in [Paths -> Texts \cup {NoText}]
  /\ revs \in [Files -> [Versions -> Texts \cup {NoText}]]
  /\ stored \in [Files -> [Versions -> Texts \cup {NoText}]]
  /\ listed \in [Tabs -> [Paths -> Files \cup {NoFile}]]
  /\ sel \in [Tabs -> [path : Paths \cup {NoPath}, file : Files \cup {NoFile}, ver : 0 .. MaxVersion]]
  /\ buf \in [Tabs -> [orig : Texts, cur : Texts, dirty : BOOLEAN]]
  /\ conflict \in [Tabs -> 0 .. MaxVersion]
  /\ loading \in [Tabs -> BOOLEAN] /\ saving \in [Tabs -> BOOLEAN]
  /\ hasty \subseteq Tabs /\ held \in [Paths -> SUBSET Files] /\ raced \in BOOLEAN

\* The user of t waited for every request, no path was given to another file, no two
\* writes of one file overlapped, and versions did not restart.
Calm(t) == t \notin hasty /\ ~raced /\ \A p \in Paths : Cardinality(held[p]) <= 1

\* A buffer marked clean is what the server stored as the version the tab will name in its
\* next save, or a later one, or is being stored as one: nothing the user typed is called
\* saved when it is not, and no text is attributed to a version it does not have.
CleanIsStored ==
  \A t \in Tabs :
    Calm(t) /\ sel[t] # NoSel /\ ~buf[t].dirty =>
      \/ \E v \in sel[t].ver .. MaxVersion : stored[sel[t].file][v] = buf[t].cur
      \/ \E u \in Tabs : save[u].phase = "written" /\ save[u].file = sel[t].file
                           /\ save[u].text = buf[t].cur

\* The version check protects other people's work: a save that was not an explicit
\* overwrite passes it only when the text on the server is the one its user began from.
NoBlindOverwrite ==
  [][\A t \in Tabs :
       save[t].phase = "sent" /\ save'[t].phase = "passed" /\ ~save[t].force /\ Calm(t)'
         => disk[save[t].path] = buf[t].orig]_vars

\* Whatever was once stored under a version that has been replaced, or whose file is in
\* the trash, is in the history and can be brought back.
ReplacedIsInHistory ==
  ~raced => \A f \in Rows : \A v \in Versions :
    (v < row[f].ver \/ (row[f].gone /\ v = row[f].ver)) =>
      stored[f][v] \in {NoText, revs[f][v]}
==============================================================================
