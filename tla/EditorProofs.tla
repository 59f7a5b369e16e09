---------------------------- MODULE EditorProofs ----------------------------
(***************************************************************************)
(* No text of a file is lost, and no tab takes another's work for its own, *)
(* for any number of tabs, files, paths and texts.                         *)
(*                                                                         *)
(* The store: what was once stored under a version and is replaced, or     *)
(* whose file is in the trash, is in file_revisions.  A save reads the     *)
(* version in one statement, records what it replaces, and writes the      *)
(* bytes, the version and the revision of the new text in later ones, and  *)
(* CreateRevision does nothing when there is a revision of that version.   *)
(* The invariant therefore says that a revision is what the file held at   *)
(* that version, that none is there of a version to come, where the bytes  *)
(* of the current version are, and what a save knows between its           *)
(* statements.                                                             *)
(*                                                                         *)
(* The tabs: Since says what it means that a text was that of a version,   *)
(* and Forward what a step of anybody leaves of it.  A tab whose user      *)
(* waits for every answer knows its buffer, the load that comes and the    *)
(* save that goes in this sense.                                           *)
(***************************************************************************)
EXTENDS EditorPage, ContentModeProofs, FiniteSetTheorems, WellFoundedInduction, TLAPS

VersionNumbers == 0 .. MaxVersion
Text == Texts \cup {NoText}
Place == Paths \cup {NoPath}
RowSet == [path : Place, gone : BOOLEAN, ver : VersionNumbers]
SelSet == {NoSel} \cup [path : Paths, file : Files, ver : VersionNumbers]
LoadSet == [file : Files, path : Paths, phase : {"sent", "row", "done", "failed"}, text : Text,
            ver : VersionNumbers, closes : BOOLEAN]
SaveSet == [phase : {"none", "sent", "passed", "written", "counted", "done", "conflict", "failed", "listing"},
            path : Place, file : Files \cup {NoFile}, text : Text, expect : VersionNumbers,
            ver : VersionNumbers, force : BOOLEAN]
ActSet == [kind : ActKinds \cup {NoAct}, phase : {"none", "sent", "done", "failed", "listing", "opening"},
           path : Place, to : Place, file : Files \cup {NoFile}, text : Text, dirty : BOOLEAN, open : Place]

StoreTyped ==
  /\ row \in [Files -> RowSet] /\ (\A f \in Rows : row[f].path \in Paths)
  /\ disk \in [Paths -> Text]
  /\ revs \in [Files -> [Versions -> Text]] /\ stored \in [Files -> [Versions -> Text]]
  /\ held \in [Paths -> SUBSET Files] /\ raced \in BOOLEAN

PageTyped ==
  /\ listed \in [Tabs -> [Paths -> Files \cup {NoFile}]]
  /\ sel \in [Tabs -> SelSet]
  /\ buf \in [Tabs -> [orig : Texts, cur : Texts, dirty : BOOLEAN]]
  /\ conflict \in [Tabs -> VersionNumbers]
  /\ loading \in [Tabs -> BOOLEAN] /\ saving \in [Tabs -> BOOLEAN]
  /\ hasty \subseteq Tabs

\* A request that goes to the server names what it is about.
LoadsTyped ==
  /\ loads \in [Tabs -> SUBSET LoadSet]
  /\ \A t \in Tabs : \A q \in loads[t] : q.phase = "done" => q.text \in Texts

Storing(t) == save[t].phase \in {"passed", "written", "counted"}
SavesTyped ==
  /\ save \in [Tabs -> SaveSet]
  /\ \A t \in Tabs : save[t].phase \in {"sent", "done"} \/ Storing(t) =>
       save[t].path \in Paths /\ save[t].text \in Texts
  /\ \A t \in Tabs : Storing(t) => save[t].file \in Files
  /\ \A t \in Tabs : save[t].phase # "none" => saving[t]

Asks(a) ==
  /\ a.kind \in {"create", "upload", "revert", "move", "delete", "restore"} => a.path \in Paths
  /\ a.kind \in {"create", "upload", "revert"} => a.text \in Texts
  /\ a.kind = "move" => a.to \in Paths
ActsTyped ==
  /\ act \in [Tabs -> ActSet]
  /\ \A t \in Tabs : act[t].phase = "sent" => Asks(act[t])

\* One file at a path, whose bytes are there.
OnePerPath ==
  \A f, g \in Rows : ~row[f].gone /\ ~row[g].gone /\ row[f].path = row[g].path => f = g
LiveHasBytes == \A f \in Rows : ~row[f].gone => disk[row[f].path] # NoText

NothingAhead ==
  \A f \in Files, v \in Versions : v > row[f].ver => revs[f][v] = NoText /\ stored[f][v] = NoText
RevisionsAreTrue ==
  \A f \in Files, v \in Versions : revs[f][v] # NoText => stored[f][v] \in {NoText, revs[f][v]}

\* The bytes of the current version are at the path, until a save of the file replaces them.
CurrentIsThere ==
  \A f \in Rows : ~row[f].gone =>
    \/ stored[f][row[f].ver] \in {NoText, disk[row[f].path]}
    \/ \E t \in Tabs : save[t].phase = "written" /\ save[t].file = f

OneSave == \A t, u \in Tabs : Storing(t) /\ Storing(u) /\ save[t].file = save[u].file => t = u

\* What a save knows between its statements.
SaveKnows(t) ==
  LET f == save[t].file IN
  /\ f \in Rows /\ ~row[f].gone /\ row[f].path = save[t].path
  /\ save[t].phase \in {"passed", "written"} => stored[f][row[f].ver] \in {NoText, revs[f][row[f].ver]}
  /\ save[t].phase \in {"written", "counted"} => disk[save[t].path] = save[t].text
  /\ save[t].phase = "counted" => stored[f][row[f].ver] = save[t].text
SavesKnow == \A t \in Tabs : Storing(t) => SaveKnows(t)

Replaced ==
  \A f \in Rows : \A v \in Versions :
    v < row[f].ver \/ (row[f].gone /\ v = row[f].ver) => stored[f][v] \in {NoText, revs[f][v]}

Kept == NothingAhead /\ RevisionsAreTrue /\ CurrentIsThere /\ OneSave /\ SavesKnow /\ Replaced

\* After two writes of one file overlapped nothing is promised of its revisions.
StoreInv == StoreTyped /\ OnePerPath /\ LiveHasBytes /\ (raced \/ Kept)

EditorInv == StoreInv /\ PageTyped /\ LoadsTyped /\ SavesTyped /\ ActsTyped

-----------------------------------------------------------------------------
(* What a tab knows of the file it shows, when its user waited for every request. *)

\* Whoever names a file by its path names one that was there.
RowsHeld == \A f \in Rows : f \in held[row[f].path]
TabHeld(t) ==
  /\ \A p \in Paths : listed[t][p] # NoFile => listed[t][p] \in held[p]
  /\ sel[t] # NoSel => sel[t].file \in held[sel[t].path]
  /\ \A q \in loads[t] : q.file \in held[q.path]
  /\ Storing(t) \/ save[t].phase = "done" => save[t].file \in held[save[t].path]

\* No bytes without a file, no version without its text.
Full ==
  /\ \A p \in Paths : disk[p] # NoText => At(p) # {}
  /\ \A f \in Rows : stored[f][row[f].ver] # NoText

Writing(f, text) == \E u \in Tabs : save[u].phase = "written" /\ save[u].file = f /\ save[u].text = text

\* text is what f held at version v or later, and what it holds now if v is its version.
Since(f, v, text) ==
  /\ f \in Rows /\ v \in Versions /\ v <= row[f].ver /\ text \in Texts
  /\ Writing(f, text) \/ \E w \in v .. MaxVersion : stored[f][w] = text
  /\ ~row[f].gone /\ row[f].ver = v /\ (\A other \in Texts : ~Writing(f, other)) =>
       disk[row[f].path] = text

\* Calm, with one file at most where Cardinality(held[p]) <= 1.
Patient(t) == t \notin hasty /\ ~raced /\ \A p \in Paths : \A f, g \in held[p] : f = g

Waits(t) == save[t] # NoSave => loads[t] = {} /\ act[t] = Idle
BufferKnows(t) ==
  /\ ~buf[t].dirty => buf[t].cur = buf[t].orig
  /\ sel[t] # NoSel => Since(sel[t].file, sel[t].ver, buf[t].orig)
LoadKnows(q) ==
  /\ q.phase = "row" => q.file \in Rows /\ q.ver \in Versions /\ q.ver <= row[q.file].ver
  /\ q.phase = "done" => Since(q.file, q.ver, q.text)
LoadsKnow(t) == \A q \in loads[t] : LoadKnows(q)
SaveIsOfBuffer(t) ==
  /\ save[t].phase \in {"sent", "passed", "written", "counted", "done"} =>
       /\ sel[t] # NoSel /\ save[t].path = sel[t].path /\ save[t].text = buf[t].cur
       /\ ~save[t].force => save[t].expect = sel[t].ver
  /\ save[t].phase = "done" => Since(save[t].file, save[t].ver, save[t].text)
TabKnows(t) == Waits(t) /\ BufferKnows(t) /\ LoadsKnow(t) /\ SaveIsOfBuffer(t)

TabInv ==
  /\ RowsHeld
  /\ raced \/ Full
  /\ \A t \in Tabs : TabHeld(t) /\ (Patient(t) => TabKnows(t))

\* What a step of anybody does for those who know a text: versions and rows go on, no text
\* of a version changes, what is being written gets a version, and a file that keeps its
\* version keeps its bytes.
Forward ==
  /\ \A f \in Rows : f \in Rows' /\ row[f].ver <= row'[f].ver
  /\ \A f \in Rows, v \in Versions : stored[f][v] # NoText => stored'[f][v] = stored[f][v]
  /\ \A f \in Rows, text \in Texts :
       Writing(f, text) => Writing(f, text)' \/ \E w \in Versions : w >= row[f].ver /\ stored'[f][w] = text
  /\ \A f \in Rows : ~row'[f].gone /\ row'[f].ver = row[f].ver /\ (\A text \in Texts : ~Writing(f, text)') =>
       /\ ~row[f].gone /\ (\A text \in Texts : ~Writing(f, text))
       /\ disk'[row'[f].path] = disk[row[f].path]
Onward ==
  /\ raced => raced'
  /\ \A p \in Paths : held[p] \subseteq held'[p]
  /\ RowsHeld => RowsHeld'
  /\ ~raced' /\ Full => Forward /\ Full'

-----------------------------------------------------------------------------
(* What the operators of the file store return. *)

\* The row a new file gets is one that was free.
LEMMA FreshIs ==
  ASSUME Rows # Files
  PROVE  Fresh \in Files \ Rows
  <1>1. \E f \in Files : f \notin Rows  BY DEF Rows
  <1> QED  BY <1>1 DEF Fresh

\* The list of files names the file that is at the path.
LEMMA ListingIs ==
  ASSUME NEW p \in Paths, At(p) # {}
  PROVE  Listing[p] \in At(p)
  <1>1. Listing[p] = CHOOSE f \in At(p) : TRUE  BY DEF Listing
  <1> QED  BY <1>1

LEMMA ListingTyped == Listing \in [Paths -> Files \cup {NoFile}]
  <1>1. ASSUME NEW p \in Paths
        PROVE  (IF At(p) = {} THEN NoFile ELSE CHOOSE f \in At(p) : TRUE) \in Files \cup {NoFile}
    <2>1. CASE At(p) = {}  BY <2>1
    <2>2. CASE At(p) # {}
      <3>1. (CHOOSE f \in At(p) : TRUE) \in At(p)  BY <2>2
      <3> QED  BY <2>2, <3>1 DEF At, Rows
    <2> QED  BY <2>1, <2>2
  <1> QED  BY <1>1 DEF Listing

\* CreateRevision writes one version, and only when that version has no revision.
LEMMA AddRevisionIs ==
  ASSUME NEW r \in [Versions -> Text], NEW v \in Versions, NEW text \in Text
  PROVE  /\ AddRevision(r, v, text) \in [Versions -> Text]
         /\ \A w \in Versions :
              AddRevision(r, v, text)[w] = IF w = v /\ r[v] = NoText THEN text ELSE r[w]
  BY DEF AddRevision

\* The latest of some versions is one of them.
LEMMA LatestIs ==
  ASSUME NEW S \in SUBSET Versions, S # {}
  PROVE  Max(S) \in S
  <1> DEFINE T == {MaxVersion - v : v \in S}
             Less == OpToRel(<, Nat)
  <1>0. MaxVersion \in Nat  BY EditorAssumption
  <1>1. T \subseteq Nat /\ T # {}
    <2>1. \A v \in S : MaxVersion - v \in Nat  BY <1>0 DEF Versions
    <2> QED  BY <2>1
  <1>2. PICK m \in T : \A n \in T : ~(<<n, m>> \in Less)
    BY <1>1, NatLessThanWellFounded, WFMin
  <1>3. PICK x \in S : m = MaxVersion - x  BY <1>2
  <1>4. ASSUME NEW y \in S PROVE x >= y
    <2>1. MaxVersion - y \in T  OBVIOUS
    <2>2. ~(<<MaxVersion - y, m>> \in Less)  BY <1>2, <2>1
    <2>3. MaxVersion - y \in Nat /\ m \in Nat  BY <2>1, <1>1, <1>2
    <2>4. ~(MaxVersion - y < m)  BY <2>2, <2>3 DEF OpToRel
    <2>5. x \in Nat /\ y \in Nat  BY DEF Versions
    <2> QED  BY <2>3, <2>4, <2>5, <1>0, <1>3
  <1> QED  BY <1>3, <1>4 DEF Max

-----------------------------------------------------------------------------
(* The handlers of the server that write a file in one step. *)

\* A new version of a file in one step: its baseline, its bytes and its revision go together.
LEMMA ReplaceKeeps ==
  ASSUME StoreInv, SavesTyped, UNCHANGED save,
         NEW f \in Rows, NEW text \in Texts, Replace(f, text),
         ~row[f].gone \/ At(row[f].path) = {}
  PROVE  StoreInv' /\ Onward
  <1> DEFINE v == row[f].ver + 1
             u == row[f].ver
             p == row[f].path
             first == IF disk[p] = NoText THEN revs[f] ELSE AddRevision(revs[f], u, disk[p])
  <1>a. f \in Files /\ row[f] \in RowSet /\ p \in Paths /\ u \in Versions /\ v \in Versions
        /\ disk[p] \in Text /\ text \in Text /\ text # NoText /\ v = u + 1 /\ u \in Nat
    BY EditorAssumption DEF StoreInv, StoreTyped, Rows, RowSet, Versions, VersionNumbers, Replace, Text
  <1>b. /\ row' = [row EXCEPT ![f].ver = v, ![f].gone = FALSE]
        /\ disk' = [disk EXCEPT ![p] = text]
        /\ revs' = [revs EXCEPT ![f] = AddRevision(first, v, text)]
        /\ stored' = [stored EXCEPT ![f][v] = text]
        /\ raced' = (raced \/ Saving(f))
        /\ held' = held
    BY DEF Replace
  <1>c. row[f].path \in Paths /\ revs[f] \in [Versions -> Text] /\ stored[f] \in [Versions -> Text]
    BY <1>a DEF StoreInv, StoreTyped
  <1>d. first \in [Versions -> Text]
        /\ \A w \in Versions : first[w] = IF disk[p] # NoText /\ w = u /\ revs[f][u] = NoText
                                           THEN disk[p] ELSE revs[f][w]
    <2>1. CASE disk[p] = NoText  BY <2>1, <1>c
    <2>2. CASE disk[p] # NoText
      <3>1. first = AddRevision(revs[f], u, disk[p])  BY <2>2
      <3>2. AddRevision(revs[f], u, disk[p]) \in [Versions -> Text]
            /\ \A w \in Versions : AddRevision(revs[f], u, disk[p])[w] =
                 IF w = u /\ revs[f][u] = NoText THEN disk[p] ELSE revs[f][w]
        BY <1>a, <1>c, AddRevisionIs
      <3> HIDE DEF first
      <3> QED  BY <2>2, <3>1, <3>2
    <2> QED  BY <2>1, <2>2
  <1>e. AddRevision(first, v, text) \in [Versions -> Text]
        /\ \A w \in Versions : AddRevision(first, v, text)[w] =
             IF w = v /\ first[v] = NoText THEN text ELSE first[w]
    <2> HIDE DEF first
    <2> QED  BY <1>a, <1>d, AddRevisionIs
  <1> DEFINE new == [row[f] EXCEPT !.ver = v, !.gone = FALSE]
  <1>k. new \in RowSet /\ new.path = p /\ ~new.gone /\ new.ver = v
    <2>1. v \in VersionNumbers  BY <1>a, EditorAssumption DEF Versions, VersionNumbers
    <2> QED  BY <2>1, <1>a DEF RowSet
  <1> HIDE DEF new
  <1>g. row' \in [Files -> RowSet] /\ (\A g \in Files : row'[g] = IF g = f THEN new ELSE row[g])
    <2>1. row' = [row EXCEPT ![f] = new]  BY <1>b DEF new
    <2>2. row \in [Files -> RowSet]  BY DEF StoreInv, StoreTyped
    <2> QED  BY <2>1, <2>2, <1>a, <1>k
  <1>l. row'[f].path = p /\ ~row'[f].gone /\ row'[f].ver = v  BY <1>g, <1>k, <1>a
  <1>h. Rows' = Rows  BY <1>a, <1>g, <1>l DEF Rows, Versions, RowSet
  <1>i. \A q \in Paths : disk'[q] = IF q = p THEN text ELSE disk[q]
    BY <1>a, <1>b DEF StoreInv, StoreTyped
  <1>1. StoreTyped'
    <2>1. \A g \in Rows' : row'[g].path \in Paths  BY <1>g, <1>l, <1>h, <1>a DEF StoreInv, StoreTyped, Rows
    <2>2. disk' \in [Paths -> Text]  BY <1>a, <1>b DEF StoreInv, StoreTyped
    <2>3. revs' \in [Files -> [Versions -> Text]]  BY <1>a, <1>b, <1>e DEF StoreInv, StoreTyped
    <2>4. stored' \in [Files -> [Versions -> Text]]  BY <1>a, <1>b DEF StoreInv, StoreTyped
    <2>5. held' \in [Paths -> SUBSET Files] /\ raced' \in BOOLEAN  BY <1>b DEF StoreInv, StoreTyped, Saving
    <2> QED  BY <2>1, <2>2, <2>3, <2>4, <2>5, <1>g, <1>l DEF StoreTyped
  <1>2. ASSUME NEW g \in Rows, ~row[g].gone, g # f PROVE row[g].path # p
    <2>1. row[f].gone => At(p) = {}  OBVIOUS
    <2> QED  BY <1>2, <2>1 DEF StoreInv, OnePerPath, At
  <1>3. OnePerPath'  BY <1>2, <1>g, <1>l, <1>h DEF OnePerPath, StoreInv, Rows
  <1>4. LiveHasBytes'
    BY <1>a, <1>2, <1>g, <1>l, <1>h, <1>i DEF LiveHasBytes, StoreInv, StoreTyped, Rows
  <1>5. ASSUME ~raced', Kept PROVE Kept'
    <2>1. \A t \in Tabs : Storing(t) => save[t].file # f  BY <1>b, <1>5 DEF Saving, Storing
    <2>2. stored[f][u] \in {NoText, revs[f][u], disk[p]} /\ (row[f].gone => stored[f][u] \in {NoText, revs[f][u]})
          /\ (revs[f][u] # NoText => stored[f][u] \in {NoText, revs[f][u]})
          /\ (~row[f].gone => disk[p] # NoText)
      BY <2>1, <1>a, <1>5 DEF Kept, CurrentIsThere, Replaced, RevisionsAreTrue, LiveHasBytes, StoreInv, Storing
    <2>3. revs[f][v] = NoText  BY <1>a, <1>5 DEF Kept, NothingAhead, RowSet, Versions, VersionNumbers
    <2>4. \A w \in Versions :
            revs'[f][w] = IF w = v THEN text
                          ELSE IF disk[p] # NoText /\ w = u /\ revs[f][u] = NoText THEN disk[p] ELSE revs[f][w]
      BY <2>3, <1>a, <1>b, <1>d, <1>e DEF StoreInv, StoreTyped
    <2>5. \A w \in Versions : stored'[f][w] = IF w = v THEN text ELSE stored[f][w]
      BY <1>a, <1>b DEF StoreInv, StoreTyped
    <2>6. \A g \in Files : g # f => revs'[g] = revs[g] /\ stored'[g] = stored[g]
      BY <1>a, <1>b DEF StoreInv, StoreTyped
    <2>7. NothingAhead'
      <3> SUFFICES ASSUME NEW g \in Files, NEW w \in Versions, w > row'[g].ver
                   PROVE  revs'[g][w] = NoText /\ stored'[g][w] = NoText
        BY DEF NothingAhead
      <3>1. CASE g # f  BY <3>1, <1>5, <1>g, <1>l, <2>6 DEF Kept, NothingAhead
      <3>2. CASE g = f
        <4>1. w > v /\ w # v /\ w # u /\ w > u  BY <3>2, <1>g, <1>l, <1>a DEF Versions
        <4>2. revs[f][w] = NoText /\ stored[f][w] = NoText  BY <4>1, <1>5 DEF Kept, NothingAhead, Rows
        <4> QED  BY <3>2, <4>1, <4>2, <2>4, <2>5
      <3> QED  BY <3>1, <3>2
    <2>8. RevisionsAreTrue'
      <3> SUFFICES ASSUME NEW g \in Files, NEW w \in Versions, revs'[g][w] # NoText
                   PROVE  stored'[g][w] \in {NoText, revs'[g][w]}
        BY DEF RevisionsAreTrue
      <3>1. CASE g # f  BY <3>1, <1>5, <2>6 DEF Kept, RevisionsAreTrue
      <3>2. CASE g = f  BY <3>2, <1>5, <1>a, <2>2, <2>4, <2>5 DEF Kept, RevisionsAreTrue
      <3> QED  BY <3>1, <3>2
    <2>9. CurrentIsThere'
      <3> SUFFICES ASSUME NEW g \in Rows, ~row'[g].gone
                   PROVE  \/ stored'[g][row'[g].ver] \in {NoText, disk'[row'[g].path]}
                          \/ \E t \in Tabs : save'[t].phase = "written" /\ save'[t].file = g
        BY <1>h DEF CurrentIsThere
      <3>1. CASE g = f  BY <3>1, <1>a, <1>g, <1>l, <1>i, <2>5
      <3>2. CASE g # f
        <4>1. row'[g] = row[g] /\ ~row[g].gone /\ row[g].path # p /\ row[g].path \in Paths /\ g \in Files
          BY <3>2, <1>2, <1>g, <1>l DEF Rows, StoreInv, StoreTyped
        <4>2. disk'[row[g].path] = disk[row[g].path] /\ stored'[g] = stored[g]  BY <3>2, <4>1, <1>i, <2>6
        <4> QED  BY <4>1, <4>2, <1>5 DEF Kept, CurrentIsThere
      <3> QED  BY <3>1, <3>2
    <2>10. OneSave'  BY <1>5 DEF Kept, OneSave, Storing
    <2>11. SavesKnow'
      <3> SUFFICES ASSUME NEW t \in Tabs, Storing(t) PROVE SaveKnows(t)'
        BY DEF SavesKnow, Storing
      <3> DEFINE g == save[t].file
      <3>1. SaveKnows(t) /\ g # f  BY <1>5, <2>1 DEF Kept, SavesKnow
      <3>2. g \in Rows /\ ~row[g].gone /\ row[g].path = save[t].path /\ g \in Files
        BY <3>1 DEF SaveKnows, Rows
      <3>3. row'[g] = row[g] /\ save[t].path # p /\ save[t].path \in Paths
        BY <3>1, <3>2, <1>2, <1>g, <1>l DEF StoreInv, StoreTyped
      <3>4. disk'[save[t].path] = disk[save[t].path] /\ revs'[g] = revs[g] /\ stored'[g] = stored[g]
        BY <3>1, <3>2, <3>3, <1>i, <2>6
      <3>5. save'[t] = save[t]  OBVIOUS
      <3> QED  BY <3>1, <3>2, <3>3, <3>4, <3>5, <1>h DEF SaveKnows
    <2>12. Replaced'
      <3> SUFFICES ASSUME NEW g \in Rows, NEW w \in Versions,
                          w < row'[g].ver \/ (row'[g].gone /\ w = row'[g].ver)
                   PROVE  stored'[g][w] \in {NoText, revs'[g][w]}
        BY <1>h DEF Replaced
      <3>1. CASE g # f  BY <3>1, <1>5, <1>g, <1>l, <2>6 DEF Kept, Replaced, Rows
      <3>2. CASE g = f
        <4>1. w < v  BY <3>2, <1>g, <1>l, <1>a
        <4>2. w # v /\ (w = u \/ w < u)  BY <4>1, <1>a DEF Versions
        <4>3. CASE w = u  BY <3>2, <4>2, <4>3, <2>2, <2>4, <2>5
        <4>4. CASE w < u
          <5>1. stored[f][w] \in {NoText, revs[f][w]}  BY <4>4, <1>5 DEF Kept, Replaced
          <5>2. w # u /\ w # v  BY <4>4, <1>a DEF Versions
          <5> QED  BY <3>2, <5>1, <5>2, <2>4, <2>5
        <4> QED  BY <4>2, <4>3, <4>4
      <3> QED  BY <3>1, <3>2
    <2> QED  BY <2>7, <2>8, <2>9, <2>10, <2>11, <2>12 DEF Kept
  <1>6. raced => raced'  BY <1>b
  <1>7. ASSUME ~raced', Full PROVE Forward /\ Full'
    <2>1. stored[f][v] = NoText
      BY <1>6, <1>7, <1>a DEF StoreInv, Kept, NothingAhead
    <2>2. stored' \in [Files -> [Versions -> Text]] /\ stored'[f][v] = text
          /\ (\A w \in Versions : w # v => stored'[f][w] = stored[f][w])
          /\ (\A g \in Files : g # f => stored'[g] = stored[g])
      BY <1>a, <1>b DEF StoreInv, StoreTyped
    <2>3. \A g, x : Writing(g, x)' <=> Writing(g, x)  BY DEF Writing
    <2>4. Forward
      <3>1. \A g \in Rows : g \in Rows' /\ row[g].ver <= row'[g].ver
        <4>1. \A g \in Rows : g \in Files /\ row[g].ver <= row[g].ver
          BY DEF Rows, StoreInv, StoreTyped, RowSet, VersionNumbers
        <4>2. u <= v  BY <1>a
        <4> QED  BY <4>1, <4>2, <1>g, <1>l, <1>h
      <3>2. \A g \in Rows, w \in Versions : stored[g][w] # NoText => stored'[g][w] = stored[g][w]
        BY <2>1, <2>2 DEF Rows
      <3>3. ASSUME NEW g \in Rows, ~row'[g].gone, row'[g].ver = row[g].ver
            PROVE  ~row[g].gone /\ disk'[row'[g].path] = disk[row[g].path]
        <4>1. g # f /\ g \in Files  BY <3>3, <1>a, <1>l DEF Rows
        <4>2. row'[g] = row[g]  BY <4>1, <1>g
        <4>3. row[g].path # p /\ row[g].path \in Paths  BY <3>3, <4>1, <4>2, <1>2 DEF StoreInv, StoreTyped
        <4> QED  BY <3>3, <4>2, <4>3, <1>i
      <3> QED  BY <2>3, <3>1, <3>2, <3>3 DEF Forward
    <2>5. ASSUME NEW q \in Paths, disk'[q] # NoText PROVE At(q)' # {}
      <3>1. CASE q = p
        <4>1. f \in At(q)'  BY <3>1, <1>h, <1>l DEF At
        <4> QED  BY <4>1
      <3>2. CASE q # p
        <4>1. PICK g \in At(q) : TRUE  BY <1>7, <1>i, <2>5, <3>2 DEF Full
        <4>2. g \in At(q)'  BY <3>2, <1>g, <1>h DEF At, Rows
        <4> QED  BY <4>2
      <3> QED  BY <3>1, <3>2
    <2>6. \A g \in Rows' : stored'[g][row'[g].ver] # NoText
      BY <1>7, <1>a, <1>g, <1>l, <1>h, <2>2 DEF Full, Rows
    <2> QED  BY <2>4, <2>5, <2>6 DEF Full
  <1>8. (\A q \in Paths : held[q] \subseteq held'[q]) /\ (RowsHeld => RowsHeld')
    BY <1>a, <1>b, <1>g, <1>l, <1>h DEF RowsHeld, Rows
  <1> QED  BY <1>1, <1>3, <1>4, <1>5, <1>6, <1>7, <1>8 DEF StoreInv, Onward

\* A new file gets a row that was free, at a path where no file is.
LEMMA CreateRowKeeps ==
  ASSUME StoreInv, SavesTyped, UNCHANGED save,
         NEW f \in Files \ Rows, NEW p \in Paths, NEW text \in Texts, CreateRow(f, p, text),
         At(p) = {}
  PROVE  StoreInv' /\ Onward
  <1> DEFINE new == [path |-> p, gone |-> FALSE, ver |-> 1]
  <1>a. /\ row' = [row EXCEPT ![f] = new]
        /\ disk' = [disk EXCEPT ![p] = text]
        /\ revs' = [revs EXCEPT ![f] = AddRevision(@, 1, text)]
        /\ stored' = [stored EXCEPT ![f][1] = text]
        /\ held' = [held EXCEPT ![p] = @ \cup {f}]
        /\ raced' = raced
    BY DEF CreateRow
  <1>b. 1 \in Versions /\ 1 \in VersionNumbers /\ text \in Text /\ text # NoText
    BY EditorAssumption DEF Versions, VersionNumbers, Text
  <1>c. new \in RowSet /\ new.path = p /\ ~new.gone /\ new.ver = 1  BY <1>b DEF RowSet, Place
  <1> HIDE DEF new
  <1>d. row' \in [Files -> RowSet] /\ (\A g \in Files : row'[g] = IF g = f THEN new ELSE row[g])
    BY <1>a, <1>c DEF StoreInv, StoreTyped
  <1>e. row'[f].path = p /\ ~row'[f].gone /\ row'[f].ver = 1  BY <1>c, <1>d
  <1>f. Rows' = Rows \cup {f}  BY <1>d, <1>e DEF Rows
  <1>g. row[f].ver = 0  BY DEF Rows, StoreInv, StoreTyped, RowSet, VersionNumbers
  <1>h. \A q \in Paths : disk'[q] = IF q = p THEN text ELSE disk[q]
    BY <1>a DEF StoreInv, StoreTyped
  <1>i. AddRevision(revs[f], 1, text) \in [Versions -> Text]
        /\ \A w \in Versions : AddRevision(revs[f], 1, text)[w] =
             IF w = 1 /\ revs[f][1] = NoText THEN text ELSE revs[f][w]
    <2>1. revs[f] \in [Versions -> Text]  BY DEF StoreInv, StoreTyped
    <2> QED  BY <2>1, <1>b, AddRevisionIs
  <1>1. StoreTyped'
    <2>1. \A g \in Rows' : row'[g].path \in Paths  BY <1>d, <1>e, <1>f DEF StoreInv, StoreTyped, Rows
    <2>2. disk' \in [Paths -> Text]  BY <1>a, <1>b DEF StoreInv, StoreTyped
    <2>3. revs' \in [Files -> [Versions -> Text]]  BY <1>a, <1>i DEF StoreInv, StoreTyped
    <2>4. stored' \in [Files -> [Versions -> Text]]  BY <1>a, <1>b DEF StoreInv, StoreTyped
    <2>5. held' \in [Paths -> SUBSET Files] /\ raced' \in BOOLEAN  BY <1>a DEF StoreInv, StoreTyped
    <2> QED  BY <2>1, <2>2, <2>3, <2>4, <2>5, <1>d DEF StoreTyped
  <1>2. ASSUME NEW g \in Rows, ~row[g].gone PROVE row[g].path # p /\ g # f
    BY <1>2 DEF At
  <1>3. OnePerPath'
    <2> SUFFICES ASSUME NEW g \in Rows', NEW h \in Rows', ~row'[g].gone, ~row'[h].gone,
                        row'[g].path = row'[h].path
                 PROVE  g = h
      BY DEF OnePerPath
    <2>1. CASE g # f /\ h # f
      BY <2>1, <1>d, <1>f DEF StoreInv, OnePerPath, Rows
    <2>2. CASE g = f \/ h = f
      BY <2>2, <1>2, <1>d, <1>e, <1>f DEF Rows
    <2> QED  BY <2>1, <2>2
  <1>4. LiveHasBytes'
    <2> SUFFICES ASSUME NEW g \in Rows', ~row'[g].gone PROVE disk'[row'[g].path] # NoText
      BY DEF LiveHasBytes
    <2>1. CASE g = f  BY <2>1, <1>b, <1>e, <1>h
    <2>2. CASE g # f
      <3>1. g \in Rows /\ row'[g] = row[g] /\ g \in Files  BY <2>2, <1>d, <1>f DEF Rows
      <3>2. row[g].path \in Paths /\ disk[row[g].path] # NoText /\ row[g].path # p
        BY <3>1, <1>2 DEF StoreInv, StoreTyped, LiveHasBytes
      <3> QED  BY <3>1, <3>2, <1>h
    <2> QED  BY <2>1, <2>2
  <1>5. ASSUME Kept PROVE Kept'
    <2>1. \A w \in Versions : revs[f][w] = NoText /\ stored[f][w] = NoText
      BY <1>5, <1>g DEF Kept, NothingAhead, Versions
    <2>2. \A w \in Versions : /\ revs'[f][w] = IF w = 1 THEN text ELSE NoText
                              /\ stored'[f][w] = IF w = 1 THEN text ELSE NoText
      BY <2>1, <1>a, <1>b, <1>i DEF StoreInv, StoreTyped
    <2>3. \A g \in Files : g # f => revs'[g] = revs[g] /\ stored'[g] = stored[g]
      BY <1>a DEF StoreInv, StoreTyped
    <2>4. NothingAhead'
      BY <1>5, <1>d, <1>e, <2>2, <2>3 DEF Kept, NothingAhead, Versions
    <2>5. RevisionsAreTrue'
      BY <1>5, <2>2, <2>3 DEF Kept, RevisionsAreTrue
    <2>6. CurrentIsThere'
      <3> SUFFICES ASSUME NEW g \in Rows', ~row'[g].gone
                   PROVE  \/ stored'[g][row'[g].ver] \in {NoText, disk'[row'[g].path]}
                          \/ \E t \in Tabs : save'[t].phase = "written" /\ save'[t].file = g
        BY DEF CurrentIsThere
      <3>1. CASE g = f  BY <3>1, <1>b, <1>e, <1>h, <2>2
      <3>2. CASE g # f
        <4>1. row'[g] = row[g] /\ ~row[g].gone /\ row[g].path # p /\ row[g].path \in Paths
              /\ g \in Files /\ g \in Rows
          BY <3>2, <1>2, <1>d, <1>f DEF Rows, StoreInv, StoreTyped
        <4>2. disk'[row[g].path] = disk[row[g].path] /\ stored'[g] = stored[g]  BY <3>2, <4>1, <1>h, <2>3
        <4> QED  BY <4>1, <4>2, <1>5 DEF Kept, CurrentIsThere
      <3> QED  BY <3>1, <3>2
    <2>7. OneSave'  BY <1>5 DEF Kept, OneSave, Storing
    <2>8. SavesKnow'
      <3> SUFFICES ASSUME NEW t \in Tabs, Storing(t) PROVE SaveKnows(t)'
        BY DEF SavesKnow, Storing
      <3> DEFINE g == save[t].file
      <3>1. SaveKnows(t)  BY <1>5 DEF Kept, SavesKnow
      <3>2. g \in Rows /\ ~row[g].gone /\ row[g].path = save[t].path /\ g \in Files
        BY <3>1 DEF SaveKnows, Rows
      <3>3. row'[g] = row[g] /\ save[t].path # p /\ save[t].path \in Paths /\ g # f
        BY <3>2, <1>2, <1>d DEF StoreInv, StoreTyped
      <3>4. disk'[save[t].path] = disk[save[t].path] /\ revs'[g] = revs[g] /\ stored'[g] = stored[g]
        BY <3>2, <3>3, <1>h, <2>3
      <3>5. save'[t] = save[t]  OBVIOUS
      <3> QED  BY <3>1, <3>2, <3>3, <3>4, <3>5, <1>f DEF SaveKnows
    <2>9. Replaced'
      <3> SUFFICES ASSUME NEW g \in Rows', NEW w \in Versions,
                          w < row'[g].ver \/ (row'[g].gone /\ w = row'[g].ver)
                   PROVE  stored'[g][w] \in {NoText, revs'[g][w]}
        BY DEF Replaced
      <3>1. CASE g # f  BY <3>1, <1>5, <1>d, <1>f, <2>3 DEF Kept, Replaced, Rows
      <3>2. CASE g = f  BY <3>2, <2>2
      <3> QED  BY <3>1, <3>2
    <2> QED  BY <2>4, <2>5, <2>6, <2>7, <2>8, <2>9 DEF Kept
  <1>6. ASSUME Full PROVE Forward /\ Full'
    <2>1. stored' \in [Files -> [Versions -> Text]] /\ stored'[f][1] = text
          /\ (\A g \in Files : g # f => stored'[g] = stored[g])
      BY <1>a, <1>b DEF StoreInv, StoreTyped
    <2>2. \A g, x : Writing(g, x)' <=> Writing(g, x)  BY DEF Writing
    <2>3. \A g \in Rows : g \in Files /\ g # f /\ g \in Rows' /\ row'[g] = row[g] /\ stored'[g] = stored[g]
      BY <1>d, <1>f, <2>1 DEF Rows
    <2>4. Forward
      <3>1. \A g \in Rows : row[g].ver <= row[g].ver
        BY DEF Rows, StoreInv, StoreTyped, RowSet, VersionNumbers
      <3>2. ASSUME NEW g \in Rows, ~row'[g].gone
            PROVE  ~row[g].gone /\ disk'[row'[g].path] = disk[row[g].path]
        BY <3>2, <2>3, <1>2, <1>h DEF StoreInv, StoreTyped
      <3> QED  BY <2>2, <2>3, <3>1, <3>2 DEF Forward
    <2>5. ASSUME NEW q \in Paths, disk'[q] # NoText PROVE At(q)' # {}
      <3>1. CASE q = p
        <4>1. f \in At(q)'  BY <3>1, <1>e, <1>f DEF At
        <4> QED  BY <4>1
      <3>2. CASE q # p
        <4>1. PICK g \in At(q) : TRUE  BY <1>6, <1>h, <2>5, <3>2 DEF Full
        <4>2. g \in At(q)'  BY <2>3 DEF At
        <4> QED  BY <4>2
      <3> QED  BY <3>1, <3>2
    <2>6. \A g \in Rows' : stored'[g][row'[g].ver] # NoText
      BY <1>6, <1>b, <1>e, <1>f, <2>1, <2>3 DEF Full
    <2> QED  BY <2>4, <2>5, <2>6 DEF Full
  <1>7. \A q \in Paths : held'[q] = IF q = p THEN held[p] \cup {f} ELSE held[q]
    BY <1>a DEF StoreInv, StoreTyped
  <1>8. ASSUME RowsHeld PROVE RowsHeld'
    <2> SUFFICES ASSUME NEW g \in Rows' PROVE g \in held'[row'[g].path]
      BY DEF RowsHeld
    <2>1. CASE g = f
      <3>1. f \in held'[p]  BY <1>7
      <3> QED  BY <2>1, <3>1, <1>e
    <2>2. CASE g # f
      <3>1. g \in Rows /\ row'[g] = row[g]  BY <2>2, <1>d, <1>f DEF Rows
      <3>2. g \in held[row[g].path] /\ row[g].path \in Paths
        BY <3>1, <1>8 DEF RowsHeld, StoreInv, StoreTyped
      <3> QED  BY <3>1, <3>2, <1>7
    <2> QED  BY <2>1, <2>2
  <1> QED  BY <1>a, <1>1, <1>3, <1>4, <1>5, <1>6, <1>7, <1>8 DEF StoreInv, Onward

\* A move gives a file a path where no bytes are, and takes its bytes along.
LEMMA MoveKeeps ==
  ASSUME StoreInv, SavesTyped, UNCHANGED <<save, revs, stored>>,
         NEW p \in Paths, NEW q \in Paths, disk[q] = NoText, disk[p] # NoText,
         disk' = [disk EXCEPT ![q] = disk[p], ![p] = NoText],
         row' = [f \in Files |-> IF f \in At(p) THEN [row[f] EXCEPT !.path = q] ELSE row[f]],
         held' = [held EXCEPT ![q] = @ \cup At(p)],
         raced' = (raced \/ \E f \in At(p) : Saving(f))
  PROVE  StoreInv' /\ Onward
  <1>a. row \in [Files -> RowSet] /\ (\A g \in Rows : row[g].path \in Paths)
    BY DEF StoreInv, StoreTyped
  <1>b. At(p) \subseteq Files /\ q \in Place /\ p # q  BY DEF At, Rows, Place
  <1>c. \A f \in Files : /\ [row[f] EXCEPT !.path = q] \in RowSet
                         /\ [row[f] EXCEPT !.path = q].path = q
                         /\ [row[f] EXCEPT !.path = q].gone = row[f].gone
                         /\ [row[f] EXCEPT !.path = q].ver = row[f].ver
    BY <1>a, <1>b DEF RowSet
  <1>d. \A f \in Files : row'[f].gone = row[f].gone /\ row'[f].ver = row[f].ver
                         /\ row'[f].path = IF f \in At(p) THEN q ELSE row[f].path
    BY <1>c
  <1>e. \A f \in Files : row'[f] \in RowSet  BY <1>a, <1>c
  <1>f. Rows' = Rows  BY <1>d DEF Rows
  <1>g. \A r \in Paths : disk'[r] = IF r = p THEN NoText ELSE IF r = q THEN disk[p] ELSE disk[r]
    BY <1>b DEF StoreInv, StoreTyped
  <1>1. StoreTyped'
    <2>1. row' \in [Files -> RowSet]  BY <1>e
    <2>2. \A g \in Rows' : row'[g].path \in Paths  BY <1>a, <1>d, <1>f DEF Rows
    <2>3. disk' \in [Paths -> Text]  BY DEF StoreInv, StoreTyped, Text
    <2>4. revs' \in [Files -> [Versions -> Text]] /\ stored' \in [Files -> [Versions -> Text]]
      BY DEF StoreInv, StoreTyped
    <2>5. held' \in [Paths -> SUBSET Files] /\ raced' \in BOOLEAN
      BY <1>b DEF StoreInv, StoreTyped, Saving
    <2> QED  BY <2>1, <2>2, <2>3, <2>4, <2>5 DEF StoreTyped
  \* Who is where: the mover at q, alone; everybody else where he was, which is neither.
  <1>2. ASSUME NEW g \in Rows, ~row[g].gone, g \notin At(p)
        PROVE  row[g].path # p /\ row[g].path # q /\ row[g].path \in Paths
    BY <1>2, <1>a DEF At, StoreInv, LiveHasBytes
  <1>3. \A g, h \in At(p) : g = h  BY DEF At, StoreInv, OnePerPath
  <1>4. OnePerPath'
    <2> SUFFICES ASSUME NEW g \in Rows, NEW h \in Rows, ~row'[g].gone, ~row'[h].gone,
                        row'[g].path = row'[h].path
                 PROVE  g = h
      BY <1>f DEF OnePerPath
    <2>1. g \in Files /\ h \in Files /\ ~row[g].gone /\ ~row[h].gone  BY <1>d DEF Rows
    <2>2. CASE g \in At(p) /\ h \in At(p)  BY <2>2, <1>3
    <2>3. CASE g \in At(p) /\ h \notin At(p)
      <3>1. row'[g].path = q /\ row'[h].path = row[h].path  BY <2>1, <2>3, <1>d
      <3>2. row[h].path # q  BY <2>1, <2>3, <1>2
      <3> QED  BY <3>1, <3>2
    <2>4. CASE g \notin At(p) /\ h \in At(p)
      <3>1. row'[h].path = q /\ row'[g].path = row[g].path  BY <2>1, <2>4, <1>d
      <3>2. row[g].path # q  BY <2>1, <2>4, <1>2
      <3> QED  BY <3>1, <3>2
    <2>5. CASE g \notin At(p) /\ h \notin At(p)  BY <2>1, <2>5, <1>d DEF StoreInv, OnePerPath
    <2> QED  BY <2>2, <2>3, <2>4, <2>5
  <1>5. ASSUME NEW g \in Rows, ~row[g].gone
        PROVE  disk'[row'[g].path] = disk[row[g].path]
    <2>1. g \in Files  BY DEF Rows
    <2>2. CASE g \in At(p)
      <3>1. row[g].path = p  BY <2>2 DEF At
      <3>2. row'[g].path = q  BY <2>1, <2>2, <1>d
      <3>3. disk'[q] = disk[p]  BY <1>b, <1>g
      <3> QED  BY <3>1, <3>2, <3>3
    <2>3. CASE g \notin At(p)  BY <2>1, <2>3, <1>5, <1>2, <1>d, <1>g
    <2> QED  BY <2>2, <2>3
  <1>6. LiveHasBytes'  BY <1>5, <1>d, <1>f DEF LiveHasBytes, StoreInv, Rows
  <1>7. ASSUME ~raced', Kept PROVE Kept'
    <2>1. NothingAhead'  BY <1>7, <1>d DEF Kept, NothingAhead
    <2>2. RevisionsAreTrue'  BY <1>7 DEF Kept, RevisionsAreTrue
    <2>3. CurrentIsThere'
      <3> SUFFICES ASSUME NEW g \in Rows, ~row'[g].gone
                   PROVE  \/ stored'[g][row'[g].ver] \in {NoText, disk'[row'[g].path]}
                          \/ \E t \in Tabs : save'[t].phase = "written" /\ save'[t].file = g
        BY <1>f DEF CurrentIsThere
      <3>1. ~row[g].gone /\ row'[g].ver = row[g].ver  BY <1>d DEF Rows
      <3> QED  BY <3>1, <1>5, <1>7 DEF Kept, CurrentIsThere
    <2>4. OneSave'  BY <1>7 DEF Kept, OneSave, Storing
    <2>5. SavesKnow'
      <3> SUFFICES ASSUME NEW t \in Tabs, Storing(t) PROVE SaveKnows(t)'
        BY DEF SavesKnow, Storing
      <3> DEFINE g == save[t].file
      <3>1. SaveKnows(t)  BY <1>7 DEF Kept, SavesKnow
      <3>2. g \in Rows /\ ~row[g].gone /\ row[g].path = save[t].path /\ g \in Files
        BY <3>1 DEF SaveKnows, Rows
      <3>3. g \notin At(p)  BY <1>7 DEF Saving, Storing
      <3>4. row'[g] = row[g] /\ disk'[save[t].path] = disk[save[t].path]
        BY <3>2, <3>3, <1>2, <1>g
      <3>5. save'[t] = save[t]  OBVIOUS
      <3> QED  BY <3>1, <3>4, <3>5, <1>f DEF SaveKnows
    <2>6. Replaced'  BY <1>7, <1>d, <1>f DEF Kept, Replaced, Rows
    <2> QED  BY <2>1, <2>2, <2>3, <2>4, <2>5, <2>6 DEF Kept
  <1>8. ASSUME Full PROVE Forward /\ Full'
    <2>1. \A g, x : Writing(g, x)' <=> Writing(g, x)  BY DEF Writing
    <2>2. \A g \in Rows : g \in Rows' /\ row'[g].ver = row[g].ver /\ row[g].ver <= row[g].ver
                         /\ row'[g].gone = row[g].gone
      BY <1>a, <1>d, <1>f DEF Rows, RowSet, VersionNumbers
    <2>3. Forward  BY <2>1, <2>2, <1>5 DEF Forward
    <2>4. ASSUME NEW r \in Paths, disk'[r] # NoText PROVE At(r)' # {}
      <3>1. CASE r = q
        <4>1. PICK g \in At(p) : TRUE  BY <1>8 DEF Full
        <4>2. g \in At(q)'  BY <4>1, <1>b, <1>d, <1>f DEF At
        <4> QED  BY <3>1, <4>2
      <3>2. CASE r # q
        <4>1. r # p /\ disk[r] # NoText  BY <2>4, <3>2, <1>g
        <4>2. PICK g \in At(r) : TRUE  BY <1>8, <4>1 DEF Full
        <4>3. g \notin At(p) /\ g \in Rows /\ g \in Files  BY <4>1, <4>2 DEF At, Rows
        <4>4. g \in At(r)'  BY <4>2, <4>3, <1>d, <1>f DEF At
        <4> QED  BY <4>4
      <3> QED  BY <3>1, <3>2
    <2>5. \A g \in Rows' : stored'[g][row'[g].ver] # NoText  BY <1>8, <1>f, <2>2 DEF Full
    <2> QED  BY <2>3, <2>4, <2>5 DEF Full
  <1>9. \A r \in Paths : held'[r] = IF r = q THEN held[q] \cup At(p) ELSE held[r]
    BY DEF StoreInv, StoreTyped
  <1>10. ASSUME RowsHeld PROVE RowsHeld'
    <2> SUFFICES ASSUME NEW g \in Rows PROVE g \in held'[row'[g].path]
      BY <1>f DEF RowsHeld
    <2>1. g \in Files /\ g \in held[row[g].path] /\ row[g].path \in Paths
      BY <1>10, <1>a DEF RowsHeld, Rows
    <2>2. CASE g \in At(p)
      <3>1. row'[g].path = q  BY <2>1, <2>2, <1>d
      <3>2. g \in held'[q]  BY <2>2, <1>9
      <3> QED  BY <3>1, <3>2
    <2>3. CASE g \notin At(p)  BY <2>1, <2>3, <1>9, <1>d
    <2> QED  BY <2>2, <2>3
  <1>11. \A r \in Paths : held[r] \subseteq held'[r]  BY <1>9
  <1> QED  BY <1>1, <1>4, <1>6, <1>7, <1>8, <1>10, <1>11 DEF StoreInv, Onward

\* A file that goes to the trash leaves its text in the history.
LEMMA SoftDeleteKeeps ==
  ASSUME StoreInv, SavesTyped, UNCHANGED save,
         NEW fs \in SUBSET Rows, \A f \in fs : ~row[f].gone, SoftDelete(fs)
  PROVE  StoreInv' /\ Onward
  <1>a. /\ revs' = [f \in Files |->
             IF f \in fs /\ disk[row[f].path] # NoText
             THEN AddRevision(revs[f], row[f].ver, disk[row[f].path]) ELSE revs[f]]
        /\ disk' = [p \in Paths |-> IF At(p) \cap fs # {} THEN NoText ELSE disk[p]]
        /\ row' = [f \in Files |-> IF f \in fs THEN [row[f] EXCEPT !.gone = TRUE] ELSE row[f]]
        /\ raced' = (raced \/ \E f \in fs : Saving(f))
        /\ stored' = stored /\ held' = held
    BY DEF SoftDelete
  <1>b. row \in [Files -> RowSet] /\ (\A g \in Rows : row[g].path \in Paths) /\ fs \subseteq Files
        /\ Rows \subseteq Files
    BY DEF StoreInv, StoreTyped, Rows
  <1>c. \A f \in Files : /\ [row[f] EXCEPT !.gone = TRUE] \in RowSet
                         /\ [row[f] EXCEPT !.gone = TRUE].path = row[f].path
                         /\ [row[f] EXCEPT !.gone = TRUE].gone
                         /\ [row[f] EXCEPT !.gone = TRUE].ver = row[f].ver
    BY <1>b DEF RowSet
  <1>d. \A f \in Files : row'[f].path = row[f].path /\ row'[f].ver = row[f].ver
                         /\ (row'[f].gone <=> row[f].gone \/ f \in fs)
    BY <1>a, <1>c
  <1>e. Rows' = Rows  BY <1>d DEF Rows
  <1>f. \A f \in Rows : row[f].ver \in Versions /\ disk[row[f].path] \in Text
    BY <1>b DEF Rows, RowSet, Versions, VersionNumbers, StoreInv, StoreTyped
  <1>g. ASSUME NEW f \in fs
        PROVE  /\ revs'[f] \in [Versions -> Text]
               /\ \A w \in Versions :
                    revs'[f][w] = IF w = row[f].ver /\ revs[f][w] = NoText THEN disk[row[f].path] ELSE revs[f][w]
    <2>1. disk[row[f].path] # NoText  BY DEF StoreInv, LiveHasBytes
    <2>2. revs'[f] = AddRevision(revs[f], row[f].ver, disk[row[f].path])  BY <1>a, <1>b, <2>1
    <2>3. revs[f] \in [Versions -> Text]  BY <1>b DEF StoreInv, StoreTyped
    <2>4. AddRevision(revs[f], row[f].ver, disk[row[f].path]) \in [Versions -> Text]
          /\ \A w \in Versions : AddRevision(revs[f], row[f].ver, disk[row[f].path])[w] =
               IF w = row[f].ver /\ revs[f][row[f].ver] = NoText THEN disk[row[f].path] ELSE revs[f][w]
      BY <2>3, <1>f, AddRevisionIs
    <2> QED  BY <2>2, <2>4
  <1>h. \A g \in Files \ fs : revs'[g] = revs[g]  BY <1>a
  <1>i. ASSUME NEW g \in Rows, ~row'[g].gone
        PROVE  g \notin fs /\ ~row[g].gone /\ row'[g] = row[g] /\ disk'[row[g].path] = disk[row[g].path]
    <2>1. g \in Files /\ g \notin fs /\ ~row[g].gone /\ row[g].path \in Paths  BY <1>b, <1>d, <1>i
    <2>2. At(row[g].path) \cap fs = {}
      <3> SUFFICES ASSUME NEW h \in At(row[g].path), h \in fs PROVE FALSE
        OBVIOUS
      <3>1. h \in Rows /\ ~row[h].gone /\ row[h].path = row[g].path  BY DEF At
      <3> QED  BY <3>1, <2>1 DEF StoreInv, OnePerPath
    <2> QED  BY <2>1, <2>2, <1>a
  <1>j. stored' = stored  BY <1>a
  <1>1. StoreTyped'
    <2>1. row' \in [Files -> RowSet]  BY <1>a, <1>b, <1>c
    <2>2. \A g \in Rows' : row'[g].path \in Paths  BY <1>b, <1>d, <1>e
    <2>3. disk' \in [Paths -> Text]  BY <1>a DEF StoreInv, StoreTyped, Text
    <2>4. revs' \in [Files -> [Versions -> Text]]
      <3>1. \A f \in Files : revs'[f] \in [Versions -> Text]  BY <1>g, <1>h DEF StoreInv, StoreTyped
      <3> QED  BY <3>1, <1>a
    <2>5. stored' \in [Files -> [Versions -> Text]] /\ held' \in [Paths -> SUBSET Files] /\ raced' \in BOOLEAN
      BY <1>a DEF StoreInv, StoreTyped, Saving
    <2> QED  BY <2>1, <2>2, <2>3, <2>4, <2>5 DEF StoreTyped
  <1>2. OnePerPath'  BY <1>d, <1>e, <1>b DEF StoreInv, OnePerPath
  <1>3. LiveHasBytes'  BY <1>i, <1>e DEF StoreInv, LiveHasBytes
  <1>4. ASSUME ~raced', Kept PROVE Kept'
    <2>1. \A t \in Tabs : Storing(t) => save[t].file \notin fs  BY <1>a, <1>4 DEF Saving, Storing
    <2>2. \A f \in fs : stored[f][row[f].ver] \in {NoText, disk[row[f].path]}
      BY <2>1, <1>4 DEF Kept, CurrentIsThere, Storing
    <2>3. NothingAhead'
      <3> SUFFICES ASSUME NEW g \in Files, NEW w \in Versions, w > row'[g].ver
                   PROVE  revs'[g][w] = NoText /\ stored'[g][w] = NoText
        BY DEF NothingAhead
      <3>1. revs[g][w] = NoText /\ stored[g][w] = NoText /\ w > row[g].ver
        BY <1>4, <1>d DEF Kept, NothingAhead
      <3>2. w # row[g].ver  BY <3>1, <1>b DEF RowSet, VersionNumbers, Versions
      <3> QED  BY <3>1, <3>2, <1>a, <1>g, <1>h
    <2>4. RevisionsAreTrue'
      <3> SUFFICES ASSUME NEW g \in Files, NEW w \in Versions, revs'[g][w] # NoText
                   PROVE  stored'[g][w] \in {NoText, revs'[g][w]}
        BY DEF RevisionsAreTrue
      <3> QED  BY <1>4, <1>a, <1>g, <1>h, <2>2 DEF Kept, RevisionsAreTrue
    <2>5. CurrentIsThere'
      <3> SUFFICES ASSUME NEW g \in Rows, ~row'[g].gone
                   PROVE  \/ stored'[g][row'[g].ver] \in {NoText, disk'[row'[g].path]}
                          \/ \E t \in Tabs : save'[t].phase = "written" /\ save'[t].file = g
        BY <1>e DEF CurrentIsThere
      <3>1. ~row[g].gone /\ row'[g] = row[g] /\ disk'[row[g].path] = disk[row[g].path]  BY <1>i
      <3>2. \/ stored[g][row[g].ver] \in {NoText, disk[row[g].path]}
            \/ \E t \in Tabs : save[t].phase = "written" /\ save[t].file = g
        BY <3>1, <1>4 DEF Kept, CurrentIsThere
      <3> QED  BY <3>1, <3>2, <1>j
    <2>6. OneSave'  BY <1>4 DEF Kept, OneSave, Storing
    <2>7. SavesKnow'
      <3> SUFFICES ASSUME NEW t \in Tabs, Storing(t) PROVE SaveKnows(t)'
        BY DEF SavesKnow, Storing
      <3> DEFINE g == save[t].file
      <3>1. SaveKnows(t) /\ g \notin fs  BY <1>4, <2>1 DEF Kept, SavesKnow
      <3>2. g \in Rows /\ ~row[g].gone /\ row[g].path = save[t].path /\ g \in Files
        BY <3>1, <1>b DEF SaveKnows
      <3>3. ~row'[g].gone  BY <3>1, <3>2, <1>d
      <3>4. row'[g] = row[g] /\ disk'[save[t].path] = disk[save[t].path] /\ revs'[g] = revs[g]
        BY <3>1, <3>2, <3>3, <1>h, <1>i
      <3>5. save'[t] = save[t]  OBVIOUS
      <3> QED  BY <3>1, <3>4, <3>5, <1>a, <1>e DEF SaveKnows
    <2>8. Replaced'
      <3> SUFFICES ASSUME NEW g \in Rows, NEW w \in Versions,
                          w < row'[g].ver \/ (row'[g].gone /\ w = row'[g].ver)
                   PROVE  stored'[g][w] \in {NoText, revs'[g][w]}
        BY <1>e DEF Replaced
      <3>1. CASE g \notin fs  BY <3>1, <1>4, <1>a, <1>b, <1>d, <1>h DEF Kept, Replaced
      <3>2. CASE g \in fs
        <4>1. row'[g].ver = row[g].ver  BY <1>b, <1>d
        <4>2. CASE w < row[g].ver
          <5>1. stored[g][w] \in {NoText, revs[g][w]}  BY <4>2, <1>4 DEF Kept, Replaced
          <5>2. w # row[g].ver  BY <4>2, <1>f DEF Versions
          <5>3. revs'[g][w] = revs[g][w]  BY <3>2, <5>2, <1>g
          <5> QED  BY <5>1, <5>3, <1>j
        <4>3. CASE w = row[g].ver
          <5>1. stored[g][w] \in {NoText, disk[row[g].path]}  BY <3>2, <4>3, <2>2
          <5>2. revs'[g][w] = IF revs[g][w] = NoText THEN disk[row[g].path] ELSE revs[g][w]
            BY <3>2, <4>3, <1>g
          <5>3. revs[g][w] # NoText => stored[g][w] \in {NoText, revs[g][w]}
            BY <1>4, <1>b DEF Kept, RevisionsAreTrue
          <5> QED  BY <5>1, <5>2, <5>3, <1>j
        <4> QED  BY <4>1, <4>2, <4>3
      <3> QED  BY <3>1, <3>2
    <2> QED  BY <2>3, <2>4, <2>5, <2>6, <2>7, <2>8 DEF Kept
  <1>5. raced => raced'  BY <1>a
  <1>6. ASSUME Full PROVE Forward /\ Full'
    <2>1. \A g, x : Writing(g, x)' <=> Writing(g, x)  BY DEF Writing
    <2>2. \A g \in Rows : g \in Rows' /\ row'[g].ver = row[g].ver /\ row[g].ver <= row[g].ver
      BY <1>b, <1>d, <1>e DEF Rows, RowSet, VersionNumbers
    <2>3. Forward  BY <2>1, <2>2, <1>i, <1>j DEF Forward
    <2>4. ASSUME NEW r \in Paths, disk'[r] # NoText PROVE At(r)' # {}
      <3>1. At(r) \cap fs = {} /\ disk[r] # NoText  BY <2>4, <1>a
      <3>2. PICK g \in At(r) : g \notin fs  BY <1>6, <3>1 DEF Full
      <3>3. g \in At(r)'  BY <3>2, <1>b, <1>d, <1>e DEF At
      <3> QED  BY <3>3
    <2>5. \A g \in Rows' : stored'[g][row'[g].ver] # NoText  BY <1>6, <1>e, <1>j, <2>2 DEF Full
    <2> QED  BY <2>3, <2>4, <2>5 DEF Full
  <1>7. held' = held /\ (RowsHeld => RowsHeld')  BY <1>a, <1>b, <1>d, <1>e DEF RowsHeld
  <1> QED  BY <1>1, <1>2, <1>3, <1>4, <1>5, <1>6, <1>7 DEF StoreInv, Onward

\* A site that is generated again counts its versions anew.
LEMMA RegenerateKeeps ==
  ASSUME StoreInv, SavesTyped, NEW text \in Texts, Regenerate(text)
  PROVE  StoreInv' /\ (Full => Full') /\ (RowsHeld => RowsHeld')
  <1>a. /\ row' = [f \in Files |-> IF f \in Rows /\ ~row[f].gone THEN [row[f] EXCEPT !.ver = 2] ELSE NoRow]
        /\ disk' = [p \in Paths |-> IF At(p) = {} THEN disk[p] ELSE text]
        /\ revs' = [f \in Files |-> [v \in Versions |-> NoText]]
        /\ stored' = [f \in Files |-> [v \in Versions |->
              IF v = 2 /\ f \in Rows /\ ~row[f].gone THEN text ELSE NoText]]
        /\ held' = held
        /\ raced' = (raced \/ \E f \in Files : Saving(f))
        /\ save' = save /\ MaxVersion >= 2
    BY DEF Regenerate
  <1>b. row \in [Files -> RowSet] /\ (\A g \in Rows : row[g].path \in Paths) /\ Rows \subseteq Files
    BY DEF StoreInv, StoreTyped, Rows
  <1>c. 2 \in VersionNumbers /\ 2 \in Versions /\ text \in Text /\ text # NoText /\ NoText \in Text
    BY <1>a, EditorAssumption DEF VersionNumbers, Versions, Text
  <1>d. NoRow \in RowSet /\ NoRow.ver = 0  BY EditorAssumption DEF NoRow, RowSet, Place, VersionNumbers
  <1>e. \A f \in Files : /\ [row[f] EXCEPT !.ver = 2] \in RowSet
                         /\ [row[f] EXCEPT !.ver = 2].path = row[f].path
                         /\ [row[f] EXCEPT !.ver = 2].gone = row[f].gone
                         /\ [row[f] EXCEPT !.ver = 2].ver = 2
    BY <1>b, <1>c DEF RowSet
  <1>f. \A f \in Files : row'[f].ver > 0 <=> f \in Rows /\ ~row[f].gone
    BY <1>a, <1>d, <1>e
  <1>g. Rows' = {f \in Rows : ~row[f].gone}  BY <1>b, <1>f DEF Rows
  <1>h. \A f \in Rows' : f \in Rows /\ ~row[f].gone /\ f \in Files /\ ~row'[f].gone /\ row'[f].ver = 2
                         /\ row'[f].path = row[f].path /\ row[f].path \in Paths
                         /\ disk'[row[f].path] = text
    BY <1>a, <1>b, <1>e, <1>g DEF At
  <1>1. StoreTyped'
    <2>1. row' \in [Files -> RowSet]  BY <1>a, <1>d, <1>e
    <2>2. \A g \in Rows' : row'[g].path \in Paths  BY <1>h
    <2>3. disk' \in [Paths -> Text]  BY <1>a, <1>c DEF StoreInv, StoreTyped
    <2>4. revs' \in [Files -> [Versions -> Text]] /\ stored' \in [Files -> [Versions -> Text]]
      BY <1>a, <1>c
    <2>5. held' \in [Paths -> SUBSET Files] /\ raced' \in BOOLEAN
      BY <1>a DEF StoreInv, StoreTyped, Saving
    <2> QED  BY <2>1, <2>2, <2>3, <2>4, <2>5 DEF StoreTyped
  <1>2. OnePerPath'  BY <1>h DEF StoreInv, OnePerPath
  <1>3. LiveHasBytes'  BY <1>c, <1>h DEF LiveHasBytes
  <1>4. ASSUME ~raced' PROVE Kept'
    <2>1. \A t \in Tabs : ~Storing(t)  BY <1>a, <1>4 DEF Saving, Storing, SavesTyped
    <2>2. \A t \in Tabs : ~Storing(t)'  BY <2>1, <1>a DEF Storing
    <2>3. \A f \in Files, v \in Versions :
            revs'[f][v] = NoText
            /\ stored'[f][v] = IF v = 2 /\ f \in Rows /\ ~row[f].gone THEN text ELSE NoText
      BY <1>a
    <2>4. NothingAhead'
      <3> SUFFICES ASSUME NEW f \in Files, NEW v \in Versions, v > row'[f].ver
                   PROVE  revs'[f][v] = NoText /\ stored'[f][v] = NoText
        BY DEF NothingAhead
      <3>1. f \in Rows /\ ~row[f].gone => v # 2  BY <1>a, <1>e DEF Versions
      <3> QED  BY <3>1, <2>3
    <2>5. RevisionsAreTrue'  BY <2>3 DEF RevisionsAreTrue
    <2>6. CurrentIsThere'  BY <1>c, <1>h, <2>3 DEF CurrentIsThere
    <2>7. OneSave' /\ SavesKnow'  BY <2>2 DEF OneSave, SavesKnow
    <2>8. Replaced'
      <3> SUFFICES ASSUME NEW f \in Rows', NEW v \in Versions,
                          v < row'[f].ver \/ (row'[f].gone /\ v = row'[f].ver)
                   PROVE  stored'[f][v] \in {NoText, revs'[f][v]}
        BY DEF Replaced
      <3>1. v # 2  BY <1>h DEF Versions
      <3> QED  BY <3>1, <1>h, <2>3
    <2> QED  BY <2>4, <2>5, <2>6, <2>7, <2>8 DEF Kept
  <1>5. ASSUME Full PROVE Full'
    <2>1. ASSUME NEW p \in Paths, disk'[p] # NoText PROVE At(p)' # {}
      <3>1. At(p) # {}  BY <2>1, <1>a, <1>5 DEF Full
      <3>2. PICK f \in At(p) : TRUE  BY <3>1
      <3>3. f \in Rows' /\ row[f].path = p  BY <3>2, <1>g DEF At
      <3>4. f \in At(p)'  BY <3>3, <1>h DEF At
      <3> QED  BY <3>4
    <2>2. \A f \in Rows' : stored'[f][row'[f].ver] # NoText  BY <1>a, <1>c, <1>h
    <2> QED  BY <2>1, <2>2 DEF Full
  <1>6. RowsHeld => RowsHeld'  BY <1>a, <1>h DEF RowsHeld
  <1> QED  BY <1>1, <1>2, <1>3, <1>4, <1>5, <1>6 DEF StoreInv

-----------------------------------------------------------------------------
(* The statements of a save. *)

\* A step that leaves the store and the saves past their check alone.
LEMMA StillKeeps ==
  ASSUME StoreInv, UNCHANGED server,
         \A t \in Tabs : IF Storing(t) THEN save'[t] = save[t] ELSE ~Storing(t)'
  PROVE  StoreInv' /\ Onward
  <1>a. row' = row /\ disk' = disk /\ revs' = revs /\ stored' = stored /\ held' = held /\ raced' = raced
    BY DEF server
  <1>1. StoreTyped' /\ OnePerPath' /\ LiveHasBytes'
    BY <1>a DEF StoreInv, StoreTyped, OnePerPath, LiveHasBytes, Rows
  <1>2. ASSUME Kept PROVE Kept'
    <2>1. NothingAhead' /\ RevisionsAreTrue' /\ Replaced'
      BY <1>2, <1>a DEF Kept, NothingAhead, RevisionsAreTrue, Replaced, Rows
    <2>2. CurrentIsThere'
      <3> SUFFICES ASSUME NEW g \in Rows, ~row[g].gone
                   PROVE  \/ stored[g][row[g].ver] \in {NoText, disk[row[g].path]}
                          \/ \E t \in Tabs : save'[t].phase = "written" /\ save'[t].file = g
        BY <1>a DEF CurrentIsThere, Rows
      <3>1. \A t \in Tabs : save[t].phase = "written" => save'[t] = save[t]  BY DEF Storing
      <3> QED  BY <3>1, <1>2 DEF Kept, CurrentIsThere
    <2>3. \A t \in Tabs : Storing(t)' => Storing(t) /\ save'[t] = save[t]  OBVIOUS
    <2>4. OneSave'  BY <2>3, <1>2 DEF Kept, OneSave
    <2>5. SavesKnow'
      <3> SUFFICES ASSUME NEW t \in Tabs, Storing(t)' PROVE SaveKnows(t)'
        BY DEF SavesKnow
      <3>1. SaveKnows(t) /\ save'[t] = save[t]  BY <1>2, <2>3 DEF Kept, SavesKnow
      <3> QED  BY <3>1, <1>a DEF SaveKnows, Rows
    <2> QED  BY <2>1, <2>2, <2>4, <2>5 DEF Kept
  <1>3. ASSUME Full PROVE Forward /\ Full'
    <2>1. \A u \in Tabs : (save'[u].phase = "written" <=> save[u].phase = "written")
                         /\ (save[u].phase = "written" => save'[u] = save[u])
      BY DEF Storing
    <2>2. \A g, x : Writing(g, x)' <=> Writing(g, x)  BY <2>1 DEF Writing
    <2>3. \A g \in Rows : row[g].ver <= row[g].ver
      BY DEF Rows, StoreInv, StoreTyped, RowSet, VersionNumbers
    <2>4. Rows' = Rows  BY <1>a DEF Rows
    <2> QED  BY <1>a, <1>3, <2>2, <2>3, <2>4 DEF Forward, Full, At
  <1>4. RowsHeld => RowsHeld'  BY <1>a DEF RowsHeld, Rows
  <1> QED  BY <1>a, <1>1, <1>2, <1>3, <1>4 DEF StoreInv, Onward

\* The version is compared and the baseline recorded.
LEMMA SaveCheckKeeps ==
  ASSUME StoreInv, SavesTyped, NEW t \in Tabs, SaveCheck(t)
  PROVE  StoreInv' /\ Onward
  <1> DEFINE p == save[t].path
             f == Listing[p]
  <1>a. save[t].phase = "sent" /\ p \in Paths /\ save[t].text \in Texts /\ ~Storing(t)
    BY DEF SaveCheck, SavesTyped, Storing
  <1>b. save \in [Tabs -> SaveSet]  BY DEF SavesTyped
  <1>c. row' = row /\ disk' = disk /\ stored' = stored /\ held' = held  BY DEF SaveCheck
  <1>1. CASE UNCHANGED <<revs, raced>> /\ \E ph \in {"conflict", "failed"} :
               save'[t].phase = ph /\ \A u \in Tabs : u # t => save'[u] = save[u]
    <2>1. UNCHANGED server  BY <1>1, <1>c DEF server
    <2>2. \A u \in Tabs : IF Storing(u) THEN save'[u] = save[u] ELSE ~Storing(u)'
      BY <1>1, <1>a DEF Storing
    <2> QED  BY <2>1, <2>2, StillKeeps
  <1>2. CASE /\ At(p) # {} /\ disk[p] # NoText
             /\ save' = [save EXCEPT ![t].phase = "passed", ![t].file = f]
             /\ revs' = [revs EXCEPT ![f] = AddRevision(@, row[f].ver, disk[p])]
             /\ raced' = (raced \/ Saving(f))
    <2> DEFINE v == row[f].ver
    <2>a. f \in At(p) /\ f \in Rows /\ f \in Files /\ ~row[f].gone /\ row[f].path = p
      <3>1. f \in At(p)  BY <1>a, <1>2, ListingIs
      <3> QED  BY <3>1 DEF At, Rows
    <2> HIDE DEF f
    <2>b. v \in Versions /\ disk[p] \in Text /\ revs[f] \in [Versions -> Text]
      BY <2>a, <1>a DEF StoreInv, StoreTyped, Rows, RowSet, Versions, VersionNumbers
    <2>c. AddRevision(revs[f], v, disk[p]) \in [Versions -> Text]
          /\ \A w \in Versions : AddRevision(revs[f], v, disk[p])[w] =
               IF w = v /\ revs[f][v] = NoText THEN disk[p] ELSE revs[f][w]
      BY <2>b, AddRevisionIs
    <2>d. revs' \in [Files -> [Versions -> Text]]  BY <1>2, <2>a, <2>c DEF StoreInv, StoreTyped
    <2>e. /\ \A g \in Files : g # f => revs'[g] = revs[g]
          /\ \A w \in Versions : revs'[f][w] = IF w = v /\ revs[f][v] = NoText THEN disk[p] ELSE revs[f][w]
      BY <1>2, <2>a, <2>c DEF StoreInv, StoreTyped
    <2>f. /\ save'[t].phase = "passed" /\ save'[t].file = f /\ save'[t].path = p
          /\ \A u \in Tabs : u # t => save'[u] = save[u]
      BY <1>b, <1>2 DEF SaveSet
    <2>1. StoreTyped' /\ OnePerPath' /\ LiveHasBytes'
      BY <1>2, <1>c, <2>d DEF StoreInv, StoreTyped, OnePerPath, LiveHasBytes, Rows, Saving
    <2>2. ASSUME ~raced', Kept PROVE Kept'
      <3>1. \A u \in Tabs : Storing(u) => save[u].file # f  BY <1>2, <2>2 DEF Saving, Storing
      <3>2. stored[f][v] \in {NoText, disk[p]}
        BY <3>1, <2>2, <2>a DEF Kept, CurrentIsThere, Storing
      <3>3. revs[f][v] # NoText => stored[f][v] \in {NoText, revs[f][v]}
        BY <2>2, <2>a, <2>b DEF Kept, RevisionsAreTrue
      <3>4. NothingAhead'
        <4> SUFFICES ASSUME NEW g \in Files, NEW w \in Versions, w > row[g].ver
                     PROVE  revs'[g][w] = NoText /\ stored[g][w] = NoText
          BY <1>c DEF NothingAhead
        <4>1. revs[g][w] = NoText /\ stored[g][w] = NoText  BY <2>2 DEF Kept, NothingAhead
        <4>2. g = f => w # v  BY <2>b DEF Versions
        <4> QED  BY <4>1, <4>2, <2>e
      <3>5. RevisionsAreTrue'  BY <1>c, <2>2, <2>e, <3>2 DEF Kept, RevisionsAreTrue
      <3>6. CurrentIsThere'
        <4> SUFFICES ASSUME NEW g \in Rows, ~row[g].gone
                     PROVE  \/ stored[g][row[g].ver] \in {NoText, disk[row[g].path]}
                            \/ \E u \in Tabs : save'[u].phase = "written" /\ save'[u].file = g
          BY <1>c DEF CurrentIsThere, Rows
        <4>1. \A u \in Tabs : save[u].phase = "written" => save'[u] = save[u]
          BY <1>a, <2>f
        <4> QED  BY <4>1, <2>2 DEF Kept, CurrentIsThere
      <3>7. OneSave'
        <4> SUFFICES ASSUME NEW u \in Tabs, NEW w \in Tabs, Storing(u)', Storing(w)',
                            save'[u].file = save'[w].file
                     PROVE  u = w
          BY DEF OneSave
        <4>1. \A x \in Tabs : x # t /\ Storing(x)' => Storing(x) /\ save'[x].file = save[x].file /\ save[x].file # f
          BY <2>f, <3>1 DEF Storing
        <4> QED  BY <4>1, <2>2, <2>f DEF Kept, OneSave
      <3>8. SavesKnow'
        <4> SUFFICES ASSUME NEW u \in Tabs, Storing(u)' PROVE SaveKnows(u)'
          BY DEF SavesKnow
        <4>1. CASE u = t
          <5>1. stored[f][v] \in {NoText, revs'[f][v]}  BY <2>b, <2>e, <3>2, <3>3
          <5> QED  BY <4>1, <5>1, <1>c, <2>a, <2>f DEF SaveKnows, Rows
        <4>2. CASE u # t
          <5>1. save'[u] = save[u] /\ Storing(u) /\ save[u].file # f /\ SaveKnows(u)
            BY <4>2, <2>2, <2>f, <3>1 DEF Storing, Kept, SavesKnow
          <5>2. save[u].file \in Files  BY <5>1 DEF SaveKnows, Rows
          <5>3. revs'[save[u].file] = revs[save[u].file]  BY <5>1, <5>2, <2>e
          <5> QED  BY <5>1, <5>3, <1>c DEF SaveKnows, Rows
        <4> QED  BY <4>1, <4>2
      <3>9. Replaced'
        <4> SUFFICES ASSUME NEW g \in Rows, NEW w \in Versions,
                            w < row[g].ver \/ (row[g].gone /\ w = row[g].ver)
                     PROVE  stored[g][w] \in {NoText, revs'[g][w]}
          BY <1>c DEF Replaced, Rows
        <4>1. stored[g][w] \in {NoText, revs[g][w]} /\ g \in Files  BY <2>2 DEF Kept, Replaced, Rows
        <4>2. g = f => w # v  BY <2>a, <2>b DEF Versions
        <4> QED  BY <4>1, <4>2, <2>e
      <3> QED  BY <3>4, <3>5, <3>6, <3>7, <3>8, <3>9 DEF Kept
    <2>3. ASSUME Full PROVE Forward /\ Full'
      <3>1. \A u \in Tabs : (save'[u].phase = "written" <=> save[u].phase = "written")
                           /\ (save[u].phase = "written" => save'[u] = save[u])
        BY <1>a, <2>f
      <3>2. \A g, x : Writing(g, x)' <=> Writing(g, x)  BY <3>1 DEF Writing
      <3>3. \A g \in Rows : row[g].ver <= row[g].ver
        BY DEF Rows, StoreInv, StoreTyped, RowSet, VersionNumbers
      <3>4. Rows' = Rows  BY <1>c DEF Rows
      <3> QED  BY <1>c, <2>3, <3>2, <3>3, <3>4 DEF Forward, Full, At
    <2>4. RowsHeld => RowsHeld'  BY <1>c DEF RowsHeld, Rows
    <2> QED  BY <1>2, <1>c, <2>1, <2>2, <2>3, <2>4 DEF StoreInv, Onward
  <1> QED
    <2>1. CASE save' = [save EXCEPT ![t].phase = "conflict", ![t].ver = row[f].ver] /\ UNCHANGED <<revs, raced>>
      BY <2>1, <1>1, <1>b DEF SaveSet
    <2>2. CASE save' = [save EXCEPT ![t].phase = "failed"] /\ UNCHANGED <<revs, raced>>
      BY <2>2, <1>1, <1>b DEF SaveSet
    <2> QED  BY <2>1, <2>2, <1>2 DEF SaveCheck

\* The bytes are written, and count as nobody's version yet.
LEMMA SaveBytesKeeps ==
  ASSUME StoreInv, SavesTyped, NEW t \in Tabs, SaveBytes(t)
  PROVE  StoreInv' /\ Onward
  <1> DEFINE p == save[t].path
             f == save[t].file
  <1>a. save[t].phase = "passed" /\ Storing(t) /\ p \in Paths /\ save[t].text \in Texts
        /\ save[t].text # NoText /\ save[t].text \in Text
    BY EditorAssumption DEF SaveBytes, SavesTyped, Storing, Text
  <1>b. row' = row /\ revs' = revs /\ stored' = stored /\ held' = held /\ raced' = raced
        /\ save' = [save EXCEPT ![t].phase = "written"]
        /\ disk' = [disk EXCEPT ![p] = save[t].text]
    BY DEF SaveBytes
  <1>c. /\ save'[t].phase = "written" /\ save'[t].file = f /\ save'[t].path = p
        /\ save'[t].text = save[t].text
        /\ \A u \in Tabs : u # t => save'[u] = save[u]
    BY <1>b DEF SavesTyped, SaveSet
  <1>d. disk' \in [Paths -> Text] /\ \A q \in Paths : disk'[q] = IF q = p THEN save[t].text ELSE disk[q]
    BY <1>a, <1>b DEF StoreInv, StoreTyped
  <1>1. StoreTyped'  BY <1>b, <1>d DEF StoreInv, StoreTyped, Rows
  <1>2. OnePerPath'  BY <1>b DEF StoreInv, OnePerPath, Rows
  <1>3. LiveHasBytes'  BY <1>a, <1>b, <1>d DEF StoreInv, StoreTyped, LiveHasBytes, Rows
  <1>4. ASSUME Kept PROVE Kept'
    <2>1. NothingAhead' /\ RevisionsAreTrue' /\ Replaced'
      BY <1>4, <1>b DEF Kept, NothingAhead, RevisionsAreTrue, Replaced, Rows
    <2>2. SaveKnows(t)  BY <1>4, <1>a DEF Kept, SavesKnow
    <2>3. f \in Rows /\ ~row[f].gone /\ row[f].path = p  BY <2>2 DEF SaveKnows
    <2>4. ASSUME NEW g \in Rows, ~row[g].gone, g # f PROVE disk'[row[g].path] = disk[row[g].path] /\ row[g].path # p
      <3>1. row[g].path # p  BY <2>3, <2>4 DEF StoreInv, OnePerPath
      <3> QED  BY <3>1, <1>d DEF StoreInv, StoreTyped
    <2>5. CurrentIsThere'
      <3> SUFFICES ASSUME NEW g \in Rows, ~row[g].gone
                   PROVE  \/ stored[g][row[g].ver] \in {NoText, disk'[row[g].path]}
                          \/ \E u \in Tabs : save'[u].phase = "written" /\ save'[u].file = g
        BY <1>b DEF CurrentIsThere, Rows
      <3>1. CASE g = f  BY <3>1, <1>c
      <3>2. CASE g # f
        <4>1. \A u \in Tabs : save[u].phase = "written" => save'[u] = save[u]  BY <1>a, <1>c
        <4> QED  BY <3>2, <4>1, <2>4, <1>4 DEF Kept, CurrentIsThere
      <3> QED  BY <3>1, <3>2
    <2>6. \A u \in Tabs : Storing(u)' => Storing(u) /\ save'[u].file = save[u].file
      BY <1>a, <1>c DEF Storing
    <2>7. OneSave'  BY <2>6, <1>4 DEF Kept, OneSave
    <2>8. SavesKnow'
      <3> SUFFICES ASSUME NEW u \in Tabs, Storing(u)' PROVE SaveKnows(u)'
        BY DEF SavesKnow
      <3>1. CASE u = t
        <4>1. disk'[p] = save[t].text  BY <1>a, <1>d
        <4> QED  BY <3>1, <4>1, <2>2, <1>a, <1>b, <1>c DEF SaveKnows, Rows
      <3>2. CASE u # t
        <4>1. save'[u] = save[u] /\ SaveKnows(u) /\ save[u].file # f
          BY <3>2, <1>4, <1>a, <1>c, <2>6 DEF Kept, SavesKnow, OneSave
        <4>2. disk'[save[u].path] = disk[save[u].path]  BY <4>1, <2>4 DEF SaveKnows
        <4> QED  BY <4>1, <4>2, <1>b DEF SaveKnows, Rows
      <3> QED  BY <3>1, <3>2
    <2> QED  BY <2>1, <2>5, <2>7, <2>8 DEF Kept
  <1>5. ASSUME ~raced', Full PROVE Forward /\ Full'
    <2>1. Kept  BY <1>b, <1>5 DEF StoreInv
    <2>2. f \in Rows /\ ~row[f].gone /\ row[f].path = p
      BY <1>a, <2>1 DEF Kept, SavesKnow, SaveKnows
    <2>3. Rows' = Rows /\ \A g \in Rows : row[g].ver <= row[g].ver
      BY <1>b DEF Rows, StoreInv, StoreTyped, RowSet, VersionNumbers
    <2>4. \A g, x : Writing(g, x) => Writing(g, x)'
      <3>1. \A u \in Tabs : save[u].phase = "written" => save'[u] = save[u]  BY <1>a, <1>c
      <3> QED  BY <3>1 DEF Writing
    <2>5. Writing(f, save[t].text)'  BY <1>c DEF Writing
    <2>6. ASSUME NEW g \in Rows, ~row[g].gone, g # f PROVE disk'[row[g].path] = disk[row[g].path]
      <3>1. row[g].path # p  BY <2>2, <2>6 DEF StoreInv, OnePerPath
      <3> QED  BY <3>1, <1>d DEF StoreInv, StoreTyped
    <2>7. Forward  BY <1>a, <1>b, <2>3, <2>4, <2>5, <2>6 DEF Forward
    <2>8. ASSUME NEW q \in Paths, disk'[q] # NoText PROVE At(q)' # {}
      <3>1. f \in At(p)  BY <2>2 DEF At
      <3>2. At(q) # {}  BY <1>5, <1>d, <2>8, <3>1 DEF Full
      <3> QED  BY <1>b, <2>3, <3>2 DEF At
    <2> QED  BY <1>b, <1>5, <2>3, <2>7, <2>8 DEF Full
  <1>6. RowsHeld => RowsHeld'  BY <1>b DEF RowsHeld, Rows
  <1> QED  BY <1>b, <1>1, <1>2, <1>3, <1>4, <1>5, <1>6 DEF StoreInv, Onward

\* The new version is the text that was written.
LEMMA SaveCountKeeps ==
  ASSUME StoreInv, SavesTyped, NEW t \in Tabs, SaveCount(t)
  PROVE  StoreInv' /\ Onward
  <1> DEFINE f == save[t].file
             u == row[f].ver
             v == u + 1
             text == save[t].text
  <1>a. save[t].phase = "written" /\ Storing(t) /\ v \in Versions /\ f \in Files /\ text \in Texts
        /\ text # NoText /\ text \in Text
    BY EditorAssumption DEF SaveCount, SavesTyped, Storing, Text
  <1>b. disk' = disk /\ revs' = revs /\ held' = held /\ raced' = raced  BY DEF SaveCount
  <1>1. CASE f \notin Rows
    <2>1. save' = [save EXCEPT ![t].phase = "failed"] /\ row' = row /\ stored' = stored
      BY <1>1 DEF SaveCount
    <2>2. StoreTyped' /\ OnePerPath' /\ LiveHasBytes'
      BY <1>b, <2>1 DEF StoreInv, StoreTyped, OnePerPath, LiveHasBytes, Rows
    <2>3. ~Kept  BY <1>1, <1>a DEF Kept, SavesKnow, SaveKnows
    <2>4. RowsHeld => RowsHeld'  BY <1>b, <2>1 DEF RowsHeld, Rows
    <2> QED  BY <1>b, <2>2, <2>3, <2>4 DEF StoreInv, Onward
  <1>2. CASE f \in Rows
    <2> DEFINE new == [row[f] EXCEPT !.ver = v]
    <2>a. /\ save' = [save EXCEPT ![t].phase = "counted"]
          /\ row' = [row EXCEPT ![f] = new]
          /\ stored' = [stored EXCEPT ![f][v] = text]
      BY <1>2 DEF SaveCount
    <2>b. row[f] \in RowSet /\ u \in Versions /\ u \in Nat /\ v \in VersionNumbers
      BY <1>2, <1>a DEF StoreInv, StoreTyped, Rows, RowSet, Versions, VersionNumbers
    <2>c. new \in RowSet /\ new.path = row[f].path /\ new.gone = row[f].gone /\ new.ver = v
      BY <2>b DEF RowSet
    <2> HIDE DEF new
    <2>d. row' \in [Files -> RowSet] /\ (\A g \in Files : row'[g] = IF g = f THEN new ELSE row[g])
      BY <2>a, <2>c, <1>a DEF StoreInv, StoreTyped
    <2>e. row'[f].path = row[f].path /\ row'[f].gone = row[f].gone /\ row'[f].ver = v
      BY <2>c, <2>d, <1>a
    <2>f. Rows' = Rows  BY <1>a, <1>2, <2>d, <2>e DEF Rows, Versions
    <2>g. \A g \in Rows : row'[g].path = row[g].path /\ row'[g].gone = row[g].gone
      BY <2>d, <2>e DEF Rows
    <2>h. /\ save'[t].phase = "counted" /\ save'[t].file = f /\ save'[t].path = save[t].path
          /\ save'[t].text = text
          /\ \A w \in Tabs : w # t => save'[w] = save[w]
      BY <2>a DEF SavesTyped, SaveSet
    <2>i. stored' \in [Files -> [Versions -> Text]]
          /\ (\A w \in Versions : stored'[f][w] = IF w = v THEN text ELSE stored[f][w])
          /\ (\A g \in Files : g # f => stored'[g] = stored[g])
      BY <2>a, <1>a DEF StoreInv, StoreTyped
    <2>1. StoreTyped'
      <3>1. \A g \in Rows' : row'[g].path \in Paths  BY <2>f, <2>g DEF StoreInv, StoreTyped
      <3> QED  BY <3>1, <1>b, <2>d, <2>i DEF StoreInv, StoreTyped
    <2>2. OnePerPath' /\ LiveHasBytes'
      BY <1>b, <2>f, <2>g DEF StoreInv, OnePerPath, LiveHasBytes
    <2>3. ASSUME Kept PROVE Kept'
      <3>1. SaveKnows(t)  BY <1>a, <2>3 DEF Kept, SavesKnow
      <3>2. ~row[f].gone /\ row[f].path = save[t].path /\ disk[save[t].path] = text
            /\ stored[f][u] \in {NoText, revs[f][u]}
        BY <3>1, <1>a DEF SaveKnows
      <3>3. revs[f][v] = NoText  BY <2>3, <1>a, <2>b DEF Kept, NothingAhead
      <3>4. NothingAhead'
        <4> SUFFICES ASSUME NEW g \in Files, NEW w \in Versions, w > row'[g].ver
                     PROVE  revs[g][w] = NoText /\ stored'[g][w] = NoText
          BY <1>b DEF NothingAhead
        <4>1. CASE g # f  BY <4>1, <2>3, <2>d, <2>i DEF Kept, NothingAhead
        <4>2. CASE g = f
          <5>1. w > u /\ w # v  BY <4>2, <2>b, <2>e DEF Versions
          <5>2. revs[f][w] = NoText /\ stored[f][w] = NoText  BY <5>1, <1>a, <2>3 DEF Kept, NothingAhead
          <5> QED  BY <4>2, <5>1, <5>2, <2>i
        <4> QED  BY <4>1, <4>2
      <3>5. RevisionsAreTrue'
        <4> SUFFICES ASSUME NEW g \in Files, NEW w \in Versions, revs[g][w] # NoText
                     PROVE  stored'[g][w] \in {NoText, revs[g][w]}
          BY <1>b DEF RevisionsAreTrue
        <4>1. g = f => w # v  BY <3>3
        <4>2. stored'[g][w] = stored[g][w]  BY <4>1, <2>i
        <4> QED  BY <4>2, <2>3 DEF Kept, RevisionsAreTrue
      <3>6. CurrentIsThere'
        <4> SUFFICES ASSUME NEW g \in Rows, ~row'[g].gone
                     PROVE  \/ stored'[g][row'[g].ver] \in {NoText, disk[row'[g].path]}
                            \/ \E w \in Tabs : save'[w].phase = "written" /\ save'[w].file = g
          BY <1>b, <2>f DEF CurrentIsThere
        <4>1. CASE g = f  BY <4>1, <1>a, <2>e, <2>i, <3>2
        <4>2. CASE g # f
          <5>1. g \in Files /\ row'[g] = row[g] /\ stored'[g] = stored[g]  BY <4>2, <2>d, <2>i DEF Rows
          <5>2. \A w \in Tabs : save[w].file = g => save'[w] = save[w]  BY <4>2, <2>h
          <5> QED  BY <5>1, <5>2, <2>3 DEF Kept, CurrentIsThere
        <4> QED  BY <4>1, <4>2
      <3>7. \A w \in Tabs : Storing(w)' => Storing(w) /\ save'[w].file = save[w].file
        BY <1>a, <2>h DEF Storing
      <3>8. OneSave'  BY <3>7, <2>3 DEF Kept, OneSave
      <3>9. SavesKnow'
        <4> SUFFICES ASSUME NEW w \in Tabs, Storing(w)' PROVE SaveKnows(w)'
          BY DEF SavesKnow
        <4>1. CASE w = t
          <5>1. stored'[f][v] = text  BY <1>a, <2>i
          <5> QED  BY <4>1, <5>1, <1>2, <1>b, <2>e, <2>f, <2>h, <3>2 DEF SaveKnows
        <4>2. CASE w # t
          <5>1. save'[w] = save[w] /\ SaveKnows(w) /\ save[w].file # f
            BY <4>2, <2>3, <1>a, <2>h, <3>7 DEF Kept, SavesKnow, OneSave
          <5>2. save[w].file \in Files  BY <5>1 DEF SaveKnows, Rows
          <5>3. row'[save[w].file] = row[save[w].file] /\ stored'[save[w].file] = stored[save[w].file]
            BY <5>1, <5>2, <2>d, <2>i
          <5> QED  BY <5>1, <5>3, <1>b, <2>f DEF SaveKnows
        <4> QED  BY <4>1, <4>2
      <3>10. Replaced'
        <4> SUFFICES ASSUME NEW g \in Rows, NEW w \in Versions,
                            w < row'[g].ver \/ (row'[g].gone /\ w = row'[g].ver)
                     PROVE  stored'[g][w] \in {NoText, revs[g][w]}
          BY <1>b, <2>f DEF Replaced
        <4>1. CASE g # f  BY <4>1, <2>3, <2>d, <2>i DEF Kept, Replaced, Rows
        <4>2. CASE g = f
          <5>1. w # v /\ (w = u \/ w < u)  BY <4>2, <2>b, <2>e, <3>2 DEF Versions
          <5>2. w < u => stored[f][w] \in {NoText, revs[f][w]}  BY <1>2, <2>3 DEF Kept, Replaced
          <5> QED  BY <4>2, <5>1, <5>2, <2>i, <3>2
        <4> QED  BY <4>1, <4>2
      <3> QED  BY <3>4, <3>5, <3>6, <3>8, <3>9, <3>10 DEF Kept
    <2>4. ASSUME ~raced', Full PROVE Forward /\ Full'
      <3>1. stored[f][v] = NoText  BY <1>a, <1>b, <2>4, <2>b DEF StoreInv, Kept, NothingAhead
      <3>2. \A g \in Rows : g \in Rows' /\ row[g].ver <= row'[g].ver
        <4>1. \A g \in Rows : g \in Files /\ row[g].ver <= row[g].ver
          BY DEF Rows, StoreInv, StoreTyped, RowSet, VersionNumbers
        <4>2. u <= v  BY <2>b
        <4> QED  BY <4>1, <4>2, <2>d, <2>e, <2>f
      <3>3. \A g \in Rows, w \in Versions : stored[g][w] # NoText => stored'[g][w] = stored[g][w]
        BY <2>i, <3>1 DEF Rows
      <3>4. ASSUME NEW g \in Rows, NEW x \in Texts, Writing(g, x)
            PROVE  Writing(g, x)' \/ \E w \in Versions : w >= row[g].ver /\ stored'[g][w] = x
        <4>1. PICK w \in Tabs : save[w].phase = "written" /\ save[w].file = g /\ save[w].text = x
          BY <3>4 DEF Writing
        <4>2. CASE w = t
          <5>1. v >= row[g].ver /\ stored'[g][v] = x  BY <4>1, <4>2, <1>a, <2>b, <2>i
          <5> QED  BY <5>1, <1>a
        <4>3. CASE w # t  BY <4>1, <4>3, <2>h DEF Writing
        <4> QED  BY <4>2, <4>3
      <3>5. ASSUME NEW g \in Rows, row'[g].ver = row[g].ver, \A x \in Texts : ~Writing(g, x)'
            PROVE  row'[g] = row[g] /\ \A x \in Texts : ~Writing(g, x)
        <4>1. g # f /\ g \in Files  BY <3>5, <2>b, <2>e DEF Rows
        <4>2. \A w \in Tabs : save[w].file = g => save'[w] = save[w]  BY <4>1, <2>h
        <4> QED  BY <3>5, <4>1, <4>2, <2>d DEF Writing
      <3>6. Forward  BY <1>b, <3>2, <3>3, <3>4, <3>5 DEF Forward
      <3>7. \A g \in Rows' : stored'[g][row'[g].ver] # NoText
        BY <1>a, <2>4, <2>d, <2>e, <2>f, <2>i DEF Full, Rows
      <3>8. \A q \in Paths : At(q)' = At(q)  BY <2>f, <2>g DEF At
      <3> QED  BY <1>b, <2>4, <3>6, <3>7, <3>8 DEF Full
    <2>5. RowsHeld => RowsHeld'  BY <1>b, <2>f, <2>g DEF RowsHeld
    <2> QED  BY <1>b, <2>1, <2>2, <2>3, <2>4, <2>5 DEF StoreInv, Onward
  <1> QED  BY <1>1, <1>2

\* The revision of the new text is added last.
LEMMA SaveDoneKeeps ==
  ASSUME StoreInv, SavesTyped, NEW t \in Tabs, SaveDone(t)
  PROVE  StoreInv' /\ Onward
  <1> DEFINE f == save[t].file
             v == row[f].ver
             text == save[t].text
  <1>a. save[t].phase = "counted" /\ Storing(t) /\ f \in Rows /\ f \in Files /\ text \in Text /\ v \in Versions
        /\ revs[f] \in [Versions -> Text]
    BY DEF SaveDone, SavesTyped, Storing, Text, Rows, StoreInv, StoreTyped, RowSet, Versions, VersionNumbers
  <1>b. row' = row /\ disk' = disk /\ stored' = stored /\ held' = held /\ raced' = raced
        /\ save' = [save EXCEPT ![t].phase = "done", ![t].ver = v]
        /\ revs' = [revs EXCEPT ![f] = AddRevision(@, v, text)]
    BY DEF SaveDone
  <1>c. AddRevision(revs[f], v, text) \in [Versions -> Text]
        /\ \A w \in Versions : AddRevision(revs[f], v, text)[w] =
             IF w = v /\ revs[f][v] = NoText THEN text ELSE revs[f][w]
    BY <1>a, AddRevisionIs
  <1>d. revs' \in [Files -> [Versions -> Text]]
        /\ (\A g \in Files : g # f => revs'[g] = revs[g])
        /\ (\A w \in Versions : revs'[f][w] = IF w = v /\ revs[f][v] = NoText THEN text ELSE revs[f][w])
    BY <1>a, <1>b, <1>c DEF StoreInv, StoreTyped
  <1>e. save'[t].phase = "done" /\ \A u \in Tabs : u # t => save'[u] = save[u]
    BY <1>b DEF SavesTyped, SaveSet
  <1>1. StoreTyped' /\ OnePerPath' /\ LiveHasBytes'
    BY <1>b, <1>d DEF StoreInv, StoreTyped, OnePerPath, LiveHasBytes, Rows
  <1>2. ASSUME Kept PROVE Kept'
    <2>1. ~row[f].gone /\ stored[f][v] = text  BY <1>2, <1>a DEF Kept, SavesKnow, SaveKnows
    <2>2. NothingAhead'
      <3> SUFFICES ASSUME NEW g \in Files, NEW w \in Versions, w > row[g].ver
                   PROVE  revs'[g][w] = NoText /\ stored[g][w] = NoText
        BY <1>b DEF NothingAhead
      <3>1. revs[g][w] = NoText /\ stored[g][w] = NoText  BY <1>2 DEF Kept, NothingAhead
      <3>2. g = f => w # v  BY <1>a DEF Versions
      <3> QED  BY <3>1, <3>2, <1>d
    <2>3. RevisionsAreTrue'  BY <1>2, <1>b, <1>d, <2>1 DEF Kept, RevisionsAreTrue
    <2>4. CurrentIsThere'
      <3> SUFFICES ASSUME NEW g \in Rows, ~row[g].gone
                   PROVE  \/ stored[g][row[g].ver] \in {NoText, disk[row[g].path]}
                          \/ \E u \in Tabs : save'[u].phase = "written" /\ save'[u].file = g
        BY <1>b DEF CurrentIsThere, Rows
      <3>1. \A u \in Tabs : save[u].phase = "written" => save'[u] = save[u]  BY <1>a, <1>e
      <3> QED  BY <3>1, <1>2 DEF Kept, CurrentIsThere
    <2>5. \A u \in Tabs : Storing(u)' => u # t /\ Storing(u) /\ save'[u] = save[u]
      BY <1>e DEF Storing
    <2>6. OneSave'  BY <2>5, <1>2 DEF Kept, OneSave
    <2>7. SavesKnow'
      <3> SUFFICES ASSUME NEW u \in Tabs, Storing(u)' PROVE SaveKnows(u)'
        BY DEF SavesKnow
      <3>1. save'[u] = save[u] /\ SaveKnows(u) /\ save[u].file # f
        BY <1>2, <1>a, <2>5 DEF Kept, SavesKnow, OneSave
      <3>2. revs'[save[u].file] = revs[save[u].file]  BY <3>1, <1>d DEF SaveKnows, Rows
      <3> QED  BY <3>1, <3>2, <1>b DEF SaveKnows, Rows
    <2>8. Replaced'
      <3> SUFFICES ASSUME NEW g \in Rows, NEW w \in Versions,
                          w < row[g].ver \/ (row[g].gone /\ w = row[g].ver)
                   PROVE  stored[g][w] \in {NoText, revs'[g][w]}
        BY <1>b DEF Replaced, Rows
      <3>1. stored[g][w] \in {NoText, revs[g][w]} /\ g \in Files  BY <1>2 DEF Kept, Replaced, Rows
      <3>2. g = f => w # v  BY <1>a, <2>1 DEF Versions
      <3> QED  BY <3>1, <3>2, <1>d
    <2> QED  BY <2>2, <2>3, <2>4, <2>6, <2>7, <2>8 DEF Kept
  <1>3. ASSUME Full PROVE Forward /\ Full'
    <2>1. \A u \in Tabs : (save'[u].phase = "written" <=> save[u].phase = "written")
                         /\ (save[u].phase = "written" => save'[u] = save[u])
      BY <1>a, <1>e
    <2>2. \A g, x : Writing(g, x)' <=> Writing(g, x)  BY <2>1 DEF Writing
    <2>3. \A g \in Rows : row[g].ver <= row[g].ver
      BY DEF Rows, StoreInv, StoreTyped, RowSet, VersionNumbers
    <2>4. Rows' = Rows  BY <1>b DEF Rows
    <2> QED  BY <1>b, <1>3, <2>2, <2>3, <2>4 DEF Forward, Full, At
  <1>4. RowsHeld => RowsHeld'  BY <1>b DEF RowsHeld, Rows
  <1> QED  BY <1>b, <1>1, <1>2, <1>3, <1>4 DEF StoreInv, Onward

-----------------------------------------------------------------------------
(* What the users do. *)

LEMMA Defaults ==
  /\ NoSave \in SaveSet /\ NoSave.phase = "none"
  /\ Idle \in ActSet /\ Idle.phase = "none"
  /\ Empty \in [orig : Texts, cur : Texts, dirty : BOOLEAN]
  /\ NoSel \in SelSet /\ 0 \in VersionNumbers
  <1>1. 0 \in VersionNumbers  BY EditorAssumption DEF VersionNumbers
  <1> QED  BY <1>1, EditorAssumption
           DEF NoSave, SaveSet, Idle, ActSet, Empty, NoSel, SelSet, Place, Text

LEMMA RequestTyped ==
  ASSUME NEW f \in Files, NEW p \in Paths
  PROVE  Request(f, p) \in LoadSet /\ Request(f, p).phase = "sent"
         /\ [Request(f, p) EXCEPT !.closes = TRUE] \in LoadSet
         /\ [Request(f, p) EXCEPT !.closes = TRUE].phase = "sent"
  <1>1. 0 \in VersionNumbers /\ NoText \in Text  BY EditorAssumption DEF VersionNumbers, Text
  <1> QED  BY <1>1 DEF Request, LoadSet

\* A request is added to those of a tab.
LEMMA LoadsGrow ==
  ASSUME LoadsTyped, NEW t \in Tabs, NEW q \in LoadSet, q.phase = "sent",
         loads' = [loads EXCEPT ![t] = @ \cup {q}]
  PROVE  LoadsTyped'
  <1>1. \A u \in Tabs : \A r \in loads'[u] : r \in loads[u] \/ r = q  BY DEF LoadsTyped
  <1>2. loads' \in [Tabs -> SUBSET LoadSet]  BY DEF LoadsTyped
  <1> QED  BY <1>1, <1>2 DEF LoadsTyped

\* What a tab has selected, and what its list has at a path.
LEMMA SelectedIs ==
  ASSUME PageTyped, NEW t \in Tabs
  PROVE  /\ sel[t] # NoSel => sel[t] \in [path : Paths, file : Files, ver : VersionNumbers]
         /\ sel[t].ver \in VersionNumbers /\ sel[t].path \in Place
         /\ sel[t].path # NoPath => sel[t] # NoSel
         /\ \A p \in Paths : listed[t][p] # NoFile => listed[t][p] \in Files
         /\ buf[t].cur \in Texts /\ buf[t].orig \in Texts /\ buf[t].dirty \in BOOLEAN
         /\ conflict[t] \in VersionNumbers
  <1>1. sel[t] \in SelSet  BY DEF PageTyped
  <1>2. NoSel.path = NoPath /\ NoSel.ver = 0  BY DEF NoSel
  <1> QED  BY <1>1, <1>2, Defaults DEF PageTyped, SelSet, Place

LEMMA SendSaveTyped ==
  ASSUME SavesTyped, PageTyped, NEW t \in Tabs, NEW expect \in VersionNumbers, NEW force \in BOOLEAN,
         sel[t].path \in Paths, SendSave(t, expect, force)
  PROVE  SavesTyped'
  <1> DEFINE s == [NoSave EXCEPT !.phase = "sent", !.path = sel[t].path, !.text = buf[t].cur,
                                 !.expect = expect, !.force = force]
  <1>1. s \in SaveSet /\ s.phase = "sent" /\ s.path \in Paths /\ s.text \in Texts
    BY SelectedIs, Defaults DEF SaveSet, Place, Text
  <1> HIDE DEF s
  <1>2. save' = [save EXCEPT ![t] = s] /\ saving' = [saving EXCEPT ![t] = TRUE]  BY DEF SendSave, s
  <1>3. save' \in [Tabs -> SaveSet] /\ save'[t] = s /\ saving'[t] = TRUE
        /\ \A u \in Tabs : u # t => save'[u] = save[u] /\ saving'[u] = saving[u]
    BY <1>1, <1>2 DEF SavesTyped, PageTyped
  <1> QED  BY <1>1, <1>3 DEF SavesTyped, Storing

\* A file action starts.
LEMMA StartKeeps ==
  ASSUME EditorInv, NEW t \in Tabs, NEW a \in ActSet, Asks(a), Start(t, a)
  PROVE  EditorInv' /\ Onward
  <1> DEFINE b == [a EXCEPT !.phase = "sent", !.dirty = buf[t].dirty]
  <1>1. b \in ActSet /\ b.kind = a.kind /\ b.path = a.path /\ b.to = a.to /\ b.text = a.text
    BY SelectedIs DEF ActSet, EditorInv
  <1> HIDE DEF b
  <1>2. act' = [act EXCEPT ![t] = b] /\ UNCHANGED <<server, page, loads, save>>
        /\ hasty' \in {hasty, hasty \cup {t}}
    BY DEF Start, User, b
  <1>3. ActsTyped'  BY <1>1, <1>2 DEF EditorInv, ActsTyped, Asks
  <1>4. PageTyped' /\ LoadsTyped' /\ SavesTyped'
    BY <1>2 DEF EditorInv, PageTyped, LoadsTyped, SavesTyped, Storing, page
  <1>5. StoreInv' /\ Onward  BY <1>2, StillKeeps DEF EditorInv, Storing
  <1> QED  BY <1>3, <1>4, <1>5 DEF EditorInv

LEMMA ClicksKeep ==
  ASSUME EditorInv, NEW t \in Tabs, Clicks(t)
  PROVE  EditorInv' /\ Onward
  <1> USE DEF User
  <1>a. StoreInv /\ PageTyped /\ LoadsTyped /\ SavesTyped /\ ActsTyped  BY DEF EditorInv
  <1>b. ASSUME UNCHANGED <<server, save, saving, act>>, PageTyped', LoadsTyped' PROVE EditorInv' /\ Onward
    <2>1. SavesTyped' /\ ActsTyped'  BY <1>a, <1>b DEF SavesTyped, ActsTyped, Storing
    <2>2. StoreInv' /\ Onward  BY <1>a, <1>b, StillKeeps DEF Storing
    <2> QED  BY <1>b, <2>1, <2>2 DEF EditorInv
  <1>c. ASSUME UNCHANGED <<server, act, sel, buf, listed, conflict, loading, loads>>,
               hasty' \in {hasty, hasty \cup {t}}, sel[t].path \in Paths, save[t].phase = "none",
               NEW expect \in VersionNumbers, NEW force \in BOOLEAN, SendSave(t, expect, force)
        PROVE  EditorInv' /\ Onward
    <2>1. SavesTyped'  BY <1>a, <1>c, SendSaveTyped
    <2>2. ActsTyped' /\ LoadsTyped' /\ PageTyped'
      BY <1>a, <1>c DEF ActsTyped, LoadsTyped, PageTyped, SendSave
    <2>3. \A u \in Tabs : IF Storing(u) THEN save'[u] = save[u] ELSE ~Storing(u)'
      BY <1>a, <1>c DEF SendSave, SavesTyped, Storing, NoSave
    <2>4. StoreInv' /\ Onward  BY <1>a, <1>c, <2>3, StillKeeps
    <2> QED  BY <2>1, <2>2, <2>4 DEF EditorInv
  <1>d. ~saving[t] => save[t].phase = "none"  BY <1>a DEF SavesTyped
  <1>e. sel[t].path # NoPath => sel[t].path \in Paths  BY <1>a, SelectedIs DEF Place
  <1>1. ASSUME NEW text \in Texts, Type(t, text) PROVE EditorInv' /\ Onward
    <2>1. PageTyped'  BY <1>a, <1>1 DEF Type, PageTyped
    <2>2. LoadsTyped'  BY <1>a, <1>1 DEF Type, LoadsTyped
    <2> QED  BY <1>b, <1>1, <2>1, <2>2 DEF Type
  <1>2. ASSUME NEW p \in Paths, SelectFile(t, p) PROVE EditorInv' /\ Onward
    <2>1. PageTyped'  BY <1>a, <1>2 DEF SelectFile, PageTyped
    <2>2. listed[t][p] \in Files  BY <1>a, <1>2, SelectedIs DEF SelectFile
    <2>3. LoadsTyped'  BY <1>a, <1>2, <2>2, RequestTyped, LoadsGrow DEF SelectFile
    <2> QED  BY <1>b, <1>2, <2>1, <2>3 DEF SelectFile
  <1>3. CASE SelectFolder(t)
    <2>1. PageTyped'  BY <1>a, <1>3, Defaults DEF SelectFolder, PageTyped
    <2>2. LoadsTyped'  BY <1>a, <1>3 DEF SelectFolder, LoadsTyped
    <2> QED  BY <1>b, <1>3, <2>1, <2>2 DEF SelectFolder
  <1>4. CASE RevertBuffer(t)
    <2>1. PageTyped'  BY <1>a, <1>4 DEF RevertBuffer, PageTyped
    <2>2. LoadsTyped'  BY <1>a, <1>4 DEF RevertBuffer, LoadsTyped
    <2> QED  BY <1>b, <1>4, <2>1, <2>2 DEF RevertBuffer
  <1>5. CASE OnSave(t)
    <2>1. sel[t].ver \in VersionNumbers  BY <1>a, SelectedIs
    <2> QED  BY <1>c, <1>d, <1>e, <1>5, <2>1 DEF OnSave, CanSave, HasFile
  <1>6. CASE OnConflictOverwrite(t)
    <2>1. CASE sel[t] = NoSel
      <3>1. PageTyped'  BY <1>a, <1>6, <2>1, Defaults DEF OnConflictOverwrite, PageTyped
      <3>2. LoadsTyped'  BY <1>a, <1>6 DEF OnConflictOverwrite, LoadsTyped
      <3> QED  BY <1>b, <1>6, <2>1, <3>1, <3>2 DEF OnConflictOverwrite
    <2>2. CASE sel[t] # NoSel
      <3>1. conflict[t] \in VersionNumbers /\ sel[t].path \in Paths  BY <1>a, <2>2, SelectedIs
      <3> QED  BY <1>c, <1>d, <1>6, <2>2, <3>1 DEF OnConflictOverwrite
    <2> QED  BY <2>1, <2>2
  <1>7. CASE OnConflictCancel(t)
    <2>1. PageTyped'  BY <1>a, <1>7, Defaults DEF OnConflictCancel, PageTyped
    <2>2. LoadsTyped'  BY <1>a, <1>7 DEF OnConflictCancel, LoadsTyped
    <2> QED  BY <1>b, <1>7, <2>1, <2>2 DEF OnConflictCancel
  <1>8. ASSUME NEW agreed \in BOOLEAN, OnConflictReload(t, agreed) PROVE EditorInv' /\ Onward
    <2>1. PageTyped'  BY <1>a, <1>8, Defaults DEF OnConflictReload, PageTyped
    <2>2. CASE agreed /\ HasFile(t)
      <3>1. sel[t].path \in Paths /\ listed[t][sel[t].path] \in Files
        BY <1>a, <1>e, <2>2, SelectedIs DEF HasFile
      <3>2. LoadsTyped'  BY <1>a, <1>8, <2>2, <3>1, RequestTyped, LoadsGrow DEF OnConflictReload
      <3> QED  BY <1>b, <1>8, <2>1, <3>2 DEF OnConflictReload
    <2>3. CASE ~(agreed /\ HasFile(t))
      <3>1. LoadsTyped'  BY <1>a, <1>8, <2>3 DEF OnConflictReload, LoadsTyped
      <3> QED  BY <1>b, <1>8, <2>1, <3>1 DEF OnConflictReload
    <2> QED  BY <2>2, <2>3
  <1>9. ASSUME NEW p \in Paths, OnCreateFile(t, p) PROVE EditorInv' /\ Onward
    <2> DEFINE a == [Idle EXCEPT !.kind = "create", !.path = p, !.text = Blank, !.open = p]
    <2>1. a \in ActSet /\ Asks(a)
      BY Defaults, EditorAssumption DEF ActSet, ActKinds, Asks, Place, Text
    <2> QED  BY <1>9, <2>1, StartKeeps DEF OnCreateFile
  <1>10. CASE OnCreateFolder(t)
    <2> DEFINE a == [Idle EXCEPT !.kind = "mkdir"]
    <2>1. a \in ActSet /\ Asks(a)  BY Defaults DEF ActSet, ActKinds, Asks
    <2> QED  BY <1>10, <2>1, StartKeeps DEF OnCreateFolder
  <1>11. ASSUME NEW p \in Paths, OnMove(t, p) PROVE EditorInv' /\ Onward
    <2> DEFINE a == [Idle EXCEPT !.kind = "move", !.path = sel[t].path, !.to = p, !.open = p]
    <2>1. sel[t].path \in Paths  BY <1>e, <1>11 DEF OnMove
    <2>2. a \in ActSet /\ Asks(a)  BY <2>1, Defaults DEF ActSet, ActKinds, Asks, Place
    <2> QED  BY <1>11, <2>2, StartKeeps DEF OnMove
  <1>12. CASE OnDelete(t)
    <2> DEFINE a == [Idle EXCEPT !.kind = "delete", !.path = sel[t].path]
    <2>1. sel[t].path \in Paths  BY <1>a, <1>12, SelectedIs DEF OnDelete
    <2>2. a \in ActSet /\ Asks(a)  BY <2>1, Defaults DEF ActSet, ActKinds, Asks, Place
    <2> QED  BY <1>12, <2>2, StartKeeps DEF OnDelete
  <1>13. CASE OnDeleteFolder(t)
    <2> DEFINE a == [Idle EXCEPT !.kind = "rmdir"]
    <2>1. a \in ActSet /\ Asks(a)  BY Defaults DEF ActSet, ActKinds, Asks
    <2> QED  BY <1>13, <2>1, StartKeeps DEF OnDeleteFolder
  <1>14. ASSUME NEW p \in Paths, OnRestoreDeleted(t, p) PROVE EditorInv' /\ Onward
    <2> DEFINE a == [Idle EXCEPT !.kind = "restore", !.path = p, !.open = p]
    <2>1. a \in ActSet /\ Asks(a)  BY Defaults DEF ActSet, ActKinds, Asks, Place
    <2> QED  BY <1>14, <2>1, StartKeeps DEF OnRestoreDeleted
  <1>15. ASSUME NEW p \in Paths, NEW text \in Texts, OnUpload(t, p, text) PROVE EditorInv' /\ Onward
    <2> DEFINE a == [Idle EXCEPT !.kind = "upload", !.path = p, !.text = text]
    <2>1. a \in ActSet /\ Asks(a)  BY Defaults DEF ActSet, ActKinds, Asks, Place, Text
    <2> QED  BY <1>15, <2>1, StartKeeps DEF OnUpload
  <1>16. ASSUME NEW v \in Versions, OnRevert(t, v) PROVE EditorInv' /\ Onward
    <2> DEFINE text == revs[sel[t].file][v]
               a == [Idle EXCEPT !.kind = "revert", !.path = sel[t].path, !.file = sel[t].file,
                                 !.text = text, !.open = sel[t].path]
    <2>1. sel[t].path \in Paths /\ sel[t].file \in Files  BY <1>a, <1>16, SelectedIs DEF OnRevert, Offered
    <2>2. text \in Texts /\ text \in Text
      BY <1>a, <1>16, <2>1 DEF OnRevert, Offered, StoreInv, StoreTyped, Text
    <2> HIDE DEF text
    <2>3. a \in ActSet /\ Asks(a)  BY <2>1, <2>2, Defaults DEF ActSet, ActKinds, Asks, Place
    <2> QED  BY <1>16, <2>3, StartKeeps DEF OnRevert, Offered, text
  <1> QED
    BY <1>1, <1>2, <1>3, <1>4, <1>5, <1>6, <1>7, <1>8, <1>9, <1>10, <1>11, <1>12, <1>13, <1>14,
       <1>15, <1>16 DEF Clicks

-----------------------------------------------------------------------------
(* What the tabs and the server do with a save and with a file that is read. *)

LEMMA SaveStepsKeep ==
  ASSUME EditorInv, NEW t \in Tabs, SaveSteps(t)
  PROVE  EditorInv' /\ Onward
  <1>a. StoreInv /\ PageTyped /\ LoadsTyped /\ SavesTyped /\ ActsTyped  BY DEF EditorInv
  <1>b. save \in [Tabs -> SaveSet] /\ save[t] \in SaveSet /\ saving \in [Tabs -> BOOLEAN]
    BY <1>a DEF SavesTyped, PageTyped
  \* The saves stay typed when the one of t does.
  <1>c. ASSUME NEW s \in SaveSet, save' = [save EXCEPT ![t] = s],
               s.phase \in {"sent", "passed", "written", "counted", "done"} =>
                 s.path \in Paths /\ s.text \in Texts,
               s.phase \in {"passed", "written", "counted"} => s.file \in Files,
               \A u \in Tabs : u # t => saving'[u] = saving[u],
               s.phase # "none" => saving'[t]
        PROVE  SavesTyped'
    <2>1. save'[t] = s /\ \A u \in Tabs : u # t => save'[u] = save[u]  BY <1>b, <1>c
    <2>2. save' \in [Tabs -> SaveSet]  BY <1>b, <1>c
    <2> QED  BY <1>a, <1>c, <2>1, <2>2 DEF SavesTyped, Storing
  <1>d. ASSUME UNCHANGED <<page, loads, act, hasty>> PROVE PageTyped' /\ LoadsTyped' /\ ActsTyped'
    BY <1>a, <1>d DEF PageTyped, LoadsTyped, ActsTyped, page
  <1>e. ASSUME UNCHANGED server, save[t].phase \notin {"passed", "written", "counted"},
               NEW s \in SaveSet, save' = [save EXCEPT ![t] = s],
               s.phase \notin {"passed", "written", "counted"}
        PROVE  StoreInv' /\ Onward
    BY <1>a, <1>b, <1>e, StillKeeps DEF Storing
  <1>1. CASE SaveCheck(t)
    <2> DEFINE p == save[t].path
               f == Listing[p]
    <2>1. save[t].phase = "sent" /\ p \in Paths /\ save[t].text \in Texts /\ saving[t]
      BY <1>a, <1>1 DEF SaveCheck, SavesTyped
    <2>2. UNCHANGED <<page, loads, act, hasty>> /\ saving' = saving  BY <1>1 DEF SaveCheck, page
    <2>3. At(p) # {} => f \in Files /\ row[f].ver \in VersionNumbers
      <3>1. At(p) # {} => f \in At(p)  BY <2>1, ListingIs
      <3> QED  BY <3>1, <1>a DEF At, Rows, StoreInv, StoreTyped, RowSet
    <2> HIDE DEF f
    <2>4. SavesTyped'
      <3>1. CASE At(p) # {} /\ save' = [save EXCEPT ![t].phase = "conflict", ![t].ver = row[f].ver]
        <4> DEFINE s == [save[t] EXCEPT !.phase = "conflict", !.ver = row[f].ver]
        <4>1. s \in SaveSet /\ s.phase = "conflict"  BY <1>b, <2>3, <3>1 DEF SaveSet
        <4>2. save' = [save EXCEPT ![t] = s]  BY <1>b, <3>1
        <4> HIDE DEF s
        <4> QED  BY <1>c, <2>1, <2>2, <4>1, <4>2
      <3>2. CASE save' = [save EXCEPT ![t].phase = "failed"]
        <4> DEFINE s == [save[t] EXCEPT !.phase = "failed"]
        <4>1. s \in SaveSet /\ s.phase = "failed"  BY <1>b DEF SaveSet
        <4>2. save' = [save EXCEPT ![t] = s]  BY <1>b, <3>2
        <4> HIDE DEF s
        <4> QED  BY <1>c, <2>1, <2>2, <4>1, <4>2
      <3>3. CASE At(p) # {} /\ save' = [save EXCEPT ![t].phase = "passed", ![t].file = f]
        <4> DEFINE s == [save[t] EXCEPT !.phase = "passed", !.file = f]
        <4>1. s \in SaveSet /\ s.phase = "passed" /\ s.path = p /\ s.text = save[t].text /\ s.file = f
          BY <1>b, <2>3, <3>3 DEF SaveSet
        <4>2. save' = [save EXCEPT ![t] = s]  BY <1>b, <3>3
        <4> HIDE DEF s
        <4> QED  BY <1>c, <2>1, <2>2, <2>3, <3>3, <4>1, <4>2
      <3> QED  BY <1>1, <3>1, <3>2, <3>3 DEF SaveCheck, f
    <2> QED  BY <1>a, <1>1, <1>d, <2>2, <2>4, SaveCheckKeeps DEF EditorInv
  <1>2. CASE SaveBytes(t)
    <2> DEFINE s == [save[t] EXCEPT !.phase = "written"]
    <2>1. s \in SaveSet /\ s.phase = "written" /\ s.path = save[t].path /\ s.text = save[t].text
          /\ s.file = save[t].file
      BY <1>b DEF SaveSet
    <2>2. save' = [save EXCEPT ![t] = s] /\ save[t].phase = "passed" /\ saving' = saving
          /\ UNCHANGED <<page, loads, act, hasty>>
      BY <1>2, <1>b DEF SaveBytes, page
    <2> HIDE DEF s
    <2>3. SavesTyped'  BY <1>a, <1>c, <2>1, <2>2 DEF SavesTyped, Storing
    <2> QED  BY <1>a, <1>2, <1>d, <2>2, <2>3, SaveBytesKeeps DEF EditorInv
  <1>3. CASE SaveCount(t)
    <2>1. save[t].phase = "written" /\ saving' = saving /\ UNCHANGED <<page, loads, act, hasty>>
      BY <1>3 DEF SaveCount, page
    <2>2. ASSUME NEW ph \in {"counted", "failed"}, save' = [save EXCEPT ![t].phase = ph] PROVE SavesTyped'
      <3> DEFINE s == [save[t] EXCEPT !.phase = ph]
      <3>1. s \in SaveSet /\ s.phase = ph /\ s.path = save[t].path /\ s.text = save[t].text
            /\ s.file = save[t].file
        BY <1>b DEF SaveSet
      <3>2. save' = [save EXCEPT ![t] = s]  BY <1>b, <2>2
      <3> HIDE DEF s
      <3> QED  BY <1>a, <1>c, <2>1, <3>1, <3>2 DEF SavesTyped, Storing
    <2>3. SavesTyped'  BY <1>3, <2>2 DEF SaveCount
    <2> QED  BY <1>a, <1>3, <1>d, <2>1, <2>3, SaveCountKeeps DEF EditorInv
  <1>4. CASE SaveDone(t)
    <2> DEFINE v == row[save[t].file].ver
               s == [save[t] EXCEPT !.phase = "done", !.ver = v]
    <2>1. v \in VersionNumbers
      BY <1>a, <1>4 DEF SaveDone, Rows, StoreInv, StoreTyped, RowSet
    <2>2. s \in SaveSet /\ s.phase = "done" /\ s.path = save[t].path /\ s.text = save[t].text
      BY <1>b, <2>1 DEF SaveSet
    <2>3. save' = [save EXCEPT ![t] = s] /\ save[t].phase = "counted" /\ saving' = saving
          /\ UNCHANGED <<page, loads, act, hasty>>
      BY <1>4, <1>b DEF SaveDone, page
    <2> HIDE DEF s
    <2>4. SavesTyped'  BY <1>a, <1>c, <2>2, <2>3 DEF SavesTyped, Storing
    <2> QED  BY <1>a, <1>4, <1>d, <2>3, <2>4, SaveDoneKeeps DEF EditorInv
  <1>5. CASE SaveSucceeds(t)
    <2> DEFINE s == [NoSave EXCEPT !.phase = "listing"]
    <2>1. s \in SaveSet /\ s.phase = "listing"  BY Defaults DEF SaveSet
    <2>2. save[t].phase = "done" /\ save' = [save EXCEPT ![t] = s]
          /\ UNCHANGED <<server, listed, loading, saving, loads, act, hasty>>
      BY <1>5 DEF SaveSucceeds
    <2> HIDE DEF s
    <2>3. SavesTyped'  BY <1>a, <1>c, <2>1, <2>2 DEF SavesTyped
    <2>4. StoreInv' /\ Onward  BY <1>e, <2>1, <2>2
    <2>5. sel' \in [Tabs -> SelSet]
      <3>1. CASE sel[t] = NoSel  BY <1>a, <1>5, <3>1 DEF SaveSucceeds, PageTyped
      <3>2. CASE sel[t] # NoSel
        <4>1. sel[t] \in [path : Paths, file : Files, ver : VersionNumbers]  BY <1>a, <3>2, SelectedIs
        <4>2. [sel[t] EXCEPT !.ver = save[t].ver] \in [path : Paths, file : Files, ver : VersionNumbers]
          BY <4>1, <1>b DEF SaveSet
        <4>3. sel' = [sel EXCEPT ![t] = [sel[t] EXCEPT !.ver = save[t].ver]]
          BY <1>a, <1>5, <3>2 DEF SaveSucceeds, PageTyped
        <4> QED  BY <1>a, <4>2, <4>3 DEF PageTyped, SelSet
      <3> QED  BY <3>1, <3>2
    <2>6. buf' \in [Tabs -> [orig : Texts, cur : Texts, dirty : BOOLEAN]]
          /\ conflict' \in [Tabs -> VersionNumbers]
      BY <1>a, <1>5, Defaults DEF SaveSucceeds, PageTyped
    <2>7. PageTyped'  BY <1>a, <2>2, <2>5, <2>6 DEF PageTyped
    <2> QED  BY <1>a, <2>2, <2>3, <2>4, <2>7 DEF EditorInv, LoadsTyped, ActsTyped
  \* The save is over.
  <1>f. ASSUME save' = [save EXCEPT ![t] = NoSave], saving' = [saving EXCEPT ![t] = FALSE],
               save[t].phase \notin {"passed", "written", "counted"},
               UNCHANGED <<server, sel, buf, loading, loads, act, hasty>>,
               conflict' \in [Tabs -> VersionNumbers],
               listed' \in [Tabs -> [Paths -> Files \cup {NoFile}]]
        PROVE  EditorInv' /\ Onward
    <2>1. SavesTyped'  BY <1>b, <1>c, <1>f, Defaults
    <2>2. StoreInv' /\ Onward  BY <1>e, <1>f, Defaults
    <2>3. PageTyped'  BY <1>a, <1>b, <1>f DEF PageTyped
    <2> QED  BY <1>a, <1>f, <2>1, <2>2, <2>3 DEF EditorInv, LoadsTyped, ActsTyped
  <1>6. CASE SaveConflicts(t)
    <2>1. conflict' \in [Tabs -> VersionNumbers]
      BY <1>a, <1>b, <1>6 DEF SaveConflicts, PageTyped, SaveSet
    <2> QED  BY <1>a, <1>f, <1>6, <2>1 DEF SaveConflicts, PageTyped
  <1>7. CASE SaveFails(t)  BY <1>a, <1>f, <1>7 DEF SaveFails, PageTyped
  <1>8. CASE SaveLists(t)
    <2>1. listed' \in [Tabs -> [Paths -> Files \cup {NoFile}]]
      BY <1>a, <1>8, ListingTyped DEF SaveLists, PageTyped
    <2> QED  BY <1>a, <1>f, <1>8, <2>1 DEF SaveLists, PageTyped
  <1> QED  BY <1>1, <1>2, <1>3, <1>4, <1>5, <1>6, <1>7, <1>8 DEF SaveSteps

\* An answer changes what is known of one request.
LEMMA LoadChanges ==
  ASSUME LoadsTyped, NEW t \in Tabs, NEW q \in loads[t], NEW r \in LoadSet,
         r.phase = "done" => r.text \in Texts,
         loads' = [loads EXCEPT ![t] = (@ \ {q}) \cup {r}]
  PROVE  LoadsTyped'
  <1>1. \A u \in Tabs : \A x \in loads'[u] : x \in loads[u] \/ x = r  BY DEF LoadsTyped
  <1>2. loads' \in [Tabs -> SUBSET LoadSet]  BY DEF LoadsTyped
  <1> QED  BY <1>1, <1>2 DEF LoadsTyped

LEMMA LoadStepsKeep ==
  ASSUME EditorInv, NEW t \in Tabs, NEW q \in loads[t],
         LoadRow(t, q) \/ LoadBytes(t, q) \/ LoadReturns(t, q) \/ LoadLost(t, q)
  PROVE  EditorInv' /\ Onward
  <1>a. StoreInv /\ PageTyped /\ LoadsTyped /\ SavesTyped /\ ActsTyped  BY DEF EditorInv
  <1>b. q \in LoadSet /\ q.path \in Paths /\ q.file \in Files /\ q.ver \in VersionNumbers
        /\ (q.phase = "done" => q.text \in Texts)
    BY <1>a DEF LoadsTyped, LoadSet
  <1>c. ASSUME UNCHANGED <<server, page, save, act, hasty>>, LoadsTyped' PROVE EditorInv' /\ Onward
    <2>1. PageTyped' /\ SavesTyped' /\ ActsTyped'
      BY <1>a, <1>c DEF PageTyped, SavesTyped, ActsTyped, Storing, page
    <2>2. StoreInv' /\ Onward  BY <1>a, <1>c, StillKeeps DEF Storing
    <2> QED  BY <1>c, <2>1, <2>2 DEF EditorInv
  <1>1. CASE LoadRow(t, q)
    <2> DEFINE v == row[Listing[q.path]].ver
    <2>1. [q EXCEPT !.phase = "failed"] \in LoadSet /\ [q EXCEPT !.phase = "failed"].phase = "failed"
      BY <1>b DEF LoadSet
    <2>2. CASE At(q.path) = {}
      <3>1. LoadsTyped'  BY <1>a, <1>1, <2>1, <2>2, LoadChanges DEF LoadRow
      <3> QED  BY <1>c, <1>1, <3>1 DEF LoadRow
    <2>3. CASE At(q.path) # {}
      <3>1. v \in VersionNumbers
        <4>1. Listing[q.path] \in At(q.path)  BY <1>b, <2>3, ListingIs
        <4> QED  BY <4>1, <1>a DEF At, Rows, StoreInv, StoreTyped, RowSet
      <3> HIDE DEF v
      <3>2. [q EXCEPT !.phase = "row", !.ver = v] \in LoadSet
            /\ [q EXCEPT !.phase = "row", !.ver = v].phase = "row"
        BY <1>b, <3>1 DEF LoadSet
      <3>3. loads' = [loads EXCEPT ![t] = (@ \ {q}) \cup {[q EXCEPT !.phase = "row", !.ver = v]}]
        BY <1>1, <2>3 DEF LoadRow, v
      <3>4. LoadsTyped'  BY <1>a, <3>2, <3>3, LoadChanges
      <3> QED  BY <1>c, <1>1, <3>4 DEF LoadRow
    <2> QED  BY <2>2, <2>3
  <1>2. CASE LoadBytes(t, q)
    <2> DEFINE r == IF disk[q.path] = NoText THEN [q EXCEPT !.phase = "failed", !.ver = 0]
                    ELSE [q EXCEPT !.phase = "done", !.text = disk[q.path]]
    <2>1. r \in LoadSet /\ (r.phase = "done" => r.text \in Texts)
      <3>1. CASE disk[q.path] = NoText  BY <1>b, <3>1, Defaults DEF LoadSet
      <3>2. CASE disk[q.path] # NoText
        <4>1. disk[q.path] \in Text /\ disk[q.path] \in Texts
          BY <1>a, <1>b, <3>2 DEF StoreInv, StoreTyped, Text
        <4> QED  BY <1>b, <3>2, <4>1 DEF LoadSet
      <3> QED  BY <3>1, <3>2
    <2>2. loads' = [loads EXCEPT ![t] = (@ \ {q}) \cup {r}]  BY <1>2 DEF LoadBytes
    <2> HIDE DEF r
    <2>3. LoadsTyped'  BY <1>a, <2>1, <2>2, LoadChanges
    <2> QED  BY <1>c, <1>2, <2>3 DEF LoadBytes
  <1>3. CASE LoadLost(t, q)
    <2> DEFINE r == [q EXCEPT !.phase = "failed", !.text = NoText, !.ver = 0]
    <2>1. r \in LoadSet /\ r.phase = "failed"  BY <1>b, Defaults DEF LoadSet, Text
    <2>2. loads' = [loads EXCEPT ![t] = (@ \ {q}) \cup {r}]  BY <1>3 DEF LoadLost
    <2> HIDE DEF r
    <2>3. LoadsTyped'  BY <1>a, <2>1, <2>2, LoadChanges
    <2> QED  BY <1>c, <1>3, <2>3 DEF LoadLost
  <1>4. CASE LoadReturns(t, q)
    <2>1. UNCHANGED <<server, listed, saving, save, hasty>>  BY <1>4 DEF LoadReturns
    <2>2. StoreInv' /\ Onward /\ SavesTyped'
      BY <1>a, <2>1, StillKeeps DEF Storing, SavesTyped
    <2>3. LoadsTyped'
      <3>1. \A u \in Tabs : loads'[u] \subseteq loads[u]  BY <1>a, <1>4 DEF LoadReturns, LoadsTyped
      <3>2. loads' \in [Tabs -> SUBSET LoadSet]  BY <1>a, <1>4 DEF LoadReturns, LoadsTyped
      <3> QED  BY <1>a, <3>1, <3>2 DEF LoadsTyped
    <2>4. ActsTyped'  BY <1>a, <1>4, Defaults DEF LoadReturns, ActsTyped
    <2>5. loading' \in [Tabs -> BOOLEAN] /\ conflict' \in [Tabs -> VersionNumbers]
      BY <1>a, <1>4, Defaults DEF LoadReturns, PageTyped
    <2>6. sel' \in [Tabs -> SelSet] /\ buf' \in [Tabs -> [orig : Texts, cur : Texts, dirty : BOOLEAN]]
      <3>1. CASE q.phase = "done"
        <4>1. [path |-> q.path, file |-> q.file, ver |-> q.ver] \in SelSet  BY <1>b DEF SelSet
        <4>2. [orig |-> q.text, cur |-> q.text, dirty |-> FALSE] \in [orig : Texts, cur : Texts, dirty : BOOLEAN]
          BY <1>b, <3>1
        <4> QED  BY <1>a, <1>4, <3>1, <4>1, <4>2 DEF LoadReturns, PageTyped
      <3>2. CASE q.phase # "done"  BY <1>a, <1>4, <3>2 DEF LoadReturns, PageTyped
      <3> QED  BY <3>1, <3>2
    <2>7. PageTyped'  BY <1>a, <2>1, <2>5, <2>6 DEF PageTyped
    <2> QED  BY <2>2, <2>3, <2>4, <2>7 DEF EditorInv
  <1> QED  BY <1>1, <1>2, <1>3, <1>4

-----------------------------------------------------------------------------
(* What the tabs and the server do with a file action. *)

LEMMA ServeKeeps ==
  ASSUME EditorInv, NEW t \in Tabs, Serve(t)
  PROVE  EditorInv' /\ Onward
  <1>a. StoreInv /\ PageTyped /\ LoadsTyped /\ SavesTyped /\ ActsTyped  BY DEF EditorInv
  <1>b. PICK ph \in {"done", "failed"} : Served(t, ph)
    BY DEF Serve, ServeCreate, ServeMove, ServeDelete, ServeRmdir, ServeRestore, ServeUpload,
           ServeRevert, ServeOther
  <1>c. act[t].phase = "sent" /\ Asks(act[t]) /\ act' = [act EXCEPT ![t].phase = ph]
        /\ UNCHANGED <<page, loads, save, hasty>>
    BY <1>a, <1>b DEF Served, ActsTyped
  <1>d. ActsTyped'
    <2>1. [act[t] EXCEPT !.phase = ph] \in ActSet /\ [act[t] EXCEPT !.phase = ph].phase = ph
      BY <1>a DEF ActsTyped, ActSet
    <2>2. act' \in [Tabs -> ActSet] /\ act'[t].phase = ph
          /\ \A u \in Tabs : u # t => act'[u] = act[u]
      BY <1>a, <1>c, <2>1 DEF ActsTyped
    <2> QED  BY <1>a, <2>2 DEF ActsTyped
  <1>e. PageTyped' /\ LoadsTyped' /\ SavesTyped'
    BY <1>a, <1>c DEF PageTyped, LoadsTyped, SavesTyped, Storing, page
  <1>f. save' = save  BY <1>c
  <1>g. UNCHANGED server => StoreInv' /\ Onward  BY <1>a, <1>f, StillKeeps DEF Storing
  <1> SUFFICES StoreInv' /\ Onward  BY <1>d, <1>e DEF EditorInv
  <1> DEFINE p == act[t].path
  \* No file is at a path without bytes.
  <1>h. \A q \in Paths : disk[q] = NoText => At(q) = {}
    BY <1>a DEF StoreInv, LiveHasBytes, At
  <1>1. CASE ServeCreate(t)
    <2>1. p \in Paths /\ act[t].text \in Texts  BY <1>1, <1>c DEF ServeCreate, Asks
    <2>2. CASE UNCHANGED server  BY <2>2, <1>g
    <2>3. CASE disk[p] = NoText /\ Rows # Files /\ CreateRow(Fresh, p, act[t].text)
      BY <2>1, <2>3, <1>a, <1>f, <1>h, FreshIs, CreateRowKeeps
    <2> QED  BY <1>1, <2>2, <2>3 DEF ServeCreate
  <1>2. CASE ServeMove(t)
    <2> DEFINE q == act[t].to
    <2>1. p \in Paths /\ q \in Paths  BY <1>2, <1>c DEF ServeMove, Asks
    <2>2. CASE UNCHANGED server  BY <2>2, <1>g
    <2>3. CASE ~ UNCHANGED server
      <3>1. /\ disk[q] = NoText /\ disk[p] # NoText
            /\ disk' = [disk EXCEPT ![q] = disk[p], ![p] = NoText]
            /\ row' = [f \in Files |-> IF f \in At(p) THEN [row[f] EXCEPT !.path = q] ELSE row[f]]
            /\ held' = [held EXCEPT ![q] = @ \cup At(p)]
            /\ raced' = (raced \/ \E f \in At(p) : Saving(f))
            /\ revs' = revs /\ stored' = stored
        BY <1>2, <2>3 DEF ServeMove
      <3> QED  BY <2>1, <3>1, <1>a, <1>f, MoveKeeps
    <2> QED  BY <2>2, <2>3
  <1>3. CASE ServeDelete(t)
    <2>1. CASE UNCHANGED server  BY <2>1, <1>g
    <2>2. CASE SoftDelete(At(p))
      <3>1. At(p) \in SUBSET Rows /\ \A f \in At(p) : ~row[f].gone  BY DEF At
      <3> QED  BY <2>2, <3>1, <1>a, <1>f, SoftDeleteKeeps
    <2> QED  BY <1>3, <2>1, <2>2 DEF ServeDelete
  <1>4. CASE ServeRmdir(t)
    <2> DEFINE fs == UNION {At(r) : r \in Folder}
    <2>1. SoftDelete(fs)  BY <1>4 DEF ServeRmdir
    <2>2. fs \in SUBSET Rows /\ \A f \in fs : ~row[f].gone  BY DEF At
    <2> HIDE DEF fs
    <2> QED  BY <2>1, <2>2, <1>a, <1>f, SoftDeleteKeeps
  <1>5. CASE ServeRestore(t)
    <2>1. p \in Paths  BY <1>5, <1>c DEF ServeRestore, Asks
    <2>2. CASE UNCHANGED server  BY <2>2, <1>g
    <2>3. CASE ~ UNCHANGED server
      <3>1. PICK f \in At(p) \cup Trash(p) :
              /\ f \notin At(p) /\ At(p) = {} /\ ~ \A v \in Versions : revs[f][v] = NoText
              /\ Replace(f, revs[f][Max({v \in Versions : revs[f][v] # NoText})])
        BY <1>5, <2>3 DEF ServeRestore
      <3> DEFINE Kinds == {v \in Versions : revs[f][v] # NoText}
                 text == revs[f][Max(Kinds)]
      <3>2. f \in Rows /\ f \in Files /\ row[f].path = p  BY <3>1 DEF Trash, Rows
      <3>3. Kinds \in SUBSET Versions /\ Kinds # {}  BY <3>1
      <3> HIDE DEF Kinds
      <3>4. Max(Kinds) \in Kinds  BY <3>3, LatestIs
      <3>5. Max(Kinds) \in Versions /\ revs[f][Max(Kinds)] # NoText  BY <3>4 DEF Kinds
      <3>6. text \in Texts  BY <1>a, <3>2, <3>5 DEF StoreInv, StoreTyped, Text
      <3>7. Replace(f, text)  BY <3>1 DEF Kinds
      <3>8. At(row[f].path) = {}  BY <3>1, <3>2
      <3> HIDE DEF text
      <3> QED  BY <3>2, <3>6, <3>7, <3>8, <1>a, <1>f, ReplaceKeeps
    <2> QED  BY <2>2, <2>3
  <1>6. ASSUME p \in Paths, act[t].text \in Texts, At(p) # {}, Replace(Listing[p], act[t].text)
        PROVE  StoreInv' /\ Onward
    <2>1. Listing[p] \in Rows /\ ~row[Listing[p]].gone  BY <1>6, ListingIs DEF At
    <2> QED  BY <2>1, <1>6, <1>a, <1>f, ReplaceKeeps
  <1>7. CASE ServeUpload(t)
    <2>1. p \in Paths /\ act[t].text \in Texts  BY <1>7, <1>c DEF ServeUpload, Asks
    <2>2. CASE UNCHANGED server  BY <2>2, <1>g
    <2>3. CASE At(p) # {} /\ Replace(Listing[p], act[t].text)  BY <2>1, <2>3, <1>6
    <2>4. CASE At(p) = {} /\ Rows # Files /\ CreateRow(Fresh, p, act[t].text)
      BY <2>1, <2>4, <1>a, <1>f, FreshIs, CreateRowKeeps
    <2> QED  BY <1>7, <2>2, <2>3, <2>4 DEF ServeUpload
  <1>8. CASE ServeRevert(t)
    <2>1. p \in Paths /\ act[t].text \in Texts  BY <1>8, <1>c DEF ServeRevert, Asks
    <2>2. CASE UNCHANGED server  BY <2>2, <1>g
    <2>3. CASE At(p) # {} /\ Replace(Listing[p], act[t].text)  BY <2>1, <2>3, <1>6
    <2> QED  BY <1>8, <2>2, <2>3 DEF ServeRevert
  <1>9. CASE ServeOther(t)
    <2> QED  BY <1>9, <1>g DEF ServeOther
  <1> QED  BY <1>1, <1>2, <1>3, <1>4, <1>5, <1>7, <1>8, <1>9 DEF Serve

LEMMA ActStepsKeep ==
  ASSUME EditorInv, NEW t \in Tabs, ActSteps(t) \/ ActLost(t)
  PROVE  EditorInv' /\ Onward
  <1>a. StoreInv /\ PageTyped /\ LoadsTyped /\ SavesTyped /\ ActsTyped  BY DEF EditorInv
  <1>b. ASSUME UNCHANGED <<server, save, saving>>, PageTyped', LoadsTyped',
               NEW a \in ActSet, a.phase # "sent", act' = [act EXCEPT ![t] = a]
        PROVE  EditorInv' /\ Onward
    <2>1. StoreInv' /\ Onward /\ SavesTyped'  BY <1>a, <1>b, StillKeeps DEF SavesTyped, Storing
    <2>2. act' \in [Tabs -> ActSet] /\ act'[t] = a /\ \A u \in Tabs : u # t => act'[u] = act[u]
      BY <1>a, <1>b DEF ActsTyped
    <2>3. ActsTyped'  BY <1>a, <1>b, <2>2 DEF ActsTyped
    <2> QED  BY <1>b, <2>1, <2>3 DEF EditorInv
  <1>c. \A ph \in {"done", "failed", "listing", "opening"} :
          [act[t] EXCEPT !.phase = ph] \in ActSet /\ [act[t] EXCEPT !.phase = ph].phase = ph
    BY <1>a DEF ActsTyped, ActSet
  <1>d. \A ph : [act EXCEPT ![t].phase = ph] = [act EXCEPT ![t] = [act[t] EXCEPT !.phase = ph]]
    BY <1>a DEF ActsTyped
  <1>e. UNCHANGED <<page, hasty>> => PageTyped'  BY <1>a DEF PageTyped, page
  <1>f. UNCHANGED loads => LoadsTyped'  BY <1>a DEF LoadsTyped
  <1>1. CASE Serve(t)  BY <1>1, ServeKeeps
  <1>2. CASE ActLost(t)
    <2>1. act' = [act EXCEPT ![t] = [act[t] EXCEPT !.phase = "failed"]]
          /\ UNCHANGED <<server, page, loads, save, hasty>> /\ saving' = saving
      BY <1>2, <1>d DEF ActLost, page
    <2> QED  BY <1>b, <1>c, <1>e, <1>f, <2>1
  <1>3. CASE ActFails(t)
    <2>1. act' = [act EXCEPT ![t] = Idle] /\ UNCHANGED <<server, page, loads, save, hasty>> /\ saving' = saving
      BY <1>3 DEF ActFails, page
    <2> QED  BY <1>b, <1>e, <1>f, <2>1, Defaults
  <1>4. CASE ActReturns(t)
    <2>1. act' = [act EXCEPT ![t] = [act[t] EXCEPT !.phase = "listing"]]
          /\ UNCHANGED <<server, saving, loads, save>>
      BY <1>4, <1>d DEF ActReturns
    <2>2. PageTyped'  BY <1>a, <1>4, Defaults DEF ActReturns, PageTyped
    <2> QED  BY <1>b, <1>c, <1>f, <2>1, <2>2
  <1>5. ASSUME NEW agreed \in BOOLEAN, ActLists(t, agreed) PROVE EditorInv' /\ Onward
    <2> DEFINE p == act[t].open
    <2>1. act' = [act EXCEPT ![t] = Idle] /\ UNCHANGED <<server, buf, conflict, saving, save, hasty>>
      BY <1>5 DEF ActLists
    <2>2. CASE p # NoPath /\ At(p) # {} /\ loads' = [loads EXCEPT ![t] = @ \cup {Request(Listing[p], p)}]
               /\ loading' = [loading EXCEPT ![t] = TRUE]
      <3>1. p \in Paths  BY <1>a, <2>2 DEF ActsTyped, ActSet, Place
      <3>2. Listing[p] \in Files  BY <2>2, <3>1, ListingIs DEF At, Rows
      <3>3. LoadsTyped'  BY <1>a, <2>2, <3>1, <3>2, RequestTyped, LoadsGrow
      <3>4. PageTyped'  BY <1>a, <1>5, <2>1, <2>2, Defaults, ListingTyped DEF ActLists, PageTyped
      <3> QED  BY <1>b, <2>1, <3>3, <3>4, Defaults
    <2>3. CASE UNCHANGED <<loads, loading>>
      <3>1. PageTyped'  BY <1>a, <1>5, <2>1, <2>3, Defaults, ListingTyped DEF ActLists, PageTyped
      <3> QED  BY <1>b, <1>f, <2>1, <2>3, <3>1, Defaults
    <2> QED  BY <1>5, <2>2, <2>3 DEF ActLists
  <1>6. CASE Opens(t)
    <2>1. listed' = [listed EXCEPT ![t] = Listing]
          /\ UNCHANGED <<server, sel, buf, conflict, saving, save, hasty>>
      BY <1>6 DEF Opens
    <2>2. CASE act' = [act EXCEPT ![t] = Idle] /\ UNCHANGED <<loads, loading>>
      <3>1. PageTyped'  BY <1>a, <2>1, <2>2, ListingTyped DEF PageTyped
      <3> QED  BY <1>b, <1>f, <2>1, <2>2, <3>1, Defaults
    <2>3. ASSUME NEW p \in Paths, At(p) # {}, loads' = [loads EXCEPT ![t] = {Request(Listing[p], p)}],
                 loading' = [loading EXCEPT ![t] = TRUE], act' = [act EXCEPT ![t].phase = "opening"]
          PROVE  EditorInv' /\ Onward
      <3>1. PageTyped'  BY <1>a, <2>1, <2>3, ListingTyped DEF PageTyped
      <3>2. Listing[p] \in Files  BY <2>3, ListingIs DEF At, Rows
      <3>3. LoadsTyped'
        <4> DEFINE r == Request(Listing[p], p)
        <4>1. r \in LoadSet /\ r.phase = "sent"  BY <3>2, RequestTyped
        <4> HIDE DEF r
        <4>2. loads' = [loads EXCEPT ![t] = {r}]  BY <2>3 DEF r
        <4> QED  BY <1>a, <4>1, <4>2 DEF LoadsTyped
      <3> QED  BY <1>b, <1>c, <1>d, <2>1, <2>3, <3>1, <3>3
    <2> QED  BY <1>6, <2>2, <2>3 DEF Opens
  <1> QED  BY <1>1, <1>2, <1>3, <1>4, <1>5, <1>6 DEF ActSteps

LEMMA SaveLostKeeps ==
  ASSUME EditorInv, NEW t \in Tabs, SaveLost(t)
  PROVE  EditorInv' /\ Onward
  <1> DEFINE s == [save[t] EXCEPT !.phase = "failed"]
  <1>a. StoreInv /\ PageTyped /\ LoadsTyped /\ SavesTyped /\ ActsTyped  BY DEF EditorInv
  <1>1. s \in SaveSet /\ s.phase = "failed"  BY <1>a DEF SavesTyped, SaveSet
  <1>2. save' = [save EXCEPT ![t] = s] /\ save[t].phase \in {"sent", "done", "conflict"}
        /\ UNCHANGED <<server, page, loads, act, hasty>>
    BY <1>a DEF SaveLost, SavesTyped
  <1> HIDE DEF s
  <1>3. save' \in [Tabs -> SaveSet] /\ save'[t] = s /\ \A u \in Tabs : u # t => save'[u] = save[u]
    BY <1>a, <1>1, <1>2 DEF SavesTyped
  <1>4. saving' = saving  BY <1>2 DEF page
  <1>5. SavesTyped'  BY <1>a, <1>1, <1>2, <1>3, <1>4 DEF SavesTyped, Storing
  <1>6. StoreInv' /\ Onward  BY <1>a, <1>1, <1>2, <1>3, StillKeeps DEF Storing
  <1>7. PageTyped' /\ LoadsTyped' /\ ActsTyped'
    BY <1>a, <1>2 DEF PageTyped, LoadsTyped, ActsTyped, page
  <1> QED  BY <1>5, <1>6, <1>7 DEF EditorInv

-----------------------------------------------------------------------------
LEMMA EditorStarts == Init => EditorInv
  <1> SUFFICES ASSUME Init PROVE EditorInv
    OBVIOUS
  <1>0. PICK seed \in Sites, text \in Texts \ {Blank} :
    /\ row = [f \in Files |-> IF seed[f] = NoPath THEN NoRow
                               ELSE [path |-> seed[f], gone |-> FALSE, ver |-> 1]]
    /\ disk = [p \in Paths |-> IF \E f \in Files : seed[f] = p THEN text ELSE NoText]
    /\ revs = [f \in Files |-> [v \in Versions |-> NoText]]
    /\ stored = [f \in Files |-> [v \in Versions |->
                   IF v = 1 /\ seed[f] # NoPath THEN text ELSE NoText]]
    /\ held = [p \in Paths |-> {f \in Files : seed[f] = p}]
    /\ raced = FALSE
    /\ listed = [t \in Tabs |-> [p \in Paths |-> NoFile]]
    /\ sel = [t \in Tabs |-> NoSel]
    /\ buf = [t \in Tabs |-> Empty]
    /\ conflict = [t \in Tabs |-> 0]
    /\ loading = [t \in Tabs |-> FALSE]
    /\ saving = [t \in Tabs |-> FALSE]
    /\ loads = [t \in Tabs |-> {}]
    /\ save = [t \in Tabs |-> NoSave]
    /\ act = [t \in Tabs |-> [Idle EXCEPT !.kind = "open", !.phase = "sent"]]
    /\ hasty = {}
    BY DEF Init
  <1>1. /\ \A f \in Files : seed[f] \in Paths \cup {NoPath}
        /\ \A f, g \in Files : seed[f] = seed[g] => f = g \/ seed[f] = NoPath
    BY EditorAssumption
  <1>2. 1 \in Versions /\ 1 \in VersionNumbers /\ 0 \in VersionNumbers /\ NoText \in Text /\ text \in Text
        /\ text # NoText /\ NoPath \notin Paths
    BY EditorAssumption DEF Versions, VersionNumbers, Text
  <1>3. \A f \in Files :
          /\ row[f] \in RowSet
          /\ seed[f] = NoPath => row[f].ver = 0
          /\ seed[f] # NoPath => row[f].path = seed[f] /\ ~row[f].gone /\ row[f].ver = 1 /\ seed[f] \in Paths
    BY <1>0, <1>1, <1>2 DEF NoRow, RowSet, Place
  <1>4. \A f \in Files : f \in Rows <=> seed[f] # NoPath  BY <1>3 DEF Rows
  <1>5. StoreTyped
    <2>1. row \in [Files -> RowSet]  BY <1>0, <1>3
    <2>2. \A f \in Rows : row[f].path \in Paths  BY <1>3, <1>4 DEF Rows
    <2>3. disk \in [Paths -> Text]  BY <1>0, <1>2
    <2>4. revs \in [Files -> [Versions -> Text]] /\ stored \in [Files -> [Versions -> Text]]  BY <1>0, <1>2
    <2>5. held \in [Paths -> SUBSET Files] /\ raced \in BOOLEAN  BY <1>0
    <2> QED  BY <2>1, <2>2, <2>3, <2>4, <2>5 DEF StoreTyped
  <1>6. OnePerPath  BY <1>1, <1>3, <1>4 DEF OnePerPath, Rows
  <1>7. \A f \in Rows : ~row[f].gone /\ row[f].ver = 1 /\ disk[row[f].path] = text /\ f \in Files
    <2>1. \A f \in Rows : f \in Files /\ seed[f] # NoPath /\ row[f].path = seed[f]  BY <1>3, <1>4 DEF Rows
    <2> QED  BY <1>0, <1>3, <2>1
  <1>8. LiveHasBytes  BY <1>2, <1>7 DEF LiveHasBytes
  <1>9. \A t \in Tabs : ~Storing(t) /\ save[t].phase = "none"  BY <1>0, Defaults DEF Storing
  <1>10. \A f \in Files, v \in Versions :
           revs[f][v] = NoText /\ stored[f][v] = IF v = 1 /\ f \in Rows THEN text ELSE NoText
    BY <1>0, <1>4
  <1>11. NothingAhead
    <2> SUFFICES ASSUME NEW f \in Files, NEW v \in Versions, v > row[f].ver
                 PROVE  revs[f][v] = NoText /\ stored[f][v] = NoText
      BY DEF NothingAhead
    <2>1. f \in Rows => v # 1  BY <1>7 DEF Versions
    <2> QED  BY <2>1, <1>10
  <1>12. RevisionsAreTrue  BY <1>10 DEF RevisionsAreTrue
  <1>13. CurrentIsThere  BY <1>2, <1>7, <1>10 DEF CurrentIsThere
  <1>14. OneSave /\ SavesKnow  BY <1>9 DEF OneSave, SavesKnow
  <1>15. Replaced
    <2> SUFFICES ASSUME NEW f \in Rows, NEW v \in Versions, v < row[f].ver \/ (row[f].gone /\ v = row[f].ver)
                 PROVE  stored[f][v] \in {NoText, revs[f][v]}
      BY DEF Replaced
    <2>1. v # 1  BY <1>7 DEF Versions
    <2> QED  BY <2>1, <1>7, <1>10
  <1>16. StoreInv  BY <1>5, <1>6, <1>8, <1>11, <1>12, <1>13, <1>14, <1>15 DEF StoreInv, Kept
  <1>17. PageTyped  BY <1>0, Defaults DEF PageTyped
  <1>18. LoadsTyped  BY <1>0 DEF LoadsTyped
  <1>19. SavesTyped  BY <1>0, <1>9, Defaults DEF SavesTyped
  <1>20. ActsTyped
    <2> DEFINE a == [Idle EXCEPT !.kind = "open", !.phase = "sent"]
    <2>1. a \in ActSet /\ a.kind = "open"  BY Defaults DEF ActSet, ActKinds
    <2> HIDE DEF a
    <2>2. act = [t \in Tabs |-> a]  BY <1>0 DEF a
    <2> QED  BY <2>1, <2>2 DEF ActsTyped, Asks
  <1> QED  BY <1>16, <1>17, <1>18, <1>19, <1>20 DEF EditorInv

LEMMA EditorGoesOn == EditorInv /\ [Next]_vars => EditorInv'
  <1> SUFFICES ASSUME EditorInv, [Next]_vars PROVE EditorInv'
    OBVIOUS
  <1>a. StoreInv /\ PageTyped /\ LoadsTyped /\ SavesTyped /\ ActsTyped  BY DEF EditorInv
  <1>b. ASSUME UNCHANGED <<page, loads, save, act, hasty>>
        PROVE  PageTyped' /\ LoadsTyped' /\ SavesTyped' /\ ActsTyped'
    BY <1>a, <1>b DEF PageTyped, LoadsTyped, SavesTyped, ActsTyped, Storing, page
  <1>1. CASE UNCHANGED vars
    <2>1. StoreInv'  BY <1>a, <1>1, StillKeeps DEF vars, Storing
    <2> QED  BY <1>1, <1>b, <2>1 DEF EditorInv, vars
  <1>2. ASSUME NEW t \in Tabs, Clicks(t) PROVE EditorInv'  BY <1>2, ClicksKeep
  <1>3. ASSUME NEW t \in Tabs, SaveSteps(t) PROVE EditorInv'  BY <1>3, SaveStepsKeep
  <1>4. ASSUME NEW t \in Tabs, LoadSteps(t) PROVE EditorInv'  BY <1>4, LoadStepsKeep DEF LoadSteps
  <1>5. ASSUME NEW t \in Tabs, ActSteps(t) PROVE EditorInv'  BY <1>5, ActStepsKeep
  <1>6. ASSUME NEW t \in Tabs, Losses(t) PROVE EditorInv'
    BY <1>6, SaveLostKeeps, ActStepsKeep, LoadStepsKeep DEF Losses
  <1>7. ASSUME NEW text \in Texts, Regenerate(text) PROVE EditorInv'
    <2>1. StoreInv'  BY <1>a, <1>7, RegenerateKeeps
    <2>2. PageTyped' /\ LoadsTyped' /\ SavesTyped' /\ ActsTyped'
      BY <1>a, <1>7 DEF Regenerate, PageTyped, LoadsTyped, SavesTyped, ActsTyped, Storing, page
    <2> QED  BY <2>1, <2>2 DEF EditorInv
  <1> QED  BY <1>1, <1>2, <1>3, <1>4, <1>5, <1>6, <1>7 DEF Next, Step

-----------------------------------------------------------------------------
(* What a tab knows is kept by the steps of the others, and by its own. *)

\* What is known of a text stays known.
LEMMA SinceStays ==
  ASSUME EditorInv, EditorInv', Forward, NEW f, NEW v, NEW text, Since(f, v, text)
  PROVE  Since(f, v, text)'
  <1>a. f \in Rows /\ f \in Files /\ v \in Versions /\ v <= row[f].ver /\ text \in Texts /\ text # NoText
    BY EditorAssumption DEF Since, Rows
  <1>b. f \in Rows' /\ row[f].ver <= row'[f].ver /\ row[f].ver \in Nat /\ row'[f].ver \in Nat /\ v \in Nat
    BY <1>a DEF Forward, EditorInv, StoreInv, StoreTyped, RowSet, VersionNumbers, Versions
  <1>1. v <= row'[f].ver  BY <1>a, <1>b
  <1>2. Writing(f, text)' \/ \E w \in v .. MaxVersion : stored'[f][w] = text
    <2>1. CASE Writing(f, text)
      <3>1. CASE Writing(f, text)'  BY <3>1
      <3>2. CASE \E w \in Versions : w >= row[f].ver /\ stored'[f][w] = text
        <4>1. PICK w \in Versions : w >= row[f].ver /\ stored'[f][w] = text  BY <3>2
        <4>2. w \in v .. MaxVersion  BY <4>1, <1>a, <1>b, EditorAssumption DEF Versions
        <4> QED  BY <4>1, <4>2
      <3> QED  BY <2>1, <3>1, <3>2, <1>a DEF Forward
    <2>2. CASE \E w \in v .. MaxVersion : stored[f][w] = text
      <3>1. PICK w \in v .. MaxVersion : stored[f][w] = text  BY <2>2
      <3>2. w \in Versions  BY <3>1, <1>a, EditorAssumption DEF Versions
      <3>3. stored'[f][w] = text  BY <3>1, <3>2, <1>a DEF Forward
      <3> QED  BY <3>3
    <2> QED  BY <2>1, <2>2 DEF Since
  <1>3. ASSUME ~row'[f].gone, row'[f].ver = v, \A other \in Texts : ~Writing(f, other)'
        PROVE  disk'[row'[f].path] = text
    <2>1. row'[f].ver = row[f].ver  BY <1>3, <1>a, <1>b
    <2>2. ~row[f].gone /\ (\A other \in Texts : ~Writing(f, other)) /\ disk'[row'[f].path] = disk[row[f].path]
      BY <1>3, <1>a, <2>1 DEF Forward
    <2> QED  BY <1>3, <2>1, <2>2 DEF Since
  <1> QED  BY <1>a, <1>b, <1>1, <1>2, <1>3 DEF Since

\* Who is patient after a step was so before it, and the store went forward.
LEMMA PatientWas ==
  ASSUME TabInv, Onward, hasty \subseteq hasty', NEW t \in Tabs, Patient(t)'
  PROVE  Patient(t) /\ TabKnows(t) /\ ~raced /\ ~raced' /\ Full /\ Full' /\ Forward
  BY DEF TabInv, Onward, Patient

\* What a step owes a tab.
Follows(t) == TabHeld(t)' /\ (Patient(t)' => TabKnows(t)')

\* A step that leaves a tab alone.
Same(t) ==
  /\ listed'[t] = listed[t] /\ sel'[t] = sel[t] /\ buf'[t] = buf[t]
  /\ loads'[t] = loads[t] /\ save'[t] = save[t] /\ act'[t] = act[t]

LEMMA HeldGrows ==
  ASSUME EditorInv, TabInv, Onward, NEW t \in Tabs
  PROVE  /\ \A p \in Paths : listed[t][p] # NoFile => listed[t][p] \in held'[p]
         /\ sel[t] # NoSel => sel[t].path \in Paths /\ sel[t].file \in held'[sel[t].path]
         /\ \A q \in loads[t] : q.path \in Paths /\ q.file \in held'[q.path]
         /\ Storing(t) \/ save[t].phase = "done" =>
              (save[t].path \in Paths => save[t].file \in held'[save[t].path])
  <1>1. TabHeld(t)  BY DEF TabInv
  <1>2. \A q \in loads[t] : q.path \in Paths  BY DEF EditorInv, LoadsTyped, LoadSet
  <1>3. sel[t] # NoSel => sel[t].path \in Paths  BY SelectedIs DEF EditorInv
  <1> QED  BY <1>1, <1>2, <1>3 DEF TabHeld, Onward

\* A tab that keeps what it shows keeps what it knows of it.
LEMMA BufferStays ==
  ASSUME EditorInv, EditorInv', Forward, NEW t \in Tabs, BufferKnows(t),
         sel'[t] = sel[t], buf'[t].orig = buf[t].orig, ~buf'[t].dirty => buf'[t].cur = buf'[t].orig
  PROVE  BufferKnows(t)'
  <1>1. ASSUME sel[t] # NoSel PROVE Since(sel[t].file, sel[t].ver, buf[t].orig)'
    <2>1. PICK f, v, text : f = sel[t].file /\ v = sel[t].ver /\ text = buf[t].orig  OBVIOUS
    <2>2. Since(f, v, text)  BY <1>1, <2>1 DEF BufferKnows
    <2>3. Since(f, v, text)'  BY <2>2, SinceStays
    <2>4. sel'[t].file = f /\ sel'[t].ver = v /\ buf'[t].orig = text  BY <2>1
    <2> QED  BY <2>3, <2>4
  <1> QED  BY <1>1 DEF BufferKnows

LEMMA LoadStays ==
  ASSUME EditorInv, EditorInv', Forward, NEW q \in LoadSet, LoadKnows(q)
  PROVE  LoadKnows(q)'
  <1>1. ASSUME q.phase = "row"
        PROVE  q.file \in Rows' /\ q.ver \in Versions /\ q.ver <= row'[q.file].ver
    <2>1. q.file \in Rows /\ q.ver \in Versions /\ q.ver <= row[q.file].ver  BY <1>1 DEF LoadKnows
    <2>2. q.file \in Rows' /\ row[q.file].ver <= row'[q.file].ver  BY <2>1 DEF Forward
    <2>3. q.ver \in Nat /\ row[q.file].ver \in Nat /\ row'[q.file].ver \in Nat
      BY <2>1 DEF Rows, EditorInv, StoreInv, StoreTyped, RowSet, VersionNumbers, Versions
    <2> QED  BY <2>1, <2>2, <2>3
  <1>2. ASSUME q.phase = "done" PROVE Since(q.file, q.ver, q.text)'
    <2>1. Since(q.file, q.ver, q.text)  BY <1>2 DEF LoadKnows
    <2> QED  BY <2>1, SinceStays
  <1> QED  BY <1>1, <1>2 DEF LoadKnows

LEMMA SaveStays ==
  ASSUME EditorInv, EditorInv', Forward, NEW t \in Tabs, SaveIsOfBuffer(t),
         sel'[t] = sel[t], buf'[t].cur = buf[t].cur, save'[t] = save[t]
  PROVE  SaveIsOfBuffer(t)'
  <1>1. ASSUME save[t].phase = "done" PROVE Since(save[t].file, save[t].ver, save[t].text)'
    <2>1. PICK f, v, text : f = save[t].file /\ v = save[t].ver /\ text = save[t].text  OBVIOUS
    <2>2. Since(f, v, text)  BY <1>1, <2>1 DEF SaveIsOfBuffer
    <2>3. Since(f, v, text)'  BY <2>2, SinceStays
    <2>4. save'[t].file = f /\ save'[t].ver = v /\ save'[t].text = text  BY <2>1
    <2> QED  BY <2>3, <2>4
  <1> QED  BY <1>1 DEF SaveIsOfBuffer

LEMMA OthersStay ==
  ASSUME EditorInv, EditorInv', TabInv, Onward, hasty \subseteq hasty', NEW t \in Tabs, Same(t)
  PROVE  Follows(t)
  <1>1. TabHeld(t)'
    <2>1. \A p \in Paths : listed'[t][p] # NoFile => listed'[t][p] \in held'[p]  BY HeldGrows DEF Same
    <2>2. sel'[t] # NoSel => sel'[t].file \in held'[sel'[t].path]  BY HeldGrows DEF Same
    <2>3. \A q \in loads'[t] : q.file \in held'[q.path]  BY HeldGrows DEF Same
    <2>4. Storing(t)' \/ save'[t].phase = "done" => save'[t].file \in held'[save'[t].path]
      <3>1. (Storing(t)' <=> Storing(t)) /\ save'[t] = save[t]  BY DEF Same, Storing
      <3>2. Storing(t) \/ save[t].phase = "done" => save[t].path \in Paths
        BY DEF EditorInv, SavesTyped
      <3> QED  BY <3>1, <3>2, HeldGrows
    <2> QED  BY <2>1, <2>2, <2>3, <2>4 DEF TabHeld
  <1>2. ASSUME Patient(t)' PROVE TabKnows(t)'
    <2>1. TabKnows(t) /\ Forward  BY <1>2, PatientWas
    <2>2. Waits(t)'  BY <2>1 DEF TabKnows, Waits, Same
    <2>3. BufferKnows(t)'  BY <2>1, BufferStays DEF TabKnows, BufferKnows, Same
    <2>4. LoadsKnow(t)'
      <3> SUFFICES ASSUME NEW q \in loads[t] PROVE LoadKnows(q)'
        BY DEF LoadsKnow, Same
      <3> QED  BY <2>1, LoadStays DEF TabKnows, LoadsKnow, EditorInv, LoadsTyped
    <2>5. SaveIsOfBuffer(t)'  BY <2>1, SaveStays DEF TabKnows, Same
    <2> QED  BY <2>2, <2>3, <2>4, <2>5 DEF TabKnows
  <1> QED  BY <1>1, <1>2 DEF Follows

-----------------------------------------------------------------------------
(* The steps of a tab itself. *)

\* A step of somebody that restarts no version.
Goes == EditorInv /\ EditorInv' /\ TabInv /\ Onward /\ hasty \subseteq hasty'

\* What is listed was there, and so is what is known from it.
LEMMA HeldFollows ==
  ASSUME Goes, NEW t \in Tabs,
         listed'[t] \in {listed[t], Listing},
         sel'[t] # NoSel => \/ sel[t] # NoSel /\ sel'[t].path = sel[t].path /\ sel'[t].file = sel[t].file
                            \/ sel'[t].file \in held[sel'[t].path],
         \A q \in loads'[t] : q.file \in held[q.path],
         Storing(t)' \/ save'[t].phase = "done" => save'[t].file \in held[save'[t].path]
  PROVE  TabHeld(t)'
  <1>a. PageTyped' /\ LoadsTyped' /\ SavesTyped' /\ TabHeld(t) /\ RowsHeld
        /\ (\A p \in Paths : held[p] \subseteq held'[p])
    BY DEF Goes, EditorInv, TabInv, Onward
  <1>1. ASSUME NEW p \in Paths, listed'[t][p] # NoFile PROVE listed'[t][p] \in held'[p]
    <2>1. CASE listed'[t] = listed[t]  BY <1>a, <1>1, <2>1 DEF TabHeld
    <2>2. CASE listed'[t] = Listing
      <3>1. At(p) # {}  BY <1>1, <2>2 DEF Listing
      <3>2. Listing[p] \in At(p)  BY <3>1, ListingIs
      <3> QED  BY <1>a, <2>2, <3>2 DEF RowsHeld, At
    <2> QED  BY <2>1, <2>2
  <1>2. ASSUME sel'[t] # NoSel PROVE sel'[t].file \in held'[sel'[t].path]
    <2>1. sel'[t].path \in Paths
      BY <1>a, <1>2 DEF PageTyped, SelSet
    <2> QED  BY <1>a, <1>2, <2>1 DEF TabHeld
  <1>3. ASSUME NEW q \in loads'[t] PROVE q.file \in held'[q.path]
    <2>1. q.path \in Paths  BY <1>a, <1>3 DEF LoadsTyped, LoadSet
    <2> QED  BY <1>a, <1>3, <2>1
  <1>4. ASSUME Storing(t)' \/ save'[t].phase = "done" PROVE save'[t].file \in held'[save'[t].path]
    <2>1. save'[t].path \in Paths  BY <1>a, <1>4 DEF SavesTyped
    <2> QED  BY <1>a, <1>4, <2>1
  <1> QED  BY <1>1, <1>2, <1>3, <1>4 DEF TabHeld

\* The loads of a tab know what they knew.
LEMMA LoadsFollow ==
  ASSUME Goes, Forward, NEW t \in Tabs, LoadsKnow(t),
         \A q \in loads'[t] : q \in loads[t] \/ q.phase \in {"sent", "failed"} \/ LoadKnows(q)'
  PROVE  LoadsKnow(t)'
  <1> SUFFICES ASSUME NEW q \in loads'[t] PROVE LoadKnows(q)'
    BY DEF LoadsKnow
  <1>1. CASE q \in loads[t]
    <2>1. q \in LoadSet  BY <1>1 DEF Goes, EditorInv, LoadsTyped
    <2>2. LoadKnows(q)  BY <1>1 DEF LoadsKnow
    <2> QED  BY <2>1, <2>2, LoadStays DEF Goes
  <1>2. CASE q.phase \in {"sent", "failed"}  BY <1>2 DEF LoadKnows
  <1> QED  BY <1>1, <1>2

\* A tab with no save on its way.
LEMMA NothingSaved ==
  ASSUME Goes, Forward, NEW t \in Tabs, BufferKnows(t), LoadsKnow(t), save'[t] = NoSave,
         \/ sel'[t] = sel[t] /\ buf'[t].orig = buf[t].orig /\ (~buf'[t].dirty => buf'[t].cur = buf'[t].orig)
         \/ sel'[t] = NoSel /\ (~buf'[t].dirty => buf'[t].cur = buf'[t].orig),
         \A q \in loads'[t] : q \in loads[t] \/ q.phase \in {"sent", "failed"} \/ LoadKnows(q)'
  PROVE  TabKnows(t)'
  <1>1. BufferKnows(t)'
    <2>1. CASE sel'[t] = NoSel /\ (~buf'[t].dirty => buf'[t].cur = buf'[t].orig)  BY <2>1 DEF BufferKnows
    <2>2. CASE sel'[t] = sel[t] /\ buf'[t].orig = buf[t].orig /\ (~buf'[t].dirty => buf'[t].cur = buf'[t].orig)
      BY <2>2, BufferStays DEF Goes
    <2> QED  BY <2>1, <2>2
  <1>2. LoadsKnow(t)'  BY LoadsFollow
  <1>3. Waits(t)' /\ SaveIsOfBuffer(t)'  BY Defaults DEF Waits, SaveIsOfBuffer
  <1> QED  BY <1>1, <1>2, <1>3 DEF TabKnows

\* A tab whose save is on its way.
LEMMA SaveGoes ==
  ASSUME Goes, Forward, NEW t \in Tabs, BufferKnows(t), SaveIsOfBuffer(t)',
         loads'[t] = {}, act'[t] = Idle,
         sel'[t] = sel[t] /\ buf'[t] = buf[t]
  PROVE  (~buf[t].dirty => buf[t].cur = buf[t].orig) => TabKnows(t)'
  <1>1. ASSUME ~buf[t].dirty => buf[t].cur = buf[t].orig PROVE BufferKnows(t)'
    BY <1>1, BufferStays DEF Goes
  <1>2. LoadsKnow(t)' /\ Waits(t)'  BY DEF LoadsKnow, Waits
  <1> QED  BY <1>1, <1>2 DEF TabKnows

\* A click of a user who waited.
LEMMA ClickWaited ==
  ASSUME Goes, NEW t \in Tabs, User(t), Patient(t)'
  PROVE  /\ TabKnows(t) /\ Forward
         /\ loads[t] = {} /\ save[t] = NoSave /\ act[t] = Idle
  <1>1. t \notin hasty'  BY DEF Patient
  <1>2. ~Busy(t)  BY <1>1 DEF User
  <1>3. TabKnows(t) /\ Forward  BY PatientWas DEF Goes
  <1> QED  BY <1>2, <1>3 DEF Busy

LEMMA StartKnows ==
  ASSUME Goes, NEW t \in Tabs, NEW a, Start(t, a)
  PROVE  Follows(t)
  <1>a. EditorInv /\ TabInv /\ TabHeld(t) /\ UNCHANGED <<server, page, loads, save>> /\ User(t)
    BY DEF Goes, TabInv, Start
  <1>1. TabHeld(t)'  BY <1>a, HeldFollows DEF TabHeld, Storing, page
  <1>2. ASSUME Patient(t)' PROVE TabKnows(t)'
    <2>1. TabKnows(t) /\ Forward /\ loads[t] = {} /\ save[t] = NoSave  BY <1>a, <1>2, ClickWaited
    <2> QED  BY <1>a, <2>1, NothingSaved DEF TabKnows, BufferKnows, page
  <1> QED  BY <1>1, <1>2 DEF Follows

LEMMA ClicksKnow ==
  ASSUME Goes, NEW t \in Tabs, Clicks(t)
  PROVE  Follows(t)
  <1>a. EditorInv /\ PageTyped /\ LoadsTyped /\ SavesTyped /\ TabInv /\ TabHeld(t)
    BY DEF Goes, EditorInv, TabInv
  <1>w. ASSUME User(t), Patient(t)'
        PROVE  /\ TabKnows(t) /\ Forward /\ BufferKnows(t) /\ LoadsKnow(t)
               /\ loads[t] = {} /\ save[t] = NoSave /\ act[t] = Idle
               /\ (~buf[t].dirty => buf[t].cur = buf[t].orig)
    BY <1>w, ClickWaited DEF TabKnows, BufferKnows
  <1>f. NoSel.path = NoPath /\ NoPath \notin Paths  BY EditorAssumption DEF NoSel
  \* The clicks that send no save.
  <1>b. ASSUME User(t), listed'[t] = listed[t], save'[t] = save[t],
               \/ /\ sel'[t] = sel[t] /\ buf'[t].orig = buf[t].orig
                  /\ (buf'[t] = buf[t] \/ (~buf'[t].dirty => buf'[t].cur = buf'[t].orig))
               \/ sel'[t] = NoSel /\ (~buf'[t].dirty => buf'[t].cur = buf'[t].orig),
               \A q \in loads'[t] : q \in loads[t] \/ (q.phase = "sent" /\ q.file \in held[q.path])
        PROVE  Follows(t)
    <2>1. \A q \in loads'[t] : q.file \in held[q.path]  BY <1>a, <1>b DEF TabHeld
    <2>2. Storing(t)' \/ save'[t].phase = "done" => save'[t].file \in held[save'[t].path]
      BY <1>a, <1>b DEF TabHeld, Storing
    <2>3. TabHeld(t)'  BY <1>b, <2>1, <2>2, HeldFollows
    <2>4. ASSUME Patient(t)' PROVE TabKnows(t)'
      <3>1. Forward /\ BufferKnows(t) /\ LoadsKnow(t) /\ save'[t] = NoSave
            /\ (~buf[t].dirty => buf[t].cur = buf[t].orig)
        BY <1>b, <1>w, <2>4
      <3> QED  BY <1>b, <3>1, NothingSaved
    <2> QED  BY <2>3, <2>4 DEF Follows
  \* The clicks that send one.
  <1>c. ASSUME User(t), UNCHANGED <<listed, sel, buf, loads, act>>, sel[t] # NoSel,
               NEW expect, NEW force \in BOOLEAN, SendSave(t, expect, force), force \/ expect = sel[t].ver
        PROVE  Follows(t)
    <2> DEFINE s == [NoSave EXCEPT !.phase = "sent", !.path = sel[t].path, !.text = buf[t].cur,
                                   !.expect = expect, !.force = force]
    <2>1. s.phase = "sent" /\ s.path = sel[t].path /\ s.text = buf[t].cur /\ s.expect = expect
          /\ s.force = force
      BY DEF NoSave
    <2>2. save' = [save EXCEPT ![t] = s]  BY <1>c DEF SendSave
    <2> HIDE DEF s
    <2>3. save'[t] = s  BY <1>a, <2>2 DEF SavesTyped
    <2>4. TabHeld(t)'  BY <1>a, <1>c, <2>1, <2>3, HeldFollows DEF TabHeld, Storing
    <2>5. SaveIsOfBuffer(t)'  BY <1>c, <2>1, <2>3 DEF SaveIsOfBuffer
    <2>6. ASSUME Patient(t)' PROVE TabKnows(t)'
      <3>1. Forward /\ BufferKnows(t) /\ loads[t] = {} /\ act[t] = Idle
            /\ (~buf[t].dirty => buf[t].cur = buf[t].orig)
        BY <1>c, <1>w, <2>6
      <3> QED  BY <1>c, <2>5, <3>1, SaveGoes
    <2> QED  BY <2>4, <2>6 DEF Follows
  <1>1. ASSUME NEW text \in Texts, Type(t, text) PROVE Follows(t)
    <2>1. buf'[t].orig = buf[t].orig /\ buf'[t].cur = text /\ buf'[t].dirty = (text # buf[t].orig)
      BY <1>a, <1>1 DEF Type, PageTyped
    <2> QED  BY <1>b, <1>1, <2>1 DEF Type, server
  <1>2. ASSUME NEW p \in Paths, SelectFile(t, p) PROVE Follows(t)
    <2> DEFINE q == Request(listed[t][p], p)
    <2>1. q.phase = "sent" /\ q.file = listed[t][p] /\ q.path = p  BY DEF Request
    <2>2. q.file \in held[q.path]  BY <1>a, <1>2, <2>1 DEF TabHeld, SelectFile
    <2> HIDE DEF q
    <2>3. loads' = [loads EXCEPT ![t] = @ \cup {q}]  BY <1>2 DEF SelectFile, q
    <2>4. loads'[t] = loads[t] \cup {q}  BY <1>a, <2>3 DEF LoadsTyped
    <2> QED  BY <1>b, <1>2, <2>1, <2>2, <2>4 DEF SelectFile
  <1>3. CASE SelectFolder(t)
    <2>1. sel'[t] = NoSel /\ buf'[t] = Empty  BY <1>a, <1>3 DEF SelectFolder, PageTyped
    <2>2. Empty.cur = Empty.orig  BY DEF Empty
    <2> QED  BY <1>b, <1>3, <2>1, <2>2 DEF SelectFolder
  <1>4. CASE RevertBuffer(t)
    <2>1. buf'[t].orig = buf[t].orig /\ buf'[t].cur = buf[t].orig  BY <1>a, <1>4 DEF RevertBuffer, PageTyped
    <2> QED  BY <1>b, <1>4, <2>1 DEF RevertBuffer
  <1>5. CASE OnSave(t)
    <2>1. sel[t] # NoSel  BY <1>5, <1>f DEF OnSave, CanSave, HasFile
    <2> QED  BY <1>c, <1>5, <2>1 DEF OnSave
  <1>6. CASE OnConflictOverwrite(t)
    <2>1. CASE sel[t] = NoSel  BY <1>b, <1>6, <2>1 DEF OnConflictOverwrite
    <2>2. CASE sel[t] # NoSel  BY <1>c, <1>6, <2>2 DEF OnConflictOverwrite
    <2> QED  BY <2>1, <2>2
  <1>7. CASE OnConflictCancel(t)  BY <1>b, <1>7 DEF OnConflictCancel
  <1>8. ASSUME NEW agreed \in BOOLEAN, OnConflictReload(t, agreed) PROVE Follows(t)
    <2>1. CASE agreed /\ HasFile(t)
      <3> DEFINE p == sel[t].path
                 q == [Request(listed[t][p], p) EXCEPT !.closes = TRUE]
      <3>1. q.phase = "sent" /\ q.file = listed[t][p] /\ q.path = p  BY DEF Request
      <3>2. p \in Paths /\ listed[t][p] # NoFile  BY <1>a, <2>1, SelectedIs DEF HasFile, Place
      <3>3. q.file \in held[q.path]  BY <1>a, <3>1, <3>2 DEF TabHeld
      <3>4. loads' = [loads EXCEPT ![t] = @ \cup {q}]  BY <1>8, <2>1 DEF OnConflictReload
      <3> HIDE DEF q
      <3>5. loads'[t] = loads[t] \cup {q}  BY <1>a, <3>4 DEF LoadsTyped
      <3> QED  BY <1>b, <1>8, <3>1, <3>3, <3>5 DEF OnConflictReload
    <2>2. CASE ~(agreed /\ HasFile(t))  BY <1>b, <1>8, <2>2 DEF OnConflictReload
    <2> QED  BY <2>1, <2>2
  <1>9. ASSUME NEW a, Start(t, a) PROVE Follows(t)  BY <1>9, StartKnows
  <1>10. ASSUME NEW p \in Paths, OnCreateFile(t, p) \/ OnMove(t, p) \/ OnRestoreDeleted(t, p) PROVE Follows(t)
    BY <1>9, <1>10 DEF OnCreateFile, OnMove, OnRestoreDeleted
  <1>11. ASSUME NEW p \in Paths, NEW text \in Texts, OnUpload(t, p, text) PROVE Follows(t)
    BY <1>9, <1>11 DEF OnUpload
  <1>12. ASSUME NEW v \in Versions, OnRevert(t, v) PROVE Follows(t)  BY <1>9, <1>12 DEF OnRevert, Offered
  <1>13. CASE OnCreateFolder(t) \/ OnDelete(t) \/ OnDeleteFolder(t)
    BY <1>9, <1>13 DEF OnCreateFolder, OnDelete, OnDeleteFolder
  <1> QED
    BY <1>1, <1>2, <1>3, <1>4, <1>5, <1>6, <1>7, <1>8, <1>10, <1>11, <1>12, <1>13 DEF Clicks

\* A tab with nothing but its save under way.
LEMMA SaveWaited ==
  ASSUME Goes, NEW t \in Tabs, save[t] # NoSave, Patient(t)'
  PROVE  /\ Forward /\ ~raced /\ ~raced' /\ Full /\ Patient(t)
         /\ BufferKnows(t) /\ SaveIsOfBuffer(t) /\ LoadsKnow(t)
         /\ loads[t] = {} /\ act[t] = Idle
         /\ (~buf[t].dirty => buf[t].cur = buf[t].orig)
  <1>1. TabKnows(t) /\ Forward /\ ~raced /\ ~raced' /\ Full /\ Patient(t)  BY PatientWas DEF Goes
  <1> QED  BY <1>1 DEF TabKnows, Waits, BufferKnows

LEMMA SaveStepsKnow ==
  ASSUME Goes, NEW t \in Tabs, SaveSteps(t) \/ SaveLost(t)
  PROVE  Follows(t)
  <1>a. EditorInv /\ StoreInv /\ StoreTyped /\ PageTyped /\ LoadsTyped /\ SavesTyped /\ TabInv /\ RowsHeld
        /\ TabHeld(t) /\ save[t] \in SaveSet /\ save \in [Tabs -> SaveSet]
    BY DEF Goes, EditorInv, StoreInv, TabInv, SavesTyped
  <1>n. save[t].phase # "none" => save[t] # NoSave  BY Defaults
  \* What is shown stays.
  <1>b. ASSUME UNCHANGED <<listed, sel, buf, loads, act>>, save[t].phase # "none",
               save'[t].path = save[t].path /\ save'[t].text = save[t].text
               /\ save'[t].expect = save[t].expect /\ save'[t].force = save[t].force,
               save[t].phase \in {"sent", "passed", "written", "counted", "done"}
               \/ save'[t].phase \notin {"sent", "passed", "written", "counted", "done"},
               Storing(t)' \/ save'[t].phase = "done" =>
                 \/ (Storing(t) \/ save[t].phase = "done") /\ save'[t].file = save[t].file
                 \/ save'[t].file \in held[save[t].path],
               save'[t].phase = "done" /\ Patient(t)' =>
                 Since(save[t].file, save[t].ver, save[t].text)'
        PROVE  Follows(t)
    <2>1. Storing(t)' \/ save'[t].phase = "done" => save'[t].file \in held[save'[t].path]
      BY <1>a, <1>b DEF TabHeld
    <2>2. TabHeld(t)'  BY <1>a, <1>b, <2>1, HeldFollows DEF TabHeld
    <2>3. ASSUME Patient(t)' PROVE TabKnows(t)'
      <3>1. Forward /\ BufferKnows(t) /\ SaveIsOfBuffer(t) /\ loads[t] = {} /\ act[t] = Idle
            /\ (~buf[t].dirty => buf[t].cur = buf[t].orig)
        BY <1>b, <1>n, <2>3, SaveWaited
      <3>2. SaveIsOfBuffer(t)'
        <4>1. CASE save'[t].phase \notin {"sent", "passed", "written", "counted", "done"}
          BY <4>1 DEF SaveIsOfBuffer
        <4>2. CASE save[t].phase \in {"sent", "passed", "written", "counted", "done"}
          <5>1. sel[t] # NoSel /\ save[t].path = sel[t].path /\ save[t].text = buf[t].cur
                /\ (~save[t].force => save[t].expect = sel[t].ver)
            BY <3>1, <4>2 DEF SaveIsOfBuffer
          <5>2. sel'[t] = sel[t] /\ buf'[t] = buf[t]  BY <1>b
          <5>3. save'[t].phase = "done" => Since(save[t].file, save[t].ver, save[t].text)'
            BY <1>b, <2>3
          <5>4. sel'[t] # NoSel /\ save'[t].path = sel'[t].path /\ save'[t].text = buf'[t].cur
                /\ (~save'[t].force => save'[t].expect = sel'[t].ver)
            BY <1>b, <5>1, <5>2
          <5> QED  BY <5>3, <5>4 DEF SaveIsOfBuffer
        <4> QED  BY <1>b, <4>1, <4>2
      <3> QED  BY <1>b, <3>1, <3>2, SaveGoes
    <2> QED  BY <2>2, <2>3 DEF Follows
  \* The save is over.
  <1>c. ASSUME save[t].phase # "none", save'[t] = NoSave, UNCHANGED <<sel, buf, loads>>,
               listed'[t] \in {listed[t], Listing}
        PROVE  Follows(t)
    <2>1. TabHeld(t)'  BY <1>a, <1>c, Defaults, HeldFollows DEF TabHeld, Storing
    <2>2. ASSUME Patient(t)' PROVE TabKnows(t)'
      <3>1. Forward /\ BufferKnows(t) /\ LoadsKnow(t) /\ (~buf[t].dirty => buf[t].cur = buf[t].orig)
        BY <1>c, <1>n, <2>2, SaveWaited
      <3> QED  BY <1>c, <3>1, NothingSaved
    <2> QED  BY <2>1, <2>2 DEF Follows
  <1>1. CASE SaveCheck(t)
    <2> DEFINE p == save[t].path
               f == Listing[p]
    <2>1. UNCHANGED <<listed, sel, buf, loads, act>> /\ save[t].phase = "sent"
      BY <1>1 DEF SaveCheck, page
    <2>2. p \in Paths  BY <1>a, <2>1 DEF SavesTyped
    <2>3. /\ save'[t].path = save[t].path /\ save'[t].text = save[t].text
          /\ save'[t].expect = save[t].expect /\ save'[t].force = save[t].force
          /\ save'[t].phase \in {"conflict", "failed", "passed"}
          /\ save'[t].phase = "passed" => save'[t].file = f /\ At(p) # {}
      BY <1>1, <1>a DEF SaveCheck, SaveSet
    <2>4. save'[t].phase = "passed" => save'[t].file \in held[save[t].path]
      <3>1. At(p) # {} => f \in At(p)  BY <2>2, ListingIs
      <3> QED  BY <1>a, <2>3, <3>1 DEF At, RowsHeld
    <2> QED  BY <1>b, <2>1, <2>3, <2>4 DEF Storing
  <1>2. CASE SaveBytes(t)
    <2>1. UNCHANGED <<listed, sel, buf, loads, act>> /\ save[t].phase = "passed"
      BY <1>2 DEF SaveBytes, page
    <2>2. /\ save'[t].path = save[t].path /\ save'[t].text = save[t].text
          /\ save'[t].expect = save[t].expect /\ save'[t].force = save[t].force
          /\ save'[t].phase = "written" /\ save'[t].file = save[t].file
      BY <1>2, <1>a DEF SaveBytes, SaveSet
    <2> QED  BY <1>b, <2>1, <2>2 DEF Storing
  <1>3. CASE SaveCount(t)
    <2>1. UNCHANGED <<listed, sel, buf, loads, act>> /\ save[t].phase = "written"
      BY <1>3 DEF SaveCount, page
    <2>2. /\ save'[t].path = save[t].path /\ save'[t].text = save[t].text
          /\ save'[t].expect = save[t].expect /\ save'[t].force = save[t].force
          /\ save'[t].phase \in {"counted", "failed"} /\ save'[t].file = save[t].file
      BY <1>3, <1>a DEF SaveCount, SaveSet
    <2> QED  BY <1>b, <2>1, <2>2 DEF Storing
  <1>4. CASE SaveDone(t)
    <2> DEFINE f == save[t].file
    <2>1. UNCHANGED <<listed, sel, buf, loads, act>> /\ save[t].phase = "counted" /\ f \in Rows
          /\ UNCHANGED <<row, disk, stored>>
      BY <1>4 DEF SaveDone, page
    <2>2. /\ save'[t].path = save[t].path /\ save'[t].text = save[t].text
          /\ save'[t].expect = save[t].expect /\ save'[t].force = save[t].force
          /\ save'[t].phase = "done" /\ save'[t].file = f /\ save'[t].ver = row[f].ver
      BY <1>4, <1>a DEF SaveDone, SaveSet
    <2>3. ASSUME Patient(t)' PROVE Since(save[t].file, save[t].ver, save[t].text)'
      <3>0. PICK g, v, text : g = f /\ v = row[f].ver /\ text = save[t].text  OBVIOUS
      <3>1. ~raced  BY <1>n, <2>1, <2>3, SaveWaited
      <3>2. SaveKnows(t) /\ text \in Texts
        BY <1>a, <2>1, <3>0, <3>1 DEF StoreInv, Kept, SavesKnow, Storing, SavesTyped
      <3>3. row[g].path = save[t].path /\ disk[save[t].path] = text /\ stored[g][v] = text
        BY <2>1, <3>0, <3>2 DEF SaveKnows
      <3>4. v \in Versions /\ v \in v .. MaxVersion /\ v <= v
        BY <1>a, <2>1, <3>0, EditorAssumption DEF Rows, StoreTyped, RowSet, VersionNumbers, Versions
      <3>5. row' = row /\ disk' = disk /\ stored' = stored /\ row'[g].ver = v  BY <2>1, <3>0
      <3>6. g \in Rows' /\ v \in Versions /\ v <= row'[g].ver /\ text \in Texts
        BY <2>1, <3>0, <3>2, <3>4, <3>5 DEF Rows
      <3>7. disk'[row'[g].path] = text /\ \E w \in v .. MaxVersion : stored'[g][w] = text
        BY <3>3, <3>4, <3>5
      <3>8. Since(g, v, text)'  BY <3>6, <3>7 DEF Since
      <3>9. save'[t].file = g /\ save'[t].ver = v /\ save'[t].text = text  BY <2>2, <3>0
      <3> QED  BY <3>8, <3>9
    <2> QED  BY <1>b, <2>1, <2>2, <2>3 DEF Storing
  <1>5. CASE SaveSucceeds(t)
    <2>1. save[t].phase = "done" /\ UNCHANGED <<listed, loads, act>>
      BY <1>5 DEF SaveSucceeds
    <2> DEFINE next == IF sel[t] = NoSel THEN NoSel ELSE [sel[t] EXCEPT !.ver = save[t].ver]
    <2>2. sel'[t] = next /\ buf'[t].orig = buf[t].cur /\ buf'[t].cur = buf[t].cur
          /\ save'[t].phase = "listing" /\ save'[t] # NoSave
      BY <1>5, <1>a DEF SaveSucceeds, PageTyped, NoSave
    <2>3. sel[t] # NoSel => sel'[t].path = sel[t].path /\ sel'[t].file = sel[t].file
                            /\ sel'[t].ver = save[t].ver
      BY <1>a, <2>2, SelectedIs
    <2>4. TabHeld(t)'
      <3>1. sel'[t] # NoSel => sel[t] # NoSel /\ sel'[t].path = sel[t].path /\ sel'[t].file = sel[t].file
        BY <2>2, <2>3
      <3>2. ~Storing(t)' /\ save'[t].phase # "done"  BY <2>2 DEF Storing
      <3> QED  BY <1>a, <2>1, <3>1, <3>2, HeldFollows DEF TabHeld
    <2>5. ASSUME Patient(t)' PROVE TabKnows(t)'
      <3>1. Forward /\ Patient(t) /\ SaveIsOfBuffer(t) /\ loads[t] = {} /\ act[t] = Idle
        BY <1>n, <2>1, <2>5, SaveWaited
      <3>2. /\ sel[t] # NoSel /\ save[t].path = sel[t].path /\ save[t].text = buf[t].cur
            /\ Since(save[t].file, save[t].ver, save[t].text)
        BY <2>1, <3>1 DEF SaveIsOfBuffer
      <3>3. save[t].file = sel[t].file
        <4>1. save[t].file \in held[sel[t].path] /\ sel[t].file \in held[sel[t].path]
          BY <1>a, <2>1, <3>2 DEF TabHeld
        <4>2. sel[t].path \in Paths  BY <1>a, <3>2, SelectedIs
        <4> QED  BY <3>1, <4>1, <4>2 DEF Patient
      <3>4. Since(sel[t].file, sel[t].ver, buf[t].orig)'
        <4>1. PICK f, v, text : f = sel[t].file /\ v = save[t].ver /\ text = buf[t].cur  OBVIOUS
        <4>2. Since(f, v, text)  BY <3>2, <3>3, <4>1
        <4>3. Since(f, v, text)'  BY <3>1, <4>2, SinceStays DEF Goes
        <4>4. sel'[t].file = f /\ sel'[t].ver = v /\ buf'[t].orig = text  BY <2>2, <2>3, <3>2, <4>1
        <4> QED  BY <4>3, <4>4
      <3> QED  BY <2>1, <2>2, <3>1, <3>4 DEF TabKnows, Waits, BufferKnows, LoadsKnow, SaveIsOfBuffer
    <2> QED  BY <2>4, <2>5 DEF Follows
  <1>6. CASE SaveConflicts(t)
    <2>1. save'[t] = NoSave  BY <1>6, <1>a DEF SaveConflicts
    <2> QED  BY <1>c, <1>6, <2>1 DEF SaveConflicts
  <1>7. CASE SaveFails(t)
    <2>1. save'[t] = NoSave  BY <1>7, <1>a DEF SaveFails
    <2> QED  BY <1>c, <1>7, <2>1 DEF SaveFails
  <1>8. CASE SaveLists(t)
    <2>1. save'[t] = NoSave /\ listed'[t] = Listing  BY <1>8, <1>a DEF SaveLists, PageTyped
    <2> QED  BY <1>c, <1>8, <2>1 DEF SaveLists
  <1>9. CASE SaveLost(t)
    <2>1. UNCHANGED <<listed, sel, buf, loads, act>> /\ save[t].phase \in {"sent", "done", "conflict"}
      BY <1>9 DEF SaveLost, page
    <2>2. /\ save'[t].path = save[t].path /\ save'[t].text = save[t].text
          /\ save'[t].expect = save[t].expect /\ save'[t].force = save[t].force
          /\ save'[t].phase = "failed"
      BY <1>9, <1>a DEF SaveLost, SaveSet
    <2> QED  BY <1>b, <2>1, <2>2 DEF Storing
  <1> QED  BY <1>1, <1>2, <1>3, <1>4, <1>5, <1>6, <1>7, <1>8, <1>9 DEF SaveSteps

\* A tab with loads or a file action under way has no save under way.
LEMMA LoadWaited ==
  ASSUME Goes, NEW t \in Tabs, loads[t] # {} \/ act[t] # Idle, Patient(t)'
  PROVE  /\ Forward /\ ~raced /\ ~raced' /\ Full /\ Patient(t)
         /\ BufferKnows(t) /\ LoadsKnow(t) /\ save[t] = NoSave
         /\ (~buf[t].dirty => buf[t].cur = buf[t].orig)
  <1>1. TabKnows(t) /\ Forward /\ ~raced /\ ~raced' /\ Full /\ Patient(t)  BY PatientWas DEF Goes
  <1> QED  BY <1>1 DEF TabKnows, Waits, BufferKnows

\* What a load and a file action change of a tab.
LEMMA LoadFollows ==
  ASSUME Goes, NEW t \in Tabs, loads[t] # {} \/ act[t] # Idle, save'[t] = save[t],
         listed'[t] \in {listed[t], Listing},
         sel'[t] # NoSel => \/ sel'[t] = sel[t]
                            \/ sel'[t].file \in held[sel'[t].path],
         \A q \in loads'[t] : q.file \in held[q.path],
         Patient(t)' /\ save[t] = NoSave => TabKnows(t)'
  PROVE  Follows(t)
  <1>1. TabHeld(t)  BY DEF Goes, TabInv
  <1>2. TabHeld(t)'  BY <1>1, HeldFollows DEF TabHeld, Storing
  <1>3. Patient(t)' => TabKnows(t)'  BY LoadWaited
  <1> QED  BY <1>2, <1>3 DEF Follows

LEMMA LoadStepsKnow ==
  ASSUME Goes, NEW t \in Tabs, NEW q \in loads[t],
         LoadRow(t, q) \/ LoadBytes(t, q) \/ LoadReturns(t, q) \/ LoadLost(t, q)
  PROVE  Follows(t)
  <1>a. EditorInv /\ StoreInv /\ StoreTyped /\ PageTyped /\ LoadsTyped /\ RowsHeld
        /\ loads[t] # {} /\ TabHeld(t)
    BY DEF Goes, EditorInv, StoreInv, TabInv
  <1>b. q \in LoadSet /\ q.path \in Paths /\ q.file \in Files /\ q.file \in held[q.path]
    BY <1>a DEF LoadsTyped, LoadSet, TabHeld
  \* One load becomes another.
  <1>c. ASSUME UNCHANGED <<page, save, act>>, NEW r, loads' = [loads EXCEPT ![t] = (@ \ {q}) \cup {r}],
               r.file = q.file /\ r.path = q.path,
               Patient(t)' => r.phase \in {"sent", "failed"} \/ LoadKnows(r)'
        PROVE  Follows(t)
    <2>1. \A x \in loads'[t] : x \in loads[t] \/ x = r  BY <1>a, <1>c DEF LoadsTyped
    <2>2. \A x \in loads'[t] : x.file \in held[x.path]  BY <1>a, <1>b, <1>c, <2>1 DEF TabHeld
    <2>3. save'[t] = save[t] /\ listed'[t] = listed[t] /\ sel'[t] = sel[t] /\ buf'[t] = buf[t]
      BY <1>c DEF page
    <2>4. ASSUME Patient(t)', save[t] = NoSave PROVE TabKnows(t)'
      <3>1. Forward /\ BufferKnows(t) /\ LoadsKnow(t) /\ (~buf[t].dirty => buf[t].cur = buf[t].orig)
        BY <1>a, <2>4, LoadWaited
      <3>2. \A x \in loads'[t] : x \in loads[t] \/ x.phase \in {"sent", "failed"} \/ LoadKnows(x)'
        BY <1>c, <2>1, <2>4
      <3> QED  BY <2>3, <2>4, <3>1, <3>2, NothingSaved
    <2> QED  BY <1>a, <2>2, <2>3, <2>4, LoadFollows
  <1>1. CASE LoadRow(t, q)
    <2> DEFINE p == q.path
               g == Listing[p]
    <2>1. PICK r : /\ loads' = [loads EXCEPT ![t] = (@ \ {q}) \cup {r}]
                   /\ r = IF At(p) = {} THEN [q EXCEPT !.phase = "failed"]
                          ELSE [q EXCEPT !.phase = "row", !.ver = row[g].ver]
      BY <1>1 DEF LoadRow
    <2>2. UNCHANGED <<server, page, save, act>>  BY <1>1 DEF LoadRow
    <2>3. r.file = q.file /\ r.path = q.path /\ r.phase \in {"failed", "row"}
          /\ (r.phase = "row" => At(p) # {} /\ r.ver = row[g].ver)
      BY <1>b, <2>1 DEF LoadSet
    <2>4. ASSUME Patient(t)', r.phase = "row" PROVE LoadKnows(r)'
      <3>1. Patient(t)  BY <1>a, <2>4, LoadWaited
      <3>2. g \in At(p)  BY <1>b, <2>3, <2>4, ListingIs
      <3>3. g \in Rows /\ g \in held[p]  BY <1>a, <3>2 DEF At, RowsHeld
      <3>4. g = q.file  BY <1>b, <3>1, <3>3 DEF Patient
      <3>5. row[g].ver \in Versions /\ row[g].ver \in Nat
        BY <1>a, <3>3, EditorAssumption DEF Rows, StoreTyped, RowSet, VersionNumbers, Versions
      <3>6. r.file \in Rows /\ r.ver \in Versions /\ r.ver <= row[r.file].ver
        BY <2>3, <2>4, <3>3, <3>4, <3>5
      <3>7. row' = row  BY <2>2 DEF server
      <3>8. r.file \in Rows' /\ r.ver <= row'[r.file].ver  BY <3>6, <3>7 DEF Rows
      <3> QED  BY <2>4, <3>6, <3>8 DEF LoadKnows
    <2>5. Patient(t)' => r.phase \in {"sent", "failed"} \/ LoadKnows(r)'  BY <2>3, <2>4
    <2> HIDE DEF p, g
    <2> QED  BY <1>c, <2>1, <2>2, <2>3, <2>5
  <1>2. CASE LoadBytes(t, q)
    <2> DEFINE p == q.path
    <2>1. PICK r : /\ loads' = [loads EXCEPT ![t] = (@ \ {q}) \cup {r}]
                   /\ r = IF disk[p] = NoText THEN [q EXCEPT !.phase = "failed", !.ver = 0]
                          ELSE [q EXCEPT !.phase = "done", !.text = disk[p]]
      BY <1>2 DEF LoadBytes
    <2>2. UNCHANGED <<server, page, save, act>> /\ q.phase = "row"  BY <1>2 DEF LoadBytes
    <2>3. r.file = q.file /\ r.path = q.path /\ r.phase \in {"failed", "done"}
          /\ (r.phase = "done" => disk[p] # NoText /\ r.ver = q.ver /\ r.text = disk[p])
      BY <1>b, <2>1 DEF LoadSet
    <2>4. ASSUME Patient(t)', r.phase = "done" PROVE LoadKnows(r)'
      <3>0. PICK g, v, text : g = q.file /\ v = q.ver /\ text = disk[p]  OBVIOUS
      <3>1. Patient(t) /\ Full /\ LoadsKnow(t) /\ ~raced  BY <1>a, <2>4, LoadWaited
      <3>2. g \in Rows /\ v \in Versions /\ v <= row[g].ver
        BY <2>2, <3>0, <3>1 DEF LoadsKnow, LoadKnows
      <3>3. PICK h : h \in At(p)  BY <1>b, <2>3, <2>4, <3>1 DEF Full
      <3>4. h = g  BY <1>a, <1>b, <3>0, <3>1, <3>3 DEF RowsHeld, At, Patient
      <3>5. row[g].path = p /\ ~row[g].gone  BY <3>3, <3>4 DEF At
      <3>6. text \in Texts  BY <1>a, <1>b, <2>3, <2>4, <3>0 DEF StoreTyped, Text
      <3>7. row[g].ver \in v .. MaxVersion
        BY <1>a, <3>2 DEF Rows, StoreTyped, RowSet, VersionNumbers, Versions
      <3>8. Writing(g, text) \/ \E w \in v .. MaxVersion : stored[g][w] = text
        <4>1. \/ stored[g][row[g].ver] \in {NoText, disk[row[g].path]}
              \/ \E u \in Tabs : save[u].phase = "written" /\ save[u].file = g
          BY <1>a, <3>1, <3>2, <3>5 DEF StoreInv, Kept, CurrentIsThere
        <4>2. CASE stored[g][row[g].ver] \in {NoText, disk[row[g].path]}
          <5>1. stored[g][row[g].ver] = text  BY <3>0, <3>1, <3>2, <3>5, <4>2 DEF Full
          <5> QED  BY <3>7, <5>1
        <4>3. ASSUME NEW u \in Tabs, save[u].phase = "written", save[u].file = g PROVE Writing(g, text)
          <5>1. SaveKnows(u)  BY <1>a, <3>1, <4>3 DEF StoreInv, Kept, SavesKnow, Storing
          <5>2. row[g].path = save[u].path /\ disk[save[u].path] = save[u].text
            BY <4>3, <5>1 DEF SaveKnows
          <5> QED  BY <3>0, <3>5, <4>3, <5>2 DEF Writing
        <4> QED  BY <4>1, <4>2, <4>3
      <3>9. Since(g, v, text)  BY <3>0, <3>2, <3>5, <3>6, <3>8 DEF Since
      <3>10. Forward  BY <1>a, <2>4, LoadWaited
      <3>11. Since(g, v, text)'  BY <3>9, <3>10, SinceStays DEF Goes
      <3>12. r.file = g /\ r.ver = v /\ r.text = text  BY <2>3, <2>4, <3>0
      <3> QED  BY <2>4, <3>11, <3>12 DEF LoadKnows
    <2>5. Patient(t)' => r.phase \in {"sent", "failed"} \/ LoadKnows(r)'  BY <2>3, <2>4
    <2> HIDE DEF p
    <2> QED  BY <1>c, <2>1, <2>2, <2>3, <2>5
  <1>3. CASE LoadReturns(t, q)
    <2>1. loads'[t] \subseteq loads[t] /\ save'[t] = save[t] /\ listed'[t] = listed[t]
      BY <1>3, <1>a DEF LoadReturns, LoadsTyped
    <2>2. \A x \in loads'[t] : x.file \in held[x.path]  BY <1>a, <2>1 DEF TabHeld
    <2>3. CASE q.phase = "done"
      <3>1. /\ sel'[t].path = q.path /\ sel'[t].file = q.file /\ sel'[t].ver = q.ver
            /\ buf'[t].orig = q.text /\ buf'[t].cur = q.text
        BY <1>3, <1>a, <2>3 DEF LoadReturns, PageTyped
      <3>2. sel'[t].file \in held[sel'[t].path]  BY <1>b, <3>1
      <3>3. ASSUME Patient(t)', save[t] = NoSave PROVE TabKnows(t)'
        <4>1. Forward /\ LoadsKnow(t)  BY <1>a, <3>3, LoadWaited
        <4>2. PICK f, v, text : f = q.file /\ v = q.ver /\ text = q.text  OBVIOUS
        <4>3. Since(f, v, text)  BY <2>3, <4>1, <4>2 DEF LoadsKnow, LoadKnows
        <4>4. Since(f, v, text)'  BY <4>1, <4>3, SinceStays DEF Goes
        <4>5. Since(sel[t].file, sel[t].ver, buf[t].orig)'  BY <3>1, <4>2, <4>4
        <4>6. BufferKnows(t)'  BY <3>1, <4>5 DEF BufferKnows
        <4>7. LoadsKnow(t)'  BY <2>1, <4>1, LoadsFollow
        <4>8. save'[t] = NoSave  BY <2>1, <3>3
        <4>9. Waits(t)' /\ SaveIsOfBuffer(t)'  BY <4>8, Defaults DEF Waits, SaveIsOfBuffer
        <4> QED  BY <4>6, <4>7, <4>9 DEF TabKnows
      <3> QED  BY <1>a, <2>1, <2>2, <3>2, <3>3, LoadFollows
    <2>4. CASE q.phase # "done"
      <3>1. sel' = sel /\ buf' = buf  BY <1>3, <2>4 DEF LoadReturns
      <3>2. ASSUME Patient(t)', save[t] = NoSave PROVE TabKnows(t)'
        <4>1. Forward /\ BufferKnows(t) /\ LoadsKnow(t) /\ (~buf[t].dirty => buf[t].cur = buf[t].orig)
          BY <1>a, <3>2, LoadWaited
        <4> QED  BY <2>1, <3>1, <3>2, <4>1, NothingSaved
      <3> QED  BY <1>a, <2>1, <2>2, <3>1, <3>2, LoadFollows
    <2> QED  BY <2>3, <2>4
  <1>4. CASE LoadLost(t, q)
    <2>1. PICK r : /\ loads' = [loads EXCEPT ![t] = (@ \ {q}) \cup {r}]
                   /\ r = [q EXCEPT !.phase = "failed", !.text = NoText, !.ver = 0]
      BY <1>4 DEF LoadLost
    <2>2. UNCHANGED <<page, save, act>>  BY <1>4 DEF LoadLost
    <2>3. r.file = q.file /\ r.path = q.path /\ r.phase = "failed"  BY <1>b, <2>1 DEF LoadSet
    <2> QED  BY <1>c, <2>1, <2>2, <2>3
  <1> QED  BY <1>1, <1>2, <1>3, <1>4

LEMMA ActStepsKnow ==
  ASSUME Goes, NEW t \in Tabs, ActSteps(t) \/ ActLost(t)
  PROVE  Follows(t)
  <1>a. EditorInv /\ PageTyped /\ LoadsTyped /\ ActsTyped /\ RowsHeld /\ TabHeld(t)
    BY DEF Goes, EditorInv, TabInv
  \* Every answer and every list leaves the save alone.
  <1>b. ASSUME act[t].phase # "none", save' = save, listed'[t] \in {listed[t], Listing},
               \/ sel'[t] = sel[t] /\ buf'[t] = buf[t]
               \/ sel'[t] = NoSel /\ (buf'[t] = buf[t] \/ buf'[t] = Empty),
               \A q \in loads'[t] : q \in loads[t] \/ (q.phase = "sent" /\ q.file \in held[q.path])
        PROVE  Follows(t)
    <2>1. act[t] # Idle  BY <1>b, Defaults
    <2>2. \A q \in loads'[t] : q.file \in held[q.path]  BY <1>a, <1>b DEF TabHeld
    <2>3. ASSUME Patient(t)', save[t] = NoSave PROVE TabKnows(t)'
      <3>1. Forward /\ BufferKnows(t) /\ LoadsKnow(t) /\ (~buf[t].dirty => buf[t].cur = buf[t].orig)
        BY <2>1, <2>3, LoadWaited
      <3>2. Empty.cur = Empty.orig  BY DEF Empty
      <3>3. CASE sel'[t] = sel[t] /\ buf'[t] = buf[t]
        BY <1>b, <2>3, <3>1, <3>3, NothingSaved
      <3>4. CASE sel'[t] = NoSel /\ (buf'[t] = buf[t] \/ buf'[t] = Empty)
        BY <1>b, <2>3, <3>1, <3>2, <3>4, NothingSaved
      <3> QED  BY <1>b, <3>3, <3>4
    <2>4. sel'[t] # NoSel => sel'[t] = sel[t]  BY <1>b
    <2> QED  BY <1>b, <2>1, <2>2, <2>3, <2>4, LoadFollows
  \* The file a list has at a path was there.
  <1>c. ASSUME NEW p \in Paths, At(p) # {}
        PROVE  /\ Request(Listing[p], p).phase = "sent" /\ Request(Listing[p], p).path = p
               /\ Request(Listing[p], p).file \in held[p]
    <2>1. Listing[p] \in At(p)  BY <1>c, ListingIs
    <2>2. Listing[p] \in held[p]  BY <1>a, <2>1 DEF At, RowsHeld
    <2> QED  BY <2>2 DEF Request
  <1>1. CASE Serve(t)
    <2>1. PICK ph \in {"done", "failed"} : Served(t, ph)
      BY <1>1 DEF Serve, ServeCreate, ServeMove, ServeDelete, ServeRmdir, ServeRestore, ServeUpload,
         ServeRevert, ServeOther
    <2> QED  BY <1>b, <2>1 DEF Served, page
  <1>2. CASE ActReturns(t)
    <2>1. \/ sel'[t] = sel[t] /\ buf'[t] = buf[t]
          \/ sel'[t] = NoSel /\ buf'[t] = Empty
      BY <1>2, <1>a DEF ActReturns, PageTyped
    <2> QED  BY <1>b, <1>2, <2>1 DEF ActReturns
  <1>3. CASE ActFails(t)  BY <1>b, <1>3 DEF ActFails, page
  <1>4. CASE ActLost(t)  BY <1>b, <1>4 DEF ActLost, page
  <1>5. CASE Opens(t)
    <2>1. listed'[t] = Listing /\ act[t].phase = "listing" /\ UNCHANGED <<save, sel, buf>>
      BY <1>5, <1>a DEF Opens, PageTyped
    <2>2. CASE \A p \in Paths : At(p) = {}  BY <1>b, <1>5, <2>1, <2>2 DEF Opens
    <2>3. CASE ~(\A p \in Paths : At(p) = {})
      <3>1. PICK p \in Paths : At(p) # {} /\ loads' = [loads EXCEPT ![t] = {Request(Listing[p], p)}]
        BY <1>5, <2>3 DEF Opens
      <3>2. loads'[t] = {Request(Listing[p], p)}  BY <1>a, <3>1 DEF LoadsTyped
      <3>3. \A q \in loads'[t] : q.phase = "sent" /\ q.file \in held[q.path]  BY <1>c, <3>1, <3>2
      <3> QED  BY <1>b, <2>1, <3>3
    <2> QED  BY <2>2, <2>3
  <1>6. ASSUME NEW agreed, ActLists(t, agreed) PROVE Follows(t)
    <2> DEFINE p == act[t].open
               sends == p # NoPath /\ At(p) # {} /\ (act[t].dirty => agreed)
    <2>1. listed'[t] = Listing /\ act[t].phase = "listing" /\ UNCHANGED <<save, buf>>
          /\ (sel'[t] = sel[t] \/ sel'[t] = NoSel)
      BY <1>6, <1>a DEF ActLists, PageTyped
    <2>2. CASE ~sends
      <3>1. loads' = loads  BY <1>6, <2>2 DEF ActLists
      <3> QED  BY <1>b, <2>1, <3>1
    <2>3. CASE sends
      <3>1. p \in Paths /\ At(p) # {}  BY <1>a, <2>3 DEF ActsTyped, ActSet, Place
      <3>2. loads' = [loads EXCEPT ![t] = @ \cup {Request(Listing[p], p)}]  BY <1>6, <2>3 DEF ActLists
      <3>3. loads'[t] = loads[t] \cup {Request(Listing[p], p)}  BY <1>a, <3>2 DEF LoadsTyped
      <3> HIDE DEF p
      <3>4. \A q \in loads'[t] : q \in loads[t] \/ (q.phase = "sent" /\ q.file \in held[q.path])
        BY <1>c, <3>1, <3>3
      <3> QED  BY <1>b, <2>1, <3>4
    <2> QED  BY <2>2, <2>3
  <1> QED  BY <1>1, <1>2, <1>3, <1>4, <1>5, <1>6 DEF ActSteps

-----------------------------------------------------------------------------
(* The steps of a tab leave the others alone. *)

Alone(t) == hasty \subseteq hasty' /\ \A u \in Tabs : u # t => Same(u)

LEMMA ClicksAlone ==
  ASSUME EditorInv, NEW t \in Tabs, Clicks(t)
  PROVE  Alone(t)
  <1> USE DEF Alone, Same
  <1>a. PageTyped /\ LoadsTyped /\ SavesTyped /\ ActsTyped  BY DEF EditorInv
  <1>h. User(t) => hasty \subseteq hasty'  BY DEF User
  <1> USE DEF PageTyped, LoadsTyped, SavesTyped, ActsTyped
  <1>1. ASSUME NEW text \in Texts, Type(t, text) PROVE Alone(t)  BY <1>a, <1>h, <1>1 DEF Type
  <1>2. ASSUME NEW p \in Paths, SelectFile(t, p) PROVE Alone(t)  BY <1>a, <1>h, <1>2 DEF SelectFile
  <1>3. CASE SelectFolder(t)  BY <1>a, <1>h, <1>3 DEF SelectFolder
  <1>4. CASE RevertBuffer(t)  BY <1>a, <1>h, <1>4 DEF RevertBuffer
  <1>5. CASE OnSave(t)  BY <1>a, <1>h, <1>5 DEF OnSave, SendSave
  <1>6. CASE OnConflictOverwrite(t)  BY <1>a, <1>h, <1>6 DEF OnConflictOverwrite, SendSave
  <1>7. CASE OnConflictCancel(t)  BY <1>a, <1>h, <1>7 DEF OnConflictCancel
  <1>8. ASSUME NEW agreed \in BOOLEAN, OnConflictReload(t, agreed) PROVE Alone(t)
    BY <1>a, <1>h, <1>8 DEF OnConflictReload
  <1>9. ASSUME NEW a, Start(t, a) PROVE Alone(t)  BY <1>a, <1>h, <1>9 DEF Start, page
  <1>10. ASSUME NEW p \in Paths, OnCreateFile(t, p) \/ OnMove(t, p) \/ OnRestoreDeleted(t, p)
         PROVE  Alone(t)
    BY <1>9, <1>10 DEF OnCreateFile, OnMove, OnRestoreDeleted
  <1>11. ASSUME NEW p \in Paths, NEW text \in Texts, OnUpload(t, p, text) PROVE Alone(t)
    BY <1>9, <1>11 DEF OnUpload
  <1>12. ASSUME NEW v \in Versions, OnRevert(t, v) PROVE Alone(t)  BY <1>9, <1>12 DEF OnRevert, Offered
  <1>13. CASE OnCreateFolder(t) \/ OnDelete(t) \/ OnDeleteFolder(t)
    BY <1>9, <1>13 DEF OnCreateFolder, OnDelete, OnDeleteFolder
  <1> QED
    BY <1>1, <1>2, <1>3, <1>4, <1>5, <1>6, <1>7, <1>8, <1>10, <1>11, <1>12, <1>13 DEF Clicks

LEMMA SaveStepsAlone ==
  ASSUME EditorInv, NEW t \in Tabs, SaveSteps(t) \/ SaveLost(t)
  PROVE  Alone(t)
  <1> USE DEF Alone, Same
  <1>a. PageTyped /\ LoadsTyped /\ SavesTyped /\ ActsTyped  BY DEF EditorInv
  <1> USE DEF PageTyped, LoadsTyped, SavesTyped, ActsTyped
  <1>1. CASE SaveCheck(t)  BY <1>a, <1>1 DEF SaveCheck, page
  <1>2. CASE SaveBytes(t)  BY <1>a, <1>2 DEF SaveBytes, page
  <1>3. CASE SaveCount(t)  BY <1>a, <1>3 DEF SaveCount, page
  <1>4. CASE SaveDone(t)  BY <1>a, <1>4 DEF SaveDone, page
  <1>5. CASE SaveSucceeds(t)  BY <1>a, <1>5 DEF SaveSucceeds
  <1>6. CASE SaveConflicts(t)  BY <1>a, <1>6 DEF SaveConflicts
  <1>7. CASE SaveFails(t)  BY <1>a, <1>7 DEF SaveFails
  <1>8. CASE SaveLists(t)  BY <1>a, <1>8 DEF SaveLists
  <1>9. CASE SaveLost(t)  BY <1>a, <1>9 DEF SaveLost, page
  <1> QED  BY <1>1, <1>2, <1>3, <1>4, <1>5, <1>6, <1>7, <1>8, <1>9 DEF SaveSteps

LEMMA LoadStepsAlone ==
  ASSUME EditorInv, NEW t \in Tabs, NEW q \in loads[t],
         LoadRow(t, q) \/ LoadBytes(t, q) \/ LoadReturns(t, q) \/ LoadLost(t, q)
  PROVE  Alone(t)
  <1> USE DEF Alone, Same
  <1>a. PageTyped /\ LoadsTyped /\ SavesTyped /\ ActsTyped  BY DEF EditorInv
  <1> USE DEF PageTyped, LoadsTyped, SavesTyped, ActsTyped
  <1>1. CASE LoadRow(t, q)  BY <1>a, <1>1 DEF LoadRow, page
  <1>2. CASE LoadBytes(t, q)  BY <1>a, <1>2 DEF LoadBytes, page
  <1>3. CASE LoadReturns(t, q)  BY <1>a, <1>3 DEF LoadReturns
  <1>4. CASE LoadLost(t, q)  BY <1>a, <1>4 DEF LoadLost, page
  <1> QED  BY <1>1, <1>2, <1>3, <1>4

LEMMA ActStepsAlone ==
  ASSUME EditorInv, NEW t \in Tabs, ActSteps(t) \/ ActLost(t)
  PROVE  Alone(t)
  <1> USE DEF Alone, Same
  <1>a. PageTyped /\ LoadsTyped /\ SavesTyped /\ ActsTyped  BY DEF EditorInv
  <1> USE DEF PageTyped, LoadsTyped, SavesTyped, ActsTyped
  <1>1. CASE Serve(t)
    <2>1. PICK ph \in {"done", "failed"} : Served(t, ph)
      BY <1>1 DEF Serve, ServeCreate, ServeMove, ServeDelete, ServeRmdir, ServeRestore, ServeUpload,
         ServeRevert, ServeOther
    <2> QED  BY <1>a, <2>1 DEF Served, page
  <1>2. CASE ActReturns(t)  BY <1>a, <1>2 DEF ActReturns
  <1>3. CASE ActFails(t)  BY <1>a, <1>3 DEF ActFails, page
  <1>4. CASE ActLost(t)  BY <1>a, <1>4 DEF ActLost, page
  <1>5. CASE Opens(t)  BY <1>a, <1>5 DEF Opens
  <1>6. ASSUME NEW agreed, ActLists(t, agreed) PROVE Alone(t)  BY <1>a, <1>6 DEF ActLists
  <1> QED  BY <1>1, <1>2, <1>3, <1>4, <1>5, <1>6 DEF ActSteps

-----------------------------------------------------------------------------
(* What the tabs know, from the first state on. *)

LEMMA TabsStart == Init => TabInv
  <1> SUFFICES ASSUME Init PROVE TabInv
    OBVIOUS
  <1>0. PICK seed \in Sites, text \in Texts \ {Blank} :
    /\ row = [f \in Files |-> IF seed[f] = NoPath THEN NoRow
                               ELSE [path |-> seed[f], gone |-> FALSE, ver |-> 1]]
    /\ disk = [p \in Paths |-> IF \E f \in Files : seed[f] = p THEN text ELSE NoText]
    /\ stored = [f \in Files |-> [v \in Versions |->
                   IF v = 1 /\ seed[f] # NoPath THEN text ELSE NoText]]
    /\ held = [p \in Paths |-> {f \in Files : seed[f] = p}]
    /\ listed = [t \in Tabs |-> [p \in Paths |-> NoFile]]
    /\ sel = [t \in Tabs |-> NoSel]
    /\ buf = [t \in Tabs |-> Empty]
    /\ loads = [t \in Tabs |-> {}]
    /\ save = [t \in Tabs |-> NoSave]
    BY DEF Init
  <1>1. \A f \in Files : seed[f] \in Paths \cup {NoPath}
    BY EditorAssumption
  <1>2. 1 \in Versions /\ text # NoText /\ NoPath \notin Paths
    BY EditorAssumption DEF Versions
  <1>3. \A f \in Files :
          /\ seed[f] = NoPath => row[f].ver = 0
          /\ seed[f] # NoPath => row[f].path = seed[f] /\ ~row[f].gone /\ row[f].ver = 1 /\ seed[f] \in Paths
    BY <1>0, <1>1 DEF NoRow
  <1>4. \A f \in Rows : f \in Files /\ seed[f] # NoPath /\ row[f].path = seed[f] /\ row[f].ver = 1
    BY <1>3 DEF Rows
  <1>5. RowsHeld
    <2> SUFFICES ASSUME NEW f \in Rows PROVE f \in held[row[f].path]
      BY DEF RowsHeld
    <2>1. f \in Files /\ row[f].path = seed[f] /\ seed[f] \in Paths  BY <1>3, <1>4
    <2> QED  BY <1>0, <2>1
  <1>6. Full
    <2>1. ASSUME NEW p \in Paths, disk[p] # NoText PROVE At(p) # {}
      <3>1. PICK f \in Files : seed[f] = p  BY <1>0, <2>1
      <3>2. f \in At(p)  BY <1>2, <1>3, <3>1 DEF At, Rows
      <3> QED  BY <3>2
    <2>2. ASSUME NEW f \in Rows PROVE stored[f][row[f].ver] # NoText
      <3>1. f \in Files /\ seed[f] # NoPath /\ row[f].ver = 1  BY <1>4
      <3> QED  BY <1>0, <1>2, <3>1
    <2> QED  BY <2>1, <2>2 DEF Full
  <1>7. ASSUME NEW t \in Tabs PROVE TabHeld(t) /\ TabKnows(t)
    <2>1. /\ \A p \in Paths : listed[t][p] = NoFile
          /\ sel[t] = NoSel /\ buf[t] = Empty /\ loads[t] = {} /\ save[t] = NoSave
          /\ save[t].phase = "none"
      BY <1>0, Defaults
    <2>2. Empty.cur = Empty.orig  BY DEF Empty
    <2>3. TabHeld(t)  BY <2>1 DEF TabHeld, Storing
    <2>4. Waits(t) /\ BufferKnows(t) /\ LoadsKnow(t) /\ SaveIsOfBuffer(t)
      BY <2>1, <2>2 DEF Waits, BufferKnows, LoadsKnow, SaveIsOfBuffer
    <2> QED  BY <2>3, <2>4 DEF TabKnows
  <1> QED  BY <1>5, <1>6, <1>7 DEF TabInv

LEMMA TabsGoOn == EditorInv /\ TabInv /\ [Next]_vars => TabInv'
  <1> SUFFICES ASSUME EditorInv, TabInv, [Next]_vars PROVE TabInv'
    OBVIOUS
  <1>0. EditorInv'  BY EditorGoesOn
  <1>a. StoreInv /\ PageTyped /\ LoadsTyped /\ SavesTyped /\ ActsTyped  BY DEF EditorInv
  <1>b. ASSUME NEW t \in Tabs, Onward, Alone(t), Goes => Follows(t) PROVE TabInv'
    <2>1. Goes  BY <1>0, <1>b DEF Goes, Alone
    <2>2. ASSUME NEW u \in Tabs PROVE Follows(u)
      <3>1. CASE u = t  BY <1>b, <2>1, <3>1
      <3>2. CASE u # t
        <4>1. Same(u) /\ hasty \subseteq hasty'  BY <1>b, <3>2 DEF Alone
        <4> QED  BY <1>0, <1>b, <4>1, OthersStay
      <3> QED  BY <3>1, <3>2
    <2>3. RowsHeld' /\ (raced' \/ Full')  BY <1>b DEF TabInv, Onward
    <2> QED  BY <2>2, <2>3 DEF TabInv, Follows
  <1>1. CASE UNCHANGED vars
    <2>1. Onward  BY <1>a, <1>1, StillKeeps DEF vars, Storing
    <2>2. RowsHeld' /\ (raced' \/ Full')  BY <2>1 DEF TabInv, Onward
    <2>3. ASSUME NEW u \in Tabs PROVE Follows(u)
      <3>1. Same(u) /\ hasty \subseteq hasty'  BY <1>1 DEF vars, page, Same
      <3> QED  BY <1>0, <2>1, <3>1, OthersStay
    <2> QED  BY <2>2, <2>3 DEF TabInv, Follows
  <1>2. ASSUME NEW t \in Tabs, Clicks(t) PROVE TabInv'
    BY <1>b, <1>2, ClicksKeep, ClicksAlone, ClicksKnow
  <1>3. ASSUME NEW t \in Tabs, SaveSteps(t) \/ SaveLost(t) PROVE TabInv'
    BY <1>b, <1>3, SaveStepsKeep, SaveLostKeeps, SaveStepsAlone, SaveStepsKnow
  <1>4. ASSUME NEW t \in Tabs, NEW q \in loads[t],
               LoadRow(t, q) \/ LoadBytes(t, q) \/ LoadReturns(t, q) \/ LoadLost(t, q)
        PROVE  TabInv'
    BY <1>b, <1>4, LoadStepsKeep, LoadStepsAlone, LoadStepsKnow
  <1>5. ASSUME NEW t \in Tabs, ActSteps(t) \/ ActLost(t) PROVE TabInv'
    BY <1>b, <1>5, ActStepsKeep, ActStepsAlone, ActStepsKnow
  <1>6. ASSUME NEW text \in Texts, Regenerate(text) PROVE TabInv'
    <2>1. hasty' = Tabs /\ raced' = (raced \/ \E f \in Files : Saving(f))
          /\ UNCHANGED <<held, page, loads, save, act>>
      BY <1>6 DEF Regenerate
    <2>2. RowsHeld' /\ (raced' \/ Full')  BY <1>a, <1>6, <2>1, RegenerateKeeps DEF TabInv
    <2>3. ASSUME NEW t \in Tabs PROVE TabHeld(t)'  BY <2>1 DEF TabInv, TabHeld, Storing, page
    <2>4. ASSUME NEW t \in Tabs PROVE ~Patient(t)'  BY <2>1 DEF Patient
    <2> QED  BY <2>2, <2>3, <2>4 DEF TabInv
  <1> QED  BY <1>1, <1>2, <1>3, <1>4, <1>5, <1>6 DEF Next, Step, Losses, LoadSteps

\* One file at most, counted or compared.
LEMMA OneAtMost ==
  ASSUME NEW S \in SUBSET Files, Cardinality(S) <= 1, NEW f \in S, NEW g \in S
  PROVE  f = g
  <1>1. IsFiniteSet(S)  BY EditorAssumption, FS_Subset
  <1>2. CASE f # g
    <2>1. IsFiniteSet({f}) /\ Cardinality({f}) = 1
      BY FS_Singleton
    <2>2. IsFiniteSet({f} \cup {g}) /\ Cardinality({f} \cup {g}) = Cardinality({f}) + 1
      BY <1>2, <2>1, FS_AddElement
    <2>3. {f} \cup {g} \subseteq S  OBVIOUS
    <2>4. Cardinality({f} \cup {g}) <= Cardinality(S)  BY <1>1, <2>3, FS_Subset
    <2>5. Cardinality(S) \in Nat  BY <1>1, FS_CardinalityType
    <2> QED  BY <2>1, <2>2, <2>4, <2>5
  <1> QED  BY <1>2
\* What the tables of the file store hold and what each tab shows and has under way stays
\* what the pages and the handlers can produce.
THEOREM EditorTypes == Spec => []TypeOK
  <1>1. EditorInv => TypeOK
    <2> SUFFICES ASSUME EditorInv PROVE TypeOK
      OBVIOUS
    <2>1. SelSet \subseteq [path : Paths \cup {NoPath}, file : Files \cup {NoFile}, ver : 0 .. MaxVersion]
      BY Defaults DEF SelSet, NoSel, VersionNumbers
    <2>2. sel \in [Tabs -> [path : Paths \cup {NoPath}, file : Files \cup {NoFile}, ver : 0 .. MaxVersion]]
      BY <2>1 DEF EditorInv, PageTyped
    <2> QED  BY <2>2 DEF EditorInv, StoreInv, StoreTyped, PageTyped, RowSet, Place, Text, VersionNumbers, TypeOK
  <1> QED  BY <1>1, EditorStarts, EditorGoesOn, PTL DEF Spec

\* Unless two writes of one file overlapped, every text that was stored under a version since
\* replaced, or whose file is in the trash, is in file_revisions: a save, an upload, a
\* revert, a move, a deletion and a restore that interleave lose nothing.
THEOREM HistoryIsKept == Spec => []ReplacedIsInHistory
  <1>1. EditorInv => ReplacedIsInHistory
    BY DEF EditorInv, StoreInv, Kept, Replaced, ReplacedIsInHistory
  <1> QED  BY <1>1, EditorStarts, EditorGoesOn, PTL DEF Spec

\* A tab whose user waits shows as saved only what the server stored under the version the
\* tab will name in its next save, or a later one, or is storing: answers that come late,
\* saves and file actions of other tabs attribute no text to a version it does not have.
THEOREM CleanStaysStored == Spec => []CleanIsStored
  <1>1. EditorInv /\ TabInv => CleanIsStored
    <2> SUFFICES ASSUME EditorInv, TabInv, NEW t \in Tabs, Calm(t), sel[t] # NoSel, ~buf[t].dirty
                 PROVE  \/ \E v \in sel[t].ver .. MaxVersion : stored[sel[t].file][v] = buf[t].cur
                        \/ \E u \in Tabs : save[u].phase = "written" /\ save[u].file = sel[t].file
                                             /\ save[u].text = buf[t].cur
      BY DEF CleanIsStored
    <2>0. held \in [Paths -> SUBSET Files]  BY DEF EditorInv, StoreInv, StoreTyped
    <2>1. Patient(t)
      <3>1. \A p \in Paths : \A f, g \in held[p] : f = g  BY <2>0, OneAtMost DEF Calm
      <3> QED  BY <3>1 DEF Calm, Patient
    <2>2. BufferKnows(t)  BY <2>1 DEF TabInv, TabKnows
    <2>3. Since(sel[t].file, sel[t].ver, buf[t].orig) /\ buf[t].cur = buf[t].orig
      BY <2>2 DEF BufferKnows
    <2> QED  BY <2>3 DEF Since, Writing
  <1> QED  BY <1>1, EditorStarts, EditorGoesOn, TabsStart, TabsGoOn, PTL DEF Spec

\* A save passes its check in one step only.
LEMMA PassesByCheck ==
  ASSUME EditorInv, [Next]_vars, NEW t \in Tabs, save[t].phase = "sent", save'[t].phase = "passed"
  PROVE  SaveCheck(t)
  <1>a. PageTyped /\ SavesTyped /\ save[t] # save'[t]  BY DEF EditorInv
  <1>b. ASSUME NEW u \in Tabs, Alone(u) PROVE u = t  BY <1>a, <1>b DEF Alone, Same
  <1>c. ASSUME NEW expect, NEW force, SendSave(t, expect, force) PROVE FALSE
    <2>1. save'[t].phase = "sent"  BY <1>a, <1>c DEF SendSave, SavesTyped, NoSave
    <2> QED  BY <2>1
  <1>1. ASSUME NEW u \in Tabs, Clicks(u) PROVE FALSE
    <2>1. Clicks(t)  BY <1>b, <1>1, ClicksAlone
    <2>2. save' = save \/ \E expect, force : SendSave(t, expect, force)
      BY <2>1 DEF Clicks, Type, SelectFile, SelectFolder, RevertBuffer, OnSave, OnConflictOverwrite,
         OnConflictCancel, OnConflictReload, OnCreateFile, OnMove, OnRestoreDeleted, OnUpload,
         OnRevert, Offered, OnCreateFolder, OnDelete, OnDeleteFolder, Start
    <2> QED  BY <1>a, <1>c, <2>2
  <1>2. ASSUME NEW u \in Tabs, SaveSteps(u) \/ SaveLost(u) PROVE SaveCheck(t)
    <2>1. SaveSteps(t) \/ SaveLost(t)  BY <1>b, <1>2, SaveStepsAlone
    <2>2. ~SaveBytes(t) /\ ~SaveCount(t) /\ ~SaveDone(t) /\ ~SaveSucceeds(t) /\ ~SaveConflicts(t)
          /\ ~SaveFails(t) /\ ~SaveLists(t)
      BY DEF SaveBytes, SaveCount, SaveDone, SaveSucceeds, SaveConflicts, SaveFails, SaveLists
    <2>3. ~SaveLost(t)
      <3>1. SaveLost(t) => save'[t].phase = "failed"  BY <1>a DEF SaveLost, SavesTyped, SaveSet
      <3> QED  BY <3>1
    <2> QED  BY <2>1, <2>2, <2>3 DEF SaveSteps
  <1>3. ASSUME NEW u \in Tabs, NEW q \in loads[u],
               LoadRow(u, q) \/ LoadBytes(u, q) \/ LoadReturns(u, q) \/ LoadLost(u, q)
        PROVE  FALSE
    BY <1>a, <1>3 DEF LoadRow, LoadBytes, LoadReturns, LoadLost
  <1>4. ASSUME NEW u \in Tabs, ActSteps(u) \/ ActLost(u) PROVE FALSE
    <2>1. save' = save
      BY <1>4 DEF ActSteps, ActLost, Serve, ServeCreate, ServeMove, ServeDelete, ServeRmdir,
         ServeRestore, ServeUpload, ServeRevert, ServeOther, Served, ActReturns, ActFails, Opens, ActLists
    <2> QED  BY <1>a, <2>1
  <1>5. ASSUME NEW text \in Texts, Regenerate(text) PROVE FALSE  BY <1>a, <1>5 DEF Regenerate
  <1>6. ~(UNCHANGED vars)  BY <1>a DEF vars
  <1> QED  BY <1>1, <1>2, <1>3, <1>4, <1>5, <1>6 DEF Next, Step, Losses, LoadSteps

\* The version check protects the work of others: whatever the tabs, the server and the
\* losses do in between, a save that was not an explicit overwrite passes only when the
\* bytes on the server are the text its user began from.
THEOREM NobodyIsReplaced == Spec => NoBlindOverwrite
  <1>1. ASSUME EditorInv, TabInv, [Next]_vars, NEW t \in Tabs,
               save[t].phase = "sent", save'[t].phase = "passed", ~save[t].force, Calm(t)'
        PROVE  disk[save[t].path] = buf[t].orig
    <2> DEFINE p == save[t].path
               f == Listing[p]
    <2>1. SaveCheck(t)  BY <1>1, PassesByCheck
    <2>2. EditorInv' /\ Onward /\ Alone(t)  BY <1>1, <2>1, EditorGoesOn, SaveStepsKeep, SaveStepsAlone DEF SaveSteps
    <2>3. Goes  BY <1>1, <2>2 DEF Goes, Alone
    <2>4. Patient(t)'
      <3>1. held' \in [Paths -> SUBSET Files]  BY <2>2 DEF EditorInv, StoreInv, StoreTyped
      <3>2. \A q \in Paths : \A g, h \in held'[q] : g = h  BY <1>1, <3>1, OneAtMost DEF Calm
      <3> QED  BY <1>1, <3>2 DEF Calm, Patient
    <2>5. Patient(t) /\ BufferKnows(t) /\ SaveIsOfBuffer(t)
      <3>1. save[t] # NoSave  BY <1>1, Defaults
      <3> QED  BY <2>3, <2>4, <3>1, SaveWaited
    <2>6. sel[t] # NoSel /\ p = sel[t].path /\ save[t].expect = sel[t].ver /\ p \in Paths
      BY <1>1, <2>5, SelectedIs DEF SaveIsOfBuffer, EditorInv
    <2>7. At(p) # {} /\ row[f].ver = save[t].expect /\ raced' = (raced \/ Saving(f))
      BY <1>1, <2>1 DEF SaveCheck, SavesTyped, EditorInv, SaveSet
    <2>8. f \in At(p)  BY <2>6, <2>7, ListingIs
    <2>9. f = sel[t].file
      <3>1. f \in held[p]  BY <1>1, <2>8 DEF TabInv, RowsHeld, At
      <3>2. sel[t].file \in held[p]  BY <1>1, <2>6 DEF TabInv, TabHeld
      <3> QED  BY <2>5, <2>6, <3>1, <3>2 DEF Patient
    <2>10. Since(f, row[f].ver, buf[t].orig)  BY <2>5, <2>6, <2>7, <2>9 DEF BufferKnows
    <2>11. \A text \in Texts : ~Writing(f, text)  BY <2>4, <2>7 DEF Patient, Saving, Writing
    <2>12. ~row[f].gone /\ row[f].path = p  BY <2>8 DEF At
    <2> QED  BY <2>10, <2>11, <2>12 DEF Since
  <1>2. EditorInv /\ TabInv /\ [Next]_vars =>
          [\A t \in Tabs :
             save[t].phase = "sent" /\ save'[t].phase = "passed" /\ ~save[t].force /\ Calm(t)'
               => disk[save[t].path] = buf[t].orig]_vars
    BY <1>1
  <1> QED  BY <1>2, EditorStarts, EditorGoesOn, TabsStart, TabsGoOn, PTL DEF Spec, NoBlindOverwrite

-----------------------------------------------------------------------------
(* The editor page, in either mode. *)

\* A step of the page is one of the mode it is in, and leaves the state of the other alone.
LEMMA PageIsBothModes == EditorPageSpec => Spec /\ ContentSpec
  <1>1. EditorPageInit => Init /\ ContentInit  BY DEF EditorPageInit
  <1>2. [EditorPageNext]_<<mode, vars, contentVars>> => [Next]_vars /\ [ContentNext]_contentVars
    BY DEF EditorPageNext
  <1> QED  BY <1>1, <1>2, PTL DEF EditorPageSpec, Spec, ContentSpec

\* The types of both modes hold in whichever the page is.
THEOREM PageTypes == EditorPageSpec => []EditorTypesOK
  <1>1. TypeOK /\ ContentTypeOK => EditorTypesOK  BY DEF EditorTypesOK
  <1> QED  BY <1>1, PageIsBothModes, EditorTypes, ContentTypes, PTL

\* In either mode the page shows as unchanged only what the server has, or had, under the
\* version its next save names.
THEOREM PageIsTrue == EditorPageSpec => []CleanIsTrue
  <1>1. CleanIsStored /\ CleanIsPublished => CleanIsTrue  BY DEF CleanIsTrue
  <1> QED  BY <1>1, PageIsBothModes, CleanStaysStored, CleanStaysPublished, PTL

\* In either mode the version check keeps what others stored meanwhile: only an explicit
\* overwrite replaces a text its user has not seen.
THEOREM PageOverwritesNobody == EditorPageSpec => NobodyIsOverwritten
  BY PageIsBothModes, NobodyIsReplaced, PublicationsReplaceSeen DEF NobodyIsOverwritten
=============================================================================
