----------------------------- MODULE ContentMode -----------------------------
(***************************************************************************)
(* Content mode of the editor page (features/content-editor): one tab that *)
(* shows a page of the site as text, head and style variables, takes edits *)
(* to the three apart, and puts them together again to publish.  The page  *)
(* is saved against the version that was loaded, the stylesheet against    *)
(* none.  Pages are also created, deleted and restored, while loads,       *)
(* publications and uploads are under way, and others save meanwhile.      *)
(*                                                                         *)
(* A save is one step here; Editor takes it apart.                         *)
(***************************************************************************)
EXTENDS Naturals, FiniteSets

CONSTANTS
  Pages, Index,     \* paths of pages; the one offered first
  Values,           \* what a text, a head or a style may say
  None,
  MaxPageVersion,       \* bound: version of a page
  ContentBudgets    \* bounds: edits, selections, publications, file actions, saves of
                    \* others, lost requests

ASSUME ContentAssumption == MaxPageVersion \in Nat \ {0}

VARIABLES
  site,     \* site[p]: the page at p and its version; version 0: none, or deleted
  trash,    \* trash[p]: the pages deleted at p
  sheet,    \* style.css; None: the site has none
  past,     \* history: past[p][v], what p was at version v
  reborn,   \* history: paths created again, with versions from 1
  known,    \* `files` and `deletedFiles`: the pages the tab believes to exist, or deleted
  open,     \* `selection`: path and version
  raw,      \* `rawHtml`: the page as loaded
  shown,    \* `stylePreview`: the stylesheet as loaded, or None
  fetch,    \* the request for the stylesheet: none, sent, or its answer
  draft,    \* text, head and style in the controls
  dirty,    \* those of the three marked as changed
  baseline, \* baselineRef: the first text typed since the page was shown; None: awaited
  auto,     \* autoSelectedRef
  reads,    \* calls of loadFile under way
  pub,      \* the publication under way
  job,      \* the creation, deletion or restoration under way
  icon,     \* an upload for the head is under way
  modal,    \* the dialog for a new page is open
  left      \* what is left of an element of ContentBudgets

store == <<site, trash, sheet, past, reborn>>
texts == <<raw, shown, draft, dirty, baseline>>
contentVars == <<store, known, open, texts, fetch, auto, reads, pub, job, icon, modal, left>>
-----------------------------------------------------------------------------
Parts == {"body", "head", "style"}
Cleared == "cleared"          \* an emptied field of the head
Icon == "icon"                \* a head with the uploaded picture
NewText == "fresh"              \* what a new page says
Rich == "rich"                \* a text with more than the editor can hold
Stripped == "stripped"        \* what is left of it
Heads == Values \cup {Cleared, Icon, NewText}

Html(p, b, h, s) == [own |-> p, body |-> b, head |-> h, style |-> s]
NoHtml == Html(None, None, None, None)
NoPage == [path |-> None, ver |-> 0]
NoPub == [phase |-> "idle", path |-> None, ver |-> 0, from |-> NoHtml, html |-> NoHtml, style |-> None]
NoJob == [kind |-> "idle", phase |-> "idle", path |-> None, at |-> None, html |-> NoHtml]
NoFetch == [phase |-> "none", text |-> None]

Exist == {p \in Pages : site[p].ver > 0}
Inline(html) == html.style
Css(html, file) == IF file # None THEN file ELSE Inline(html)

\* extractContentAndTemplate: the editor gets the tags it knows, the rest is gone.
Sanitized(text) == IF text = Rich THEN Stripped ELSE text

Call(p, for) == [path |-> p, for |-> for, phase |-> "sent", html |-> NoHtml, ver |-> 0]

Pay(kind) == left[kind] > 0 /\ left' = [left EXCEPT ![kind] = @ - 1]

\* The draft when html and file are shown: what is loaded anew replaces its part, edited or
\* not; what is the same does not.
Body(html) == IF html = raw THEN draft.body ELSE Sanitized(html.body)
Style(html, file) == IF Css(html, file) = Css(raw, shown) THEN draft.style ELSE Css(html, file)

\* A mutant: an edited head is kept when another page is loaded, its mark is not.
HeadKept(html) == IF html = raw \/ "head" \in dirty THEN draft.head ELSE html.head
Head(html) == IF html = raw THEN draft.head ELSE html.head

Render(html, file) ==
  /\ raw' = html /\ shown' = file
  /\ draft' = [body |-> Body(html), head |-> Head(html), style |-> Style(html, file)]
  /\ dirty' = dirty \ ((IF html = raw THEN {} ELSE {"body", "head"})
                       \cup (IF Css(html, file) = Css(raw, shown) THEN {} ELSE {"style"}))
  /\ baseline' = IF html = raw THEN baseline ELSE None

\* The stylesheet is fetched when the page or the list of files is another.
Refetch(path) ==
  fetch' = IF path = None \/ sheet = None THEN NoFetch ELSE [phase |-> "sent", text |-> None]

Write(p, html) ==
  /\ site[p].ver < MaxPageVersion
  /\ site' = [site EXCEPT ![p] = [html |-> html, ver |-> @.ver + 1]]
  /\ past' = [past EXCEPT ![p][site[p].ver + 1] = html]

Bin(p) ==
  /\ site' = [site EXCEPT ![p] = [html |-> NoHtml, ver |-> 0]]
  /\ trash' = [trash EXCEPT ![p] = @ \cup {site[p]}]

\* Any page deleted at the path comes back under its next version.
Unbin(p) ==
  \E d \in trash[p] :
    /\ d.ver < MaxPageVersion
    /\ site' = [site EXCEPT ![p] = [html |-> d.html, ver |-> d.ver + 1]]
    /\ past' = [past EXCEPT ![p][d.ver + 1] = d.html]
    /\ trash' = [trash EXCEPT ![p] = @ \ {d}]

\* The page appears when the first load, of the page the address names or the first one,
\* has ended well or not.
ContentInit ==
  /\ \E first \in SUBSET Pages \ {{}}, x \in Values, loaded \in BOOLEAN :
       /\ site = [p \in Pages |-> IF p \in first THEN [html |-> Html(p, Rich, x, x), ver |-> 1]
                                  ELSE [html |-> NoHtml, ver |-> 0]]
       /\ past = [p \in Pages |-> [v \in 1..MaxPageVersion |-> IF v = 1 THEN site[p].html ELSE NoHtml]]
       /\ sheet \in {x, None}
       /\ known = [there |-> first, gone |-> {}]
       /\ \E p \in first : open = IF loaded THEN [path |-> p, ver |-> 1] ELSE NoPage
  /\ raw = IF open = NoPage THEN NoHtml ELSE site[open.path].html
  /\ draft = [body |-> Sanitized(raw.body), head |-> raw.head, style |-> raw.style]
  /\ fetch = IF open = NoPage \/ sheet = None THEN NoFetch ELSE [phase |-> "sent", text |-> None]
  /\ trash = [p \in Pages |-> {}] /\ reborn = {}
  /\ shown = None /\ reads = {}
  /\ dirty = {} /\ baseline = None /\ auto = FALSE
  /\ pub = NoPub /\ job = NoJob /\ icon = FALSE /\ modal = FALSE
  /\ left \in ContentBudgets
-----------------------------------------------------------------------------
(* The controls *)

\* The dialog covers the rest of the page.
Reachable == open.path # None /\ ~modal

\* handleContentChange: the first change after the page is shown becomes the baseline.  The
\* editor does not report what it sets itself, so that this is a change of the user.
Compare(text) ==
  IF baseline = None
  THEN baseline' = text /\ UNCHANGED dirty
  ELSE dirty' = (IF text # baseline THEN dirty \cup {"body"} ELSE dirty \ {"body"}) /\ UNCHANGED baseline

\* The editor is not locked by a publication.
EditBody(v) ==
  /\ Pay("edits") /\ Reachable /\ v # draft.body
  /\ draft' = [draft EXCEPT !.body = v] /\ Compare(v)
  /\ UNCHANGED <<store, known, open, raw, shown, fetch, auto, reads, pub, job, icon, modal>>

EditHead(v) ==
  /\ Pay("edits") /\ Reachable /\ v # draft.head
  /\ draft' = [draft EXCEPT !.head = v] /\ dirty' = dirty \cup {"head"}
  /\ UNCHANGED <<store, known, open, raw, shown, baseline, fetch, auto, reads, pub, job, icon, modal>>

EditStyle(v) ==
  /\ Pay("edits") /\ Reachable /\ v # draft.style
  /\ draft' = [draft EXCEPT !.style = v] /\ dirty' = dirty \cup {"style"}
  /\ UNCHANGED <<store, known, open, raw, shown, baseline, fetch, auto, reads, pub, job, icon, modal>>

\* The picture goes into the head shown when the upload ends.
UploadIcon ==
  /\ Pay("edits") /\ Reachable /\ ~icon
  /\ icon' = TRUE
  /\ UNCHANGED <<store, known, open, texts, fetch, auto, reads, pub, job, modal>>

IconArrives ==
  /\ icon /\ icon' = FALSE
  /\ draft' = [draft EXCEPT !.head = Icon] /\ dirty' = dirty \cup {"head"}
  /\ UNCHANGED <<store, known, open, raw, shown, baseline, fetch, auto, reads, pub, job, modal, left>>

\* A mutant: the page is named before it is loaded.
SelectPageAtOnce(p) ==
  /\ Pay("picks") /\ ~modal /\ p \in known.there
  /\ open' = [path |-> p, ver |-> site[p].ver] /\ reads' = reads \cup {Call(p, "pick")}
  /\ UNCHANGED <<store, known, texts, fetch, auto, pub, job, icon, modal>>

\* The list of pages.  Nobody is asked about edits: they are not in `dirtyState`.
SelectPage(p) ==
  /\ Pay("picks") /\ ~modal /\ p \in known.there
  /\ reads' = reads \cup {Call(p, "pick")}
  /\ UNCHANGED <<store, known, open, texts, fetch, auto, pub, job, icon, modal>>

\* The effect that selects a page when none is: once, until the selection is dropped.
\* `onSelectFile` and `onLoadFile` both load it.
AutoSelect ==
  /\ ~auto /\ open.path = None
  /\ auto' = TRUE
  /\ \E p \in known.there :
       /\ Index \in known.there => p = Index
       /\ reads' = reads \cup {Call(p, "auto"), Call(p, "again")}
  /\ UNCHANGED <<store, known, open, texts, fetch, pub, job, icon, modal, left>>

\* To code mode and back: the draft goes, the page stays, an upload has nobody to tell.
ToggleMode ==
  /\ Pay("picks") /\ ~modal
  /\ draft' = [body |-> Sanitized(raw.body), head |-> raw.head, style |-> Css(raw, shown)]
  /\ dirty' = {} /\ baseline' = None /\ auto' = FALSE /\ icon' = FALSE
  /\ UNCHANGED <<store, known, open, raw, shown, fetch, reads, pub, job, modal>>

\* An emptied field does not change the head.
Applied(head) == IF head = Cleared THEN raw.head ELSE head

Assemble ==
  Html(raw.own, draft.body, Applied(draft.head),
       IF "style" \in dirty /\ shown = None THEN draft.style ELSE raw.style)

\* Bounds: one publication at a time (the button is free again after a change of mode), and
\* every page has a <main> or <article>, without which it cannot be published.
HandlePublish ==
  /\ Pay("pubs") /\ Reachable /\ pub = NoPub /\ dirty # {}
  /\ pub' = [phase |-> "page", path |-> open.path, ver |-> open.ver, from |-> raw, html |-> Assemble,
             style |-> IF "style" \in dirty /\ shown # None THEN draft.style ELSE None]
  /\ UNCHANGED <<store, known, open, texts, fetch, auto, reads, job, icon, modal>>

OpenModal ==
  /\ Pay("files") /\ ~modal
  /\ modal' = TRUE
  /\ UNCHANGED <<store, known, open, texts, fetch, auto, reads, pub, job, icon>>

\* The cross closes it while the page is being created, too.
CloseModal ==
  /\ modal /\ modal' = FALSE
  /\ UNCHANGED <<store, known, open, texts, fetch, auto, reads, pub, job, icon, left>>

\* One creation, deletion or restoration at a time, a bound.
Begin(kind, p) == job' = [kind |-> kind, phase |-> "sent", path |-> p, at |-> open.path, html |-> NoHtml]

\* CreatePageModal: with a prompt, or from the frame of the index.
HandleCreate(p, prompted) ==
  /\ modal /\ job = NoJob
  /\ Begin(IF prompted THEN "generate" ELSE "frame", p)
  /\ UNCHANGED <<store, known, open, texts, fetch, auto, reads, pub, icon, modal, left>>

DeletePage(p) ==
  /\ Pay("files") /\ ~modal /\ job = NoJob /\ p \in known.there
  /\ Begin("delete", p)
  /\ UNCHANGED <<store, known, open, texts, fetch, auto, reads, pub, icon, modal>>

RestorePage(p) ==
  /\ Pay("files") /\ ~modal /\ job = NoJob /\ p \in known.gone
  /\ Begin("restore", p)
  /\ UNCHANGED <<store, known, open, texts, fetch, auto, reads, pub, icon, modal>>
-----------------------------------------------------------------------------
(* The server *)

\* A mutant: the page is saved whatever its version.
PublishAnyPage ==
  LET p == pub.path  refused == site[p].ver = 0 IN
  /\ pub.phase = "page"
  /\ pub' = IF refused THEN NoPub
            ELSE [pub EXCEPT !.phase = IF pub.style # None THEN "style" ELSE "list"]
  /\ IF refused THEN UNCHANGED <<site, past>> ELSE Write(p, pub.html)
  /\ UNCHANGED <<trash, sheet, reborn, known, open, texts, fetch, auto, reads, job, icon, modal, left>>

\* The page is refused when it is gone or another version; otherwise it is saved.
PublishPage ==
  LET p == pub.path  refused == site[p].ver # pub.ver IN
  /\ pub.phase = "page"
  /\ pub' = IF refused THEN NoPub
            ELSE [pub EXCEPT !.phase = IF pub.style # None THEN "style" ELSE "list"]
  /\ IF refused THEN UNCHANGED <<site, past>> ELSE Write(p, pub.html)
  /\ UNCHANGED <<trash, sheet, reborn, known, open, texts, fetch, auto, reads, job, icon, modal, left>>

\* The stylesheet is saved over whatever it has become.
PublishStyle ==
  /\ pub.phase = "style"
  /\ sheet' = pub.style /\ pub' = [pub EXCEPT !.phase = "list"]
  /\ UNCHANGED <<site, trash, past, reborn, known, open, texts, fetch, auto, reads, job, icon, modal, left>>

\* buildPageFromIndex: the frame and style of the index as it is now, or an empty page.
ReadFrame ==
  /\ job.kind = "frame" /\ job.phase = "sent"
  /\ job' = [job EXCEPT !.phase = "framed", !.html =
               Html(job.path, NewText, NewText, IF Index \in Exist THEN site[Index].html.style ELSE None)]
  /\ UNCHANGED <<store, known, open, texts, fetch, auto, reads, pub, icon, modal, left>>

\* The model answers with a page.
AiCreatePage ==
  /\ job.kind = "generate" /\ job.phase = "sent"
  /\ job' = [job EXCEPT !.phase = "framed", !.html = Html(job.path, NewText, NewText, None)]
  /\ UNCHANGED <<store, known, open, texts, fetch, auto, reads, pub, icon, modal, left>>

\* Where a page exists, a generated one replaces it, whatever its version; the other is refused.
\* A path used before starts again from version 1.
PutPage ==
  LET p == job.path  new == p \notin Exist IN
  /\ job.phase = "framed"
  /\ IF new \/ job.kind = "generate"
     THEN Write(p, job.html) /\ job' = [job EXCEPT !.phase = "done"]
     ELSE UNCHANGED <<site, past>> /\ job' = NoJob
  /\ reborn' = IF new /\ trash[p] # {} THEN reborn \cup {p} ELSE reborn
  /\ UNCHANGED <<trash, sheet, known, open, texts, fetch, auto, reads, pub, icon, modal, left>>

BinPage ==
  LET p == job.path IN
  /\ job.kind = "delete" /\ job.phase = "sent"
  /\ IF p \in Exist
     THEN Bin(p) /\ job' = [job EXCEPT !.phase = "done"]
     ELSE UNCHANGED <<site, trash>> /\ job' = NoJob
  /\ UNCHANGED <<sheet, past, reborn, known, open, texts, fetch, auto, reads, pub, icon, modal, left>>

UnbinPage ==
  LET p == job.path IN
  /\ job.kind = "restore" /\ job.phase = "sent"
  /\ IF p \in Exist
     THEN UNCHANGED <<site, past, trash>> /\ job' = NoJob
     ELSE Unbin(p) /\ job' = [job EXCEPT !.phase = "done"]
  /\ UNCHANGED <<sheet, reborn, known, open, texts, fetch, auto, reads, pub, icon, modal, left>>

OthersSave(p, v) ==
  /\ Pay("others") /\ p \in Exist /\ v # site[p].html.body
  /\ Write(p, [site[p].html EXCEPT !.body = v])
  /\ UNCHANGED <<trash, sheet, reborn, known, open, texts, fetch, auto, reads, pub, job, icon, modal>>

OthersDelete(p) ==
  /\ Pay("others") /\ p \in Exist /\ Bin(p)
  /\ UNCHANGED <<sheet, past, reborn, known, open, texts, fetch, auto, reads, pub, job, icon, modal>>

OthersRestore(p) ==
  /\ Pay("others") /\ p \notin Exist /\ Unbin(p)
  /\ UNCHANGED <<sheet, reborn, known, open, texts, fetch, auto, reads, pub, job, icon, modal>>

OthersStyle(v) ==
  /\ Pay("others") /\ sheet \notin {None, v}
  /\ sheet' = v
  /\ UNCHANGED <<site, trash, past, reborn, known, open, texts, fetch, auto, reads, pub, job, icon, modal>>

ReadPage(q) ==
  /\ q.phase = "sent"
  /\ reads' = (reads \ {q}) \cup {[q EXCEPT !.phase = "read", !.html = site[q.path].html, !.ver = site[q.path].ver]}
  /\ UNCHANGED <<store, known, open, texts, fetch, auto, pub, job, icon, modal, left>>

ReadSheet ==
  /\ fetch.phase = "sent" /\ fetch' = [phase |-> "read", text |-> sheet]
  /\ UNCHANGED <<store, known, open, texts, auto, reads, pub, job, icon, modal, left>>
-----------------------------------------------------------------------------
(* Answers *)

\* loadFile: whatever answer comes last is shown.  A page that is gone is an error.
ReadReturns(q) ==
  /\ q.phase = "read" /\ reads' = reads \ {q}
  /\ IF q.ver = 0
     THEN UNCHANGED <<open, texts, fetch>>
     ELSE /\ open' = [path |-> q.path, ver |-> q.ver]
          /\ Render(q.html, shown)
          /\ IF q.path = open.path THEN UNCHANGED fetch ELSE Refetch(q.path)
  /\ pub' = IF q.for = "publish" THEN NoPub ELSE pub
  /\ UNCHANGED <<store, known, auto, job, icon, modal, left>>

\* A mutant: a stylesheet that is not there is shown as text.
LoseFetchBlank ==
  /\ Pay("losses") /\ fetch # NoFetch /\ fetch' = NoFetch
  /\ Render(raw, "")
  /\ UNCHANGED <<store, known, open, auto, reads, pub, job, icon, modal>>

FetchReturns ==
  /\ fetch.phase = "read" /\ fetch' = NoFetch
  /\ Render(raw, fetch.text)
  /\ UNCHANGED <<store, known, open, auto, reads, pub, job, icon, modal, left>>

Binned == {p \in Pages : trash[p] # {}}

\* handlePublish goes on: the list, and the page it published, shown or not.
PublishLists ==
  /\ pub.phase = "list"
  /\ known' = [known EXCEPT !.there = Exist] /\ Refetch(open.path)
  /\ IF pub.path \in Exist
     THEN pub' = [pub EXCEPT !.phase = "load"] /\ reads' = reads \cup {Call(pub.path, "publish")}
     ELSE pub' = NoPub /\ UNCHANGED reads
  /\ UNCHANGED <<store, open, texts, auto, job, icon, modal, left>>

\* onContentDeletePage: the page shown at the click is dropped before the list arrives.
DeleteReturns ==
  /\ job.kind = "delete" /\ job.phase = "done" /\ job' = [job EXCEPT !.phase = "list"]
  /\ IF job.at = job.path
     THEN open' = NoPage /\ auto' = FALSE /\ Render(NoHtml, None) /\ Refetch(None)
     ELSE UNCHANGED <<open, auto, texts, fetch>>
  /\ UNCHANGED <<store, known, reads, pub, icon, modal, left>>

\* onCreated closes the dialog, also one opened again since.
CreateReturns ==
  /\ job.kind \in {"frame", "generate"} /\ job.phase = "done" /\ job' = [job EXCEPT !.phase = "list"]
  /\ modal' = FALSE
  /\ UNCHANGED <<store, known, open, texts, fetch, auto, reads, pub, icon, left>>

\* The lists; what was created or restored is shown, if it is still there.
JobLists ==
  LET p == job.path IN
  /\ job.phase = "list" \/ (job.kind = "restore" /\ job.phase = "done")
  /\ known' = IF job.kind \in {"frame", "generate"} THEN [known EXCEPT !.there = Exist]
              ELSE [there |-> Exist, gone |-> Binned]
  /\ Refetch(open.path)
  /\ reads' = IF p \notin Exist \/ job.kind = "delete" THEN reads
              ELSE IF job.kind = "restore" THEN reads \cup {Call(p, "restore")}
              ELSE reads \cup {Call(p, "create"), Call(p, "again")}
  /\ job' = NoJob
  /\ UNCHANGED <<store, open, texts, auto, pub, icon, modal, left>>
-----------------------------------------------------------------------------
(* Lost requests: a toast, and the draft stays. *)

LoseRead(q) ==
  /\ Pay("losses") /\ reads' = reads \ {q}
  /\ pub' = IF q.for = "publish" THEN NoPub ELSE pub
  /\ UNCHANGED <<store, known, open, texts, fetch, auto, job, icon, modal>>

\* Without the stylesheet the page's own style is shown.
LoseFetch ==
  /\ Pay("losses") /\ fetch # NoFetch /\ fetch' = NoFetch
  /\ Render(raw, None)
  /\ UNCHANGED <<store, known, open, auto, reads, pub, job, icon, modal>>

\* Before or after the server has done its part.
LosePublish ==
  /\ Pay("losses") /\ pub.phase \in {"page", "style", "list"} /\ pub' = NoPub
  /\ \/ UNCHANGED <<site, past, sheet>>
     \/ pub.phase = "page" /\ site[pub.path].ver = pub.ver /\ Write(pub.path, pub.html) /\ UNCHANGED sheet
  /\ UNCHANGED <<trash, reborn, known, open, texts, fetch, auto, reads, job, icon, modal>>

LoseJob ==
  /\ Pay("losses") /\ job # NoJob /\ job' = NoJob
  /\ UNCHANGED <<store, known, open, texts, fetch, auto, reads, pub, icon, modal>>

LoseIcon ==
  /\ Pay("losses") /\ icon /\ icon' = FALSE
  /\ UNCHANGED <<store, known, open, texts, fetch, auto, reads, pub, job, modal>>
-----------------------------------------------------------------------------
ContentUser ==
  \/ \E v \in Values : EditBody(v) \/ EditStyle(v)
  \/ \E h \in Values \cup {Cleared} : EditHead(h)
  \/ UploadIcon \/ ToggleMode \/ HandlePublish \/ OpenModal \/ CloseModal
  \/ \E p \in Pages : SelectPage(p) \/ DeletePage(p) \/ RestorePage(p)
  \/ \E p \in Pages, prompted \in BOOLEAN : HandleCreate(p, prompted)

ContentServer ==
  \/ PublishPage \/ PublishStyle \/ ReadFrame \/ AiCreatePage \/ PutPage \/ BinPage
  \/ UnbinPage \/ ReadSheet \/ \E q \in reads : ReadPage(q)
  \/ \E p \in Pages, v \in Values : OthersSave(p, v)
  \/ \E p \in Pages : OthersDelete(p) \/ OthersRestore(p)
  \/ \E v \in Values : OthersStyle(v)

ContentAnswer ==
  \/ \E q \in reads : ReadReturns(q) \/ LoseRead(q)
  \/ AutoSelect \/ IconArrives \/ FetchReturns \/ PublishLists \/ DeleteReturns \/ CreateReturns
  \/ JobLists \/ LoseFetch \/ LosePublish \/ LoseJob \/ LoseIcon

ContentNext == ContentUser \/ ContentServer \/ ContentAnswer

ContentSpec == ContentInit /\ [][ContentNext]_contentVars
-----------------------------------------------------------------------------
PageTexts == Values \cup {None, NewText, Rich, Stripped}
HtmlPages == [own : Pages \cup {None}, body : PageTexts, head : Heads \cup {None}, style : PageTexts]

\* Types.
ContentTypeOK ==
  /\ site \in [Pages -> [html : HtmlPages, ver : 0..MaxPageVersion]]
  /\ trash \in [Pages -> SUBSET [html : HtmlPages, ver : 1..MaxPageVersion]]
  /\ sheet \in PageTexts /\ reborn \subseteq Pages
  /\ known \in [there : SUBSET Pages, gone : SUBSET Pages]
  /\ open \in [path : Pages \cup {None}, ver : 0..MaxPageVersion]
  /\ raw \in HtmlPages /\ shown \in PageTexts
  /\ fetch \in [phase : {"none", "sent", "read"}, text : PageTexts]
  /\ draft \in [body : PageTexts, head : Heads \cup {None}, style : PageTexts]
  /\ dirty \subseteq Parts /\ baseline \in PageTexts /\ auto \in BOOLEAN
  /\ \A q \in reads : q.path \in Pages /\ q.phase \in {"sent", "read"} /\ q.html \in HtmlPages
  /\ pub.phase \in {"idle", "page", "style", "list", "load"} /\ pub.html \in HtmlPages
  /\ job.phase \in {"idle", "sent", "framed", "done", "list"} /\ job.html \in HtmlPages
  /\ icon \in BOOLEAN /\ modal \in BOOLEAN

\* A page is never published with the frame of another one, whatever was selected, loaded,
\* created or deleted while it was edited (ContentModeLayout: handlePublish, handlePageCreated).
PagesKeepTheirOwn == \A p \in Exist : site[p].html.own = p

\* What the tab shows as unchanged is what was published under the version it will name when
\* it saves, on any path with one history: the text up to the baseline, the head, the style.
CleanIsPublished ==
  open.path # None /\ open.path \notin reborn =>
    /\ raw = past[open.path][open.ver]
    /\ "body" \in dirty \/ draft.body \in {Sanitized(raw.body), baseline}
    /\ "head" \in dirty \/ draft.head = raw.head
    /\ "style" \in dirty \/ draft.style = Css(raw, shown)

\* A publication replaces exactly the page it was made from, on any path with one history:
\* what others saved meanwhile is not lost (saveFile with expectedVersion).
PublishReplacesSeen ==
  [][pub.phase = "page" /\ pub' # pub /\ site' # site /\ pub.path \notin reborn
       => site[pub.path].html = pub.from]_contentVars
=============================================================================
