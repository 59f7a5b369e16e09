------------------------- MODULE ContentModeProofs -------------------------
(***************************************************************************)
(* What content mode shows and publishes, for any number of pages and      *)
(* texts.  A version of a path is written once, unless the path is created *)
(* again after a deletion (reborn): what was seen of it at a version stays *)
(* what the history says of that version.  The page in the controls, the   *)
(* answers on their way and the publication under way are each seen so.    *)
(***************************************************************************)
EXTENDS ContentMode, TLAPS

PageVersions == 1..MaxPageVersion
StoredPages == [html : HtmlPages, ver : 0..MaxPageVersion]
DeletedPages == [html : HtmlPages, ver : PageVersions]
Drafts == [body : PageTexts, head : Heads \cup {None}, style : PageTexts]
Loads == [path : Pages, for : {"pick", "auto", "again", "publish", "create", "restore"},
          phase : {"sent", "read"}, html : HtmlPages, ver : 0..MaxPageVersion]
Publications == [phase : {"idle", "page", "style", "list", "load"}, path : Pages \cup {None},
                 ver : 0..MaxPageVersion, from : HtmlPages, html : HtmlPages, style : PageTexts]
Jobs == [kind : {"idle", "generate", "frame", "delete", "restore"},
         phase : {"idle", "sent", "framed", "done", "list"},
         path : Pages \cup {None}, at : Pages \cup {None}, html : HtmlPages]

SiteTyped ==
  /\ site \in [Pages -> StoredPages]
  /\ trash \in [Pages -> SUBSET DeletedPages]
  /\ past \in [Pages -> [PageVersions -> HtmlPages]]
  /\ sheet \in PageTexts /\ reborn \subseteq Pages

TextsTyped ==
  /\ open \in [path : Pages \cup {None}, ver : 0..MaxPageVersion]
  /\ raw \in HtmlPages /\ shown \in PageTexts
  /\ draft \in Drafts /\ dirty \subseteq Parts /\ baseline \in PageTexts

TabTyped ==
  /\ known \in [there : SUBSET Pages, gone : SUBSET Pages]
  /\ fetch \in [phase : {"none", "sent", "read"}, text : PageTexts]
  /\ auto \in BOOLEAN /\ icon \in BOOLEAN /\ modal \in BOOLEAN

WorkTyped ==
  /\ reads \subseteq Loads
  /\ pub \in Publications /\ (pub.phase = "idle" \/ pub.path \in Pages)
  /\ job \in Jobs /\ (job.phase = "idle" \/ job.path \in Pages)

ContentTyped == SiteTyped /\ TextsTyped /\ TabTyped /\ WorkTyped
-----------------------------------------------------------------------------
\* The version v of p was written, and is not to be written again.
Written(p, v) == v <= site[p].ver \/ \E d \in trash[p] : v <= d.ver

\* A page the path p had at version v: h has the frame of p, and the history knows it.
Seen(p, v, h) ==
  /\ p \in Pages /\ v \in PageVersions /\ h.own = p
  /\ p \in reborn \/ (h = past[p][v] /\ Written(p, v))

\* What the server has was written under its version; a path with one history has one page,
\* stored or deleted.
SiteInv ==
  \A p \in Pages :
    /\ site[p].ver > 0 => Seen(p, site[p].ver, site[p].html)
    /\ \A d \in trash[p] : Seen(p, d.ver, d.html)
    /\ p \in reborn \/ (\A d, e \in trash[p] : d = e)
    /\ p \in reborn \/ site[p].ver = 0 \/ trash[p] = {}

ShownSeen == open.path # None => Seen(open.path, open.ver, raw)

ReadsSeen == \A q \in reads : q.phase = "read" /\ q.ver > 0 => Seen(q.path, q.ver, q.html)

PubSeen == pub.phase = "page" => Seen(pub.path, pub.ver, pub.from) /\ pub.html.own = pub.path

JobOwn == job.phase = "framed" => job.html.own = job.path

\* What is not marked as changed is what was loaded, or the baseline.
DraftTrue ==
  /\ "body" \in dirty \/ draft.body \in {Sanitized(raw.body), baseline}
  /\ "head" \in dirty \/ draft.head = raw.head
  /\ "style" \in dirty \/ draft.style = Css(raw, shown)

ContentInv == SiteInv /\ ShownSeen /\ ReadsSeen /\ PubSeen /\ JobOwn /\ DraftTrue
-----------------------------------------------------------------------------
(* Types *)

LEMMA SanitizedTyped == \A text \in PageTexts : Sanitized(text) \in PageTexts
  BY DEF Sanitized, PageTexts

LEMMA NothingTyped ==
  ASSUME MaxPageVersion \in Nat
  PROVE  /\ None \in PageTexts /\ NoHtml \in HtmlPages
         /\ NoPage \in [path : Pages \cup {None}, ver : 0..MaxPageVersion]
         /\ NoPub \in Publications /\ NoPub.phase = "idle"
         /\ NoJob \in Jobs /\ NoJob.phase = "idle"
         /\ NoFetch \in [phase : {"none", "sent", "read"}, text : PageTexts]
<1>1. None \in PageTexts /\ NoHtml \in HtmlPages
  BY DEF PageTexts, HtmlPages, NoHtml, Html
<1> QED BY <1>1 DEF NoPage, NoPub, NoJob, NoFetch, Publications, Jobs

LEMMA RenderTyped ==
  ASSUME TextsTyped, NEW html \in HtmlPages, NEW file \in PageTexts, Render(html, file)
  PROVE  raw' \in HtmlPages /\ shown' \in PageTexts
         /\ draft' \in Drafts /\ dirty' \subseteq Parts /\ baseline' \in PageTexts
<1>1. /\ html.body \in PageTexts /\ html.head \in Heads \cup {None} /\ html.style \in PageTexts
      /\ draft.body \in PageTexts /\ draft.head \in Heads \cup {None} /\ draft.style \in PageTexts
  BY DEF TextsTyped, HtmlPages, Drafts
<1>2. Body(html) \in PageTexts /\ Head(html) \in Heads \cup {None} /\ Style(html, file) \in PageTexts
  BY <1>1, SanitizedTyped DEF Body, Head, Style, Css, Inline
<1>3. draft' \in Drafts
  BY <1>2 DEF Render, Drafts
<1>4. None \in PageTexts
  BY DEF PageTexts
<1> QED BY <1>3, <1>4 DEF Render, TextsTyped

\* What one step may make of the pages and their history: nothing, a page saved or created
\* (where pages were deleted: anew), a page deleted, or one restored.
Saves(p, h) ==
  /\ Write(p, h) /\ h \in HtmlPages /\ h.own = p /\ trash' = trash
  /\ \/ reborn' = reborn /\ (site[p].ver > 0 \/ trash[p] = {})
     \/ reborn' = reborn \cup {p}

StoreMoves ==
  \/ UNCHANGED <<site, trash, past, reborn>>
  \/ \E p \in Pages, h \in HtmlPages : Saves(p, h)
  \/ \E p \in Pages : site[p].ver > 0 /\ Bin(p) /\ UNCHANGED <<past, reborn>>
  \/ \E p \in Pages : site[p].ver = 0 /\ Unbin(p) /\ UNCHANGED reborn

LEMMA StoreMovesTyped ==
  ASSUME MaxPageVersion \in Nat, SiteTyped, StoreMoves, sheet' \in PageTexts
  PROVE  SiteTyped'
<1> USE DEF SiteTyped
<1>1. ASSUME NEW p \in Pages, NEW h \in HtmlPages, Saves(p, h) PROVE SiteTyped'
  <2>2. site[p].ver \in 0..MaxPageVersion /\ site[p].ver + 1 \in PageVersions
    BY <1>1 DEF Saves, Write, StoredPages, PageVersions
  <2>3. site' \in [Pages -> StoredPages]
    BY <1>1, <2>2 DEF Saves, Write, StoredPages, PageVersions
  <2>4. past' \in [Pages -> [PageVersions -> HtmlPages]]
    BY <1>1, <2>2 DEF Saves, Write
  <2> QED BY <1>1, <2>3, <2>4 DEF Saves
<1>2. ASSUME NEW p \in Pages, site[p].ver > 0, Bin(p), UNCHANGED <<past, reborn>> PROVE SiteTyped'
  <2>1. site[p] \in DeletedPages
    BY <1>2 DEF StoredPages, DeletedPages, PageVersions
  <2>2. NoHtml \in HtmlPages
    BY NothingTyped
  <2>3. site' \in [Pages -> StoredPages]
    BY <1>2, <2>2 DEF Bin, StoredPages
  <2>4. trash' \in [Pages -> SUBSET DeletedPages]
    BY <1>2, <2>1 DEF Bin
  <2> QED BY <1>2, <2>3, <2>4
<1>3. ASSUME NEW p \in Pages, Unbin(p), UNCHANGED reborn PROVE SiteTyped'
  <2>1. PICK d \in trash[p] :
          /\ d.ver < MaxPageVersion
          /\ site' = [site EXCEPT ![p] = [html |-> d.html, ver |-> d.ver + 1]]
          /\ past' = [past EXCEPT ![p][d.ver + 1] = d.html]
          /\ trash' = [trash EXCEPT ![p] = @ \ {d}]
    BY <1>3 DEF Unbin
  <2>2. d.html \in HtmlPages /\ d.ver + 1 \in PageVersions /\ d.ver + 1 \in 0..MaxPageVersion
    BY <2>1 DEF DeletedPages, PageVersions
  <2>3. site' \in [Pages -> StoredPages]
    BY <2>1, <2>2 DEF StoredPages
  <2>4. past' \in [Pages -> [PageVersions -> HtmlPages]]
    BY <2>1, <2>2
  <2>5. trash' \in [Pages -> SUBSET DeletedPages]
    BY <2>1
  <2> QED BY <1>3, <2>3, <2>4, <2>5
<1> QED BY <1>1, <1>2, <1>3 DEF StoreMoves

LEMMA StoreStep ==
  ASSUME MaxPageVersion \in Nat, ContentTyped, ContentInv, [ContentNext]_contentVars
  PROVE  StoreMoves /\ sheet' \in PageTexts
<1> USE DEF ContentTyped
<1>1. sheet \in PageTexts /\ \A v \in Values : v \in PageTexts
  BY DEF SiteTyped, PageTexts
<1>2. ASSUME UNCHANGED store PROVE StoreMoves /\ sheet' \in PageTexts
  BY <1>1, <1>2 DEF store, StoreMoves
<1>3. ASSUME pub.phase = "page", site[pub.path].ver = pub.ver, Write(pub.path, pub.html),
             UNCHANGED <<trash, reborn, sheet>>
      PROVE  StoreMoves /\ sheet' \in PageTexts
  <2>1. pub.path \in Pages /\ pub.html \in HtmlPages /\ pub.html.own = pub.path /\ pub.ver > 0
    BY <1>3 DEF WorkTyped, Publications, ContentInv, PubSeen, Seen, PageVersions
  <2>2. Saves(pub.path, pub.html)
    BY <1>3, <2>1 DEF Saves
  <2> QED BY <1>1, <1>3, <2>1, <2>2 DEF StoreMoves
<1>4. CASE ContentUser
  <2>1. UNCHANGED store
    BY <1>4 DEF ContentUser, EditBody, EditStyle, EditHead, UploadIcon, ToggleMode, HandlePublish,
                OpenModal, CloseModal, SelectPage, DeletePage, RestorePage, HandleCreate
  <2> QED BY <2>1, <1>2
<1>5. CASE ContentServer
  <2>1. CASE PublishPage
    BY <2>1, <1>1, <1>3 DEF PublishPage, StoreMoves
  <2>2. CASE PublishStyle
    BY <2>2 DEF PublishStyle, StoreMoves, WorkTyped, Publications
  <2>3. CASE ReadFrame \/ AiCreatePage \/ ReadSheet \/ \E q \in reads : ReadPage(q)
    BY <2>3, <1>2 DEF ReadFrame, AiCreatePage, ReadSheet, ReadPage
  <2>4. CASE PutPage
    <3>1. job.path \in Pages /\ job.html \in HtmlPages /\ job.html.own = job.path
      BY <2>4 DEF PutPage, WorkTyped, Jobs, ContentInv, JobOwn
    <3>2. (job.path \notin Exist) <=> (site[job.path].ver = 0)
      BY <3>1 DEF Exist, SiteTyped, StoredPages
    <3>3. site[job.path].ver > 0 \/ site[job.path].ver = 0
      BY <3>1 DEF SiteTyped, StoredPages
    <3>4. CASE Write(job.path, job.html)
      <4>1. Saves(job.path, job.html)
        BY <2>4, <3>1, <3>2, <3>3, <3>4 DEF PutPage, Saves
      <4> QED BY <2>4, <4>1, <3>1, <1>1 DEF PutPage, StoreMoves
    <3>5. CASE UNCHANGED <<site, past>> /\ job.path \in Exist
      BY <2>4, <3>5, <1>1 DEF PutPage, StoreMoves
    <3> QED BY <2>4, <3>4, <3>5 DEF PutPage
  <2>5. CASE BinPage
    BY <2>5, <1>1 DEF BinPage, StoreMoves, Exist
  <2>6. CASE UnbinPage
    <3>1. job.path \in Pages
      BY <2>6 DEF UnbinPage, WorkTyped
    <3>2. job.path \notin Exist => site[job.path].ver = 0
      BY <3>1 DEF Exist, SiteTyped, StoredPages
    <3> QED BY <2>6, <3>1, <3>2, <1>1 DEF UnbinPage, StoreMoves
  <2>7. ASSUME NEW p \in Pages, NEW v \in Values, OthersSave(p, v) PROVE StoreMoves /\ sheet' \in PageTexts
    <3> DEFINE h == [site[p].html EXCEPT !.body = v]
    <3>1. site[p].ver > 0 /\ site[p].html \in HtmlPages /\ site[p].html.own = p
      BY <2>7 DEF OthersSave, Exist, SiteTyped, StoredPages, ContentInv, SiteInv, Seen
    <3>2. h \in HtmlPages /\ h.own = p
      BY <3>1, <1>1 DEF HtmlPages
    <3>3. Saves(p, h)
      BY <2>7, <3>1, <3>2 DEF OthersSave, Saves
    <3> QED BY <2>7, <3>2, <3>3, <1>1 DEF OthersSave, StoreMoves
  <2>8. ASSUME NEW p \in Pages, OthersDelete(p) PROVE StoreMoves /\ sheet' \in PageTexts
    BY <2>8, <1>1 DEF OthersDelete, StoreMoves, Exist
  <2>9. ASSUME NEW p \in Pages, OthersRestore(p) PROVE StoreMoves /\ sheet' \in PageTexts
    <3>1. site[p].ver = 0
      BY <2>9 DEF OthersRestore, Exist, SiteTyped, StoredPages
    <3> QED BY <2>9, <3>1, <1>1 DEF OthersRestore, StoreMoves
  <2>10. ASSUME NEW v \in Values, OthersStyle(v) PROVE StoreMoves /\ sheet' \in PageTexts
    BY <2>10, <1>1 DEF OthersStyle, StoreMoves
  <2> QED BY <1>5, <2>1, <2>2, <2>3, <2>4, <2>5, <2>6, <2>7, <2>8, <2>9, <2>10 DEF ContentServer
<1>6. CASE ContentAnswer
  <2>1. CASE LosePublish
    BY <2>1, <1>1, <1>3 DEF LosePublish, StoreMoves
  <2>2. CASE ~LosePublish
    <3>1. UNCHANGED store
      BY <1>6, <2>2 DEF ContentAnswer, ReadReturns, LoseRead, AutoSelect, IconArrives, FetchReturns,
                        PublishLists, DeleteReturns, CreateReturns, JobLists, LoseFetch, LoseJob, LoseIcon
    <3> QED BY <3>1, <1>2
  <2> QED BY <2>1, <2>2
<1>7. CASE UNCHANGED contentVars
  BY <1>7, <1>2 DEF contentVars
<1> QED BY <1>4, <1>5, <1>6, <1>7 DEF ContentNext
-----------------------------------------------------------------------------
(* The history *)

\* What was seen of a path at a version stays true, whatever happens to the page.
LEMMA SeenLasts ==
  ASSUME MaxPageVersion \in Nat, SiteTyped, SiteInv, StoreMoves,
         NEW p \in Pages, NEW v \in Nat, NEW h, Seen(p, v, h)
  PROVE  Seen(p, v, h)'
<1> USE DEF SiteTyped
<1>1. CASE p \in reborn
  <2>1. reborn \subseteq reborn'
    BY DEF StoreMoves, Saves
  <2> QED BY <1>1, <2>1 DEF Seen
<1>2. CASE UNCHANGED <<site, trash, past, reborn>>
  BY <1>2 DEF Seen, Written
<1>3. ASSUME p \notin reborn, NEW o \in Pages, NEW g \in HtmlPages, Saves(o, g) PROVE Seen(p, v, h)'
  <2>1. h = past[p][v] /\ Written(p, v) /\ v \in PageVersions
    BY <1>3 DEF Seen
  <2>2. CASE o = p /\ p \in reborn'
    BY <2>1, <2>2 DEF Seen
  <2>3. CASE o # p
    <3>1. past'[p] = past[p] /\ site'[p] = site[p] /\ trash' = trash
      BY <1>3, <2>3 DEF Saves, Write
    <3> QED BY <2>1, <3>1 DEF Seen, Written
  <2>4. CASE o = p /\ (site[p].ver > 0 \/ trash[p] = {})
    <3>1. site[p].ver > 0 => trash[p] = {}
      BY <1>3 DEF SiteInv, StoredPages
    <3>2. trash[p] = {} /\ v <= site[p].ver
      BY <2>1, <2>4, <3>1 DEF Written
    <3>3. site[p].ver \in Nat /\ site'[p].ver = site[p].ver + 1
      BY <1>3, <2>4 DEF Saves, Write, StoredPages
    <3>4. past'[p][v] = past[p][v]
      BY <1>3, <2>1, <2>4, <3>2, <3>3 DEF Saves, Write, PageVersions
    <3> QED BY <2>1, <3>2, <3>3, <3>4 DEF Seen, Written, PageVersions
  <2> QED BY <1>3, <2>2, <2>3, <2>4 DEF Saves
<1>4. ASSUME p \notin reborn, NEW o \in Pages, site[o].ver > 0, Bin(o), UNCHANGED <<past, reborn>>
      PROVE  Seen(p, v, h)'
  <2>1. \A d \in trash[p] : d \in trash'[p]
    BY <1>4 DEF Bin
  <2>2. CASE o # p
    <3>1. site'[p] = site[p]
      BY <1>4, <2>2 DEF Bin
    <3> QED BY <1>4, <2>1, <3>1 DEF Seen, Written
  <2>3. CASE o = p
    <3>1. site[p] \in trash'[p]
      BY <1>4, <2>3 DEF Bin
    <3>2. site'[p].ver = 0 /\ site[p].ver \in Nat
      BY <1>4, <2>3 DEF Bin, StoredPages
    <3> QED BY <1>4, <2>1, <3>1, <3>2 DEF Seen, Written
  <2> QED BY <2>2, <2>3
<1>5. ASSUME p \notin reborn, NEW o \in Pages, site[o].ver = 0, Unbin(o), UNCHANGED reborn
      PROVE  Seen(p, v, h)'
  <2>1. PICK d \in trash[o] :
          /\ d.ver < MaxPageVersion
          /\ site' = [site EXCEPT ![o] = [html |-> d.html, ver |-> d.ver + 1]]
          /\ past' = [past EXCEPT ![o][d.ver + 1] = d.html]
          /\ trash' = [trash EXCEPT ![o] = @ \ {d}]
    BY <1>5 DEF Unbin
  <2>2. h = past[p][v] /\ Written(p, v) /\ v \in PageVersions
    BY <1>5 DEF Seen
  <2>3. CASE o # p
    <3>1. past'[p] = past[p] /\ site'[p] = site[p] /\ trash'[p] = trash[p]
      BY <2>1, <2>3
    <3> QED BY <2>2, <3>1 DEF Seen, Written
  <2>4. CASE o = p
    <3>1. \A e \in trash[p] : e = d
      BY <1>5, <2>1, <2>4 DEF SiteInv
    <3>2. d.ver \in PageVersions /\ v <= d.ver
      BY <1>5, <2>1, <2>2, <2>4, <3>1 DEF Written, DeletedPages, PageVersions
    <3>3. site'[p].ver = d.ver + 1
      BY <2>1, <2>4
    <3>4. past'[p][v] = past[p][v]
      BY <2>1, <2>2, <2>4, <3>2 DEF PageVersions
    <3> QED BY <2>2, <3>2, <3>3, <3>4 DEF Seen, Written, PageVersions
  <2> QED BY <2>3, <2>4
<1> QED BY <1>1, <1>2, <1>3, <1>4, <1>5 DEF StoreMoves

LEMMA SeenAllLast ==
  ASSUME MaxPageVersion \in Nat, SiteTyped, SiteInv, StoreMoves
  PROVE  \A p \in Pages : \A v \in Nat : \A h : Seen(p, v, h) => Seen(p, v, h)'
<1> TAKE p \in Pages
<1> TAKE v \in Nat
<1> TAKE h
<1> HAVE Seen(p, v, h)
<1> QED BY SeenLasts

\* A version is written once: what the server has stays what the history says of it.
LEMMA StoreInvStep ==
  ASSUME MaxPageVersion \in Nat, SiteTyped, SiteInv, StoreMoves
  PROVE  SiteInv'
<1> USE DEF SiteTyped
<1> SUFFICES ASSUME NEW p \in Pages
             PROVE  /\ site'[p].ver > 0 => Seen(p, site[p].ver, site[p].html)'
                    /\ \A d \in trash'[p] : Seen(p, d.ver, d.html)'
                    /\ p \in reborn' \/ (\A d, e \in trash'[p] : d = e)
                    /\ p \in reborn' \/ site'[p].ver = 0 \/ trash'[p] = {}
  BY DEF SiteInv
<1>1. site[p].ver > 0 => Seen(p, site[p].ver, site[p].html)
  BY DEF SiteInv
<1>2. \A d \in trash[p] : Seen(p, d.ver, d.html)
  BY DEF SiteInv
<1>3. p \in reborn \/ ((\A d, e \in trash[p] : d = e) /\ (site[p].ver = 0 \/ trash[p] = {}))
  BY DEF SiteInv
<1>4. reborn \subseteq reborn'
  BY DEF StoreMoves, Saves
<1>5. \A v \in Nat : \A h : Seen(p, v, h) => Seen(p, v, h)'
  BY SeenAllLast
<1>6. site[p].ver \in 0..MaxPageVersion /\ site[p].html \in HtmlPages
      /\ \A d \in trash[p] : d.ver \in PageVersions /\ d.ver \in Nat /\ d.html \in HtmlPages
  BY DEF StoredPages, DeletedPages, PageVersions
<1>7. site[p].ver > 0 => /\ p \in reborn' \/ (site[p].html = past'[p][site[p].ver])
                         /\ site[p].ver \in PageVersions /\ site[p].html.own = p
                         /\ Seen(p, site[p].ver, site[p].html)
                         /\ site[p].ver \in Nat
  BY <1>1, <1>5, <1>6 DEF Seen, PageVersions
<1>8. \A d \in trash[p] : /\ d.html.own = p /\ d.ver \in PageVersions
                          /\ Seen(p, d.ver, d.html)'
                          /\ p \in reborn' \/ d.html = past'[p][d.ver]
  BY <1>2, <1>5, <1>6 DEF Seen
<1>9. CASE site'[p] = site[p] /\ trash'[p] = trash[p]
  <2>1. site'[p].ver > 0 => Seen(p, site[p].ver, site[p].html)'
    BY <1>7, <1>9, <1>6 DEF Seen, Written
  <2> QED BY <1>3, <1>4, <1>8, <1>9, <2>1
<1>10. ASSUME NEW h \in HtmlPages, Saves(p, h)
       PROVE  /\ site'[p].ver > 0 => Seen(p, site[p].ver, site[p].html)'
              /\ trash' = trash
              /\ p \in reborn' \/ trash[p] = {}
  <2>1. /\ site'[p] = [html |-> h, ver |-> site[p].ver + 1] /\ site[p].ver + 1 \in PageVersions
        /\ past'[p][site[p].ver + 1] = h /\ h.own = p
    BY <1>6, <1>10 DEF Saves, Write, PageVersions
  <2>2. Seen(p, site[p].ver, site[p].html)'
    BY <2>1, <1>6 DEF Seen, Written, PageVersions
  <2>3. p \in reborn' \/ trash[p] = {}
    BY <1>3, <1>4, <1>6, <1>10 DEF Saves
  <2> QED BY <1>10, <2>2, <2>3 DEF Saves
<1>11. CASE site[p].ver > 0 /\ Bin(p) /\ UNCHANGED <<past, reborn>>
  <2>1. site'[p].ver = 0 /\ trash'[p] = trash[p] \cup {site[p]}
    BY <1>11 DEF Bin
  <2>2. Seen(p, site[p].ver, site[p].html) /\ site[p].ver \in Nat
    BY <1>7, <1>11
  <2>3. p \in reborn' \/ (site[p].html = past'[p][site[p].ver])
    BY <1>7, <1>11
  <2>4. \A d \in trash'[p] : Seen(p, d.ver, d.html)'
    <3> SUFFICES ASSUME NEW d \in trash'[p] PROVE Seen(p, d.ver, d.html)'
      OBVIOUS
    <3>1. CASE d \in trash[p]
      BY <3>1, <1>8
    <3>2. CASE d = site[p]
      BY <2>1, <2>3, <3>2, <1>7, <1>11 DEF Seen, Written, PageVersions
    <3> QED BY <2>1, <3>1, <3>2
  <2> QED BY <1>3, <1>4, <1>6, <1>11, <2>1, <2>4
<1>12. CASE site[p].ver = 0 /\ Unbin(p) /\ UNCHANGED reborn
  <2>1. PICK d \in trash[p] :
          /\ d.ver < MaxPageVersion
          /\ site' = [site EXCEPT ![p] = [html |-> d.html, ver |-> d.ver + 1]]
          /\ past' = [past EXCEPT ![p][d.ver + 1] = d.html]
          /\ trash' = [trash EXCEPT ![p] = @ \ {d}]
    BY <1>12 DEF Unbin
  <2>2. /\ site'[p] = [html |-> d.html, ver |-> d.ver + 1] /\ d.ver + 1 \in PageVersions
        /\ past'[p][d.ver + 1] = d.html /\ trash'[p] = trash[p] \ {d}
    BY <1>6, <2>1 DEF PageVersions
  <2>3. Seen(p, site[p].ver, site[p].html)'
    BY <2>2, <1>8 DEF Seen, Written, PageVersions
  <2>4. p \in reborn' \/ trash'[p] = {}
    BY <1>3, <1>4, <2>2
  <2> QED BY <1>8, <2>2, <2>3, <2>4
<1>13. ASSUME NEW o \in Pages, o # p,
              \/ \E h \in HtmlPages : Saves(o, h)
              \/ Bin(o) \/ Unbin(o)
       PROVE  site'[p] = site[p] /\ trash'[p] = trash[p]
  BY <1>13 DEF Saves, Write, Bin, Unbin
<1> QED
  <2>1. CASE UNCHANGED <<site, trash, past, reborn>>
    BY <2>1, <1>9
  <2>2. ASSUME NEW o \in Pages, NEW h \in HtmlPages, Saves(o, h)
        PROVE  (site'[p] = site[p] /\ trash'[p] = trash[p]) \/ Saves(p, h)
    BY <2>2, <1>13
  <2>3. ASSUME NEW h \in HtmlPages, Saves(p, h)
        PROVE  /\ site'[p].ver > 0 => Seen(p, site[p].ver, site[p].html)'
               /\ \A d \in trash'[p] : Seen(p, d.ver, d.html)'
               /\ p \in reborn' \/ (\A d, e \in trash'[p] : d = e)
               /\ p \in reborn' \/ site'[p].ver = 0 \/ trash'[p] = {}
    BY <2>3, <1>3, <1>4, <1>8, <1>10
  <2>4. ASSUME NEW o \in Pages, site[o].ver > 0, Bin(o), UNCHANGED <<past, reborn>>
        PROVE  (site'[p] = site[p] /\ trash'[p] = trash[p]) \/ o = p
    BY <2>4, <1>13
  <2>5. ASSUME NEW o \in Pages, site[o].ver = 0, Unbin(o), UNCHANGED reborn
        PROVE  (site'[p] = site[p] /\ trash'[p] = trash[p]) \/ o = p
    BY <2>5, <1>13
  <2> QED BY <2>1, <2>2, <2>3, <2>4, <2>5, <1>9, <1>11, <1>12 DEF StoreMoves
-----------------------------------------------------------------------------
(* The page shown *)

LEMMA RenderTrue ==
  ASSUME DraftTrue, NEW html, NEW file, Render(html, file)
  PROVE  DraftTrue'
<1>1. draft' = [body |-> Body(html), head |-> Head(html), style |-> Style(html, file)]
      /\ raw' = html /\ shown' = file
  BY DEF Render
<1>2. "body" \in dirty' \/ draft'.body \in {Sanitized(raw'.body), baseline'}
  BY <1>1 DEF DraftTrue, Render, Body
<1>3. "head" \in dirty' \/ draft'.head = raw'.head
  BY <1>1 DEF DraftTrue, Render, Head
<1>4. "style" \in dirty' \/ draft'.style = Css(raw', shown')
  BY <1>1 DEF DraftTrue, Render, Style
<1> QED BY <1>2, <1>3, <1>4 DEF DraftTrue, Css, Inline, Sanitized

\* What is shown is a version of the page it is shown as, and what is unmarked is unchanged.
LEMMA TextsStep ==
  ASSUME MaxPageVersion \in Nat, ContentTyped, ContentInv, [ContentNext]_contentVars
  PROVE  TextsTyped' /\ ShownSeen' /\ DraftTrue'
<1>1. /\ SiteTyped /\ TextsTyped /\ WorkTyped /\ TabTyped
      /\ SiteInv /\ ShownSeen /\ DraftTrue /\ ReadsSeen
  BY DEF ContentTyped, ContentInv
<1>2. \A p \in Pages : \A v \in Nat : \A h : Seen(p, v, h) => Seen(p, v, h)'
  BY <1>1, SeenAllLast, StoreStep
<1>3. ASSUME UNCHANGED <<open, raw>> PROVE ShownSeen'
  <2>1. open.path # None => open.path \in Pages /\ open.ver \in Nat
    BY <1>1 DEF TextsTyped
  <2>2. open.path # None => Seen(open.path, open.ver, raw)
    BY <1>1 DEF ShownSeen
  <2> QED BY <1>2, <1>3, <2>1, <2>2 DEF ShownSeen, Seen, Written
<1>4. ASSUME UNCHANGED <<open, texts>> PROVE TextsTyped' /\ ShownSeen' /\ DraftTrue'
  BY <1>1, <1>3, <1>4 DEF texts, TextsTyped, DraftTrue
<1>5. ASSUME NEW file \in PageTexts, Render(raw, file), UNCHANGED open
      PROVE  TextsTyped' /\ ShownSeen' /\ DraftTrue'
  <2>1. raw' = raw
    BY <1>5 DEF Render
  <2> QED BY <1>1, <1>3, <1>5, <2>1, RenderTyped, RenderTrue DEF TextsTyped
<1>6. CASE ContentUser
  <2>1. ASSUME NEW v \in Values, EditBody(v) PROVE TextsTyped' /\ ShownSeen' /\ DraftTrue'
    <3>1. v \in PageTexts
      BY DEF PageTexts
    <3>2. TextsTyped'
      BY <1>1, <2>1, <3>1 DEF EditBody, Compare, TextsTyped, Drafts, Parts
    <3>3. DraftTrue'
      BY <1>1, <2>1 DEF EditBody, Compare, DraftTrue, TextsTyped, Drafts
    <3> QED BY <1>3, <2>1, <3>2, <3>3 DEF EditBody
  <2>2. ASSUME NEW v \in Values, EditStyle(v) PROVE TextsTyped' /\ ShownSeen' /\ DraftTrue'
    <3>1. v \in PageTexts
      BY DEF PageTexts
    <3>2. TextsTyped'
      BY <1>1, <2>2, <3>1 DEF EditStyle, TextsTyped, Drafts, Parts
    <3>3. DraftTrue'
      BY <1>1, <2>2 DEF EditStyle, DraftTrue, TextsTyped, Drafts
    <3> QED BY <1>3, <2>2, <3>2, <3>3 DEF EditStyle
  <2>3. ASSUME NEW h \in Values \cup {Cleared}, EditHead(h) PROVE TextsTyped' /\ ShownSeen' /\ DraftTrue'
    <3>1. h \in Heads
      BY DEF Heads
    <3>2. TextsTyped'
      BY <1>1, <2>3, <3>1 DEF EditHead, TextsTyped, Drafts, Parts
    <3>3. DraftTrue'
      BY <1>1, <2>3 DEF EditHead, DraftTrue, TextsTyped, Drafts
    <3> QED BY <1>3, <2>3, <3>2, <3>3 DEF EditHead
  <2>4. CASE ToggleMode
    <3>1. raw.body \in PageTexts /\ raw.head \in Heads \cup {None} /\ Css(raw, shown) \in PageTexts
          /\ Sanitized(raw.body) \in PageTexts /\ None \in PageTexts
      BY <1>1, SanitizedTyped, NothingTyped DEF TextsTyped, HtmlPages, Css, Inline
    <3>2. TextsTyped'
      BY <1>1, <2>4, <3>1 DEF ToggleMode, TextsTyped, Drafts
    <3>3. DraftTrue'
      BY <2>4 DEF ToggleMode, DraftTrue, Css, Inline, Sanitized
    <3> QED BY <1>3, <2>4, <3>2, <3>3 DEF ToggleMode
  <2>5. ASSUME \/ UploadIcon \/ HandlePublish \/ OpenModal \/ CloseModal
               \/ \E p \in Pages : SelectPage(p) \/ DeletePage(p) \/ RestorePage(p)
               \/ \E p \in Pages, prompted \in BOOLEAN : HandleCreate(p, prompted)
        PROVE  UNCHANGED <<open, texts>>
    BY <2>5 DEF UploadIcon, HandlePublish, OpenModal, CloseModal, SelectPage, DeletePage, RestorePage,
                HandleCreate
  <2> QED BY <1>4, <1>6, <2>1, <2>2, <2>3, <2>4, <2>5 DEF ContentUser
<1>7. CASE ContentServer
  <2>1. UNCHANGED <<open, texts>>
    BY <1>7 DEF ContentServer, PublishPage, PublishStyle, ReadFrame, AiCreatePage, PutPage, BinPage,
                UnbinPage, ReadSheet, ReadPage, OthersSave, OthersDelete, OthersRestore, OthersStyle
  <2> QED BY <1>4, <2>1
<1>8. CASE ContentAnswer
  <2>1. ASSUME NEW q \in reads, ReadReturns(q) PROVE TextsTyped' /\ ShownSeen' /\ DraftTrue'
    <3>1. CASE q.ver = 0
      BY <1>4, <2>1, <3>1 DEF ReadReturns
    <3>2. CASE q.ver # 0
      <4>1. /\ q.path \in Pages /\ q.ver \in 0..MaxPageVersion /\ q.ver \in Nat /\ q.ver > 0
            /\ q.html \in HtmlPages /\ shown \in PageTexts
        BY <1>1, <3>2 DEF WorkTyped, Loads, TextsTyped
      <4>2. open' = [path |-> q.path, ver |-> q.ver] /\ Render(q.html, shown) /\ raw' = q.html
        BY <2>1, <3>2 DEF ReadReturns, Render
      <4>3. Seen(q.path, q.ver, q.html)
        BY <1>1, <2>1, <4>1 DEF ReadsSeen, ReadReturns
      <4>4. TextsTyped'
        BY <1>1, <4>1, <4>2, RenderTyped DEF TextsTyped
      <4>5. DraftTrue'
        BY <1>1, <4>2, RenderTrue
      <4>6. ShownSeen'
        BY <1>2, <4>1, <4>2, <4>3 DEF ShownSeen, Seen, Written
      <4> QED BY <4>4, <4>5, <4>6
    <3> QED BY <3>1, <3>2
  <2>2. CASE FetchReturns
    <3>1. fetch.text \in PageTexts
      BY <1>1 DEF TabTyped
    <3> QED BY <1>5, <2>2, <3>1 DEF FetchReturns
  <2>3. CASE LoseFetch
    BY <1>5, <2>3, NothingTyped DEF LoseFetch
  <2>4. CASE DeleteReturns
    <3>1. CASE UNCHANGED <<open, texts>>
      BY <1>4, <3>1
    <3>2. CASE open' = NoPage /\ Render(NoHtml, None)
      <4>1. TextsTyped' /\ DraftTrue'
        BY <1>1, <3>2, NothingTyped, RenderTyped, RenderTrue DEF TextsTyped
      <4>2. ShownSeen'
        BY <3>2 DEF ShownSeen, NoPage
      <4> QED BY <4>1, <4>2
    <3> QED BY <2>4, <3>1, <3>2 DEF DeleteReturns
  <2>5. CASE IconArrives
    <3>1. Icon \in Heads
      BY DEF Heads
    <3>2. TextsTyped'
      BY <1>1, <2>5, <3>1 DEF IconArrives, TextsTyped, Drafts, Parts
    <3>3. DraftTrue'
      BY <1>1, <2>5 DEF IconArrives, DraftTrue, TextsTyped, Drafts
    <3> QED BY <1>3, <2>5, <3>2, <3>3 DEF IconArrives
  <2>6. ASSUME \/ \E q \in reads : LoseRead(q)
               \/ AutoSelect \/ PublishLists \/ CreateReturns \/ JobLists \/ LosePublish \/ LoseJob \/ LoseIcon
        PROVE  UNCHANGED <<open, texts>>
    BY <2>6 DEF LoseRead, AutoSelect, PublishLists, CreateReturns, JobLists, LosePublish, LoseJob, LoseIcon
  <2> QED BY <1>4, <1>8, <2>1, <2>2, <2>3, <2>4, <2>5, <2>6 DEF ContentAnswer
<1>9. CASE UNCHANGED contentVars
  BY <1>4, <1>9 DEF contentVars
<1> QED BY <1>6, <1>7, <1>8, <1>9 DEF ContentNext
-----------------------------------------------------------------------------
(* Loads, publications and jobs *)

LEMMA ExistTyped == ContentTyped => Exist \subseteq Pages /\ Binned \subseteq Pages
  BY DEF Exist, Binned

LEMMA RefetchTyped ==
  ASSUME ContentTyped, NEW path, Refetch(path)
  PROVE  fetch' \in [phase : {"none", "sent", "read"}, text : PageTexts]
  BY NothingTyped DEF Refetch, NoFetch, PageTexts

LEMMA TabStep ==
  ASSUME MaxPageVersion \in Nat, ContentTyped, [ContentNext]_contentVars
  PROVE  TabTyped'
<1> USE DEF TabTyped
<1>1. ASSUME UNCHANGED <<known, fetch, auto, icon, modal>> PROVE TabTyped'
  BY <1>1 DEF ContentTyped
<1>2. CASE ContentUser
  BY <1>2 DEF ContentTyped, ContentUser, EditBody, EditStyle, EditHead, UploadIcon, ToggleMode, HandlePublish,
              OpenModal, CloseModal, SelectPage, DeletePage, RestorePage, HandleCreate
<1>3. CASE ContentServer
  <2>1. CASE ReadSheet
    BY <2>1 DEF ReadSheet, ContentTyped, SiteTyped
  <2>2. CASE ~ReadSheet
    BY <1>1, <1>3, <2>2 DEF ContentServer, PublishPage, PublishStyle, ReadFrame, AiCreatePage, PutPage,
         BinPage, UnbinPage, ReadPage, OthersSave, OthersDelete, OthersRestore, OthersStyle
  <2> QED BY <2>1, <2>2
<1>4. CASE ContentAnswer
  <2>1. ASSUME NEW q \in reads, ReadReturns(q) PROVE TabTyped'
    BY <2>1, RefetchTyped DEF ReadReturns, ContentTyped
  <2>2. CASE AutoSelect \/ IconArrives \/ CreateReturns \/ LosePublish \/ LoseJob \/ LoseIcon
              \/ \E q \in reads : LoseRead(q)
    BY <2>2 DEF AutoSelect, IconArrives, CreateReturns, LosePublish, LoseJob, LoseIcon, LoseRead, ContentTyped
  <2>3. CASE FetchReturns \/ LoseFetch
    BY <2>3, NothingTyped DEF FetchReturns, LoseFetch, ContentTyped
  <2>4. CASE PublishLists
    BY <2>4, RefetchTyped, ExistTyped DEF PublishLists, ContentTyped
  <2>5. CASE DeleteReturns
    BY <2>5, RefetchTyped DEF DeleteReturns, ContentTyped
  <2>6. CASE JobLists
    BY <2>6, RefetchTyped, ExistTyped DEF JobLists, ContentTyped
  <2> QED BY <1>4, <2>1, <2>2, <2>3, <2>4, <2>5, <2>6 DEF ContentAnswer
<1>5. CASE UNCHANGED contentVars
  BY <1>1, <1>5 DEF contentVars
<1> QED BY <1>2, <1>3, <1>4, <1>5 DEF ContentNext

SentLoads == {c \in Loads : c.phase = "sent"}

LEMMA CallIsLoad ==
  ASSUME MaxPageVersion \in Nat, NEW p \in Pages,
         NEW for \in {"pick", "auto", "again", "publish", "create", "restore"}
  PROVE  Call(p, for) \in SentLoads
  BY NothingTyped DEF Call, Loads, SentLoads

\* The reads: a call is sent, answered with the page of this moment, and taken away.
ReadsMove ==
  \/ reads' \subseteq reads
  \/ reads' \subseteq reads \cup SentLoads
  \/ /\ UNCHANGED <<site, trash, past, reborn>>
     /\ \E q \in reads : reads' = (reads \ {q}) \cup
           {[q EXCEPT !.phase = "read", !.html = site[q.path].html, !.ver = site[q.path].ver]}

LEMMA ReadsOnlyMove ==
  ASSUME MaxPageVersion \in Nat, ContentTyped, [ContentNext]_contentVars
  PROVE  ReadsMove
<1>1. CASE ContentUser
  <2>1. ASSUME NEW p \in Pages, SelectPage(p) PROVE ReadsMove
    <3>1. Call(p, "pick") \in SentLoads
      BY CallIsLoad
    <3> QED BY <2>1, <3>1 DEF SelectPage, ReadsMove
  <2>2. ASSUME ~\E p \in Pages : SelectPage(p) PROVE reads' = reads
    BY <1>1, <2>2 DEF ContentUser, EditBody, EditStyle, EditHead, UploadIcon, ToggleMode, HandlePublish,
              OpenModal, CloseModal, DeletePage, RestorePage, HandleCreate
  <2> QED BY <2>1, <2>2 DEF ReadsMove
<1>2. CASE ContentServer
  BY <1>2 DEF ReadsMove, ContentServer, PublishPage, PublishStyle, ReadFrame, AiCreatePage, PutPage,
         BinPage, UnbinPage, ReadPage, ReadSheet, OthersSave, OthersDelete, OthersRestore, OthersStyle, store
<1>3. CASE ContentAnswer
  <2>1. CASE AutoSelect
    <3>1. known.there \subseteq Pages
      BY DEF ContentTyped, TabTyped
    <3>2. PICK p \in known.there : reads' = reads \cup {Call(p, "auto"), Call(p, "again")}
      BY <2>1 DEF AutoSelect
    <3>3. Call(p, "auto") \in SentLoads /\ Call(p, "again") \in SentLoads
      BY <3>1, <3>2, CallIsLoad
    <3> QED BY <3>2, <3>3 DEF ReadsMove
  <2>2. CASE PublishLists
    <3>1. pub.path \in Exist => Call(pub.path, "publish") \in SentLoads
      BY CallIsLoad, ExistTyped
    <3> QED BY <2>2, <3>1 DEF PublishLists, ReadsMove
  <2>3. CASE JobLists
    <3>1. job.path \in Exist => /\ Call(job.path, "restore") \in SentLoads
                               /\ Call(job.path, "create") \in SentLoads
                               /\ Call(job.path, "again") \in SentLoads
      BY CallIsLoad, ExistTyped
    <3> QED BY <2>3, <3>1 DEF JobLists, ReadsMove
  <2>4. ASSUME NEW q \in reads, ReadReturns(q) \/ LoseRead(q) PROVE ReadsMove
    BY <2>4 DEF ReadReturns, LoseRead, ReadsMove
  <2>5. CASE IconArrives \/ FetchReturns \/ DeleteReturns \/ CreateReturns \/ LoseFetch \/ LosePublish
               \/ LoseJob \/ LoseIcon
    BY <2>5 DEF IconArrives, FetchReturns, DeleteReturns, CreateReturns, LoseFetch, LosePublish,
                LoseJob, LoseIcon, ReadsMove
  <2> QED BY <1>3, <2>1, <2>2, <2>3, <2>4, <2>5 DEF ContentAnswer
<1>4. CASE UNCHANGED contentVars
  BY <1>4 DEF contentVars, ReadsMove
<1> QED BY <1>1, <1>2, <1>3, <1>4 DEF ContentNext

\* An answer on its way brings a version the page had.
LEMMA ReadsStep ==
  ASSUME MaxPageVersion \in Nat, ContentTyped, ContentInv, [ContentNext]_contentVars
  PROVE  reads' \subseteq Loads /\ ReadsSeen'
<1>1. /\ SiteTyped /\ SiteInv /\ ReadsSeen /\ reads \subseteq Loads
  BY DEF ContentTyped, ContentInv, WorkTyped
<1>2. \A p \in Pages : \A v \in Nat : \A h : Seen(p, v, h) => Seen(p, v, h)'
  BY <1>1, SeenAllLast, StoreStep
<1>3. \A q \in reads : q.phase = "read" /\ q.ver > 0 => Seen(q.path, q.ver, q.html)'
  <2> SUFFICES ASSUME NEW q \in reads, q.phase = "read", q.ver > 0 PROVE Seen(q.path, q.ver, q.html)'
    OBVIOUS
  <2>1. q.path \in Pages /\ q.ver \in Nat
    BY <1>1 DEF Loads
  <2>2. Seen(q.path, q.ver, q.html)
    BY <1>1 DEF ReadsSeen
  <2> QED BY <1>2, <2>1, <2>2
<1>4. CASE reads' \subseteq reads
  BY <1>1, <1>3, <1>4 DEF ReadsSeen
<1>5. CASE reads' \subseteq reads \cup SentLoads
  BY <1>1, <1>3, <1>5 DEF ReadsSeen, SentLoads
<1>6. CASE UNCHANGED <<site, trash, past, reborn>>
           /\ \E q \in reads : reads' = (reads \ {q}) \cup
                {[q EXCEPT !.phase = "read", !.html = site[q.path].html, !.ver = site[q.path].ver]}
  <2>1. PICK q \in reads : reads' = (reads \ {q}) \cup
                {[q EXCEPT !.phase = "read", !.html = site[q.path].html, !.ver = site[q.path].ver]}
    BY <1>6
  <2>2. PICK c : c = [q EXCEPT !.phase = "read", !.html = site[q.path].html, !.ver = site[q.path].ver]
    OBVIOUS
  <2>3. q \in Loads /\ q.path \in Pages /\ site[q.path] \in StoredPages
    BY <1>1 DEF Loads, SiteTyped
  <2>4. c \in Loads /\ c.path = q.path /\ c.ver = site[q.path].ver /\ c.html = site[q.path].html
    BY <2>2, <2>3 DEF Loads, StoredPages
  <2>5. site[q.path].ver > 0 => Seen(q.path, site[q.path].ver, site[q.path].html)
    BY <1>1, <2>3 DEF SiteInv
  <2>6. \A d \in reads' : d = c \/ d \in reads
    BY <2>1, <2>2
  <2>7. reads' \subseteq Loads
    BY <1>1, <2>4, <2>6
  <2>8. c.ver > 0 => Seen(c.path, c.ver, c.html)
    BY <2>4, <2>5
  <2>9. c.ver > 0 => Seen(c.path, c.ver, c.html)'
    BY <2>8, <1>6 DEF Seen, Written
  <2>10. ReadsSeen'
    BY <1>3, <2>6, <2>9 DEF ReadsSeen
  <2> QED BY <2>7, <2>10
<1> QED BY <1>4, <1>5, <1>6, ReadsOnlyMove DEF ReadsMove

PubKept == pub' \in Publications /\ (pub'.phase = "idle" \/ pub'.path \in Pages) /\ PubSeen'

\* What is published has the frame of its own page, and came from a version of it.
LEMMA PubStep ==
  ASSUME MaxPageVersion \in Nat, ContentTyped, ContentInv, [ContentNext]_contentVars
  PROVE  PubKept
<1>1. /\ SiteTyped /\ SiteInv /\ PubSeen /\ TextsTyped /\ ShownSeen
      /\ pub \in Publications /\ (pub.phase = "idle" \/ pub.path \in Pages)
  BY DEF ContentTyped, ContentInv, WorkTyped
<1>2. \A p \in Pages : \A v \in Nat : \A h : Seen(p, v, h) => Seen(p, v, h)'
  BY <1>1, SeenAllLast, StoreStep
<1>3. ASSUME UNCHANGED pub PROVE PubKept
  <2>1. pub.phase = "page" => pub.path \in Pages /\ pub.ver \in Nat
    BY <1>1 DEF Publications
  <2>2. pub.phase = "page" => Seen(pub.path, pub.ver, pub.from)
    BY <1>1 DEF PubSeen
  <2>3. PubSeen'
    BY <1>1, <1>2, <1>3, <2>1, <2>2 DEF PubSeen, Seen, Written
  <2> QED BY <1>1, <1>3, <2>3 DEF PubKept
<1>4. ASSUME pub' = NoPub PROVE PubKept
  <2>1. NoPub \in Publications /\ NoPub.phase = "idle"
    BY NothingTyped
  <2> QED BY <1>4, <2>1 DEF PubSeen, PubKept
<1>5. ASSUME NEW phase \in {"style", "list", "load"}, pub.phase # "idle",
             pub' = [pub EXCEPT !.phase = phase]
      PROVE  PubKept
  <2>1. pub' \in Publications /\ pub'.phase = phase /\ pub'.path = pub.path
    BY <1>1, <1>5 DEF Publications
  <2> QED BY <1>1, <1>5, <2>1 DEF PubSeen, PubKept
<1>6. CASE HandlePublish
  <2>1. open.path \in Pages /\ open.ver \in 0..MaxPageVersion /\ open.ver \in Nat /\ raw \in HtmlPages
    BY <1>1, <1>6 DEF HandlePublish, Reachable, TextsTyped
  <2>2. Seen(open.path, open.ver, raw)
    BY <1>1, <1>6 DEF HandlePublish, Reachable, ShownSeen
  <2>3. Assemble \in HtmlPages /\ Assemble.own = raw.own
    BY <1>1 DEF Assemble, Applied, Html, HtmlPages, TextsTyped, Drafts
  <2>4. (IF "style" \in dirty /\ shown # None THEN draft.style ELSE None) \in PageTexts
    BY <1>1, NothingTyped DEF TextsTyped, Drafts
  <2>5. /\ pub' = [phase |-> "page", path |-> open.path, ver |-> open.ver, from |-> raw, html |-> Assemble,
                   style |-> IF "style" \in dirty /\ shown # None THEN draft.style ELSE None]
        /\ UNCHANGED store
    BY <1>6 DEF HandlePublish
  <2>6. pub' \in Publications /\ pub'.path \in Pages
    BY <2>1, <2>3, <2>4, <2>5 DEF Publications
  <2>7. PubSeen'
    BY <2>2, <2>3, <2>5 DEF PubSeen, Seen, Written, store
  <2> QED BY <2>6, <2>7 DEF PubKept
<1>7. CASE ContentUser /\ ~HandlePublish
  <2>1. UNCHANGED pub
    BY <1>7 DEF ContentUser, EditBody, EditStyle, EditHead, UploadIcon, ToggleMode,
                OpenModal, CloseModal, SelectPage, DeletePage, RestorePage, HandleCreate
  <2> QED BY <1>3, <2>1
<1>8. CASE ContentServer
  <2>1. CASE PublishPage
    <3>1. CASE pub' = NoPub
      BY <1>4, <3>1
    <3>2. CASE pub' = [pub EXCEPT !.phase = IF pub.style # None THEN "style" ELSE "list"]
      BY <1>5, <2>1, <3>2 DEF PublishPage
    <3> QED BY <2>1, <3>1, <3>2 DEF PublishPage
  <2>2. CASE PublishStyle
    BY <1>5, <2>2 DEF PublishStyle
  <2>3. CASE ~PublishPage /\ ~PublishStyle
    <3>1. UNCHANGED pub
      BY <1>8, <2>3 DEF ContentServer, ReadFrame, AiCreatePage, PutPage, BinPage,
             UnbinPage, ReadPage, ReadSheet, OthersSave, OthersDelete, OthersRestore, OthersStyle
    <3> QED BY <1>3, <3>1
  <2> QED BY <2>1, <2>2, <2>3
<1>9. CASE ContentAnswer
  <2>1. CASE PublishLists
    <3>1. CASE pub' = NoPub
      BY <1>4, <3>1
    <3>2. CASE pub' = [pub EXCEPT !.phase = "load"]
      BY <1>5, <2>1, <3>2 DEF PublishLists
    <3> QED BY <2>1, <3>1, <3>2 DEF PublishLists
  <2>2. ASSUME NEW q \in reads, ReadReturns(q) \/ LoseRead(q) PROVE PubKept
    BY <1>3, <1>4, <2>2 DEF ReadReturns, LoseRead
  <2>3. CASE LosePublish
    BY <1>4, <2>3 DEF LosePublish
  <2>4. CASE AutoSelect \/ IconArrives \/ FetchReturns \/ DeleteReturns \/ CreateReturns \/ JobLists
               \/ LoseFetch \/ LoseJob \/ LoseIcon
    <3>1. UNCHANGED pub
      BY <2>4 DEF AutoSelect, IconArrives, FetchReturns, DeleteReturns, CreateReturns, JobLists,
                  LoseFetch, LoseJob, LoseIcon
    <3> QED BY <1>3, <3>1
  <2> QED BY <1>9, <2>1, <2>2, <2>3, <2>4 DEF ContentAnswer
<1>10. CASE UNCHANGED contentVars
  BY <1>3, <1>10 DEF contentVars
<1> QED BY <1>6, <1>7, <1>8, <1>9, <1>10 DEF ContentNext

JobKept == job' \in Jobs /\ (job'.phase = "idle" \/ job'.path \in Pages) /\ JobOwn'

\* A page made by a job has the frame of its own path.
LEMMA JobStep ==
  ASSUME MaxPageVersion \in Nat, ContentTyped, ContentInv, [ContentNext]_contentVars
  PROVE  JobKept
<1>1. SiteTyped /\ TextsTyped /\ JobOwn /\ job \in Jobs /\ (job.phase = "idle" \/ job.path \in Pages)
  BY DEF ContentTyped, ContentInv, WorkTyped
<1>2. ASSUME UNCHANGED job PROVE JobKept
  BY <1>1, <1>2 DEF JobOwn, JobKept
<1>3. ASSUME job' = NoJob PROVE JobKept
  <2>1. NoJob \in Jobs /\ NoJob.phase = "idle"
    BY NothingTyped
  <2> QED BY <1>3, <2>1 DEF JobOwn, JobKept
<1>4. ASSUME NEW phase \in {"done", "list"}, job.phase # "idle", job' = [job EXCEPT !.phase = phase] PROVE JobKept
  <2>1. job' \in Jobs /\ job'.phase = phase /\ job'.path = job.path
    BY <1>1, <1>4 DEF Jobs
  <2> QED BY <1>1, <1>4, <2>1 DEF JobOwn, JobKept
<1>5. ASSUME NEW style \in PageTexts, job.phase = "sent",
             job' = [job EXCEPT !.phase = "framed", !.html = Html(job.path, NewText, NewText, style)]
      PROVE  JobKept
  <2>1. Html(job.path, NewText, NewText, style) \in HtmlPages /\ Html(job.path, NewText, NewText, style).own = job.path
    BY <1>1, <1>5 DEF Html, HtmlPages, PageTexts, Heads
  <2>2. job' \in Jobs /\ job'.path = job.path /\ job'.html.own = job.path
    BY <1>1, <1>5, <2>1 DEF Jobs
  <2> QED BY <1>1, <1>5, <2>2 DEF JobOwn, JobKept
<1>6. ASSUME NEW p \in Pages, NEW kind \in {"generate", "frame", "delete", "restore"}, Begin(kind, p) PROVE JobKept
  <2>1. open.path \in Pages \cup {None} /\ NoHtml \in HtmlPages
    BY <1>1, NothingTyped DEF TextsTyped
  <2>2. job' \in Jobs /\ job'.phase = "sent" /\ job'.path = p
    BY <1>6, <2>1 DEF Begin, Jobs
  <2> QED BY <2>2 DEF JobOwn, JobKept
<1>7. CASE ContentUser
  <2>1. ASSUME NEW p \in Pages, DeletePage(p) \/ RestorePage(p) PROVE JobKept
    BY <2>1, <1>6 DEF DeletePage, RestorePage
  <2>2. ASSUME NEW p \in Pages, NEW prompted \in BOOLEAN, HandleCreate(p, prompted) PROVE JobKept
    BY <2>2, <1>6 DEF HandleCreate
  <2>3. ASSUME \/ \E v \in Values : EditBody(v) \/ EditStyle(v)
               \/ \E h \in Values \cup {Cleared} : EditHead(h)
               \/ UploadIcon \/ ToggleMode \/ HandlePublish \/ OpenModal \/ CloseModal
               \/ \E p \in Pages : SelectPage(p)
        PROVE  UNCHANGED job
    BY <2>3 DEF EditBody, EditStyle, EditHead, UploadIcon, ToggleMode, HandlePublish,
                OpenModal, CloseModal, SelectPage
  <2> QED BY <1>2, <1>7, <2>1, <2>2, <2>3 DEF ContentUser
<1>8. CASE ContentServer
  <2>1. CASE ReadFrame
    <3>1. (IF Index \in Exist THEN site[Index].html.style ELSE None) \in PageTexts
      BY <1>1, NothingTyped DEF Exist, SiteTyped, StoredPages, HtmlPages
    <3> QED BY <2>1, <3>1, <1>5 DEF ReadFrame
  <2>2. CASE AiCreatePage
    BY <2>2, <1>5, NothingTyped DEF AiCreatePage
  <2>3. CASE PutPage \/ BinPage \/ UnbinPage
    <3>1. job' = NoJob \/ (job.phase # "idle" /\ job' = [job EXCEPT !.phase = "done"])
      BY <2>3 DEF PutPage, BinPage, UnbinPage
    <3> QED BY <3>1, <1>3, <1>4
  <2>4. ASSUME \/ PublishPage \/ PublishStyle \/ ReadSheet \/ \E q \in reads : ReadPage(q)
               \/ \E p \in Pages, v \in Values : OthersSave(p, v)
               \/ \E p \in Pages : OthersDelete(p) \/ OthersRestore(p)
               \/ \E v \in Values : OthersStyle(v)
        PROVE  UNCHANGED job
    BY <2>4 DEF PublishPage, PublishStyle, ReadSheet, ReadPage, OthersSave, OthersDelete, OthersRestore, OthersStyle
  <2> QED BY <1>2, <1>8, <2>1, <2>2, <2>3, <2>4 DEF ContentServer
<1>9. CASE ContentAnswer
  <2>1. CASE DeleteReturns \/ CreateReturns
    BY <2>1, <1>4 DEF DeleteReturns, CreateReturns
  <2>2. CASE JobLists \/ LoseJob
    BY <2>2, <1>3 DEF JobLists, LoseJob
  <2>3. ASSUME \/ \E q \in reads : ReadReturns(q) \/ LoseRead(q)
               \/ AutoSelect \/ IconArrives \/ FetchReturns \/ PublishLists
               \/ LoseFetch \/ LosePublish \/ LoseIcon
        PROVE  UNCHANGED job
    BY <2>3 DEF ReadReturns, LoseRead, AutoSelect, IconArrives, FetchReturns, PublishLists,
                LoseFetch, LosePublish, LoseIcon
  <2> QED BY <1>2, <1>9, <2>1, <2>2, <2>3 DEF ContentAnswer
<1>10. CASE UNCHANGED contentVars
  BY <1>2, <1>10 DEF contentVars
<1> QED BY <1>7, <1>8, <1>9, <1>10 DEF ContentNext
-----------------------------------------------------------------------------
LEMMA ContentStarts ==
  ASSUME MaxPageVersion \in Nat \ {0}
  PROVE  ContentInit => ContentTyped /\ ContentInv
<1> SUFFICES ASSUME ContentInit PROVE ContentTyped /\ ContentInv
  OBVIOUS
<1> USE NothingTyped
<1>1. PICK first \in SUBSET Pages \ {{}}, x \in Values, loaded \in BOOLEAN :
        /\ site = [p \in Pages |-> IF p \in first THEN [html |-> Html(p, Rich, x, x), ver |-> 1]
                                   ELSE [html |-> NoHtml, ver |-> 0]]
        /\ past = [p \in Pages |-> [v \in 1..MaxPageVersion |-> IF v = 1 THEN site[p].html ELSE NoHtml]]
        /\ sheet \in {x, None}
        /\ known = [there |-> first, gone |-> {}]
        /\ \E p \in first : open = IF loaded THEN [path |-> p, ver |-> 1] ELSE NoPage
  BY DEF ContentInit
<1>2. PICK p \in first : open = IF loaded THEN [path |-> p, ver |-> 1] ELSE NoPage
  BY <1>1
<1>3. /\ raw = IF open = NoPage THEN NoHtml ELSE site[open.path].html
      /\ draft = [body |-> Sanitized(raw.body), head |-> raw.head, style |-> raw.style]
      /\ fetch = IF open = NoPage \/ sheet = None THEN NoFetch ELSE [phase |-> "sent", text |-> None]
      /\ trash = [q \in Pages |-> {}] /\ reborn = {}
      /\ shown = None /\ reads = {}
      /\ dirty = {} /\ baseline = None /\ auto = FALSE
      /\ pub = NoPub /\ job = NoJob /\ icon = FALSE /\ modal = FALSE
  BY DEF ContentInit
<1>4. p \in Pages /\ 1 \in PageVersions /\ 1 \in 0..MaxPageVersion /\ 0 \in 0..MaxPageVersion
      /\ x \in PageTexts /\ x \in Heads /\ Rich \in PageTexts
  BY <1>1, <1>2 DEF PageVersions, PageTexts, Heads
<1>5. \A q \in Pages : Html(q, Rich, x, x) \in HtmlPages /\ Html(q, Rich, x, x).own = q
  BY <1>4 DEF Html, HtmlPages
<1>6. site \in [Pages -> StoredPages]
  BY <1>1, <1>4, <1>5 DEF StoredPages
<1>7. \A q \in Pages : site[q].html \in HtmlPages
  BY <1>6 DEF StoredPages
<1>8. past \in [Pages -> [PageVersions -> HtmlPages]]
  BY <1>1, <1>7 DEF PageVersions
<1>9. SiteTyped
  BY <1>1, <1>3, <1>4, <1>6, <1>8 DEF SiteTyped
<1>10. raw \in HtmlPages
  BY <1>2, <1>3, <1>4, <1>7
<1>11. TextsTyped
  <2>1. open \in [path : Pages \cup {None}, ver : 0..MaxPageVersion]
    BY <1>2, <1>4
  <2>2. raw.head \in Heads \cup {None} /\ raw.style \in PageTexts /\ Sanitized(raw.body) \in PageTexts
    BY <1>10, SanitizedTyped DEF HtmlPages
  <2>3. draft \in Drafts
    BY <1>3, <2>2 DEF Drafts
  <2> QED BY <1>3, <1>10, <2>1, <2>3 DEF TextsTyped
<1>12. TabTyped
  BY <1>1, <1>3 DEF TabTyped
<1>13. WorkTyped
  BY <1>3 DEF WorkTyped
<1>14. \A q \in Pages : site[q].ver > 0 => Seen(q, site[q].ver, site[q].html)
  <2> SUFFICES ASSUME NEW q \in Pages, site[q].ver > 0 PROVE Seen(q, site[q].ver, site[q].html)
    OBVIOUS
  <2>1. site[q] = [html |-> Html(q, Rich, x, x), ver |-> 1]
    BY <1>1
  <2>2. past[q][1] = site[q].html
    BY <1>1, <1>4 DEF PageVersions
  <2> QED BY <2>1, <2>2, <1>4, <1>5 DEF Seen, Written
<1>15. SiteInv
  BY <1>3, <1>14 DEF SiteInv
<1>16. ShownSeen
  <2>1. CASE loaded
    <3>1. open = [path |-> p, ver |-> 1] /\ open # NoPage
      BY <1>2, <2>1 DEF NoPage
    <3>2. site[p].ver = 1 /\ raw = site[p].html
      BY <1>1, <1>2, <1>3, <1>4, <3>1
    <3> QED BY <3>1, <3>2, <1>4, <1>14 DEF ShownSeen
  <2>2. CASE ~loaded
    BY <1>2, <2>2 DEF ShownSeen, NoPage
  <2> QED BY <2>1, <2>2
<1>17. DraftTrue
  BY <1>3 DEF DraftTrue, Css, Inline
<1>18. ReadsSeen /\ PubSeen /\ JobOwn
  BY <1>3 DEF ReadsSeen, PubSeen, JobOwn, NoPub, NoJob
<1> QED BY <1>9, <1>11, <1>12, <1>13, <1>15, <1>16, <1>17, <1>18 DEF ContentTyped, ContentInv

LEMMA ContentKept ==
  ASSUME MaxPageVersion \in Nat
  PROVE  ContentTyped /\ ContentInv /\ [ContentNext]_contentVars => (ContentTyped /\ ContentInv)'
<1> SUFFICES ASSUME ContentTyped, ContentInv, [ContentNext]_contentVars PROVE ContentTyped' /\ ContentInv'
  OBVIOUS
<1>1. StoreMoves /\ sheet' \in PageTexts /\ SiteTyped /\ SiteInv
  BY StoreStep DEF ContentTyped, ContentInv
<1>2. SiteTyped' /\ SiteInv'
  BY <1>1, StoreMovesTyped, StoreInvStep
<1>3. TextsTyped' /\ ShownSeen' /\ DraftTrue'
  BY TextsStep
<1>4. TabTyped'
  BY TabStep
<1>5. WorkTyped' /\ ReadsSeen' /\ PubSeen' /\ JobOwn'
  <2>1. reads' \subseteq Loads /\ ReadsSeen'
    BY ReadsStep
  <2>2. PubKept /\ JobKept
    BY PubStep, JobStep
  <2> QED BY <2>1, <2>2 DEF PubKept, JobKept, WorkTyped
<1> QED BY <1>2, <1>3, <1>4, <1>5 DEF ContentTyped, ContentInv

LEMMA ContentAlways == ContentSpec => [](ContentTyped /\ ContentInv)
<1>1. ContentInit => ContentTyped /\ ContentInv
  BY ContentAssumption, ContentStarts
<1>2. ContentTyped /\ ContentInv /\ [ContentNext]_contentVars => (ContentTyped /\ ContentInv)'
  BY ContentAssumption, ContentKept
<1> QED BY <1>1, <1>2, PTL DEF ContentSpec

\* Whatever is selected, loaded, created, deleted and lost meanwhile, the pages, the tab and
\* what is on its way keep their types.
THEOREM ContentTypes == ContentSpec => []ContentTypeOK
<1>1. ContentTyped => ContentTypeOK
  BY DEF ContentTyped, SiteTyped, TextsTyped, TabTyped, WorkTyped, ContentTypeOK,
         StoredPages, DeletedPages, Drafts, Loads, Publications, Jobs, PageVersions
<1> QED BY <1>1, ContentAlways, PTL

\* handlePublish, handlePageCreated: no page is ever stored with the frame of another.
THEOREM FramesStayWithTheirPages == ContentSpec => []PagesKeepTheirOwn
<1>1. ContentInv => PagesKeepTheirOwn
  BY DEF ContentInv, SiteInv, Seen, PagesKeepTheirOwn, Exist
<1> QED BY <1>1, ContentAlways, PTL

\* loadFile, handleContentChange: what is shown as unchanged is what the history has under
\* the version the tab will name when it saves.
THEOREM CleanStaysPublished == ContentSpec => []CleanIsPublished
<1>1. ContentTyped /\ ContentInv => CleanIsPublished
  BY DEF ContentTyped, ContentInv, ShownSeen, DraftTrue, Seen, CleanIsPublished
<1> QED BY <1>1, ContentAlways, PTL

\* handlePublish: the version the page was loaded with is compared when it is saved, so what
\* it replaces is what the user began from, whatever others did to the path meanwhile.
THEOREM PublicationsReplaceSeen == ContentSpec => PublishReplacesSeen
<1>1. ContentTyped /\ ContentInv /\ [ContentNext]_contentVars
        => [pub.phase = "page" /\ pub' # pub /\ site' # site /\ pub.path \notin reborn
              => site[pub.path].html = pub.from]_contentVars
  <2> SUFFICES ASSUME ContentTyped, ContentInv, [ContentNext]_contentVars,
                      pub.phase = "page", pub' # pub, site' # site, pub.path \notin reborn
               PROVE  site[pub.path].html = pub.from
    OBVIOUS
  <2>1. Seen(pub.path, pub.ver, pub.from)
    BY DEF ContentInv, PubSeen
  <2>2. ASSUME site[pub.path].ver = pub.ver PROVE site[pub.path].html = pub.from
    <3>1. pub.path \in Pages /\ pub.ver > 0 /\ pub.from = past[pub.path][pub.ver]
      BY <2>1 DEF Seen, PageVersions
    <3>2. Seen(pub.path, site[pub.path].ver, site[pub.path].html)
      BY <2>2, <3>1 DEF ContentInv, SiteInv
    <3> QED BY <2>2, <3>1, <3>2 DEF Seen
  <2>3. CASE ContentUser
    <3>1. UNCHANGED site
      BY <2>3 DEF ContentUser, EditBody, EditStyle, EditHead, UploadIcon, ToggleMode, HandlePublish,
                  OpenModal, CloseModal, SelectPage, DeletePage, RestorePage, HandleCreate, store
    <3> QED BY <3>1
  <2>4. CASE ContentServer
    <3>1. CASE PublishPage
      BY <2>2, <3>1 DEF PublishPage
    <3>2. CASE PublishStyle
      BY <3>2 DEF PublishStyle
    <3>3. CASE ~PublishPage /\ ~PublishStyle
      <4>1. UNCHANGED pub
        BY <2>4, <3>3 DEF ContentServer, ReadFrame, AiCreatePage, PutPage, BinPage,
               UnbinPage, ReadPage, ReadSheet, OthersSave, OthersDelete, OthersRestore, OthersStyle
      <4> QED BY <4>1
    <3> QED BY <3>1, <3>2, <3>3
  <2>5. CASE ContentAnswer
    <3>1. CASE LosePublish
      BY <2>2, <3>1 DEF LosePublish
    <3>2. CASE ~LosePublish
      <4>1. UNCHANGED site
        BY <2>5, <3>2 DEF ContentAnswer, ReadReturns, LoseRead, AutoSelect, IconArrives, FetchReturns,
               PublishLists, DeleteReturns, CreateReturns, JobLists, LoseFetch, LoseJob, LoseIcon, store
      <4> QED BY <4>1
    <3> QED BY <3>1, <3>2
  <2>6. CASE UNCHANGED contentVars
    BY <2>6 DEF contentVars, store
  <2> QED BY <2>3, <2>4, <2>5, <2>6 DEF ContentNext
<1> QED BY <1>1, ContentAlways, PTL DEF ContentSpec, PublishReplacesSeen
=============================================================================
