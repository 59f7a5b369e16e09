----------------------------- MODULE EditorPage ------------------------------
(***************************************************************************)
(* The editor page of a domain (app/(app)/domains/[id]/editor/page.tsx):   *)
(* code mode (Editor) or content mode (ContentMode), over the same files.  *)
(* The two share no state of the browser but the selection, which a change *)
(* of mode keeps (ContentMode!ToggleMode), so a behaviour stays in one     *)
(* mode, and the variables of the other keep their first values.           *)
(***************************************************************************)
EXTENDS Editor, ContentMode

VARIABLE mode   \* `editorMode`

EditorPageInit == mode \in {"code", "content"} /\ Init /\ ContentInit

EditorPageNext ==
  /\ UNCHANGED mode
  /\ \/ mode = "code" /\ Next /\ UNCHANGED contentVars
     \/ mode = "content" /\ ContentNext /\ UNCHANGED vars

EditorPageSpec == EditorPageInit /\ [][EditorPageNext]_<<mode, vars, contentVars>>
-----------------------------------------------------------------------------
\* The type invariants of code mode and of content mode.
EditorTypesOK == TypeOK /\ ContentTypeOK

\* What either mode shows as unchanged is what is stored under the version the tab will name
\* when it saves (Editor!CleanIsStored, ContentMode!CleanIsPublished).
CleanIsTrue == CleanIsStored /\ CleanIsPublished

\* A save that is not an explicit overwrite replaces the text its user began from, and a
\* publication exactly the page it was made from.
NobodyIsOverwritten == NoBlindOverwrite /\ PublishReplacesSeen
==============================================================================
