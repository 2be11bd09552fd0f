----------------------------- MODULE DraftEditor -----------------------------
(***************************************************************************)
(* Editing a Draft in the web application: ProjectPage (the active Draft,  *)
(* the panels, patches proposed by the copilot), DraftParametersDialog     *)
(* (unsaved-changes guard, settings) and DraftParameterEditor (candidate,  *)
(* history, validation, AI, explicit save).                                *)
(*                                                                         *)
(* A document is a whole SimulationParams value.  The three surfaces of    *)
(* the editor show one candidate; text that does not parse is `broken'.    *)
(***************************************************************************)
EXTENDS Naturals, Sequences, FiniteSets, SequencesExt

CONSTANTS
    Drafts,      \* the Drafts of the project
    Docs,        \* documents
    Canon,       \* [Docs -> Docs]: the canonical form Flow360 gives a document it stores
    Valid,       \* the documents Flow360's validation accepts
    Blocked,     \* the documents with local errors (localDraftValidation)
    Patches,     \* a set of functions [Docs -> Docs]: merge patches proposed by an assistant
    MaxHistory,  \* undo entries kept
    MaxPending,  \* bound: requests under way at a time
    None         \* "nothing"

DraftEditorAssumption ==
    /\ None \notin Drafts /\ None \notin Docs
    /\ Canon \in [Docs -> Docs] /\ \A d \in Docs : Canon[Canon[d]] = Canon[d]
    /\ Valid \subseteq Docs /\ Blocked \subseteq Docs
    /\ Patches \subseteq [Docs -> Docs]
    /\ {MaxHistory, MaxPending} \subseteq Nat \ {0}

VARIABLES
    remote,    \* the documents Flow360 has
    page,      \* ProjectPage and DraftParametersDialog
    editor,    \* DraftParameterEditor, while it is mounted
    calls      \* requests under way that outlive a render

vars == <<remote, page, editor, calls>>

Panels == {"none", "parameters", "other"}

NoEditor == [on |-> FALSE, draft |-> None, baseline |-> None, doc |-> None,
             broken |-> FALSE, dirty |-> FALSE, past |-> <<>>, future |-> <<>>,
             timer |-> None, checking |-> None, verdict |-> None,
             ai |-> None, urgent |-> None, saving |-> FALSE, failed |-> FALSE]

\* the calls: the save of the editor, saves whose editor is gone, an edit of a
\* Draft entity in the workspace
NoCalls == [save |-> None, orphans |-> {}, entity |-> None]
SaveCalls == [draft : Drafts, doc : Docs, stored : BOOLEAN, matches : BOOLEAN, closing : BOOLEAN]

TypeOK ==
    /\ remote \in [Drafts -> Docs]
    /\ page.panel \in Panels /\ page.active \in Drafts
    /\ page.detail \in [draft : Drafts, doc : Docs, schema : Docs] \union {None}
    /\ page.guard \in {"closed", "open", "saving"} /\ page.dirty \in BOOLEAN
    /\ page.next \in Drafts \union {None}
    /\ page.patch \in [draft : Drafts, of : Patches] \union {None}
    /\ editor.on => /\ editor.draft \in Drafts /\ {editor.baseline, editor.doc} \subseteq Docs
                    /\ Len(editor.past) <= MaxHistory
                    /\ {editor.timer, editor.checking, editor.ai, editor.urgent}
                           \subseteq Docs \union {None}
    /\ calls.save \in SaveCalls \union {None} /\ calls.orphans \subseteq SaveCalls
    /\ calls.entity \in [draft : Drafts, doc : Docs] \union {None}

Init == /\ remote \in [Drafts -> {d \in Docs : Canon[d] = d}]
        /\ \E a \in Drafts : page = [panel |-> "none", active |-> a, detail |-> None,
                                     dirty |-> FALSE, guard |-> "closed", next |-> None,
                                     patch |-> None, settings |-> None]
        /\ editor = NoEditor
        /\ calls = NoCalls

\* requests under way: a bound on them keeps the instance small
Pending == Cardinality(calls.orphans) + (IF calls.save = None THEN 0 ELSE 1)
           + (IF calls.entity = None THEN 0 ELSE 1) + (IF editor.ai = None THEN 0 ELSE 1)
           + (IF editor.checking = None THEN 0 ELSE 1)

(***************************************************************************)
(* The editor's own operations: each takes and returns an editor.          *)
(***************************************************************************)
Candidate(e) == IF e.broken THEN None ELSE e.doc

ValidationIsCurrent(e) == e.verdict # None /\ e.verdict = Candidate(e)
LocalBlocking(e) == e.broken \/ e.doc \in Blocked

\* What the buttons of the editor offer.
Offers(e) ==
    (IF e.past # <<>> /\ ~e.saving THEN {"undo"} ELSE {})
    \union (IF e.future # <<>> /\ ~e.saving THEN {"redo"} ELSE {})
    \union (IF e.dirty /\ ~e.saving THEN {"discard"} ELSE {})
    \union (IF e.checking = None /\ e.ai = None /\ ~LocalBlocking(e) THEN {"validate"} ELSE {})
    \union (IF e.dirty /\ ~e.saving /\ e.checking = None /\ ~LocalBlocking(e) THEN {"save"} ELSE {})

\* draftReviewRunReady, which enables "Run this Draft"
ReviewRunReady(e) ==
    ~e.dirty /\ ~e.saving /\ ~e.failed /\ ValidationIsCurrent(e) /\ e.verdict \in Valid

\* A change of the candidate or of its state runs the validation effect again:
\* its cleanup clears the timer.  It arms one only for a candidate that AI
\* asked to have checked at once.
Revalidate(old, e) ==
    IF <<Candidate(e), e.dirty>> = <<Candidate(old), old.dirty>> THEN e
    ELSE IF e.urgent # None /\ e.urgent = Candidate(e) /\ e.doc \notin Blocked
         THEN [e EXCEPT !.timer = e.doc, !.checking = None, !.verdict = None, !.urgent = None]
         ELSE [e EXCEPT !.timer = None]

replaceCandidate(e, next) ==
    Revalidate(e, [e EXCEPT !.doc = next, !.broken = FALSE, !.failed = FALSE,
                            !.dirty = next # e.baseline])

\* the newest entries of a history
Newest(h) == IF Len(h) > MaxHistory THEN Tail(h) ELSE h

applyCandidate(e, next) ==
    LET pushed == IF e.doc = next THEN e
                  ELSE [e EXCEPT !.past = Newest(Append(@, e.doc)), !.future = <<>>]
    IN  [replaceCandidate(e, next) EXCEPT !.past = pushed.past, !.future = pushed.future]

discard(e) ==
    [replaceCandidate(e, e.baseline) EXCEPT !.past = <<>>, !.future = <<>>]

\* A mounted editor starts from the schema response that was loaded with the
\* Draft, and checks that document once.
NewEditor(detail) ==
    [NoEditor EXCEPT !.on = TRUE, !.draft = detail.draft,
                     !.baseline = detail.schema, !.doc = detail.schema,
                     !.timer = IF detail.schema \in Blocked THEN None ELSE detail.schema]

\* The effect that takes over a patch meant for this Draft.
TakePatch(p, e) ==
    IF e.on /\ p.patch # None /\ p.patch.draft = e.draft
    THEN [page |-> [p EXCEPT !.patch = None], editor |-> applyCandidate(e, p.patch.of[e.doc])]
    ELSE [page |-> p, editor |-> e]

\* The editor is mounted while the dialog shows a loaded Draft.
Shown(p) == p.panel = "parameters" /\ p.detail # None

\* A save whose editor goes away still answers; it compares its candidate with
\* the one the editor had when it was last rendered.
Orphaned(c, matches) ==
    IF c.save = None THEN c
    ELSE [c EXCEPT !.save = None,
                   !.orphans = @ \union {[c.save EXCEPT !.matches = matches, !.closing = FALSE]}]

\* React commits the page p with the editor e, and the calls c.
Commit(p, e, c) ==
    LET stays == e.on /\ Shown(p) /\ p.detail.draft = e.draft
        mounted == IF stays THEN e ELSE IF Shown(p) THEN NewEditor(p.detail) ELSE NoEditor
        taken == TakePatch(p, mounted)
        matches == c.save # None /\ Candidate(editor) = c.save.doc
    IN  /\ editor' = taken.editor
        /\ page' = [taken.page EXCEPT !.dirty = IF Shown(p) THEN taken.editor.dirty ELSE @,
                                      !.guard = IF p.panel = "parameters" THEN @ ELSE "closed",
                                      !.settings = IF stays THEN @ ELSE None]
        /\ calls' = IF stays \/ ~e.on THEN c ELSE Orphaned(c, matches)

\* setActiveDraftId: its effect drops the detail and loads the new Draft's
Activate(p, d) ==
    IF d = p.active THEN p ELSE [p EXCEPT !.active = d, !.detail = None]

\* closePanel: a switch that waited for the dialog to close goes on
closePanel(p) ==
    LET q == [p EXCEPT !.panel = "none", !.dirty = FALSE, !.next = None]
    IN  IF p.next = None THEN q ELSE Activate(q, p.next)

requestClose(p) ==
    IF editor.on /\ editor.dirty THEN [p EXCEPT !.guard = "open"] ELSE closePanel(p)

\* The settings and the close guard lie over the editor.
Reachable == editor.on /\ page.settings = None /\ page.guard = "closed"

(***************************************************************************)
(* ProjectPage.                                                            *)
(***************************************************************************)
\* loadDraftDetail answers for the active Draft; earlier requests are ignored
\* by their number.  The detail and the schema are two requests.
LoadDraftDetail ==
    /\ page.detail = None
    /\ Commit([page EXCEPT !.detail = [draft |-> page.active, doc |-> remote[page.active],
                                       schema |-> remote[page.active]]], editor, calls)
    /\ UNCHANGED remote

\* openDraftContext, from the bar or the manager
OpenDraft(d) ==
    /\ IF page.dirty /\ page.panel = "parameters"
       THEN Commit(requestClose([page EXCEPT !.next = d]), editor, calls)
       ELSE Commit(Activate([page EXCEPT !.panel = "none"], d), editor, calls)
    /\ UNCHANGED remote

\* "Configure Draft" is enabled once the Draft and its schema are there
Configure ==
    /\ page.panel # "parameters" /\ page.detail # None
    /\ Commit([page EXCEPT !.panel = "parameters"], editor, calls)
    /\ UNCHANGED remote

\* The header's buttons open another panel in place of the one there is; the
\* header lies above the dialog.
TogglePanel ==
    /\ Commit([page EXCEPT !.panel = IF @ = "other" THEN "none" ELSE "other"], editor, calls)
    /\ UNCHANGED remote

CloseOtherPanel ==
    /\ page.panel = "other"
    /\ Commit(closePanel(page), editor, calls)
    /\ UNCHANGED remote

\* onApplyDraftPatch: the user confirms a change the copilot proposes
ConfirmCopilotPatch ==
    /\ \E f \in Patches :
          Commit([page EXCEPT !.patch = [draft |-> page.active, of |-> f],
                              !.panel = "parameters"], editor, calls)
    /\ UNCHANGED remote

\* mutateDraftEntity, saveDraftSelectionGroup: the workspace changes the Draft
\* from what the page shows of it, validates, and stores it.
MutateEntity ==
    /\ page.panel = "none" /\ page.detail # None /\ calls.entity = None /\ Pending < MaxPending
    /\ \E f \in Patches : 
          calls' = [calls EXCEPT !.entity = [draft |-> page.detail.draft, doc |-> f[page.detail.doc]]]
    /\ UNCHANGED <<remote, page, editor>>

\* The answer is written into whatever detail the page has by then.
EntityStored ==
    /\ calls.entity # None
    /\ \/ LET doc == Canon[calls.entity.doc]
          IN  /\ remote' = [remote EXCEPT ![calls.entity.draft] = doc]
              /\ page' = IF page.detail = None THEN page ELSE [page EXCEPT !.detail.doc = doc]
       \/ UNCHANGED <<remote, page>>                       \* refused, or failed
    /\ calls' = [calls EXCEPT !.entity = None]
    /\ UNCHANGED editor

(***************************************************************************)
(* DraftParametersDialog.                                                  *)
(***************************************************************************)
CloseDialog ==
    /\ page.panel = "parameters" /\ page.guard = "closed"
    /\ Commit(requestClose(page), editor, calls)
    /\ UNCHANGED remote

\* "Continue editing", or Escape, which is not disabled while saving
CancelClose ==
    /\ page.guard # "closed"
    /\ page' = [page EXCEPT !.guard = "closed", !.next = None]
    /\ UNCHANGED <<remote, editor, calls>>

DiscardAndClose ==
    /\ page.guard = "open"
    /\ Commit(closePanel([page EXCEPT !.guard = "closed"]), editor, calls)
    /\ UNCHANGED remote

\* save(): one operation at a time, and only a candidate that parses
CanSave == Pending < MaxPending /\ editor.on /\ ~editor.saving /\ ~editor.broken /\ calls.save = None /\ calls.orphans = {}

StartSave(closing) ==
    /\ editor' = [editor EXCEPT !.saving = TRUE, !.failed = FALSE]
    /\ calls' = [calls EXCEPT !.save = [draft |-> editor.draft, doc |-> editor.doc, stored |-> FALSE,
                                        matches |-> TRUE, closing |-> closing]]

SaveAndClose ==
    /\ page.guard = "open"
    /\ IF CanSave THEN StartSave(TRUE) /\ page' = [page EXCEPT !.guard = "saving"]
       ELSE UNCHANGED <<editor, calls, page>>
    /\ UNCHANGED remote

\* DraftSettingsPanel works on the candidate there was when it was opened
OpenSettings ==
    /\ Reachable
    /\ page' = [page EXCEPT !.settings = editor.doc]
    /\ UNCHANGED <<remote, editor, calls>>

ApplySettings ==
    /\ editor.on /\ page.settings # None
    /\ \E f \in Patches : editor' = applyCandidate(editor, f[page.settings])
    /\ page' = [page EXCEPT !.settings = None, !.dirty = editor'.dirty]
    /\ UNCHANGED <<remote, calls>>

CloseSettings ==
    /\ page.settings # None
    /\ page' = [page EXCEPT !.settings = None]
    /\ UNCHANGED <<remote, editor, calls>>

(***************************************************************************)
(* DraftParameterEditor.                                                   *)
(***************************************************************************)
Edited(e) == editor' = e /\ page' = [page EXCEPT !.dirty = e.dirty]

\* a field of the form, or text that parses
Edit == /\ Reachable
        /\ \E d \in Docs : Edited(applyCandidate(editor, d))
        /\ UNCHANGED <<remote, calls>>

\* text that does not parse stays in the JSON surface
BreakText ==
    /\ Reachable /\ ~editor.broken
    /\ Edited(Revalidate(editor, [editor EXCEPT !.broken = TRUE, !.dirty = TRUE, !.failed = FALSE]))
    /\ UNCHANGED <<remote, calls>>

Undo ==
    /\ Reachable /\ "undo" \in Offers(editor)
    /\ Edited([replaceCandidate(editor, Last(editor.past))
                 EXCEPT !.past = Front(@), !.future = <<editor.doc>> \o @])
    /\ UNCHANGED <<remote, calls>>

Redo ==
    /\ Reachable /\ "redo" \in Offers(editor)
    /\ Edited([replaceCandidate(editor, Head(editor.future))
                 EXCEPT !.past = Append(@, editor.doc), !.future = Tail(@)])
    /\ UNCHANGED <<remote, calls>>

Discard ==
    /\ Reachable /\ "discard" \in Offers(editor)
    /\ Edited(discard(editor))
    /\ UNCHANGED <<remote, calls>>

\* validateCandidate, from the timer or from the button
ValidateCandidate(doc) ==
    editor' = [editor EXCEPT !.timer = None, !.checking = doc, !.verdict = None]

ValidationTimer ==
    /\ editor.on /\ editor.timer # None
    /\ ValidateCandidate(editor.timer)
    /\ UNCHANGED <<remote, page, calls>>

ValidateNow ==
    /\ Reachable /\ "validate" \in Offers(editor) /\ Pending < MaxPending
    /\ ValidateCandidate(editor.doc)
    /\ UNCHANGED <<remote, page, calls>>

\* The answer is kept only when the candidate is still the one it is about.
ValidationAnswer ==
    /\ editor.on /\ editor.checking # None
    /\ \/ editor' = [editor EXCEPT !.checking = None,
                        !.verdict = IF Candidate(editor) = editor.checking THEN editor.checking ELSE @]
       \/ editor' = [editor EXCEPT !.checking = None]      \* the request failed
    /\ UNCHANGED <<remote, page, calls>>

\* fillWithAI
AskAI == /\ Reachable /\ editor.ai = None /\ Pending < MaxPending
         /\ editor' = [editor EXCEPT !.ai = editor.doc]
         /\ UNCHANGED <<remote, page, calls>>

AIAnswer ==
    /\ editor.on /\ editor.ai # None
    /\ \/ /\ Candidate(editor) = editor.ai
          /\ \E f \in Patches :
                LET next == f[editor.doc]
                    asked == [editor EXCEPT !.ai = None, !.urgent = next]
                IN  Edited(applyCandidate(asked, next))
       \/ Edited([editor EXCEPT !.ai = None])    \* an explanation, a question, an error, or too late
    /\ UNCHANGED <<remote, calls>>

Save ==
    /\ CanSave /\ "save" \in Offers(editor) /\ Reachable
    /\ StartSave(FALSE)
    /\ UNCHANGED <<remote, page>>

\* Flow360 stores the document; the answer is still to come
SaveReaches(s) ==
    /\ ~s.stored
    /\ remote' = [remote EXCEPT ![s.draft] = Canon[s.doc]]
    /\ calls' = IF s = calls.save THEN [calls EXCEPT !.save.stored = TRUE]
                ELSE [calls EXCEPT !.orphans = (@ \ {s}) \union {[s EXCEPT !.stored = TRUE]}]
    /\ UNCHANGED <<page, editor>>

\* onParametersSynced writes the answer into the detail the page has
Synced(p, doc) == IF p.detail = None THEN p ELSE [p EXCEPT !.detail.doc = doc]

\* persistCandidate's answer
SaveAnswer ==
    LET s == calls.save
        doc == Canon[s.doc]
        unchanged == Candidate(editor) = s.doc
        clean == Revalidate(editor, [editor EXCEPT !.baseline = doc, !.doc = doc, !.dirty = FALSE,
                                                   !.past = <<>>, !.future = <<>>])
        saved == [IF unchanged THEN clean ELSE [editor EXCEPT !.baseline = doc] EXCEPT !.saving = FALSE]
        p == IF unchanged THEN Synced(page, doc) ELSE page
        closes == s.closing /\ unchanged
        q == [p EXCEPT !.guard = IF s.closing /\ @ = "saving" THEN IF closes THEN "closed" ELSE "open" ELSE @]
    IN  /\ s # None /\ s.stored
        /\ Commit(IF closes THEN closePanel(q) ELSE q, saved, [calls EXCEPT !.save = None])
        /\ UNCHANGED remote

\* The request fails, or its answer is lost after Flow360 stored the document.
SaveFails ==
    /\ calls.save # None
    /\ editor' = [editor EXCEPT !.saving = FALSE, !.failed = TRUE]
    /\ page' = [page EXCEPT !.guard = IF calls.save.closing /\ @ = "saving" THEN "open" ELSE @]
    /\ calls' = [calls EXCEPT !.save = None]
    /\ UNCHANGED remote

\* The editor that saved is gone: its callback still tells the page.
OrphanAnswer(s) ==
    /\ \/ s.stored /\ page' = IF s.matches THEN Synced(page, Canon[s.doc]) ELSE page
       \/ UNCHANGED page
    /\ calls' = [calls EXCEPT !.orphans = @ \ {s}]
    /\ UNCHANGED <<remote, editor>>

User ==
    \/ \E d \in Drafts : OpenDraft(d)
    \/ Configure \/ TogglePanel \/ CloseOtherPanel \/ ConfirmCopilotPatch \/ MutateEntity
    \/ CloseDialog \/ CancelClose \/ DiscardAndClose \/ SaveAndClose
    \/ OpenSettings \/ ApplySettings \/ CloseSettings
    \/ Edit \/ BreakText \/ Undo \/ Redo \/ Discard \/ ValidateNow \/ AskAI \/ Save

Answers ==
    \/ LoadDraftDetail \/ EntityStored \/ ValidationTimer \/ ValidationAnswer \/ AIAnswer
    \/ SaveAnswer \/ SaveFails
    \/ \E s \in calls.orphans \union ({calls.save} \ {None}) : SaveReaches(s)
    \/ \E s \in calls.orphans : OrphanAnswer(s)

Next == User \/ Answers

Spec == Init /\ [][Next]_vars

(***************************************************************************)
(* Properties.                                                             *)
(***************************************************************************)
\* No candidate is lost: whatever replaces it - an edit, AI, settings, a patch -
\* it stays one undo or redo away, unless the user discards it, saves it or
\* leaves the editor.
Recoverable(e) == ToSet(e.past) \union ToSet(e.future)
CandidateKept ==
    editor.on /\ editor'.on /\ editor'.draft = editor.draft /\ editor'.doc # editor.doc
        => \/ editor.doc \in Recoverable(editor')
           \/ editor'.doc = editor'.baseline /\ ~editor'.dirty
=============================================================================
