-------------------------- MODULE ProjectResources --------------------------
(***************************************************************************)
(* What ProjectPage shows of a project: the resource of the URL, the stage *)
(* of its branch to look at, the detail of that stage's resource with its  *)
(* refresh, the report of its viewer, and the loading overlay over all.    *)
(*                                                                         *)
(* A branch is Geometry, SurfaceMesh, ... in order, and a resource is its  *)
(* place in it.  Effects run in the step whose render runs them.           *)
(***************************************************************************)
EXTENDS Naturals, FiniteSets, FiniteSetsExt

CONSTANTS
    Depth,        \* resources of the branch; the first is the root
    DraftSources, \* the resources that Drafts of the project are based on
    MaxTurns      \* bound on the navigations of a behaviour

ProjectResourcesAssumption ==
    Depth \in Nat \ {0} /\ DraftSources \subseteq 1..Depth /\ MaxTurns \in Nat

VARIABLES
    look,    \* the page
    asks     \* requests for a detail under way

(***************************************************************************)
(* Pure parts: where a URL leads.  0 is "none", in the URL and elsewhere.  *)
(***************************************************************************)
Resources == 1..Depth

Selected(l) == IF l.resource \in Resources THEN l.resource ELSE 1

\* The stages of the branch up to the selected resource; of a Draft, its source
ResourceStageLinks(l) == IF l.draft # 0 THEN {l.draft} ELSE 1..Selected(l)

\* A resource that ended well can be looked at.  The source of a Draft is a
\* node of the tree, which has no status: only a Geometry is available then.
Available(l) ==
    {r \in ResourceStageLinks(l) : IF l.draft # 0 THEN r = 1 ELSE r \in l.known}

DefaultStage(l) == IF Selected(l) \in Available(l) THEN Selected(l)
                   ELSE IF Available(l) = {} THEN 0 ELSE Max(Available(l))
ActiveStage(l) == IF l.inventory # "shown" THEN 0
                  ELSE IF l.view \in Available(l) THEN l.view ELSE DefaultStage(l)

\* The two effects that correct the URL: a Draft is shown at the root, and a
\* stage that is not available is replaced by the one that is shown.
AtRoot(l) == IF l.inventory = "shown" /\ l.draft # 0 /\ l.resource # 1
             THEN [l EXCEPT !.resource = 1, !.view = 0] ELSE l
WithStage(l) ==
    IF ActiveStage(l) # 0 /\ (IF l.view = 0 THEN Selected(l) # ActiveStage(l)
                              ELSE l.view # ActiveStage(l))
    THEN [l EXCEPT !.resource = Selected(l), !.view = ActiveStage(l)] ELSE l
Redirect(l) == WithStage(AtRoot(l))

(***************************************************************************)
(* The loading overlay: it covers a session once.                          *)
(***************************************************************************)
SessionKey(l) == IF l.inventory = "shown" THEN Selected(l) ELSE l.resource

DetailReady(l) == l.detail = ActiveStage(l) /\ ~l.detailLoading
TransitionActive(l) ==
    \/ l.inventory = "loading"
    \/ /\ ActiveStage(l) # 0 /\ ~l.detailError
       /\ ~DetailReady(l) \/ l.viewerOf # ActiveStage(l) \/ ~l.viewerSettled

\* ProjectLoadingOverlay's first effect; `done' says that this session has
\* been completed, `hide' that the timer to hide it is armed.
Overlay(o, session, active) ==
    LET c == IF session = o.session THEN o
             ELSE [o EXCEPT !.session = session, !.done = FALSE, !.hide = FALSE]
    IN  IF active /\ c.done THEN o
        ELSE IF active THEN [c EXCEPT !.visible = TRUE, !.hide = FALSE]
        ELSE IF ~c.visible \/ c.done THEN c
        ELSE [c EXCEPT !.done = TRUE, !.hide = TRUE]

Covered(l) == [l EXCEPT !.overlay = Overlay(@, SessionKey(l), TransitionActive(l))]

(***************************************************************************)
(* The page.                                                               *)
(***************************************************************************)
Outdated(as) == {[a EXCEPT !.current = FALSE] : a \in as}

\* loadDetail: without a resource to show, nothing happens.
LoadDetail(l, as, cacheFirst) ==
    IF ActiveStage(l) = 0 THEN look' = Covered(l) /\ asks' = as
    ELSE /\ look' = Covered([l EXCEPT !.detail = 0, !.detailLoading = TRUE, !.detailError = FALSE])
         /\ asks' = Outdated(as) \union
                    {[of |-> ActiveStage(l), cacheOnly |-> cacheFirst, current |-> TRUE]}

\* A render: the URL is corrected, and the detail is loaded when the resource
\* shown is another object, as it is after every load of the inventory.
Render(l, reloaded) ==
    LET r == Redirect(l)
    IN  IF reloaded \/ ActiveStage(r) # ActiveStage(look)
        THEN LoadDetail(r, asks, TRUE)
        ELSE look' = Covered(r) /\ asks' = asks

Init ==
    /\ asks = {}
    /\ \E r \in 0..Depth, d \in DraftSources \union {0} :
         look = [resource |-> r, view |-> 0, draft |-> d, known |-> {}, inventory |-> "loading",
                 detail |-> 0, ended |-> FALSE, detailLoading |-> FALSE, detailError |-> FALSE,
                 viewerOf |-> 0, viewerSettled |-> FALSE, turns |-> 0,
                 overlay |-> [visible |-> TRUE, session |-> r, done |-> FALSE, hide |-> FALSE]]

TypeOK ==
    /\ look.resource \in 0..Depth /\ look.view \in 0..Depth /\ look.known \subseteq Resources
    /\ look.inventory \in {"loading", "shown", "failed"}
    /\ look.detail \in 0..Depth /\ look.viewerOf \in 0..Depth
    /\ asks \subseteq [of : Resources, cacheOnly : BOOLEAN, current : BOOLEAN]

\* Resources end; those that ended well become available.
InventoryArrives ==
    \/ \E known \in SUBSET Resources :
         /\ look.known \subseteq known /\ (known = look.known => look.inventory # "shown")
         /\ Render([look EXCEPT !.inventory = "shown", !.known = known], TRUE)
    \/ look.inventory = "loading" /\ Render([look EXCEPT !.inventory = "failed"], FALSE)

\* hydrateResourceDetail: first the snapshot of the server.  That of a resource
\* that ended, with what the page needs, is enough; otherwise the live one.
SnapshotArrives(a) ==
    /\ a.cacheOnly
    /\ \E hit, ended, whole \in BOOLEAN :
         LET shown == IF hit /\ a.current
                      THEN [look EXCEPT !.detail = a.of, !.ended = ended] ELSE look
             rest == asks \ {a}
         IN  IF hit /\ ended /\ whole
             THEN /\ look' = Covered(IF a.current THEN [shown EXCEPT !.detailLoading = FALSE] ELSE shown)
                  /\ asks' = rest
             ELSE /\ look' = Covered(shown)
                  /\ asks' = rest \union {[a EXCEPT !.cacheOnly = FALSE]}

\* loadDetail's end; a failure tells only if there was no snapshot to show.
DetailArrives(a) ==
    /\ ~a.cacheOnly
    /\ asks' = asks \ {a}
    /\ \E ok, ended \in BOOLEAN :
         look' = IF ~a.current THEN look
                 ELSE Covered([look EXCEPT !.detailLoading = FALSE,
                                           !.detail = IF ok THEN a.of ELSE @,
                                           !.ended = IF ok THEN ended ELSE @,
                                           !.detailError = ~ok /\ look.detail = 0])

\* Every ten seconds while the resource has not ended, and the panel's Retry
RefreshDetail == /\ ActiveStage(look) # 0
                 /\ \/ look.detail # 0 /\ ~look.ended
                    \/ ~look.detailLoading /\ look.detailError
                 /\ LoadDetail(look, asks, FALSE)

\* handleViewerLoadStateChange
ViewerReports == /\ ActiveStage(look) # 0
                 /\ \E settled \in BOOLEAN :
                      look' = Covered([look EXCEPT !.viewerOf = ActiveStage(look),
                                                   !.viewerSettled = settled])
                 /\ UNCHANGED asks

(* The overlay's timers. *)
OverlayTimesOut ==
    /\ TransitionActive(look) /\ ~look.overlay.done
    /\ look' = [look EXCEPT !.overlay.done = TRUE, !.overlay.hide = TRUE]
    /\ UNCHANGED asks
OverlayHides ==
    /\ look.overlay.hide
    /\ look' = [look EXCEPT !.overlay.visible = FALSE, !.overlay.hide = FALSE]
    /\ UNCHANGED asks

(* Navigation. *)
Turn(l) == /\ look.turns < MaxTurns
           /\ Render([l EXCEPT !.turns = @ + 1], FALSE)

selectResource == look.inventory = "shown" /\ \E r \in Resources :
                     Turn([look EXCEPT !.resource = r, !.view = 0])
selectCapability == \E s \in Available(look) :
                      /\ look.inventory = "shown"
                      /\ Turn([look EXCEPT !.resource = Selected(look), !.view = s])
openDraftContext == \E d \in DraftSources :
                      /\ look.inventory = "shown"
                      /\ Turn([look EXCEPT !.resource = 1, !.view = 0, !.draft = d])
\* the history, a plan that opens the resource it is about
OpenURL == \E r, v \in 0..Depth, d \in DraftSources \union {0} :
             Turn([look EXCEPT !.resource = r, !.view = v, !.draft = d])

Next == \/ InventoryArrives \/ RefreshDetail \/ ViewerReports \/ OverlayTimesOut \/ OverlayHides
        \/ \E a \in asks : SnapshotArrives(a) \/ DetailArrives(a)
        \/ selectResource \/ selectCapability \/ openDraftContext \/ OpenURL

lookVars == <<look, asks>>
Spec == Init /\ [][Next]_lookVars

(***************************************************************************)
(* Properties.                                                             *)
(***************************************************************************)
\* The detail on screen is that of the resource on screen, although requests
\* overlap when resources are selected, refreshed or reloaded meanwhile.
DetailIsOfResource ==
    look.detail # 0 /\ ActiveStage(look) # 0 => look.detail = ActiveStage(look)

\* The detail is loading only while the latest request for one is under way,
\* and a page that covers itself has a timer or a transition that uncovers it.
LoadingIsBacked ==
    /\ look.detailLoading => \E a \in asks : a.current
    /\ look.overlay.visible =>
         look.overlay.hide \/ (TransitionActive(look) /\ ~look.overlay.done)

\* Redirects do not chase each other: a corrected URL needs no correction.
RedirectsSettle == look.inventory = "shown" => Redirect(look) = look

\* A session that was uncovered is not covered again by a refresh.
OverlayOnce ==
    look.overlay.done /\ ~look.overlay.visible /\ look'.overlay.session = look.overlay.session
        => ~look'.overlay.visible
=============================================================================
