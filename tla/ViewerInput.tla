----------------------------- MODULE ViewerInput -----------------------------
(***************************************************************************)
(* The pointer, the wheel and the keys over a 3D viewer.  One press is     *)
(* either the navigation cube's, or a drag that turns the camera, or a     *)
(* finger or second button that OrbitControls takes; a press released      *)
(* near its start is a click, offered to the tool, to the field probe and  *)
(* to the selection in this order.  The camera also moves by the wheel's   *)
(* frames and by animations, and tells its pose to its owner.  A pick of a *)
(* tool snaps to the best of the candidates near the pointer.              *)
(* External: the browser's order of pointer events and OrbitControls.      *)
(***************************************************************************)
EXTENDS Integers, Sequences, FiniteSets, SequencesExt, TLC

CONSTANTS
    Parts,          \* the parts of the asset
    SceneAt,        \* by part: what is near the pointer when it is over it
    Policies,       \* the tools' snap policies: [named, kinds]
    CubeFaces,      \* the targets of the navigation cube that are tried
    Tolerance,      \* how near a candidate must be, in pixels
    MaxTopology,    \* how many topology items a pick inspects
    MaxTriangles,   \* how large a mesh may be to infer its features
    MaxInputSteps,  \* bound on the user's gestures of a behaviour, moves aside
    NoPart          \* the pointer is over nothing

Inferred == {"convex", "concave", "sharp"}
SnapKinds == {"surface", "mesh-vertex", "cad-edge", "cad-vertex"} \cup Inferred

ViewerInputAssumption ==
    /\ NoPart \notin Parts /\ CubeFaces \cap Parts = {} /\ NoPart \notin CubeFaces
    /\ DOMAIN SceneAt = Parts
    /\ \A p \in Parts : DOMAIN SceneAt[p] = {"topology", "corners", "triangles"}
    /\ \A y \in Policies : y.named \in BOOLEAN /\ y.kinds \subseteq SnapKinds
    /\ {Tolerance, MaxTopology, MaxTriangles, MaxInputSteps} \subseteq Nat

VARIABLES
    camera, \* what moves it, whether its owner was told, what OrbitControls may do
    press,  \* the button held and what it was pressed on
    snap,   \* the candidates offered last, the active one, whether Alt is held
    picks   \* the tool, the probe, the selection, what is hovered and hidden

inputVars == <<camera, press, snap, picks>>

(***************************************************************************)
(* The navigation cube                                                     *)
(***************************************************************************)
Dot(u, v) == u[1] * v[1] + u[2] * v[2] + u[3] * v[3]
\* The directions of its 6 faces, 12 edges and 8 corners, not yet of length one.
NAV_CUBE_TARGETS == ((-1..1) \X (-1..1) \X (-1..1)) \ {<<0, 0, 0>>}
CubeAxes == << <<1, 0, 0>>, <<-1, 0, 0>>, <<0, 1, 0>>, <<0, -1, 0>>, <<0, 0, 1>>, <<0, 0, -1>> >>
\* An axis without its share along the direction, |direction|^2 times as long.
Projected(axis, dir) == [i \in 1..3 |-> Dot(dir, dir) * axis[i] - Dot(axis, dir) * dir[i]]
\* u points where v points.
SameWay(u, v) == /\ Dot(u, v) > 0 /\ Dot(u, v) * Dot(u, v) = Dot(u, u) * Dot(v, v)
upCandidates(dir) ==
    LET Added(found, axis) ==
            LET up == Projected(axis, dir)
            IN  IF Dot(up, up) = 0 \/ (\E k \in DOMAIN found : SameWay(found[k], up)) THEN found ELSE Append(found, up)
    IN  FoldLeft(Added, <<>>, CubeAxes)
\* u, made of length one, reaches higher than v, made of length one.
Higher(u, v) ==
    LET Signed(w) == IF w[3] < 0 THEN -(w[3] * w[3]) ELSE w[3] * w[3]
    IN  Signed(u) * Dot(v, v) > Signed(v) * Dot(u, u)
\* The upward directions the camera may get: the highest, the nearest to the
\* present one among equals; which that is depends on where the camera comes from.
chooseNavCubeUp(dir) ==
    LET ups == upCandidates(dir) IN {ups[k] : k \in {i \in DOMAIN ups : \A j \in DOMAIN ups : ~Higher(ups[j], ups[i])}}

(***************************************************************************)
(* Snapping                                                                *)
(***************************************************************************)
KindPriority(kind) ==
    CASE kind = "cad-vertex" -> 0 [] kind = "mesh-vertex" -> 1 [] kind = "cad-edge" -> 2
      [] kind \in Inferred -> 3 [] OTHER -> 100

OfCAD == [vertex |-> "cad-vertex", edge |-> "cad-edge"]
\* The topology items the pick inspects, those that are seen and near.
cadSnapCandidates(scene, hidden) ==
    LET OfType(ty) == SelectSeq(scene.topology, LAMBDA item : item.type = ty)
        all == OfType("vertex") \o OfType("edge") \o OfType("feature")
        visited == SubSeq(all, 1, IF Len(all) < MaxTopology THEN Len(all) ELSE MaxTopology)
        near == SelectSeq(visited, LAMBDA item : item.seen /\ item.id \notin hidden /\ item.away <= Tolerance)
    IN  [i \in DOMAIN near |->
            [kind |-> IF near[i].type = "feature" THEN near[i].class ELSE OfCAD[near[i].type], id |-> near[i].id,
             away |-> near[i].away, source |-> "cad",
             sure |-> CASE near[i].type = "vertex" -> 100 [] near[i].type = "edge" -> 98 [] OTHER -> near[i].sure]]
\* The corners of the triangle that is hit.
meshVertexCandidates(scene) ==
    LET near == SelectSeq(scene.corners, LAMBDA c : c.away <= Tolerance)
    IN  [i \in DOMAIN near |-> [kind |-> "mesh-vertex", id |-> near[i].id, away |-> near[i].away,
                                source |-> "mesh", sure |-> 75]]
\* Corners whose neighbourhood makes them a feature, if the mesh is small enough.
meshFeatureCandidates(scene) ==
    LET near == SelectSeq(scene.corners, LAMBDA c : c.away <= Tolerance /\ c.class \in Inferred)
    IN  IF scene.triangles > MaxTriangles THEN <<>>
        ELSE [i \in DOMAIN near |-> [kind |-> near[i].class, id |-> near[i].id, away |-> near[i].away,
                                     source |-> "mesh", sure |-> 60]]
surfaceCandidate == [kind |-> "surface", id |-> NoPart, away |-> 0, source |-> "surface", sure |-> 100]

policyAllows(policy, kind) == ~policy.named \/ kind \in policy.kinds
policyAllowsFeatures(policy) == policy.named /\ policy.kinds \cap Inferred # {}

rankSnapCandidates(found) ==
    LET Before(i, j) ==
            LET l == found[i]
                r == found[j]
                ranks == << KindPriority(l.kind) - KindPriority(r.kind), l.away - r.away, r.sure - l.sure,
                            IF l.source = r.source THEN 0 ELSE IF l.source = "cad" THEN -1 ELSE 1, i - j >>
                tells == {k \in DOMAIN ranks : ranks[k] # 0}
            IN  ranks[CHOOSE k \in tells : \A other \in tells : k <= other] < 0
        order == SortSeq([i \in 1..Len(found) |-> i], Before)
    IN  [i \in DOMAIN order |-> found[order[i]]]
\* Everything a pick over the part may snap to, the best first.
resolve(part, policy, alt, hidden) ==
    LET scene == SceneAt[part]
        cad == cadSnapCandidates(scene, hidden)
        meshes == IF policyAllowsFeatures(policy) /\ ~\E k \in DOMAIN cad : cad[k].kind \in Inferred
                  THEN meshFeatureCandidates(scene) ELSE <<>>
    IN  IF alt THEN <<surfaceCandidate>>
        ELSE rankSnapCandidates(SelectSeq(cad \o meshVertexCandidates(scene) \o meshes \o <<surfaceCandidate>>,
                                          LAMBDA c : policyAllows(policy, c.kind)))

candidateKey(c) == <<c.kind, c.id>>
NoSnap == [offered |-> <<>>, active |-> 1, bypassed |-> FALSE]
\* The active candidate stays active while it is offered.
replaceSnapCandidates(s, offered) ==
    LET kept == {i \in DOMAIN offered : s.active \in DOMAIN s.offered /\ candidateKey(offered[i]) = candidateKey(s.offered[s.active])}
    IN  [s EXCEPT !.offered = offered, !.active = IF kept = {} THEN 1 ELSE CHOOSE i \in kept : \A j \in kept : i <= j]
cycleSnapCandidate(s, direction) ==
    [s EXCEPT !.active = ((s.active - 1 + direction + Len(s.offered)) % Len(s.offered)) + 1]
\* What the pick snaps to: a sequence of no or one candidate.
selectedSnapCandidate(s) ==
    LET shown == IF s.bypassed THEN SelectSeq(s.offered, LAMBDA c : c.kind = "surface")
                 ELSE SubSeq(s.offered, s.active, s.active)
    IN  SubSeq(shown, 1, 1)

(***************************************************************************)
(* The camera                                                              *)
(***************************************************************************)
\* The camera moved: its owner is told after a while.
Moved(c) == [c EXCEPT !.untold = TRUE, !.timer = TRUE]
Told(c) == [c EXCEPT !.untold = FALSE, !.timer = FALSE]
Navigate(c) == [c EXCEPT !.navigating = TRUE]
\* As Rest, the end of the navigation not told.
RestUntold(c) == c
\* Navigation ends: the owner is told at once.
Rest(c) == IF c.navigating THEN Told([c EXCEPT !.navigating = FALSE]) ELSE c
\* An animation replaces the one that runs.
Animate(c) == Navigate([c EXCEPT !.turning = TRUE])

NoPress == [held |-> "none", cube |-> NoPart, drag |-> "none", owed |-> FALSE, down |-> FALSE, armed |-> FALSE]
\* cancelViewerInteraction: nothing is pressed any more; the button may still be held.
Dropped(p) == [NoPress EXCEPT !.held = p.held]
Freed(c) == Rest([c EXCEPT !.enabled = TRUE])

EmitCameraState == /\ camera.timer /\ camera' = Told(camera) /\ UNCHANGED <<press, snap, picks>>

\* The owner sets the pose: nothing is left to tell it.
ApplyCameraState ==
    /\ picks.steps > 0
    /\ camera' = Told(camera) /\ picks' = [picks EXCEPT !.steps = @ - 1] /\ UNCHANGED <<press, snap>>

\* A command of a button or, unless a tool takes points, of a key.
ApplyCameraCommand ==
    /\ picks.steps > 0 /\ picks.tool # "capturing"
    /\ camera' = Moved(camera) /\ picks' = [picks EXCEPT !.steps = @ - 1] /\ UNCHANGED <<press, snap>>

AnimationFrame(last) ==
    /\ camera.turning
    /\ camera' = IF last THEN Rest([Moved(camera) EXCEPT !.turning = FALSE]) ELSE Moved(camera)
    /\ UNCHANGED <<press, snap, picks>>

Wheel ==
    /\ picks.steps > 0 /\ camera.enabled
    /\ camera' = [camera EXCEPT !.wheel = TRUE, !.rolling = TRUE, !.navigating = @ \/ ~camera.wheel]
    /\ picks' = [picks EXCEPT !.steps = @ - 1] /\ UNCHANGED <<press, snap>>
\* A frame takes a part of what was rolled, or drops it when its anchor is gone.
flushWheelZoom(more) ==
    /\ camera.rolling /\ (more => camera.wheel)
    /\ camera' = IF camera.wheel THEN Moved([camera EXCEPT !.rolling = more]) ELSE [camera EXCEPT !.rolling = FALSE]
    /\ UNCHANGED <<press, snap, picks>>
WheelEnds ==
    /\ camera.wheel
    /\ camera' = Rest([camera EXCEPT !.wheel = FALSE]) /\ UNCHANGED <<press, snap, picks>>

flushNavigationMove ==
    /\ press.drag # "none" /\ press.owed
    /\ press' = [press EXCEPT !.owed = FALSE] /\ camera' = Moved(camera) /\ UNCHANGED <<snap, picks>>

(***************************************************************************)
(* Picks                                                                   *)
(***************************************************************************)
toolInteractionActive == picks.tool # "off"
\* What resolving a pick leaves of the snap: nothing without a tool or over nothing.
resolvePointerPick(place, alt) ==
    IF place = NoPart \/ ~toolInteractionActive THEN NoSnap
    ELSE [replaceSnapCandidates(snap, resolve(place, picks.policy, alt, picks.hidden)) EXCEPT !.bypassed = alt]

\* The parts that can be hit.
Hit == {NoPart} \cup (Parts \ picks.hidden)

nextViewerSelection(chosen, part, additive) ==
    LET current == IF chosen.ids # <<>> THEN chosen.ids ELSE IF chosen.head # NoPart THEN <<chosen.head>> ELSE <<>>
        ids == IF ~additive THEN <<part>>
               ELSE IF part \in ToSet(current) THEN SelectSeq(current, LAMBDA id : id # part) ELSE Append(current, part)
    IN  [head |-> IF ids = <<>> THEN NoPart ELSE Last(ids), ids |-> ids]

\* ViewerInputController.onPointerUp: a click goes to the tool that took points
\* when the button went down, else to the probe, else to the selection.  A tool
\* that was at work gets a point even where nothing is hit.
Clicked(p, place, additive) ==
    IF p.armed /\ (place # NoPart \/ toolInteractionActive) THEN [picks EXCEPT !.taken = "tool"]
    ELSE IF picks.probe /\ picks.field /\ place # NoPart THEN [picks EXCEPT !.taken = "probe"]
    ELSE IF place # NoPart
         THEN [picks EXCEPT !.taken = "selection", !.chosen = nextViewerSelection(picks.chosen, place, additive), !.hovered = place]
    ELSE [picks EXCEPT !.taken = "selection", !.hovered = NoPart]

(***************************************************************************)
(* Pointer events                                                          *)
(***************************************************************************)
handlePointerDown(place, held) ==
    /\ press.held = "none" /\ press.drag = "none" /\ picks.steps > 0
    /\ IF place \in CubeFaces
       THEN /\ press' = [press EXCEPT !.held = held, !.cube = place]
            /\ camera' = [camera EXCEPT !.enabled = FALSE]
       ELSE /\ press' = IF held = "second" THEN [press EXCEPT !.held = held, !.cube = NoPart]
                        ELSE [NoPress EXCEPT !.held = held, !.down = TRUE, !.armed = picks.tool = "capturing",
                                             !.drag = IF held = "finger" THEN "none" ELSE "still"]
            /\ camera' = IF held = "first" \/ ~camera.enabled THEN camera
                         ELSE Navigate([camera EXCEPT !.orbit = TRUE])
    /\ picks' = [picks EXCEPT !.steps = @ - 1, !.taken = "none"] /\ UNCHANGED snap

handlePointerMove(place, far) ==
    \/ /\ place \in CubeFaces \/ press.cube # NoPart
       /\ press' = [press EXCEPT !.down = FALSE, !.armed = FALSE]
       /\ picks' = [picks EXCEPT !.hovered = NoPart] /\ UNCHANGED <<camera, snap>>
    \/ /\ place \notin CubeFaces /\ press.cube = NoPart /\ press.drag # "none" /\ press.held = "first"
       /\ far \/ press.drag = "moved"
       /\ press' = [press EXCEPT !.drag = "moved", !.owed = TRUE]
       /\ camera' = IF press.drag = "still" THEN Navigate(camera) ELSE camera
       /\ UNCHANGED <<snap, picks>>
    \/ /\ place \notin CubeFaces /\ press.cube = NoPart /\ press.drag = "none" /\ press.held = "finger"
       /\ camera.orbit /\ far
       /\ camera' = Moved(camera) /\ UNCHANGED <<press, snap, picks>>

\* The frame after a move with no button held.
HoverFrame(place, alt) ==
    /\ press.held = "none" /\ press.cube = NoPart /\ press.drag = "none" /\ place \in Hit
    /\ snap' = resolvePointerPick(place, alt)
    /\ picks' = [picks EXCEPT !.hovered = place] /\ UNCHANGED <<camera, press>>

handlePointerUp(place, far, alt, additive) ==
    /\ press.held # "none"
    /\ LET orbited == IF press.held # "first" /\ camera.orbit THEN Rest([camera EXCEPT !.orbit = FALSE]) ELSE camera
           clicks == press.down /\ ~far
       IN  IF place \in CubeFaces \/ press.cube # NoPart
           THEN \* the cube takes it: a drag waits for the capture's loss
                /\ press' = [press EXCEPT !.held = "none", !.cube = NoPart]
                /\ camera' = IF place = press.cube THEN Animate([orbited EXCEPT !.enabled = TRUE])
                             ELSE [orbited EXCEPT !.enabled = TRUE]
                /\ UNCHANGED <<snap, picks>>
           ELSE /\ place \in Hit
                /\ press' = NoPress
                /\ camera' = LET flushed == IF press.drag # "none" /\ press.owed THEN Moved(orbited) ELSE orbited
                             IN  IF press.drag = "moved" THEN Rest(flushed) ELSE flushed
                /\ snap' = IF clicks THEN resolvePointerPick(place, alt) ELSE snap
                /\ picks' = IF clicks THEN Clicked(press, place, additive) ELSE picks

\* The cube's press is not captured: it may end where the viewer does not see it.
ReleasedOutside ==
    /\ press.held # "none" /\ press.cube # NoPart
    /\ press' = [press EXCEPT !.held = "none"] /\ UNCHANGED <<camera, snap, picks>>

\* The browser takes the capture back once the button is up.
onLostPointerCapture ==
    /\ press.held = "none" /\ press.drag # "none"
    /\ press' = Dropped(press) /\ camera' = Freed(camera) /\ UNCHANGED <<snap, picks>>

\* The window loses the focus, or the browser cancels the pointer.
cancelViewerInteraction ==
    /\ picks.steps > 0
    /\ press' = Dropped(press) /\ camera' = Freed(camera)
    /\ picks' = [picks EXCEPT !.steps = @ - 1] /\ UNCHANGED snap

handlePointerLeave ==
    /\ press.held = "none" \/ press.cube # NoPart
    /\ press' = [press EXCEPT !.down = FALSE, !.armed = FALSE]
    /\ picks' = [picks EXCEPT !.hovered = NoPart] /\ UNCHANGED <<camera, snap>>

handleDoubleClick ==
    /\ picks.steps > 0 /\ press.held = "none" /\ picks.tool # "capturing"
    /\ camera' = Animate(camera) /\ picks' = [picks EXCEPT !.steps = @ - 1] /\ UNCHANGED <<press, snap>>

(***************************************************************************)
(* Keys and buttons                                                        *)
(***************************************************************************)
Escape ==
    /\ picks.steps > 0
    /\ press' = Dropped(press) /\ camera' = Freed([camera EXCEPT !.turning = FALSE])
    /\ picks' = [picks EXCEPT !.steps = @ - 1, !.probe = FALSE] /\ UNCHANGED snap

Tab(direction) ==
    /\ picks.steps > 0 /\ picks.tool = "capturing" /\ Len(snap.offered) > 1
    /\ snap' = cycleSnapCandidate(snap, direction)
    /\ picks' = [picks EXCEPT !.steps = @ - 1] /\ UNCHANGED <<camera, press>>

toggleProbeTool ==
    /\ picks.steps > 0 /\ picks.field
    /\ picks' = [picks EXCEPT !.steps = @ - 1, !.probe = ~@] /\ UNCHANGED <<camera, press, snap>>

selectField(chosen) ==
    /\ picks.steps > 0 /\ picks.field # chosen
    /\ picks' = [picks EXCEPT !.steps = @ - 1, !.field = chosen, !.probe = @ /\ chosen] /\ UNCHANGED <<camera, press, snap>>

\* Hiding or showing a part centres the camera on what is left, if there is any.
toggleGroupVisibility(part) ==
    /\ picks.steps > 0 /\ press.held = "none"
    /\ LET hidden == IF part \in picks.hidden THEN picks.hidden \ {part} ELSE picks.hidden \cup {part}
       IN  /\ picks' = [picks EXCEPT !.steps = @ - 1, !.hidden = hidden]
           /\ camera' = IF hidden = Parts THEN camera ELSE Animate(camera)
    /\ UNCHANGED <<press, snap>>

\* The legend selects one part.
SelectInLegend(part) ==
    /\ picks.steps > 0 /\ press.held = "none"
    /\ picks' = [picks EXCEPT !.steps = @ - 1, !.chosen = [head |-> part, ids |-> <<>>]] /\ UNCHANGED <<camera, press, snap>>

\* The owner of the viewer gives it another tool, or the tool has all its points.
ToolChanges(tool, policy) ==
    /\ picks.steps > 0 /\ tool # picks.tool /\ (tool = "done" => picks.tool = "capturing" /\ policy = picks.policy)
    /\ picks' = [picks EXCEPT !.steps = @ - 1, !.tool = tool, !.policy = policy] /\ UNCHANGED <<camera, press, snap>>

Init ==
    /\ camera = [navigating |-> FALSE, turning |-> FALSE, wheel |-> FALSE, rolling |-> FALSE, orbit |-> FALSE,
                 enabled |-> TRUE, untold |-> FALSE, timer |-> FALSE]
    /\ press = NoPress /\ snap = NoSnap
    /\ \E y \in Policies, t \in {"off", "capturing"} :
         picks = [tool |-> t, policy |-> y, probe |-> FALSE, field |-> TRUE, taken |-> "none", hovered |-> NoPart,
                  hidden |-> {}, chosen |-> [head |-> NoPart, ids |-> <<>>], steps |-> MaxInputSteps]

Places == Hit \cup CubeFaces
Next ==
    \/ \E place \in Places, held \in {"first", "second", "finger"} : handlePointerDown(place, held)
    \/ \E place \in Places, far \in BOOLEAN : handlePointerMove(place, far)
    \/ \E place \in Places, alt \in BOOLEAN : HoverFrame(place, alt)
    \/ \E place \in Places, far, alt, additive \in BOOLEAN : handlePointerUp(place, far, alt, additive)
    \/ ReleasedOutside \/ onLostPointerCapture \/ cancelViewerInteraction \/ handlePointerLeave
    \/ handleDoubleClick \/ Escape \/ (\E d \in {-1, 1} : Tab(d)) \/ toggleProbeTool
    \/ \E chosen \in BOOLEAN : selectField(chosen)
    \/ \E p \in Parts : toggleGroupVisibility(p) \/ SelectInLegend(p)
    \/ \E t \in {"off", "capturing", "done"}, y \in Policies : ToolChanges(t, y)
    \/ EmitCameraState \/ ApplyCameraState \/ ApplyCameraCommand \/ Wheel \/ WheelEnds \/ flushNavigationMove
    \/ \E more \in BOOLEAN : flushWheelZoom(more) \/ AnimationFrame(more)

Spec == Init /\ [][Next]_inputVars

(***************************************************************************)
(* Properties                                                              *)
(***************************************************************************)
\* The state is well formed.
TypeOK ==
    /\ \A k \in DOMAIN camera : camera[k] \in BOOLEAN
    /\ press.held \in {"none", "first", "second", "finger"} /\ press.drag \in {"none", "still", "moved"}
    /\ press.cube \in CubeFaces \cup {NoPart} /\ {press.owed, press.down, press.armed} \subseteq BOOLEAN
    /\ snap.active \in 1..(Len(snap.offered) + 1) /\ snap.bypassed \in BOOLEAN
    /\ picks.tool \in {"off", "capturing", "done"} /\ picks.policy \in Policies
    /\ picks.hidden \subseteq Parts /\ {picks.chosen.head, picks.hovered} \subseteq Parts \cup {NoPart}

\* The viewer draws coarsely, and keeps its owner from following, only while
\* something moves the camera: every end of a drag, wheel, animation or
\* interruption leaves it at rest (setCameraNavigationActive).
NavigatingIsBacked ==
    camera.navigating => press.drag = "moved" \/ camera.wheel \/ camera.turning \/ camera.orbit

\* Whoever follows the camera hears of every move: a pose it was not told is
\* told by a timer that runs (scheduleCameraState), whatever drags, frames and
\* ends of navigation come between.
MovesAreTold == camera.untold => camera.timer

\* One press has one holder: while the cube is pressed, even when its release was
\* never seen, nothing turns the camera by dragging, and OrbitControls is kept
\* from the pointer (handlePointerDown, handlePointerUp, cancelViewerInteraction).
OneHolder == press.cube # NoPart => press.drag = "none" /\ ~camera.enabled

\* What a tool's pick snaps to is among the candidates shown, is what the
\* tool's policy allows, and is the surface itself while Alt is held
\* (DefaultSnapResolver, snap/state.ts); nothing is selected twice.
SnapIsOffered ==
    /\ snap.offered # <<>> => snap.active \in DOMAIN snap.offered
    /\ snap.bypassed => \A k \in DOMAIN selectedSnapCandidate(snap) : selectedSnapCandidate(snap)[k].kind = "surface"
    /\ IsInjective(snap.offered)
    /\ IsInjective(picks.chosen.ids) /\ (picks.chosen.ids # <<>> => Last(picks.chosen.ids) = picks.chosen.head)

\* The candidate chosen with Tab stays the active one while the pointer moves
\* over places that offer it (replaceSnapCandidates).
ChoiceIsKept ==
    snap' # snap /\ picks.tool = "capturing" /\ ~snap'.bypassed /\ snap.active \in DOMAIN snap.offered
       /\ picks'.steps = picks.steps
       /\ (\E k \in DOMAIN snap'.offered : snap'.offered[k] = snap.offered[snap.active])
       => snap'.offered[snap'.active] = snap.offered[snap.active]

\* Over every part, with every policy: what is offered is near, is not of a
\* hidden entity and is ordered by kind; inferred features appear only without
\* features of the CAD model, which are surer.  The cube's targets are 26, each
\* with an upward direction that is upright, unique except straight from above
\* and below, and perpendicular to the view.
SnapsAreSound ==
    /\ \A p \in Parts, y \in Policies, hidden \in SUBSET {SceneAt[q].topology[1].id : q \in {r \in Parts : SceneAt[r].topology # <<>>}} :
         LET offered == resolve(p, y, FALSE, hidden)
         IN  /\ \A k \in DOMAIN offered : offered[k].away <= Tolerance /\ offered[k].id \notin hidden
             /\ \A k, l \in DOMAIN offered : k < l => KindPriority(offered[k].kind) <= KindPriority(offered[l].kind)
             /\ (\E k \in DOMAIN offered : offered[k].kind \in Inferred /\ offered[k].source = "mesh")
                  => ~\E k \in DOMAIN offered : offered[k].kind \in Inferred /\ offered[k].source = "cad"
    /\ Cardinality(NAV_CUBE_TARGETS) = 26
    /\ \A dir \in NAV_CUBE_TARGETS : \A up \in chooseNavCubeUp(dir) :
         /\ Dot(up, dir) = 0 /\ up[3] >= 0
         /\ (dir[1] # 0 \/ dir[2] # 0) => chooseNavCubeUp(dir) = {up}
=============================================================================
