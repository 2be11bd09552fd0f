---------------------------- MODULE SurfaceReview ----------------------------
(***************************************************************************)
(* SurfaceMeshWorkspace: the boundaries of a surface mesh, those selected  *)
(* and shown, the quality field with what the viewer reports of it, the    *)
(* stored range filter, the comparison with another mesh, and the plan     *)
(* asked of the assistant for a bad region.                                *)
(*                                                                         *)
(* The viewer's reports on a field come in the step that shows it.         *)
(***************************************************************************)
EXTENDS Naturals, Sequences, FiniteSets, SequencesExt

CONSTANTS
    Meshes,          \* surface meshes of the project
    Manifests,       \* manifests of a mesh or of its geometry: sequences of faces
    PathOf,          \* the faces above each face
    BoundaryModels,  \* sequence of the models: [label, keys]
    QualityFields,   \* quality fields the viewer can find
    MaxRules,        \* most rules of a filter that is read back
    MaxSurfaceSteps, \* bound on the user's steps of a behaviour
    NoFace           \* "none": no face, field or mesh

MeshFaces == UNION {ToSet(m) : m \in Manifests}
SurfaceReviewAssumption ==
    /\ NoFace \notin Meshes \union MeshFaces \union QualityFields
    /\ \A f \in MeshFaces : PathOf[f] \subseteq MeshFaces
    /\ MaxRules \in Nat /\ MaxSurfaceSteps \in Nat

VARIABLES
    surface, \* the workspace of the mesh that is open
    filters, \* local storage: filter of each mesh
    beside   \* the comparison

FieldMax == 2
NoFilter == [on |-> FALSE, rules |-> <<>>]
NoSelection == [id |-> NoFace, ids |-> <<>>]

(***************************************************************************)
(* The models of a face: several different ones are a conflict.            *)
(***************************************************************************)
Matched(model, groups) == IF "*" \in model.keys THEN ToSet(groups)
                          ELSE {f \in ToSet(groups) : f \in model.keys}
AssignmentsOf(groups, f) ==
    FoldLeft(LAMBDA had, model : IF f \in Matched(model, groups) /\ model.label \notin ToSet(had)
                                 THEN Append(had, model.label) ELSE had, <<>>, BoundaryModels)
StatusOf(groups, f) == LET n == Len(AssignmentsOf(groups, f))
                       IN  CASE n = 0 -> "unassigned" [] n = 1 -> "assigned" [] OTHER -> "conflict"

(***************************************************************************)
(* reduceSurfaceMeshReviewState                                            *)
(***************************************************************************)
WithField(s, f) == [s EXCEPT !.field = f, !.probe = NoFace]
Reset(s, groups) ==
    LET ids == SelectSeq(s.selection.ids, LAMBDA f : f \in ToSet(groups))
        id == CASE s.selection.id \in ToSet(groups) -> s.selection.id
              [] ids # <<>> -> Last(ids)
              [] OTHER -> NoFace
    IN  [WithField(s, NoFace) EXCEPT !.groups = groups, !.selection = [id |-> id, ids |-> ids],
                                     !.hidden = {}, !.fields = {}]
WithSelection(s, ids) ==
    [s EXCEPT !.selection = IF ids = <<>> THEN NoSelection ELSE [id |-> Last(ids), ids |-> ids]]
WithFields(s, found) ==
    [WithField(s, IF s.field \in found THEN s.field ELSE NoFace) EXCEPT !.fields = found]
Located(s, f) == [s EXCEPT !.probe = f, !.selection = [id |-> f, ids |-> <<>>]]

Selected(s) == CASE s.selection.ids # <<>> -> s.selection.ids
               [] s.selection.id # NoFace -> <<s.selection.id>>
               [] OTHER -> <<>>
\* nextSurfaceSelection, and nextViewerSelection of the viewer
NextSurfaceSelection(s, f, additive) ==
    IF ~additive THEN <<f>>
    ELSE IF f \in ToSet(Selected(s)) THEN Remove(Selected(s), f) ELSE Append(Selected(s), f)
\* isolatedManifestVisibility
Isolated(s, chosen) ==
    {f \in ToSet(s.groups) : /\ f \notin chosen
                             /\ \A c \in chosen : f \notin PathOf[c] /\ c \notin PathOf[f]}

(***************************************************************************)
(* The comparison asks again when the mesh chosen or the field changes;    *)
(* what was asked before is then dropped.                                  *)
(***************************************************************************)
Compared(c, field) ==
    IF c.with = NoFace \/ c.with \notin c.versions THEN [c EXCEPT !.asked = FALSE]
    ELSE [c EXCEPT !.asked = TRUE, !.loading = TRUE, !.askedField = field]
Effects(s, c) == beside' = IF s.field # surface.field THEN Compared(c, s.field) ELSE c
Becomes(s) == surface' = s /\ Effects(s, beside) /\ UNCHANGED filters

Opened(m, steps) ==
    [mesh |-> m, groups |-> <<>>, mode |-> "boundaries", selection |-> NoSelection, hidden |-> {},
     fields |-> {}, field |-> NoFace, probe |-> NoFace, opacity |-> {}, filter |-> filters[m],
     loadsLeft |-> 2, busy |-> FALSE, steps |-> steps]
NothingBeside(m) == [with |-> NoFace, versions |-> Meshes \ {m}, loading |-> FALSE, asked |-> FALSE,
                     askedField |-> NoFace, shown |-> NoFace, shownField |-> NoFace]
Init == /\ filters = [m \in Meshes |-> NoFilter]
        /\ \E m \in Meshes : surface = Opened(m, 0) /\ beside = NothingBeside(m)

Rules == [field : QualityFields, lo : 0..FieldMax, hi : 0..FieldMax]
TypeOK ==
    /\ surface.mesh \in Meshes /\ surface.groups \in Manifests \union {<<>>}
    /\ surface.mode \in {"boundaries", "quality"}
    /\ surface.hidden \subseteq MeshFaces /\ surface.opacity \subseteq MeshFaces
    /\ surface.fields \subseteq QualityFields
    /\ \A m \in Meshes : \A r \in ToSet(filters[m].rules) : r \in Rules /\ r.lo <= r.hi
    /\ {beside.with, beside.shown} \subseteq Meshes \union {NoFace}

Step == surface.steps < MaxSurfaceSteps
Stepped == [surface EXCEPT !.steps = @ + 1]

\* useResourcePreview: once for the mesh, and again when its geometry is known.
ManifestArrives == /\ surface.loadsLeft > 0
                   /\ \E m \in Manifests : Becomes([Reset(surface, m) EXCEPT !.loadsLeft = @ - 1])
FieldsFound == /\ surface.groups # <<>> /\ surface.fields = {}
               /\ Becomes(WithFields(surface, QualityFields))

\* SurfaceBoundaryInspector and the viewer
ChooseRow == /\ Step
             /\ \E f \in ToSet(surface.groups), additive \in BOOLEAN :
                  Becomes(WithSelection(Stepped, NextSurfaceSelection(surface, f, additive)))
ChooseMany ==
    /\ Step
    /\ \E ids \in {surface.groups, <<>>} : Becomes(WithSelection(Stepped, ids))
ShowRows ==
    /\ Step
    /\ \/ \E f \in ToSet(surface.groups) :
            Becomes([Stepped EXCEPT !.hidden = IF f \in @ THEN @ \ {f} ELSE @ \union {f}])
       \/ \E h \in {{}, ToSet(surface.groups)} : Becomes([Stepped EXCEPT !.hidden = h])
SelectionCard ==
    /\ Step /\ Selected(surface) # <<>>
    /\ LET chosen == ToSet(Selected(surface))
       IN  \/ Becomes([WithSelection(Stepped, Selected(surface)) EXCEPT
                         !.hidden = Isolated(surface, chosen)])
           \/ Becomes([Stepped EXCEPT !.hidden =
                         IF chosen \intersect @ = {} THEN @ \union chosen ELSE @ \ chosen])
           \/ Becomes(WithSelection(Stepped, <<>>))
\* updateSurfaceOpacity: of what is selected, or of every boundary
SetOpacity ==
    /\ Step /\ surface.groups # <<>>
    /\ LET targets == IF Selected(surface) = <<>> THEN ToSet(surface.groups) ELSE ToSet(Selected(surface))
       IN  \E o \in {surface.opacity \union targets, surface.opacity \ targets} :
             Becomes([Stepped EXCEPT !.opacity = o])

(***************************************************************************)
(* The quality view                                                        *)
(***************************************************************************)
ToggleQuality ==
    /\ Step /\ surface.fields # {}
    /\ Becomes(IF surface.mode = "quality" THEN [Stepped EXCEPT !.mode = "boundaries", !.probe = NoFace]
               ELSE [Stepped EXCEPT !.mode = "quality"])
InQuality == Step /\ surface.mode = "quality"
ChooseField == InQuality /\ \E f \in surface.fields \union {NoFace} : Becomes(WithField(Stepped, f))
Probe == /\ InQuality /\ surface.field # NoFace
         /\ \E f \in ToSet(surface.groups) \union {NoFace} : Becomes([Stepped EXCEPT !.probe = f])
LocateExtreme == /\ InQuality /\ surface.field # NoFace
                 /\ \E f \in ToSet(surface.groups) : Becomes(Located(Stepped, f))

(***************************************************************************)
(* useSurfaceQualityFilter: each change is stored for the mesh.  What was  *)
(* stored is read when the mesh is opened; too many rules are none.        *)
(***************************************************************************)
Replaced(filter) == /\ surface' = [Stepped EXCEPT !.filter = filter]
                    /\ filters' = [filters EXCEPT ![surface.mesh] = filter]
                    /\ UNCHANGED beside
Lesser(x, y) == IF x < y THEN x ELSE y
Greater(x, y) == IF x < y THEN y ELSE x
\* updateRule: another field with its range, or a limit that does not pass the other
Updated(r, part, v) ==
    CASE part = "min" -> [r EXCEPT !.lo = Lesser(v, r.hi)]
    [] part = "max" -> [r EXCEPT !.hi = Greater(v, r.lo)]
WithOtherField(r, f) == IF f = r.field THEN r ELSE [field |-> f, lo |-> 0, hi |-> FieldMax]
EditRules ==
    /\ InQuality
    /\ LET filter == surface.filter
           rules == filter.rules
       IN  \/ /\ surface.fields # {} /\ Len(rules) < MaxRules
              /\ \E f \in surface.fields :
                   Replaced([filter EXCEPT !.rules = Append(@, [field |-> f, lo |-> 0, hi |-> FieldMax])])
           \/ \E i \in 1..Len(rules) :
                \/ Replaced([on |-> filter.on /\ Len(rules) > 1, rules |-> RemoveAt(rules, i)])
                \/ \E part \in {"min", "max"}, v \in 0..FieldMax :
                     Replaced([filter EXCEPT !.rules[i] = Updated(rules[i], part, v)])
                \/ \E f \in surface.fields :
                     Replaced([filter EXCEPT !.rules[i] = WithOtherField(rules[i], f)])
           \/ rules # <<>> /\ \E f \in {[filter EXCEPT !.on = ~@], NoFilter} : Replaced(f)
\* The workspace is keyed by its mesh: another mesh starts anew.
ReadBack(filter) == IF Len(filter.rules) > MaxRules THEN NoFilter ELSE filter
OpenMesh ==
    /\ Step
    /\ \E m \in Meshes \ {surface.mesh} :
         /\ surface' = [Opened(m, surface.steps + 1) EXCEPT !.filter = ReadBack(filters[m])]
         /\ beside' = NothingBeside(m)
    /\ UNCHANGED filters

(***************************************************************************)
(* useSurfaceMeshAdvancedReview                                            *)
(***************************************************************************)
Beside(c) == beside' = c /\ UNCHANGED filters
CompareWith ==
    /\ Step /\ surface' = Stepped
    /\ \E m \in (beside.versions \union {NoFace}) \ {beside.with} :
         Beside(Compared([beside EXCEPT !.with = m, !.shown = NoFace], surface.field))
ComparisonArrives ==
    /\ beside.asked /\ UNCHANGED surface
    /\ \/ Beside([beside EXCEPT !.asked = FALSE, !.loading = FALSE, !.shown = beside.with,
                                !.shownField = beside.askedField])
       \/ Beside([beside EXCEPT !.asked = FALSE, !.loading = FALSE, !.shown = NoFace])
\* The project's meshes are read again, and one is gone or is there again.
VersionsChange ==
    /\ Step /\ surface' = Stepped
    /\ \E m \in Meshes \ {surface.mesh} :
         LET vs == IF m \in beside.versions THEN beside.versions \ {m} ELSE beside.versions \union {m}
         IN  Beside(Compared([beside EXCEPT !.versions = vs], surface.field))
\* Create AI review plan, for the field and the probe that are there
Remediate ==
    /\ surface.field # NoFace /\ surface.probe # NoFace /\ ~surface.busy /\ Step
    /\ Becomes([Stepped EXCEPT !.busy = TRUE])
Remediated == surface.busy /\ Becomes([surface EXCEPT !.busy = FALSE])

Next == \/ ManifestArrives \/ FieldsFound
        \/ ChooseRow \/ ChooseMany \/ ShowRows \/ SelectionCard \/ SetOpacity
        \/ ToggleQuality \/ ChooseField \/ Probe \/ LocateExtreme \/ EditRules \/ OpenMesh
        \/ CompareWith \/ ComparisonArrives \/ VersionsChange \/ Remediate \/ Remediated

vars == <<surface, filters, beside>>
Spec == Init /\ [][Next]_vars

(***************************************************************************)
(* Properties                                                              *)
(***************************************************************************)
\* What is selected, probed and coloured belongs to the manifest that is shown.
SelectionExists ==
    /\ ToSet(Selected(surface)) \subseteq ToSet(surface.groups)
    /\ IsInjective(Selected(surface))
    /\ surface.selection.ids # <<>> => surface.selection.id \in ToSet(surface.selection.ids)
    /\ surface.probe # NoFace => surface.field # NoFace /\ surface.probe \in ToSet(surface.groups)
    /\ surface.field # NoFace => surface.field \in surface.fields
\* A comparison that is not being read is of the mesh chosen and the field shown.
ComparisonIsOfChoice ==
    beside.shown # NoFace /\ ~beside.loading /\ beside.with \in beside.versions =>
        beside.shown = beside.with /\ beside.shownField = surface.field
\* The filter of a mesh is the one its user left, on every return to the mesh.
FilterComesBack == surface.filter = filters[surface.mesh]
\* Boundaries are in conflict when models of different name or type name them.
ConflictsAreFound ==
    \A f \in ToSet(surface.groups) :
        LET labels == {BoundaryModels[i].label : i \in {j \in 1..Len(BoundaryModels) :
                                                          f \in Matched(BoundaryModels[j], surface.groups)}}
        IN  (StatusOf(surface.groups, f) = "conflict") <=> (Cardinality(labels) > 1)
==============================================================================
