---------------------------- MODULE VolumeReview ----------------------------
(***************************************************************************)
(* VolumeMeshWorkspace: the zones of a volume mesh with the flat and       *)
(* crinkled variants of its slices, the fields of the quality and the      *)
(* boundary-layer view, the quality thresholds with the findings they give,*)
(* and what the meshing parameters say of boundary layers and refinements. *)
(*                                                                         *)
(* A bounding box is an interval [lo, hi]: boxes compare axis by axis.     *)
(***************************************************************************)
EXTENDS Integers, Sequences, FiniteSets, SequencesExt

CONSTANTS
    VolumeManifests, \* [source, groups]: the mesh, or its geometry in its place
    SliceOf,         \* group -> [family, variant]; family NoGroup: no slice
    HintsOf,         \* group -> sequence of its names: those above it, then its own
    ZoneWords,       \* name -> zone type it tells, "unknown" for none
    ProvidedZones,   \* name -> type, from the resource's own regions
    VolumeFields,    \* field -> [worst, quality, layer, baseline]
    MeshingRules,    \* sequence of refinements of the parameters
    Domain,          \* bounding box of the asset
    MaxVolumeSteps,  \* bound on the user's steps of a behaviour
    NoGroup          \* "none": no group, family or field

GroupsOf(m) == ToSet(m.groups)
VolumeReviewAssumption ==
    /\ \A m \in VolumeManifests, g \in UNION {GroupsOf(x) : x \in VolumeManifests} :
         g # NoGroup /\ SliceOf[g].variant \in {"flat", "crinkled"}
    /\ MaxVolumeSteps \in Nat

VARIABLES
    volume,    \* the workspace
    thresholds \* threshold overrides of the mesh, kept in local storage

(***************************************************************************)
(* Slices: a family is shown in one variant, and in the other when it has  *)
(* none of the variant asked for.                                          *)
(***************************************************************************)
Families(groups) == {SliceOf[g].family : g \in ToSet(groups)} \ {NoGroup}
OfFamily(groups, fam) == SelectSeq(groups, LAMBDA g : SliceOf[g].family = fam)
OfVariant(groups, fam, v) == SelectSeq(OfFamily(groups, fam), LAMBDA g : SliceOf[g].variant = v)
Has(groups, v) == \E fam \in Families(groups) : OfVariant(groups, fam, v) # <<>>
ShownOf(groups, fam, v) == IF OfVariant(groups, fam, v) # <<>> THEN OfVariant(groups, fam, v)
                           ELSE OfFamily(groups, fam)
WithVariant(hidden, groups, v) ==
    {g \in ToSet(groups) : IF SliceOf[g].family = NoGroup THEN g \in hidden
                           ELSE g \notin ToSet(ShownOf(groups, SliceOf[g].family, v))}

\* buildVolumeZoneInventory: the type provided for a name, or told by it
FirstType(types) == LET told == SelectSeq(types, LAMBDA z : z # "unknown")
                    IN  IF told = <<>> THEN "unknown" ELSE Head(told)
ZoneTypeOf(source, g) ==
    LET provided == FirstType([i \in DOMAIN HintsOf[g] |-> ProvidedZones[HintsOf[g][i]]])
        told == FirstType([i \in DOMAIN HintsOf[g] |-> ZoneWords[HintsOf[g][i]]])
    IN  CASE source = "fallback" -> "unknown" [] provided # "unknown" -> provided [] OTHER -> told

(***************************************************************************)
(* Thresholds and findings                                                 *)
(***************************************************************************)
QualityOf(found) == {f \in found : VolumeFields[f].quality}
LayersOf(found) == {f \in found : VolumeFields[f].layer}
Ordered(down, t) == IF down THEN t.critical <= t.warning ELSE t.critical >= t.warning
Crosses(down, value, limit) == IF down THEN value <= limit ELSE value >= limit
\* buildVolumeQualityThresholds: an override out of order is none
ThresholdOf(f) == LET b == VolumeFields[f].baseline
                  IN  IF f \in DOMAIN thresholds /\ Ordered(b.down, thresholds[f])
                      THEN [down |-> b.down, warning |-> thresholds[f].warning,
                            critical |-> thresholds[f].critical]
                      ELSE b
Judged(found) == {f \in QualityOf(found) : VolumeFields[f].baseline # NoGroup}
SeverityOf(f) == LET t == ThresholdOf(f)
                     worst == VolumeFields[f].worst
                 IN  CASE Crosses(t.down, worst, t.critical) -> "critical"
                     [] Crosses(t.down, worst, t.warning) -> "warning"
                     [] OTHER -> "pass"
\* updateThreshold: the limit that was not typed gives way
Typed(t, part, v) ==
    LET other == IF part = "warning" THEN t.critical ELSE t.warning
        worse == (part = "warning") = ~t.down   \* the other must not be below
        moved == IF worse THEN (IF other < v THEN v ELSE other) ELSE (IF other > v THEN v ELSE other)
    IN  IF part = "warning" THEN [warning |-> v, critical |-> moved]
        ELSE [warning |-> moved, critical |-> v]

(***************************************************************************)
(* What the parameters say                                                 *)
(***************************************************************************)
IsLayerRule(r) == r.kind \in {"boundary-layer", "passive-spacing"}
                  \/ (r.kind = "none" /\ r.thickness /\ r.targets # <<>>)
IsRefinement(r) == r.kind \notin {"boundary-layer", "passive-spacing"}
                   /\ (r.kind # "none" \/ r.spacing)
\* A target is a group by its id, else by a name, else those a pattern fits.
MatchesOf(groups, target) ==
    LET named == SelectSeq(groups, LAMBDA g : target \in ToSet(HintsOf[g]))
    IN  CASE target \in ToSet(groups) -> <<target>>
        [] target = "*" -> groups
        [] named # <<>> -> <<Head(named)>>
        [] OTHER -> <<>>
LayerTargets(groups) ==
    UNION {{[rule |-> i, target |-> t, groups |-> MatchesOf(groups, t)] :
              t \in ToSet(MeshingRules[i].targets)} : i \in {j \in DOMAIN MeshingRules : IsLayerRule(MeshingRules[j])}}
Refinements == {i \in DOMAIN MeshingRules : IsRefinement(MeshingRules[i])}
RegionsOf == UNION {{<<i, k>> : k \in DOMAIN MeshingRules[i].regions} : i \in Refinements}
BoxOf(r) == MeshingRules[r[1]].regions[r[2]]
Disjoint(x, y) == x.hi < y.lo \/ y.hi < x.lo
Within(outer, x) == x.lo >= outer.lo /\ x.hi <= outer.hi
\* buildDiagnostics; without a rendered asset there is no domain
Diagnostics(groups) ==
    {[kind |-> "empty", rules |-> {i}] : i \in {j \in Refinements :
        MeshingRules[j].targets = <<>> /\ MeshingRules[j].regions = <<>>}} \union
    {[kind |-> "unresolved", rules |-> {i}] : i \in {j \in Refinements :
        \E t \in ToSet(MeshingRules[j].targets) : t = "*" \/ MatchesOf(groups, t) = <<>>}} \union
    (IF groups = <<>> THEN {} ELSE
        {[kind |-> IF Disjoint(BoxOf(r), Domain) THEN "outside" ELSE "partial", rules |-> {r[1]}] :
            r \in {x \in RegionsOf : ~Within(Domain, BoxOf(x))}}) \union
    {[kind |-> "overlap", rules |-> {p[1][1], p[2][1]}] : p \in {q \in RegionsOf \X RegionsOf :
        /\ q[1][1] < q[2][1] \/ (q[1][1] = q[2][1] /\ q[1][2] < q[2][2])
        /\ ~Disjoint(BoxOf(q[1]), BoxOf(q[2]))}}

LayersIntended == \E i \in DOMAIN MeshingRules : IsLayerRule(MeshingRules[i])
\* volumeMeshCapabilities
Capability(v, part) ==
    CASE part = "asset" -> CASE v.source = "primary" -> "available" [] v.source = "fallback" -> "proxy"
                           [] OTHER -> "unavailable"
    [] part = "zones" -> CASE v.groups = <<>> -> "unavailable" [] v.source = "primary" -> "available"
                         [] OTHER -> "proxy"
    [] part = "quality" -> IF QualityOf(v.found) # {} THEN "available" ELSE "unavailable"
    [] part = "layers" ->
         LET evidence == LayersOf(v.found) # {}
         IN  CASE LayersIntended /\ evidence -> "available" [] LayersIntended \/ evidence -> "proxy"
             [] OTHER -> "unavailable"
    [] part = "refinements" -> CASE RegionsOf # {} -> "available" [] Refinements # {} -> "proxy"
                               [] OTHER -> "unavailable"
    [] part = "slices" -> CASE Families(v.groups) # {} -> "available" [] v.source = "primary" -> "proxy"
                          [] OTHER -> "unavailable"

\* The checks of the readiness, d being what the resource tells of the mesh.
computeVolumeReadiness(v, d) ==
    LET Told(there, otherwise) == IF there THEN "ready" ELSE otherwise
        Graded(part) == CASE Capability(v, part) = "available" -> "ready" [] Capability(v, part) = "proxy" -> "warning"
                        [] OTHER -> "missing"
    IN  [lifecycle |-> CASE d.status = "completed" -> "ready" [] d.status = "failed" -> "blocked" [] OTHER -> "warning",
         asset |-> Graded("asset"), zones |-> Graded("zones"), quality |-> Graded("quality"),
         cells |-> Told(d.cells, "missing"), parameters |-> Told(d.parameters, "missing"),
         layers |-> IF LayersIntended THEN "ready" ELSE Graded("layers"), reads |-> Told(d.errors = {}, "warning")]

(***************************************************************************)
(* reduceVolumeMeshReviewState                                             *)
(***************************************************************************)
NothingSelected == [id |-> NoGroup, ids |-> <<>>]
WithField(v, f) == [v EXCEPT !.field = f, !.probe = NoGroup]
Reset(v, m) ==
    LET kept == SelectSeq(v.selection.ids, LAMBDA g : g \in ToSet(m.groups))
        id == CASE v.selection.id \in ToSet(m.groups) -> v.selection.id
              [] kept # <<>> -> Head(kept)
              [] OTHER -> NoGroup
        variant == IF ~Has(m.groups, "flat") /\ Has(m.groups, "crinkled") THEN "crinkled" ELSE "flat"
    IN  [WithField(v, NoGroup) EXCEPT
           !.groups = m.groups, !.source = m.source, !.found = {}, !.variant = variant,
           !.selection = [id |-> id, ids |-> IF Len(kept) > 1 THEN kept ELSE <<>>],
           !.hidden = WithVariant({}, m.groups, variant)]
FieldsOfMode(v, mode) == CASE mode = "quality" -> QualityOf(v.found)
                         [] mode = "boundary-layer" -> LayersOf(v.found)
                         [] OTHER -> {}
InMode(v, mode) == IF v.field \in FieldsOfMode(v, mode) THEN [v EXCEPT !.mode = mode]
                   ELSE [WithField(v, NoGroup) EXCEPT !.mode = mode]
WithSelection(v, ids) ==
    [v EXCEPT !.selection = IF ids = <<>> THEN NothingSelected ELSE [id |-> Last(ids), ids |-> ids]]
Selected(v) == CASE v.selection.ids # <<>> -> v.selection.ids
               [] v.selection.id # NoGroup -> <<v.selection.id>>
               [] OTHER -> <<>>
\* Each family selected is replaced, once, by its groups of the variant.
Replaced(ids, groups, variant) ==
    FoldLeft(LAMBDA had, g :
               IF SliceOf[g].family = NoGroup THEN Append(had, g)
               ELSE LET shown == ShownOf(groups, SliceOf[g].family, variant)
                    IN  IF ToSet(shown) \subseteq ToSet(had) THEN had ELSE had \o shown,
             <<>>, ids)
Sliced(v, variant) ==
    LET ids == Replaced(Selected(v), v.groups, variant)
    IN  [v EXCEPT !.variant = variant, !.hidden = WithVariant(@, v.groups, variant),
                  !.selection = IF ids = <<>> THEN NothingSelected ELSE [id |-> Head(ids), ids |-> ids]]

Becomes(v) == volume' = v /\ UNCHANGED thresholds
Init ==
    /\ thresholds = <<>>
    /\ volume = [groups |-> <<>>, source |-> "none", found |-> {}, mode |-> "overview",
                 selection |-> NothingSelected, hidden |-> {}, variant |-> "flat", field |-> NoGroup,
                 probe |-> NoGroup, highlighted |-> NoGroup, region |-> <<>>, loadsLeft |-> 2, steps |-> 0]

TypeOK ==
    /\ volume.source \in {"none", "primary", "fallback"} /\ volume.variant \in {"flat", "crinkled"}
    /\ volume.mode \in {"overview", "quality", "boundary-layer", "refinements"}
    /\ volume.found \subseteq DOMAIN VolumeFields /\ volume.hidden \subseteq ToSet(volume.groups)
    /\ DOMAIN thresholds \subseteq DOMAIN VolumeFields
    /\ volume.region \in RegionsOf \union {<<>>}

Step == volume.steps < MaxVolumeSteps
Stepped == [volume EXCEPT !.steps = @ + 1]

\* useResourcePreview: the mesh, and again when its geometry is known
ManifestArrives == /\ volume.loadsLeft > 0
                   /\ \E m \in VolumeManifests : Becomes([Reset(volume, m) EXCEPT !.loadsLeft = @ - 1])
WithFields(v, found) ==
    LET f == IF v.field \in QualityOf(found) \union LayersOf(found) THEN v.field ELSE NoGroup
    IN  [WithField(v, f) EXCEPT !.found = found]
FieldsFound == /\ volume.source = "primary" /\ volume.found = {}
               /\ Becomes(WithFields(volume, DOMAIN VolumeFields))

\* VolumeZoneInspector: a zone that is chosen here is shown in the overview.
ChooseZone ==
    /\ Step
    /\ \E g \in ToSet(volume.groups), additive \in BOOLEAN :
         LET had == Selected(volume)
             ids == IF ~additive THEN <<g>> ELSE IF g \in ToSet(had) THEN Remove(had, g) ELSE Append(had, g)
         IN  \/ Becomes(InMode(WithSelection(Stepped, ids), "overview"))
             \/ Becomes(WithSelection(Stepped, ids))  \* in the viewer
ChooseMany == Step /\ \E ids \in {volume.groups, <<>>} : Becomes(WithSelection(Stepped, ids))
ShowZones ==
    /\ Step
    /\ \E fam \in {{g} : g \in ToSet(volume.groups)} \union {ToSet(volume.groups)} :
         \/ Becomes([Stepped EXCEPT !.hidden = @ \ fam])
         \/ Becomes([Stepped EXCEPT !.hidden = @ \union fam])
\* VolumeZoneSelectionCard: isolate, show or hide, show all, clear
SelectionCard ==
    /\ Step /\ Selected(volume) # <<>>
    /\ LET chosen == ToSet(Selected(volume))
       IN  \/ Becomes([WithSelection(Stepped, Selected(volume)) EXCEPT !.hidden =
                         {g \in ToSet(volume.groups) :
                            /\ g \notin chosen
                            /\ \A c \in chosen : g \notin ToSet(HintsOf[c]) /\ c \notin ToSet(HintsOf[g])}])
           \/ Becomes([Stepped EXCEPT !.hidden = IF chosen \subseteq @ THEN @ \ chosen ELSE @ \union chosen])
           \/ Becomes([Stepped EXCEPT !.hidden = WithVariant({}, volume.groups, volume.variant)])
           \/ Becomes(InMode(WithSelection(Stepped, <<>>), "overview"))
\* VolumeSliceVariantControl: a variant that a family selected has
ChooseVariant == /\ Step /\ volume.mode = "quality"
                 /\ \E v \in {"flat", "crinkled"}, g \in ToSet(Selected(volume)) :
                      /\ SliceOf[g].family # NoGroup
                      /\ OfVariant(volume.groups, SliceOf[g].family, v) # <<>>
                      /\ Becomes(Sliced(Stepped, v))

\* The views offered for what is selected
OpenView ==
    /\ Step /\ Selected(volume) # <<>>
    /\ \/ QualityOf(volume.found) # {}
          /\ Becomes(InMode(Stepped, IF volume.mode = "quality" THEN "overview" ELSE "quality"))
       \/ /\ \E t \in LayerTargets(volume.groups) : ToSet(t.groups) \intersect ToSet(Selected(volume)) # {}
          /\ Becomes(InMode(Stepped, "boundary-layer"))
       \/ /\ \E i \in Refinements : \E t \in ToSet(MeshingRules[i].targets) :
               t # "*" /\ ToSet(MatchesOf(volume.groups, t)) \intersect ToSet(Selected(volume)) # {}
          /\ Becomes(InMode(Stepped, "refinements"))
ChooseField == /\ Step
               /\ \E f \in FieldsOfMode(volume, volume.mode) : Becomes(WithField(Stepped, f))
Probe == /\ Step /\ volume.field # NoGroup
         /\ \E g \in ToSet(IF Selected(volume) = <<>> THEN volume.groups ELSE Selected(volume)) :
              Becomes([Stepped EXCEPT !.probe = g])
\* The worst point of the field; it becomes what is selected.
LocateExtreme == /\ Step /\ volume.field # NoGroup
                 /\ \E g \in ToSet(volume.groups) :
                      Becomes([WithSelection(Stepped, <<g>>) EXCEPT !.probe = g])
\* BoundaryLayerInspector and VolumeRefinementInspector
ChooseTarget ==
    /\ Step
    /\ \/ /\ volume.mode = "boundary-layer"
          /\ \E t \in LayerTargets(volume.groups) : \E g \in ToSet(t.groups) :
               Becomes([Stepped EXCEPT !.selection = [id |-> g, ids |-> <<>>]])
       \/ /\ volume.mode = "refinements"
          /\ \E r \in RegionsOf : Becomes([Stepped EXCEPT !.region = r])

\* VolumeQualityAssessmentPanel
TypeThreshold ==
    /\ Step /\ volume.mode = "quality" /\ volume.field \in Judged(volume.found)
    /\ volume' = Stepped
    /\ LET f == volume.field
       IN  \E part \in {"warning", "critical"}, v \in 1..3 :
             thresholds' = [g \in DOMAIN thresholds \union {f} |->
                              IF g = f THEN Typed(ThresholdOf(f), part, v) ELSE thresholds[g]]
ResetThresholds ==
    /\ Step /\ volume.mode = "quality" /\ volume' = Stepped
    /\ \E cleared \in {{volume.field}, DOMAIN thresholds} :
         /\ cleared \intersect DOMAIN thresholds # {}
         /\ thresholds' = [g \in DOMAIN thresholds \ cleared |-> thresholds[g]]
\* Highlight risk range: the field of a finding, and a filter from its limit
ReviewFinding ==
    /\ Step /\ volume.mode = "quality"
    /\ \E f \in Judged(volume.found) :
         /\ SeverityOf(f) # "pass"
         /\ Becomes([WithField(Stepped, f) EXCEPT !.highlighted = f])

Next == \/ ManifestArrives \/ FieldsFound \/ ChooseZone \/ ChooseMany \/ ShowZones \/ SelectionCard
        \/ ChooseVariant \/ OpenView \/ ChooseField \/ Probe \/ LocateExtreme \/ ChooseTarget
        \/ TypeThreshold \/ ResetThresholds \/ ReviewFinding

vars == <<volume, thresholds>>
Spec == Init /\ [][Next]_vars

(***************************************************************************)
(* Properties                                                              *)
(***************************************************************************)
\* The field shown is one of the view that shows it, and the probe is of it.
FieldFitsView ==
    /\ volume.field # NoGroup => volume.field \in FieldsOfMode(volume, volume.mode)
    /\ volume.probe # NoGroup => volume.field # NoGroup /\ volume.probe \in ToSet(volume.groups)
SelectionExists == /\ ToSet(Selected(volume)) \subseteq ToSet(volume.groups)
                   /\ IsInjective(Selected(volume))
\* However the limits are typed, a critical value is a warning too.
ThresholdsOrdered ==
    \A f \in Judged(volume.found) :
        /\ f \in DOMAIN thresholds => Ordered(VolumeFields[f].baseline.down, thresholds[f])
        /\ SeverityOf(f) = "critical" =>
             Crosses(ThresholdOf(f).down, VolumeFields[f].worst, ThresholdOf(f).warning)
\* The parent geometry, shown for context, is no evidence of the mesh: whatever
\* the resource tells, no check of the mesh itself is ready.
Details == [status : {"completed", "failed", "running"}, cells : BOOLEAN, parameters : BOOLEAN, errors : {{}, {"results"}}]
ContextIsNoEvidence ==
    volume.source # "primary" =>
        /\ \A d \in Details, part \in {"asset", "zones", "quality"} : computeVolumeReadiness(volume, d)[part] # "ready"
        /\ \A part \in {"asset", "zones", "quality"} : Capability(volume, part) # "available"
        /\ \A g \in ToSet(volume.groups) : ZoneTypeOf(volume.source, g) = "unknown"
\* A refinement without a finding names groups and boxes the mesh has.
SoundRefinementsFit ==
    \A i \in Refinements : (\A d \in Diagnostics(volume.groups) : i \notin d.rules) =>
        /\ MeshingRules[i].targets # <<>> \/ MeshingRules[i].regions # <<>>
        /\ \A t \in ToSet(MeshingRules[i].targets) : MatchesOf(volume.groups, t) # <<>>
        /\ volume.groups # <<>> => \A k \in DOMAIN MeshingRules[i].regions : Within(Domain, MeshingRules[i].regions[k])
\* A slice changes its variant in the selection and in the view at once.
SelectedVariantIsShown ==
    volume'.variant # volume.variant /\ volume'.loadsLeft = volume.loadsLeft =>
        \A g \in ToSet(Selected(volume')) : SliceOf[g].family # NoGroup => g \notin volume'.hidden
==============================================================================
