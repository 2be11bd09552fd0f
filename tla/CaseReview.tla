----------------------------- MODULE CaseReview -----------------------------
(***************************************************************************)
(* CaseWorkspace: the visualization objects of a Case, those that are      *)
(* selected here and in the viewer, the result field that colours them,    *)
(* and the layers loaded from prepared archives.                           *)
(*                                                                         *)
(* An object has one entity, named like it; one of an archive has none     *)
(* until its layer is there.  Effects run in the step that calls for them. *)
(***************************************************************************)
EXTENDS Naturals, Sequences, FiniteSets, SequencesExt

CONSTANTS
    Objects,       \* visualization objects of the Case
    ArchiveObjects,\* those whose layer comes from an archive
    FieldsOfObject,\* the fields of each
    Frames,        \* playable frames of the archive
    MaxCaseSteps,  \* bound on the user's steps of a behaviour
    NoObject       \* "none": no object, no field

CaseReviewAssumption ==
    /\ ArchiveObjects \subseteq Objects /\ NoObject \notin Objects /\ MaxCaseSteps \in Nat
    /\ Frames \subseteq Nat \ {0}
    /\ \A o \in Objects : NoObject \notin FieldsOfObject[o]

VARIABLES
    scene, \* the workspace
    loads  \* requests under way

(***************************************************************************)
(* Selection and fields.                                                   *)
(***************************************************************************)
Renderable(s) == (Objects \ ArchiveObjects) \union {o \in ArchiveObjects : s.layer[o] # 0}
EntitiesOf(s, selected) == SelectSeq(selected, LAMBDA o : o \in Renderable(s))

\* nextCaseVisualizationSelection
NextSelection(selected, o, additive) ==
    IF ~additive THEN <<o>>
    ELSE IF o \in ToSet(selected) THEN Remove(selected, o) ELSE Append(selected, o)

\* caseCommonFieldNames: fields that the viewer has found in all objects selected
CommonFields(s) ==
    IF s.selected = <<>> THEN {}
    ELSE LET Found(o) == IF o \in Renderable(s) /\ o \in s.found THEN FieldsOfObject[o] ELSE {}
         IN  {f \in Found(s.selected[1]) : \A o \in ToSet(s.selected) : f \in Found(o)}
\* caseFieldForSelection
FieldForSelection(s) == IF s.field \in CommonFields(s) THEN s.field ELSE NoObject

\* The effects: the viewer follows the selection, another selection is shown
\* without a field, and the field is one that all that is selected have.
Followed(s) == IF s.ready /\ s.selected # <<>>
               THEN [s EXCEPT !.picked = EntitiesOf(s, s.selected)] ELSE s
Unfielded(s) == [s EXCEPT !.coloured = FALSE, !.field = NoObject]
Settled(s) ==
    LET t == IF ToSet(s.selected) # ToSet(scene.selected) \/ s.selected = <<>>
             THEN Unfielded(Followed(s)) ELSE Followed(s)
    IN  [t EXCEPT !.field = FieldForSelection(t)]
Becomes(s) == scene' = Settled(s)

Init ==
    /\ loads = {}
    /\ scene = [ready |-> FALSE, found |-> {}, selected |-> <<>>, picked |-> <<>>,
                visible |-> Objects, coloured |-> FALSE, field |-> NoObject,
                layer |-> [o \in ArchiveObjects |-> 0], asked |-> [o \in ArchiveObjects |-> 0],
                loading |-> NoObject, player |-> NoObject, steps |-> 0]

TypeOK ==
    /\ scene.found \subseteq Objects /\ scene.visible \subseteq Objects
    /\ IsInjective(scene.selected) /\ ToSet(scene.selected) \subseteq Objects
    /\ ToSet(scene.picked) \subseteq Objects
    /\ scene.field \in {NoObject} \union UNION {FieldsOfObject[o] : o \in Objects}
    /\ scene.layer \in [ArchiveObjects -> Frames \union {0}]
    /\ {scene.loading, scene.player} \subseteq ArchiveObjects \union {NoObject}
    /\ \A l \in loads : l.of \in ArchiveObjects

Step == scene.steps < MaxCaseSteps
Stepped == [scene EXCEPT !.steps = @ + 1]

\* useResourcePreview brings the manifest, and the viewer reports its entities.
ViewerReady == ~scene.ready /\ Becomes([scene EXCEPT !.ready = TRUE]) /\ UNCHANGED loads
EntitiesDiscovered ==
    /\ scene.ready /\ scene.found # Renderable(scene)
    /\ Becomes([scene EXCEPT !.found = Renderable(scene)]) /\ UNCHANGED loads

\* selectVisualizationMember
Select == /\ Step /\ UNCHANGED loads
          /\ \E o \in Renderable(scene), additive \in BOOLEAN :
               LET selected == NextSelection(scene.selected, o, additive)
               IN  Becomes([Stepped EXCEPT !.selected = selected,
                                           !.picked = EntitiesOf(scene, selected)])
\* handleViewerSelection: a click in the viewer, on an entity or on nothing
Pick == /\ Step /\ scene.ready /\ UNCHANGED loads
        /\ \E picked \in {<<>>} \union {<<o>> : o \in Renderable(scene)} :
             Becomes([Stepped EXCEPT !.picked = picked, !.selected = picked])
Clear == /\ Step /\ scene.selected # <<>> /\ UNCHANGED loads
         /\ Becomes([Stepped EXCEPT !.selected = <<>>, !.picked = <<>>])

\* The selection card; isolation shows nothing but what is selected.
ShowField == /\ Step /\ scene.selected # <<>> /\ UNCHANGED loads
             /\ \/ Becomes([Stepped EXCEPT !.coloured = TRUE])
                \/ scene.coloured /\ Becomes(Unfielded(Stepped))
ChooseField == /\ Step /\ scene.coloured /\ UNCHANGED loads
               /\ \E f \in CommonFields(scene) : Becomes([Stepped EXCEPT !.field = f])
SetVisibility ==
    /\ Step /\ UNCHANGED loads
    /\ LET chosen == ToSet(scene.selected) \intersect Renderable(scene)
           shown == chosen \intersect scene.visible # {}
       IN  \/ /\ chosen # {}
              /\ \E v \in {chosen, Objects, IF shown THEN scene.visible \ chosen
                                            ELSE scene.visible \union chosen} :
                   Becomes([Stepped EXCEPT !.visible = v])
           \/ \E o \in Renderable(scene) :
                Becomes([Stepped EXCEPT !.visible = IF o \in @ THEN @ \ {o} ELSE @ \union {o}])

(***************************************************************************)
(* Layers of archives.  The latest request of an object for a layer counts.*)
(***************************************************************************)
Install(s, o) == [s EXCEPT !.asked[o] = @ + 1]
InstallCall(s, o, frame) == [kind |-> "layer", of |-> o, frame |-> frame, id |-> s.asked[o] + 1]

\* activateArchiveMember: the latest preparation is asked for.
Activate ==
    /\ Step
    /\ \E o \in ArchiveObjects :
         IF scene.layer[o] # 0
         THEN /\ Becomes([Stepped EXCEPT !.selected = <<o>>, !.picked = <<o>>])
              /\ UNCHANGED loads
         ELSE /\ Becomes([Stepped EXCEPT !.selected = <<o>>, !.loading = o])
              /\ loads' = loads \union {[kind |-> "job", of |-> o]}
\* Without a prepared frame, the player opens to prepare the archive.
JobArrives(l) ==
    /\ l.kind = "job"
    /\ \/ /\ Becomes([scene EXCEPT !.loading = NoObject, !.player = l.of])
          /\ loads' = loads \ {l}
       \/ /\ Becomes(Install(scene, l.of))
          /\ loads' = (loads \ {l}) \union
                        {[InstallCall(scene, l.of, 1) EXCEPT !.kind = "first"]}
LayerArrives(l) ==
    /\ l.kind \in {"layer", "first"} /\ loads' = loads \ {l}
    /\ LET s == IF l.kind = "first" THEN [scene EXCEPT !.loading = NoObject] ELSE scene
       IN  \/ Becomes(IF l.kind = "first" THEN [s EXCEPT !.player = l.of] ELSE s)  \* it failed
           \/ Becomes(IF l.id # scene.asked[l.of] THEN s
                      ELSE [s EXCEPT !.layer[l.of] = l.frame, !.visible = @ \union {l.of},
                                     !.selected = <<l.of>>, !.picked = <<l.of>>])

\* The player shows another frame, and its layer goes into the scene.
PlayFrame ==
    /\ Step /\ scene.player # NoObject
    /\ \E f \in Frames :
         /\ Becomes(Install(Stepped, scene.player))
         /\ loads' = loads \union {InstallCall(scene, scene.player, f)}
ClosePlayer == /\ scene.player # NoObject /\ UNCHANGED loads
               /\ Becomes([scene EXCEPT !.player = NoObject])

Next ==
    \/ ViewerReady \/ EntitiesDiscovered \/ Select \/ Pick \/ Clear
    \/ ShowField \/ ChooseField \/ SetVisibility \/ Activate \/ PlayFrame \/ ClosePlayer
    \/ \E l \in loads : JobArrives(l) \/ LayerArrives(l)

vars == <<scene, loads>>
Spec == Init /\ [][Next]_vars

(***************************************************************************)
(* Properties.                                                             *)
(***************************************************************************)
\* The viewer highlights what the inventory selects, whoever selected last and
\* however layers come and go under the selection.
ViewerFollows ==
    scene.ready /\ scene.selected # <<>> => scene.picked = EntitiesOf(scene, scene.selected)

\* The field that colours the selection is one that each object in it has.
FieldIsCommon ==
    scene.field # NoObject =>
      /\ scene.coloured /\ scene.selected # <<>>
      /\ \A o \in ToSet(scene.selected) : scene.field \in FieldsOfObject[o]

\* The spinner of an archive object has its request.
LoadingIsBacked ==
    scene.loading # NoObject =>
      \E l \in loads : l.of = scene.loading /\ l.kind \in {"job", "first"}

\* A layer is replaced only by one that was asked for later.
LaterLayer ==
    \A l \in loads \ loads' :
      (l.kind \in {"layer", "first"} /\ scene'.layer # scene.layer) =>
         ~\E m \in loads : m.of = l.of /\ m.kind \in {"layer", "first"} /\ m.id > l.id
=============================================================================
