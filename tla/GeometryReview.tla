--------------------------- MODULE GeometryReview ---------------------------
(***************************************************************************)
(* The Geometry workspace of the web application: selection and            *)
(* visibility of surfaces, display materials kept in the browser's         *)
(* storage, and the semantic draft with its undo and its plan.             *)
(***************************************************************************)
EXTENDS Naturals, Sequences, FiniteSets, SequencesExt

CONSTANTS
    Faces,       \* surfaces of the Geometry
    Bounded,     \* those that a boundary model of the SimulationParams names
    Telling,     \* those whose name suggests a role
    Customs,     \* identities of display materials made by the user
    MaxUndo,     \* drafts the undo history keeps (10)
    MaxGestures, \* bound on the clicks of a behaviour
    NoMaterial   \* no material

GeometryReviewAssumption ==
    /\ Bounded \subseteq Faces /\ Telling \subseteq Faces
    /\ IsFiniteSet(Faces) /\ IsFiniteSet(Customs)
    /\ NoMaterial \notin Customs
    /\ {MaxUndo, MaxGestures} \subseteq Nat /\ MaxUndo > 0

VARIABLES
    stored,  \* the browser's storage: the library of materials, the overrides
    geo      \* the workspace

(***************************************************************************)
(* The workspace.                                                          *)
(***************************************************************************)
Default == "default-cad"
Presets == {Default, "cfd-preset"}
Materials == Presets \union Customs
Panels == {"none", "appearance", "semantics"}
NoRole == "none"

NewWorkspace(store) ==
    [manifest |-> FALSE, selected |-> {}, hidden |-> {},
     roles |-> [f \in Faces |-> NoRole], history |-> <<>>, intent |-> FALSE,
     library |-> store.library, chosen |-> Default, overrides |-> store.overrides,
     panel |-> "none", planning |-> FALSE, gestures |-> 0]

TypeOK ==
    /\ stored.library \subseteq Customs
    /\ stored.overrides \in [Faces -> Materials \union {NoMaterial}]
    /\ geo.selected \subseteq Faces /\ geo.hidden \subseteq Faces
    /\ geo.roles \in [Faces -> {NoRole, "provided", "inferred"}]
    /\ Len(geo.history) <= MaxUndo
    /\ geo.panel \in Panels /\ geo.library = stored.library
    /\ geo.overrides = stored.overrides

\* The storage is what earlier sessions left: the library is shared by all
\* Geometries, and deleteAppearance in the workspace of one rewrites the
\* overrides of that one only, so that those of another may name what is gone.
Init == /\ stored \in [library : SUBSET Customs,
                       overrides : [Faces -> Customs \union {NoMaterial}]]
        /\ geo = NewWorkspace(stored)

\* Roles of the boundary models come before those of the draft.
EffectiveRole(f) == IF f \in Bounded THEN "provided" ELSE geo.roles[f]
Assigned == {f \in Faces : EffectiveRole(f) # NoRole}

\* resolveGeometryAppearanceAssignments and buildGeometryEntityAppearances
AssignedMaterial(f) ==
    IF geo.overrides[f] # NoMaterial THEN geo.overrides[f]
    ELSE IF f \in Bounded \/ geo.roles[f] # NoRole THEN "cfd-preset" ELSE Default
MaterialAsAssigned(f) == AssignedMaterial(f)
EntityMaterial(f) ==
    IF AssignedMaterial(f) \in Presets \union geo.library THEN AssignedMaterial(f) ELSE Default

\* What the columns and the panels of the workspace offer.  A panel is modal.
InventoryOffers(op) == geo.panel = "none" /\ geo.manifest /\ op \in {"select", "hide"}
InspectorOffers(op) ==
    /\ geo.panel = "none"
    /\ \/ op = "panel"
       \/ op \in {"isolate", "material"} /\ geo.selected # {}
AppearanceOffers(op) ==
    /\ geo.panel = "appearance"
    /\ \/ op \in {"panel", "choose", "create"}
       \/ op = "material" /\ geo.selected # {}
       \/ op = "delete" /\ geo.chosen \in geo.library
SemanticsOffers(op) ==
    /\ geo.panel = "semantics"
    /\ \/ op \in {"panel", "intent", "suggest"}
       \/ op = "assign" /\ geo.selected # {}
       \/ op = "undo" /\ geo.history # <<>>
       \/ op = "plan" /\ ~geo.planning /\ Assigned # {} /\ geo.intent
Offers(op) == \/ InventoryOffers(op) \/ InspectorOffers(op)
              \/ AppearanceOffers(op) \/ SemanticsOffers(op)

\* a click that changes only the workspace
Gesture(op) == Offers(op) /\ geo.gestures < MaxGestures
Clicked(g) == geo' = [g EXCEPT !.gestures = @ + 1]
OnlyPage == UNCHANGED stored

Select == /\ Gesture("select")
          /\ \E s \in SUBSET Faces : Clicked([geo EXCEPT !.selected = s])
          /\ OnlyPage

Hide == /\ Gesture("hide")
        /\ \E f \in Faces : Clicked([geo EXCEPT !.hidden = IF f \in @ THEN @ \ {f} ELSE @ \union {f}])
        /\ OnlyPage

\* isolatedManifestVisibility, for an inventory without nesting
Isolate == /\ Gesture("isolate")
           /\ Clicked([geo EXCEPT !.hidden = Faces \ geo.selected])
           /\ OnlyPage

TogglePanel == /\ Gesture("panel")
               /\ \E p \in IF geo.panel = "none" THEN Panels \ {"none"} ELSE {"none"} :
                     Clicked([geo EXCEPT !.panel = p])
               /\ OnlyPage

(* Display materials: each change is saved in the browser's storage. *)
Save(g) == stored' = [library |-> g.library, overrides |-> g.overrides]
SaveAndShow(g) == Clicked(g) /\ Save(g)

assignSurfaceMaterial ==
    /\ Gesture("material")
    /\ \E m \in Presets \union geo.library \union {NoMaterial} :
          SaveAndShow([geo EXCEPT !.overrides = [f \in Faces |-> IF f \in geo.selected THEN m ELSE @[f]],
                                  !.chosen = IF m = NoMaterial THEN @ ELSE m])

chooseAppearance == /\ Gesture("choose")
                    /\ \E m \in (Presets \union geo.library) \ {geo.chosen} :
                          Clicked([geo EXCEPT !.chosen = m])
                    /\ OnlyPage

\* createAppearance and duplicateAppearance
createAppearance == /\ Gesture("create")
                    /\ \E m \in Customs \ stored.library :
                          SaveAndShow([geo EXCEPT !.library = @ \union {m}, !.chosen = m])

deleteAppearance ==
    /\ Gesture("delete")
    /\ SaveAndShow([geo EXCEPT
          !.library = @ \ {geo.chosen},
          !.overrides = [f \in Faces |-> IF @[f] = geo.chosen THEN Default ELSE @[f]],
          !.chosen = Default])

(* The semantic draft. *)
\* history.slice(-9) and the draft that is replaced
Remembered == LET kept == IF Len(geo.history) >= MaxUndo THEN Tail(geo.history) ELSE geo.history
              IN  Append(kept, geo.roles)
commitAssignments(roles) == Clicked([geo EXCEPT !.history = Remembered, !.roles = roles])

assignGroups == /\ Gesture("assign")
                /\ commitAssignments([f \in Faces |-> IF f \in geo.selected THEN "provided" ELSE geo.roles[f]])
                /\ OnlyPage

OverwritingSuggestion(f) == IF f \in Telling THEN "inferred" ELSE geo.roles[f]
Suggestion(f) == IF f \in Telling /\ geo.roles[f] = NoRole THEN "inferred" ELSE geo.roles[f]
applySuggestions ==
    /\ Gesture("suggest") /\ Telling # {}
    /\ commitAssignments([f \in Faces |-> Suggestion(f)])
    /\ OnlyPage

undoAssignments == /\ Gesture("undo")
                   /\ Clicked([geo EXCEPT !.roles = Last(geo.history), !.history = Front(@)])
                   /\ OnlyPage

decideIntent == /\ Gesture("intent") /\ ~geo.intent
                /\ Clicked([geo EXCEPT !.intent = TRUE])
                /\ OnlyPage

createSemanticPlan == /\ Gesture("plan")
                      /\ Clicked([geo EXCEPT !.planning = TRUE])
                      /\ OnlyPage

\* the finally of createSemanticPlan
PlanEnds == /\ geo.planning
            /\ geo' = [geo EXCEPT !.planning = FALSE]
            /\ OnlyPage

PreviewArrives == /\ ~geo.manifest
                  /\ geo' = [geo EXCEPT !.manifest = TRUE]
                  /\ OnlyPage

\* The page shows another resource and comes back: the component has the
\* resource as its key and starts anew, and the storage is read again.
Reopen == /\ geo.panel = "none" /\ geo.gestures < MaxGestures
          /\ geo' = [NewWorkspace(stored) EXCEPT !.gestures = geo.gestures + 1]
          /\ OnlyPage

Next == \/ Select \/ Hide \/ Isolate \/ TogglePanel \/ Reopen
        \/ assignSurfaceMaterial \/ chooseAppearance \/ createAppearance \/ deleteAppearance
        \/ assignGroups \/ applySuggestions \/ undoAssignments \/ decideIntent
        \/ createSemanticPlan \/ PlanEnds \/ PreviewArrives

reviewVars == <<stored, geo>>
Spec == Init /\ [][Next]_reviewVars

(***************************************************************************)
(* Properties.                                                             *)
(***************************************************************************)
\* A surface is always drawn with a material there is, also when another
\* Geometry's workspace deleted the one that was assigned.
MaterialsExist == \A f \in Faces : EntityMaterial(f) \in Presets \union geo.library

\* A role the user gave gives way to nothing but the user's own undo.
RoleKept == \A f \in Faces :
    geo.roles[f] = "provided" /\ geo'.roles[f] = "inferred" => geo'.history # Remembered
=============================================================================
