---------------------------- MODULE DraftEntities ----------------------------
(***************************************************************************)
(* The entities of a Draft, boxes, cylinders, points and the like, and its *)
(* selection groups, as the workspaces show and edit them.                 *)
(*                                                                         *)
(* A change is made on the parameters the page shows, validated by the     *)
(* server, and sent as a whole; what the server stored is shown.  The      *)
(* dialog of an entity can be closed while it saves.                       *)
(***************************************************************************)
EXTENDS SelectionGroups, Integers

CONSTANTS
    FirstEntities,    \* the lists of entities a Draft may start with
    FirstInfo,        \* what its parameters say of the geometry
    ShownFaces, ShownEdges,   \* the members on screen
    EntityTypes,      \* the types that are added
    TypedValues,      \* the numbers that are typed
    FreshIds,         \* the identifiers that are generated, in this order
    GroupNames,       \* the names typed for a group
    MaxEntityClicks,  \* bound on the clicks of a behaviour
    NoId              \* no identifier

DraftEntitiesAssumption ==
    /\ NoId \notin ToSet(FreshIds) /\ IsInjective(FreshIds) /\ MaxEntityClicks \in Nat
    /\ TypedValues \subseteq Int /\ Len(FreshIds) > MaxEntityClicks

VARIABLES
    params,     \* the Draft's parameters: stored by the server, shown by the page
    panel,      \* the inventory and its dialogs
    changes     \* the changes under way

entityVars == <<params, panel, changes>>

(***************************************************************************)
(* The entities.  A record of the parameters: [pid, id, name, type, values,*)
(* cache, rest], the rest being what no form shows.                        *)
(***************************************************************************)
Axes == <<<<1, 0, 0>>, <<0, 1, 0>>>>
Origin == <<0, 0, 0>>
NoValues == [none |-> 0]
\* The fields of each type, with the values a new one has.
draftEntitySchema ==
    [Box |-> [axes |-> Axes, center |-> Origin, size |-> <<1, 1, 1>>],
     Cylinder |-> [axis |-> <<0, 0, 1>>, center |-> Origin, height |-> 1, inner_radius |-> 0, outer_radius |-> 1],
     Point |-> [location |-> Origin],
     Sphere |-> [center |-> Origin, radius |-> 1],
     AxisymmetricBody |-> [axis |-> <<0, 0, 1>>, center |-> Origin, profile_curve |-> <<<<0, 0>>, <<1, 0>>>>],
     CustomVolume |-> [axes |-> Axes, axis |-> <<0, 0, 1>>, center |-> Origin],
     SeedpointVolume |-> [axes |-> Axes, axis |-> <<0, 0, 1>>, center |-> Origin, point_in_mesh |-> <<Origin>>],
     PointArray |-> [start |-> Origin, end |-> <<1, 0, 0>>, number_of_points |-> 10],
     PointArray2D |-> [origin |-> Origin, u_axis_vector |-> <<1, 0, 0>>, v_axis_vector |-> <<0, 1, 0>>,
                       u_number_of_points |-> 10, v_number_of_points |-> 10],
     Slice |-> [normal |-> <<0, 0, 1>>, origin |-> Origin]]
Numeric == {"height", "inner_radius", "outer_radius", "radius", "number_of_points", "u_number_of_points", "v_number_of_points"}
PointLists == {"profile_curve", "point_in_mesh"}
DraftTypes == DOMAIN draftEntitySchema
GhostTypes == {"GhostSphere", "GhostCircularPlane", "WindTunnelGhostSurface"}

entityID(e) == IF e.pid # NoId THEN e.pid ELSE e.id
\* The entities of a list that are known, one for each identifier; one without
\* is named after its place.
parseEntityCollection(list, types, source) ==
    LET idOf(i) == IF entityID(list[i]) # NoId THEN entityID(list[i]) ELSE <<source, list[i].type, i>>
        known == {i \in DOMAIN list : list[i].type \in types}
        kept == SetToSortSeq({i \in known : \A j \in known : idOf(j) = idOf(i) => i <= j}, <)
    IN  [n \in DOMAIN kept |-> [id |-> idOf(kept[n]), key |-> <<source, idOf(kept[n])>>, raw |-> list[kept[n]],
                                renderable |-> list[kept[n]].type # "WindTunnelGhostSurface"]]
parseDraftEntities(p) == parseEntityCollection(p.entities, DraftTypes, "draft")
parseGhostEntities(p) == parseEntityCollection(p.ghosts, GhostTypes, "ghost")
Inventory(p) == ToSet(parseDraftEntities(p) \o parseGhostEntities(p))

\* applyDraftEntityMutation: the new list, or that the change is refused.
Refused == NoId
Upserted(list, previous, e) ==
    LET old == {i \in DOMAIN list : entityID(list[i]) = previous}
    IN  IF \E i \in DOMAIN list : entityID(list[i]) = entityID(e) /\ entityID(list[i]) # previous THEN Refused
        ELSE IF previous = NoId THEN Append(list, e)
        ELSE IF old = {} THEN Refused ELSE [list EXCEPT ![Min(old)] = e]
Deleted(list, id) ==
    LET kept == SelectSeq(list, LAMBDA e : entityID(e) # id) IN IF Len(kept) = Len(list) THEN Refused ELSE kept

(***************************************************************************)
(* The form of an entity                                                   *)
(***************************************************************************)
newDraftEntityValue(type, id) == [pid |-> id, name |-> type, values |-> draftEntitySchema[type]]
\* A stored entity in the form: what it lacks is filled in, an identifier too;
\* a Box without axes takes those it was made with.
editableEntityValue(raw, id) ==
    LET fields == draftEntitySchema[raw.type]
        cached(k) == k = "axes" /\ raw.type = "Box" /\ raw.cache # NoValues /\ "axes" \notin DOMAIN raw.values
    IN  [pid |-> IF raw.pid # NoId THEN raw.pid ELSE id, name |-> raw.name,
         values |-> [k \in DOMAIN fields |-> IF k \in DOMAIN raw.values THEN raw.values[k]
                                             ELSE IF cached(k) THEN raw.cache.axes ELSE fields[k]]]
Square(v) == v[1] * v[1] + v[2] * v[2] + v[3] * v[3]
\* The fields that are wrong.
validateDraftEntityValue(type, v) ==
    {k \in DOMAIN v : \/ k \in {"axis", "normal", "u_axis_vector", "v_axis_vector"} /\ Square(v[k]) = 0
                      \/ k = "size" /\ \E i \in 1..3 : v[k][i] <= 0
                      \/ k \in {"radius", "height", "outer_radius"} /\ v[k] <= 0
                      \/ k = "inner_radius" /\ (v[k] < 0 \/ v[k] >= v.outer_radius)
                      \/ k \in {"number_of_points", "u_number_of_points", "v_number_of_points"} /\ v[k] < 1
                      \/ k = "profile_curve" /\ Len(v[k]) < 2
                      \/ k = "point_in_mesh" /\ Len(v[k]) < 1}
\* What is stored: over the entity as it was, and a Box with how it was made.
normalizeDraftEntity(type, form, original) ==
    [pid |-> form.pid, id |-> original.id, name |-> form.name, type |-> type,
     values |-> form.values, rest |-> original.rest,
     cache |-> IF type = "Box" THEN form.values ELSE original.cache]
NoOriginal == [id |-> NoId, rest |-> FALSE, cache |-> NoValues]

\* What the viewer draws: the shape, with the sizes it is drawn at.
entityObject(type, v) ==
    CASE type = "Cylinder" /\ v.inner_radius > 0 /\ v.inner_radius < v.outer_radius -> <<"ring", v.inner_radius, v.outer_radius>>
      [] type = "Cylinder" -> <<"cylinder", v.outer_radius, v.height>>
      [] type = "Sphere" -> <<"sphere", v.radius>>
      [] type = "Box" -> <<"box", v.size[1], v.size[2], v.size[3]>>
      [] type = "PointArray" -> <<"points", Max({1, Min({10000, v.number_of_points})})>>
      [] type = "PointArray2D" -> <<"points", Max({1, Min({250, v.u_number_of_points})}) * Max({1, Min({250, v.v_number_of_points})})>>
      [] type = "AxisymmetricBody" -> IF Len(v.profile_curve) >= 2 THEN <<"lathe", Len(v.profile_curve)>> ELSE <<"stand-in">>
      [] type = "SeedpointVolume" -> <<"points", Max({1, Len(v.point_in_mesh)})>>
      [] OTHER -> <<type>>

(***************************************************************************)
(* The inventory and the editor                                            *)
(***************************************************************************)
NoEditor == [mode |-> "none"]
Group(saving) == [open |-> TRUE, saving |-> saving]
NoGroup == [open |-> FALSE, saving |-> FALSE]
Click == panel.clicks > 0
Clicks(p) == [p EXCEPT !.clicks = @ - 1]
\* The dialogs cover the page.
Uncovered == panel.editor = NoEditor /\ ~panel.group.open
NextId == FreshIds[panel.used + 1]

ToggleVisibility(e) ==
    /\ Uncovered /\ Click /\ e.renderable
    /\ panel' = [Clicks(panel) EXCEPT !.visible = IF e.key \in @ THEN @ \ {e.key} ELSE @ \cup {e.key}]
    /\ UNCHANGED <<params, changes>>
SetAllVisible(source, visible) ==
    LET keys == {e.key : e \in {x \in Inventory(params.shown) : x.renderable /\ x.key[1] = source}}
    IN  /\ Uncovered /\ Click /\ keys # {}
        /\ panel' = [Clicks(panel) EXCEPT !.visible = IF visible THEN @ \cup keys ELSE @ \ keys]
        /\ UNCHANGED <<params, changes>>
AddEntity(type) ==
    /\ Uncovered /\ Click
    /\ panel' = [Clicks(panel) EXCEPT !.used = @ + 1, !.failed = FALSE,
                    !.editor = [mode |-> "new", type |-> type, form |-> newDraftEntityValue(type, NextId)]]
    /\ UNCHANGED <<params, changes>>
EditEntity(e) ==
    /\ Uncovered /\ Click
    /\ panel' = [Clicks(panel) EXCEPT !.used = @ + 1, !.failed = FALSE,
                    !.editor = [mode |-> "edit", type |-> e.raw.type, id |-> e.id, original |-> e.raw,
                                form |-> editableEntityValue(e.raw, NextId)]]
    /\ UNCHANGED <<params, changes>>
\* A field is typed into, or a point is added or removed.
Typed(key, v) ==
    IF key \in Numeric THEN TypedValues
    ELSE IF key \in PointLists THEN {RemoveAt(v, i) : i \in DOMAIN v}
    ELSE IF key = "axes" THEN {[v EXCEPT ![1][i] = n] : i \in 1..3, n \in TypedValues}
    ELSE {[v EXCEPT ![i] = n] : i \in 1..3, n \in TypedValues}
TypeValue(key, value) ==
    /\ panel.editor # NoEditor /\ Click /\ panel.editor.form.values[key] # value
    /\ panel' = [Clicks(panel) EXCEPT !.editor.form.values[key] = value] /\ UNCHANGED <<params, changes>>
\* The cross is there even while it saves; "Cancel" and Escape are not.
CloseEditor ==
    /\ panel.editor # NoEditor
    /\ panel' = [panel EXCEPT !.editor = NoEditor, !.failed = FALSE] /\ UNCHANGED <<params, changes>>

\* The change is made on what is shown; nothing is sent if it is refused.
Sends(change, next) ==
    /\ changes' = changes \cup {[what |-> change, next |-> next, phase |-> "validating"]}
    /\ panel' = IF change = "group" THEN [Clicks(panel) EXCEPT !.group = Group(TRUE)] ELSE [Clicks(panel) EXCEPT !.saving = TRUE, !.failed = FALSE]
Fails == panel' = [Clicks(panel) EXCEPT !.failed = TRUE] /\ UNCHANGED changes
SaveEntity ==
    LET ed == panel.editor
        e == normalizeDraftEntity(ed.type, ed.form, IF ed.mode = "edit" THEN ed.original ELSE NoOriginal)
        next == Upserted(params.shown.entities, IF ed.mode = "edit" THEN ed.id ELSE NoId, e)
    IN  /\ ed # NoEditor /\ ~panel.saving /\ Click
        /\ IF validateDraftEntityValue(ed.type, ed.form.values) # {} \/ next = Refused THEN Fails
           ELSE Sends("entity", [params.shown EXCEPT !.entities = next])
        /\ UNCHANGED params
DeleteEntity ==
    LET next == Deleted(params.shown.entities, panel.editor.id)
    IN  /\ panel.editor # NoEditor /\ panel.editor.mode = "edit" /\ ~panel.saving /\ Click
        /\ IF next = Refused THEN Fails ELSE Sends("entity", [params.shown EXCEPT !.entities = next])
        /\ UNCHANGED params

(***************************************************************************)
(* Saving the selection as a group                                         *)
(***************************************************************************)
OpenGroup ==
    /\ Uncovered /\ Click
    /\ panel' = [Clicks(panel) EXCEPT !.group = Group(FALSE), !.failed = FALSE] /\ UNCHANGED <<params, changes>>
CloseGroup ==
    /\ panel.group.open /\ ~panel.group.saving
    /\ panel' = [panel EXCEPT !.group = NoGroup] /\ UNCHANGED <<params, changes>>
\* The group is made on the parameters shown together with the resource's.
SaveGroup(name, faces, edges) ==
    LET info == mergeDraftAssetTopology(FirstInfo, params.shown.info)
    IN  /\ panel.group.open /\ ~panel.group.saving /\ Click
        /\ IF ~CanSaveGroup(info, name, faces, edges) THEN Fails
           ELSE Sends("group", [params.shown EXCEPT !.info = applyDraftSelectionGroup(info, name, faces, edges)])
        /\ UNCHANGED params

(***************************************************************************)
(* The answers                                                             *)
(***************************************************************************)
Validated(c) ==
    /\ c \in changes /\ c.phase = "validating"
    /\ changes' = (changes \ {c}) \cup {[c EXCEPT !.phase = "updating"]} /\ UNCHANGED <<params, panel>>
Stored(c) ==
    /\ c \in changes /\ c.phase = "updating"
    /\ changes' = (changes \ {c}) \cup {[c EXCEPT !.phase = "stored"]}
    /\ params' = [params EXCEPT !.stored = c.next] /\ UNCHANGED panel
\* What was stored is shown: the parameters are others, nothing of them is
\* visible yet.  The dialog that is open then is closed.
Shown(c) ==
    /\ c \in changes /\ c.phase = "stored" /\ changes' = changes \ {c}
    /\ params' = [params EXCEPT !.shown = c.next]
    /\ panel' = IF c.what = "group" THEN [panel EXCEPT !.visible = {}, !.group = NoGroup]
                ELSE [panel EXCEPT !.visible = {}, !.saving = FALSE, !.editor = NoEditor]
\* A request fails, at whatever point, or the validation finds an error.
Failed(c) ==
    /\ c \in changes /\ changes' = changes \ {c}
    /\ panel' = IF c.what = "group" THEN [panel EXCEPT !.group = Group(FALSE), !.failed = TRUE]
                ELSE [panel EXCEPT !.saving = FALSE, !.failed = panel.editor # NoEditor]
    /\ UNCHANGED params

Init ==
    /\ \E list \in FirstEntities : LET p == [entities |-> list.draft, ghosts |-> list.ghost, info |-> FirstInfo]
                                   IN  params = [stored |-> p, shown |-> p]
    /\ panel = [visible |-> {}, editor |-> NoEditor, saving |-> FALSE, failed |-> FALSE, group |-> NoGroup, used |-> 0, clicks |-> MaxEntityClicks]
    /\ changes = {}

Members(chosen, members) == SelectSeq(members, LAMBDA m : m \in chosen)
Next ==
    \/ \E e \in Inventory(params.shown) : ToggleVisibility(e)
    \/ \E source \in {"draft", "ghost"}, visible \in BOOLEAN : SetAllVisible(source, visible)
    \/ \E type \in EntityTypes : AddEntity(type)
    \/ \E e \in ToSet(parseDraftEntities(params.shown)) : EditEntity(e)
    \/ panel.editor # NoEditor /\ \E key \in DOMAIN panel.editor.form.values :
           \E value \in Typed(key, panel.editor.form.values[key]) : TypeValue(key, value)
    \/ CloseEditor \/ SaveEntity \/ DeleteEntity \/ OpenGroup \/ CloseGroup
    \/ \E name \in GroupNames, faces \in SUBSET ToSet(ShownFaces), edges \in SUBSET ToSet(ShownEdges) :
           SaveGroup(name, Members(faces, ShownFaces), Members(edges, ShownEdges))
    \/ \E c \in changes : Validated(c) \/ Stored(c) \/ Shown(c) \/ Failed(c)

Spec == Init /\ [][Next]_entityVars

(***************************************************************************)
(* Properties                                                              *)
(***************************************************************************)
\* The state is well formed.
TypeOK ==
    /\ panel.editor.mode \in {"none", "new", "edit"} /\ panel.used \in 0..MaxEntityClicks
    /\ {panel.saving, panel.failed, panel.group.open, panel.group.saving} \subseteq BOOLEAN
    /\ \A c \in changes : c.phase \in {"validating", "updating", "stored"} /\ c.what \in {"entity", "group"}

\* A dialog saves only while its change is under way, and at most one change of
\* each kind is.
BusyIsBacked ==
    /\ panel.saving <=> \E c \in changes : c.what = "entity"
    /\ panel.group.saving <=> \E c \in changes : c.what = "group"
    /\ \A c, d \in changes : c.what = d.what => c = d

\* What is visible in the viewer is in the list and can be drawn, although an
\* entity without an identifier is named after its place in the list.
VisibleAreListed == panel.visible \subseteq {e.key : e \in {x \in Inventory(params.shown) : x.renderable}}

\* No change of the entities makes two of one identifier, or one that the list
\* leaves out: every entity the Draft stores that is of a known type is listed.
AllAreListed ==
    \A p \in {params.stored, params.shown} :
        Len(parseDraftEntities(p)) = Cardinality({i \in DOMAIN p.entities : p.entities[i].type \in DraftTypes})

\* A save of an entity changes no other one, and of the entity itself nothing
\* the form does not show.
EntityKept(old, new) ==
    \/ Len(new) = Len(old) + 1 /\ SubSeq(new, 1, Len(old)) = old
    \/ Len(new) = Len(old) - 1 /\ \E i \in DOMAIN old : new = RemoveAt(old, i)
    \/ /\ Len(new) = Len(old) /\ Cardinality({i \in DOMAIN old : old[i] # new[i]}) <= 1
       /\ \A i \in DOMAIN old : old[i].rest = new[i].rest /\ old[i].type = new[i].type
EditKeepsTheRest ==
    \A c \in changes' \ changes : c.phase = "validating" /\ c.what = "entity"
           => EntityKept(params.shown.entities, c.next.entities) /\ c.next.info = params.shown.info

\* A Box is stored as it is made: its axes, centre and size and those it was
\* made with are the same once the form has saved it.
SavedBoxesAgree ==
    \A c \in changes : \A i \in DOMAIN c.next.entities :
        LET e == c.next.entities[i] IN e.type = "Box" /\ e \notin ToSet(params.shown.entities) /\ e.pid \in ToSet(FreshIds) => e.cache = e.values

\* For every selection and name of a group: once saved it is offered, and
\* selects the faces, and the edges, that were selected; unless a group was
\* saved of the same members before.
SavedGroupsAreOffered ==
    \A name \in GroupNames, faces \in SUBSET ToSet(ShownFaces), edges \in SUBSET ToSet(ShownEdges) :
        LET chosen == [faces |-> Members(faces, ShownFaces), edges |-> Members(edges, ShownEdges)]
            shown == [faces |-> ShownFaces, edges |-> ShownEdges]
            saved == applyDraftSelectionGroup(FirstInfo, name, chosen.faces, chosen.edges)
            ids(kind) == {m.id : m \in ToSet(chosen[kind])}
            known(kind) == \E p \in buildParameterSelectionPresets(FirstInfo, kind, shown[kind]) : p.tag = "groupName" /\ p.ids = ids(kind)
        IN  CanSaveGroup(FirstInfo, name, chosen.faces, chosen.edges) =>
                \A kind \in {"faces", "edges"} :
                    chosen[kind] # <<>> /\ ~known(kind) =>
                        \E p \in buildParameterSelectionPresets(saved, kind, shown[kind]) : p.label = name /\ p.ids = ids(kind)
\* And what is offered is whole, of what the parameters say at the start; of
\* whatever part of the geometry is on screen it holds only members on screen,
\* and a body is not offered a second time as a group of its faces or edges.
GroupsAreWhole ==
    /\ PresetsAreWhole(FirstInfo, "faces", ShownFaces) /\ PresetsAreWhole(FirstInfo, "edges", ShownEdges)
    /\ \A faces \in SUBSET ToSet(ShownFaces), edges \in SUBSET ToSet(ShownEdges) :
          LET offered == buildGeometryParameterSelectionPresets(FirstInfo, Members(faces, ShownFaces), Members(edges, ShownEdges))
          IN  \A p \in offered :
                 /\ p.ids # {} /\ p.ids \subseteq {m.id : m \in faces \union edges}
                 /\ p.kind = "body" => \A q \in offered : <<q.label, q.tag>> = <<p.label, p.tag>> => q = p

\* For every type, and every value of a field that the form takes: the viewer
\* draws the entity itself, at sizes that can be seen, and no stand-in for it.
SoundEntitiesAreDrawn ==
    \A type \in DraftTypes : \A key \in DOMAIN draftEntitySchema[type] : \A value \in Typed(key, draftEntitySchema[type][key]) :
        LET v == [draftEntitySchema[type] EXCEPT ![key] = value]
            drawn == entityObject(type, v)
        IN  validateDraftEntityValue(type, v) = {} =>
                drawn # <<"stand-in">> /\ \A i \in 2..Len(drawn) : drawn[i] > 0
=============================================================================
