---------------------------- MODULE CaseInventory ----------------------------
(***************************************************************************)
(* The inventory of a Case's visualization objects: what the manifest, the *)
(* configured outputs and the archives of results give it, and the folders *)
(* it is shown in.  Pure: functions of what has been loaded.               *)
(*                                                                         *)
(* A name is compared by its letters and digits in lower case, NormOf; what *)
(* it tells of its kind is HintOf.                                         *)
(***************************************************************************)
EXTENDS Naturals, Sequences, FiniteSets, SequencesExt, FiniteSetsExt, TLC

CONSTANTS
    GroupLists,   \* sequences of groups of a manifest: [id, name, path, type, visible]
    OutputLists,  \* sequences of configured outputs: [id, name, type], "" for no name
    ArchiveSets,  \* sets of files of results: [path, name], in lower case
    NormOf,       \* the normal form of a name, where it is not the name
    HintOf        \* names that tell a kind, and which

Norm(name) == IF name \in DOMAIN NormOf THEN NormOf[name] ELSE name
Normal(names) == [i \in DOMAIN names |-> Norm(names[i])]
Categories == <<"surfaces", "slices", "isosurfaces", "streamlines">>

(***************************************************************************)
(* The objects of the manifest                                             *)
(***************************************************************************)
\* meshGroupManifestHints, the most specific kind first.
CategoryOf(group) ==
    LET hints == {HintOf[n] : n \in (ToSet(group.path) \union {group.id, group.name}) \intersect DOMAIN HintOf}
    IN  CASE "streamlines" \in hints -> "streamlines"
          [] "isosurfaces" \in hints /\ "streamlines" \notin hints -> "isosurfaces"
          [] "slices" \in hints /\ hints \intersect {"streamlines", "isosurfaces"} = {} -> "slices"
          [] OTHER -> "surfaces"
\* The object of a group: a face is a part of the object its path ends with.
MemberOf(group) ==
    LET below == IF group.path = <<>> THEN <<>> ELSE Tail(group.path)
        face == group.type = "Face"
        solid == group.type = "SolidGeometry"
        Named(names) == IF names = <<>> THEN group.name ELSE Last(names)
    IN  [id |-> group.id, path |-> group.path, visible |-> group.visible, entities |-> <<group.id>>,
         play |-> "none", source |-> "manifest",
         name |-> IF face THEN Named(below) ELSE IF solid THEN group.name ELSE Named(group.path),
         folder |-> IF face THEN (IF below = <<>> THEN <<>> ELSE Front(below)) ELSE IF solid THEN below ELSE <<>>]
SameMember(m, n) == Normal(m.folder) = Normal(n.folder) /\ Norm(m.name) = Norm(n.name)
\* The groups of one object are put together; a solid is an object of its own.
Joined(members, group) ==
    LET own == MemberOf(group)
        k == SelectInSeq(members, LAMBDA m : SameMember(m, own))
    IN  IF group.type = "SolidGeometry" \/ k = 0 THEN Append(members, own)
        ELSE [members EXCEPT ![k].entities = Append(@, group.id), ![k].visible = @ \/ group.visible]
groupCaseVisualizationMembers(groups) ==
    [c \in ToSet(Categories) |->
        FoldLeft(Joined, <<>>, SelectSeq(groups, LAMBDA group : CategoryOf(group) = c))]

(***************************************************************************)
(* The configured outputs, and the sections                                *)
(***************************************************************************)
OutputCategory(output) ==
    CASE output.type = "SurfaceOutput" -> "surfaces" [] output.type = "SliceOutput" -> "slices"
      [] output.type = "IsosurfaceOutput" -> "isosurfaces" [] output.type = "StreamlineOutput" -> "streamlines"
      [] OTHER -> "none"
caseConfiguredVisualizationMembers(outputs, archives) ==
    LET Configured(i) ==
            LET category == OutputCategory(outputs[i])
            IN  [id |-> "case-output:" \o outputs[i].id, path |-> <<category>>, visible |-> FALSE, entities |-> <<>>,
                 play |-> IF category \in archives THEN category ELSE "none", source |-> "output",
                 name |-> IF outputs[i].name = "" THEN category \o ToString(i) ELSE outputs[i].name, folder |-> <<>>]
    IN  SelectSeq([i \in DOMAIN outputs |-> Configured(i)], LAMBDA m : m.path # <<"none">>)

\* findTimeSeriesArchives: the archives by where they are stored, or by their
\* name when that is not told.
Archives(records) ==
    {kind \in {"slices", "surfaces"} : \E r \in records :
        \/ r.path = "results/" \o kind \o ".tar.gz"
        \/ r.path = "" /\ r.name = kind \o ".tar.gz"}

Playing(member, kind) == IF member.play = "none" THEN [member EXCEPT !.play = kind] ELSE member
\* A configured output is an object of its own unless the manifest has it: under
\* its name, or as the objects below a folder of its name.
Configured(sections, output) ==
    LET category == output.path[1]
        members == sections[category]
        same == SelectInSeq(members, LAMBDA m : Norm(m.name) = Norm(output.name))
        below == {k \in DOMAIN members : /\ members[k].source = "manifest"
                                         /\ Norm(output.name) \in ToSet(Normal(members[k].path))}
        first == SelectInSeq(members, LAMBDA m : m.source # "output")
    IN  [sections EXCEPT ![category] =
            IF same # 0 THEN [members EXCEPT ![same] = Playing(@, output.play)]
            ELSE IF below # {} THEN [k \in DOMAIN members |-> IF k \in below THEN Playing(members[k], output.play) ELSE members[k]]
            ELSE IF first = 0 THEN Append(members, output) ELSE InsertAt(members, first, output)]
SliceArchive == [id |-> "case-archive:slices", path |-> <<"slices">>, visible |-> FALSE, entities |-> <<>>,
                 play |-> "slices", source |-> "archive", name |-> "Time-series Slice archive", folder |-> <<>>]
caseVisualizationSections(groups, hasSliceArchive, configured) ==
    LET sections == FoldLeft(Configured, groupCaseVisualizationMembers(groups), configured)
    IN  IF hasSliceArchive /\ sections["slices"] = <<>> THEN [sections EXCEPT !["slices"] = <<SliceArchive>>]
        ELSE sections

(***************************************************************************)
(* Folders and visibility                                                  *)
(***************************************************************************)
Below(member, prefix) == IsPrefix(prefix, Normal(member.folder))
\* Each folder with the objects below it; the root is <<>>.
caseVisualizationMemberTree(members) ==
    [prefix \in UNION {{SubSeq(Normal(members[i].folder), 1, n) : n \in 0..Len(members[i].folder)} : i \in DOMAIN members} |->
        SelectSeq(members, LAMBDA m : Below(m, prefix))]

caseSurfaceVisibilityMap(members, visible) ==
    [e \in UNION {ToSet(m.entities) : m \in ToSet(members)} |-> visible]
Seen(member, visibility, e) == IF e \in DOMAIN visibility THEN visibility[e] ELSE member.visible
\* visibleCaseSurfaceCount
VisibleCount(members, visibility) ==
    Cardinality({i \in DOMAIN members : \E e \in ToSet(members[i].entities) : Seen(members[i], visibility, e)})
\* isolatedManifestVisibility: with what is selected its ancestors and descendants.
Isolated(groups, selected) ==
    LET chosen == selected \intersect {groups[i].id : i \in DOMAIN groups}
        Related(i) == \/ groups[i].id \in chosen \/ ToSet(groups[i].path) \intersect chosen # {}
                      \/ \E j \in DOMAIN groups : groups[j].id \in chosen /\ groups[i].id \in ToSet(groups[j].path)
    IN  [id \in {groups[i].id : i \in DOMAIN groups} |-> \E i \in DOMAIN groups : groups[i].id = id /\ Related(i)]
isolateCaseVisualizationMap(members, selected, groups) ==
    (IF groups = <<>> THEN [e \in selected |-> TRUE] ELSE Isolated(groups, selected))
        @@ caseSurfaceVisibilityMap(members, FALSE)

(***************************************************************************)
(* Properties                                                              *)
(***************************************************************************)
Sections(groups, outputs, archives) ==
    caseVisualizationSections(groups, "slices" \in archives, caseConfiguredVisualizationMembers(outputs, archives))
AllMembers(sections) == FlattenSeq([k \in DOMAIN Categories |-> sections[Categories[k]]])
EveryInventory(P(_, _, _)) ==
    \A groups \in GroupLists, outputs \in OutputLists, files \in ArchiveSets : P(groups, outputs, Archives(files))

\* Whatever the outputs and archives are, each group of the manifest can be
\* reached through one object of the inventory, of the kind it tells, and
\* through one only.
GroupsAreReachedOnce ==
    EveryInventory(LAMBDA groups, outputs, archives :
        LET sections == Sections(groups, outputs, archives)
            entities == FlattenSeq([k \in DOMAIN AllMembers(sections) |-> AllMembers(sections)[k].entities])
        IN  /\ IsInjective(entities) /\ ToSet(entities) = {groups[i].id : i \in DOMAIN groups}
            /\ \A i \in DOMAIN groups :
                 \E m \in ToSet(sections[CategoryOf(groups[i])]) : groups[i].id \in ToSet(m.entities))

\* Every configured output is in the inventory, as an object of its own or as
\* those of the manifest that bear its name or lie below it; a row that can be
\* loaded from an archive has that archive; and slices in an archive can be
\* reached even if nothing else tells of them.
OutputsAreListed ==
    EveryInventory(LAMBDA groups, outputs, archives :
        LET sections == Sections(groups, outputs, archives)
            configured == caseConfiguredVisualizationMembers(outputs, archives)
        IN  /\ \A output \in ToSet(configured) : \E m \in ToSet(sections[output.path[1]]) :
                 /\ Norm(output.name) \in {Norm(m.name)} \union ToSet(Normal(m.path))
                 /\ output.play # "none" => m.play = output.play
            /\ \A m \in ToSet(AllMembers(sections)) : m.play \in archives \union {"none"}
            /\ "slices" \in archives => sections["slices"] # <<>>)

\* Hiding a folder hides all that is counted in it and nothing outside it, and
\* showing it shows every object there that has something to show.
FoldersHideTheirOwn ==
    EveryInventory(LAMBDA groups, outputs, archives :
        \A c \in ToSet(Categories) :
            LET members == Sections(groups, outputs, archives)[c]
                tree == caseVisualizationMemberTree(members)
            IN  \A prefix \in DOMAIN tree, visible \in BOOLEAN :
                LET after == caseSurfaceVisibilityMap(tree[prefix], visible)
                    solid == SelectSeq(tree[prefix], LAMBDA m : m.entities # <<>>)
                    others == SelectSeq(members, LAMBDA m : ~Below(m, prefix))
                IN  /\ VisibleCount(tree[prefix], after) = IF visible THEN Len(solid) ELSE 0
                    /\ VisibleCount(others, after) = VisibleCount(others, <<>>))

\* Isolating an object leaves it visible and hides every object that has no
\* part in it and does not lie above or below it.
IsolationKeepsTheSelected ==
    EveryInventory(LAMBDA groups, outputs, archives :
        LET members == AllMembers(Sections(groups, outputs, archives))
        IN  \A k \in DOMAIN members :
                LET after == isolateCaseVisualizationMap(members, ToSet(members[k].entities), groups)
                IN  /\ \A e \in ToSet(members[k].entities) : after[e]
                    /\ \A j \in DOMAIN members : j # k /\ (\A g \in ToSet(groups) :
                            (g.id \in ToSet(members[j].entities) \union ToSet(members[k].entities) =>
                                ToSet(g.path) \intersect {h.id : h \in ToSet(groups)} = {}))
                         => VisibleCount(<<members[j]>>, after) = 0)
=============================================================================
