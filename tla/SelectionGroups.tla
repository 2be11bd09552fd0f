--------------------------- MODULE SelectionGroups ---------------------------
(***************************************************************************)
(* The selection groups of a Draft: what the parameters say of the faces,  *)
(* edges and bodies of the geometry (groupings, each a sequence of named   *)
(* groups of components), the groups the workspace offers for selecting,   *)
(* and saving what is selected as a group of its own.                      *)
(*                                                                         *)
(* The faces and edges on screen, the members, are matched to the groups   *)
(* by name, disregarding case.                                             *)
(***************************************************************************)
EXTENDS Naturals, Sequences, FiniteSets, SequencesExt, FiniteSetsExt

CONSTANTS
    NormalOf,     \* of the words that differ from their normal form, that form
    IdTags,       \* the tags that only number what they group
    PlainTags,    \* those of them that hold one face or edge each: faceId, edgeId
    NoNames       \* the names that stand for none

\* A group: [id, name, tag, components]; a member: [id, name, path].
\* What the parameters say: [faces, edges, bodies, index, faceTag, edgeTag],
\* the index telling the faces and edges of each body.

normalize(word) == IF word \in DOMAIN NormalOf THEN NormalOf[word] ELSE word
normalizedSet(words) == {normalize(w) : w \in words}
memberKeys(m) == normalizedSet({m.id, m.name} \cup ToSet(m.path))
\* A group that names no components is one of itself.
Components(e) == IF e.components = <<>> THEN {e.id, e.name} ELSE ToSet(e.components)

\* What a member stands for: the components of the group it is named after, one
\* of the active grouping first; else its own names.
resolveMemberComponents(m, entities, activeTag) ==
    LET matching == SelectSeq(entities, LAMBDA e : normalizedSet({e.id, e.name}) \cap memberKeys(m) # {})
        active == SelectSeq(matching, LAMBDA e : e.tag = activeTag)
    IN  IF matching = <<>> THEN memberKeys(m)
        ELSE normalizedSet(Components(IF active # <<>> THEN Head(active) ELSE Head(matching)))

\* The members inside the components that are expected, or named directly, and
\* whether together they are all of them.
matchMembers(expected, members, stands, direct) ==
    LET want == normalizedSet(expected)
        matched == {m \in ToSet(members) : \/ memberKeys(m) \cap direct # {}
                                           \/ stands[m] # {} /\ stands[m] \subseteq want}
    IN  IF want = {} THEN [ids |-> {}, complete |-> TRUE]
        ELSE [ids |-> {m.id : m \in matched}, complete |-> want \subseteq UNION {stands[m] : m \in matched}]

memberComponentIndex(members, entities, activeTag) ==
    [m \in ToSet(members) |-> resolveMemberComponents(m, entities, activeTag)]

presetScore(e, activeTag) ==
    (IF e.tag = activeTag THEN 100 ELSE 0) + (IF e.name \notin NoNames THEN 20 ELSE 0)
    + (IF e.tag \notin IdTags THEN 10 ELSE 0)

\* Of the candidates that have the same key the first of the highest score.
BestOf(cands, keyOf(_)) ==
    LET same(i) == {j \in DOMAIN cands : keyOf(cands[j]) = keyOf(cands[i])}
        firsts == SetToSortSeq({i \in DOMAIN cands : i = Min(same(i))}, <)
        top(i) == {j \in same(i) : \A k \in same(i) : cands[k].score <= cands[j].score}
    IN  [n \in DOMAIN firsts |-> cands[Min(top(firsts[n]))]]

OfBody(info, body, kind) == IF body \in DOMAIN info.index THEN info.index[body][kind] ELSE {}
\* A group of bodies as one of the faces, or edges, of those bodies.
bodySelectionEntity(e, info, kind) ==
    [e EXCEPT !.components = SetToSeq(UNION {OfBody(info, b, kind) : b \in Components(e)})]

\* The groups offered for the members of a kind: those the members make up
\* entirely, no single face or edge under another name for itself, and no two
\* that select the same under one tag, or under one name.
buildParameterSelectionPresets(info, kind, members) ==
    LET bodies == SelectSeq([i \in DOMAIN FlattenSeq(info.bodies) |-> bodySelectionEntity(FlattenSeq(info.bodies)[i], info, kind)],
                            LAMBDA e : e.components # <<>>)
        entities == FlattenSeq(info[kind]) \o bodies
        activeTag == IF kind = "faces" THEN info.faceTag ELSE info.edgeTag
        stands == memberComponentIndex(members, entities, activeTag)
        matched(e) == matchMembers(Components(e), members, stands, normalizedSet({e.id, e.name}))
        alone(e, ids) == Cardinality(ids) = 1 /\ \/ e.tag \in PlainTags
                                                 \/ \E m \in ToSet(members) : m.id \in ids /\ memberKeys(m) \cap normalizedSet({e.id, e.name}) # {}
        offered == SelectSeq(entities, LAMBDA e : matched(e).ids # {} /\ matched(e).complete /\ ~alone(e, matched(e).ids))
        cands == [i \in DOMAIN offered |-> [id |-> offered[i].id, label |-> offered[i].name, tag |-> offered[i].tag,
                                            ids |-> matched(offered[i]).ids, score |-> presetScore(offered[i], activeTag)]]
    IN  IF Len(members) < 2 \/ entities = <<>> THEN {}
        ELSE {[kind |-> kind, id |-> p.id, label |-> p.label, tag |-> p.tag, ids |-> p.ids] :
                p \in ToSet(BestOf(BestOf(cands, LAMBDA c : <<c.tag, c.ids>>), LAMBDA c : <<normalize(c.label), c.ids>>))}

\* For a geometry: the faces' and edges' groups, except those a body replaces,
\* and the bodies that are on screen as a whole.
buildGeometryParameterSelectionPresets(info, faces, edges) ==
    LET declared == FlattenSeq(info.bodies)
        bodies == IF declared # <<>> THEN ToSet(declared)
                  ELSE {[id |-> b, name |-> b, tag |-> "bodyId", components |-> <<b>>] : b \in DOMAIN info.index}
        part(e, kind, members, tag) ==
            LET expected == UNION {OfBody(info, b, kind) : b \in Components(e)}
            IN  matchMembers(expected, members, memberComponentIndex(members, FlattenSeq(info[kind]), tag), normalizedSet(expected))
        whole(e) == /\ UNION {OfBody(info, b, k) : b \in Components(e), k \in {"faces", "edges"}} # {}
                    /\ part(e, "faces", faces, info.faceTag).complete /\ part(e, "edges", edges, info.edgeTag).complete
        tagOf(t) == IF t = "bodyId" THEN "groupByBodyId" ELSE t
        replaced(p) == \E e \in bodies : tagOf(e.tag) = tagOf(p.tag) /\ normalize(e.name) = normalize(p.label)
    IN  {p \in buildParameterSelectionPresets(info, "faces", faces) \cup buildParameterSelectionPresets(info, "edges", edges) : ~replaced(p)}
        \cup {[kind |-> "body", id |-> e.id, label |-> e.name, tag |-> tagOf(e.tag),
               ids |-> part(e, "faces", faces, info.faceTag).ids \cup part(e, "edges", edges, info.edgeTag).ids] : e \in {b \in bodies : whole(b)}}

(***************************************************************************)
(* Saving                                                                  *)
(***************************************************************************)
GroupNamed(info, kind, name) ==
    \E i \in DOMAIN FlattenSeq(info[kind]) : LET e == FlattenSeq(info[kind])[i] IN e.tag = "groupName" /\ normalize(e.name) = normalize(name)
CanSaveGroup(info, name, faces, edges) ==
    Len(faces) + Len(edges) > 0 /\ \A kind \in {"faces", "edges"} : ~GroupNamed(info, kind, name)

\* The grouping "groupName" is given the new group, or is made for it.
WithGroup(info, kind, activeTag, name, members) ==
    LET schemes == info[kind]
        parts == UNION {resolveMemberComponents(m, FlattenSeq(schemes), activeTag) : m \in ToSet(members)}
        group == [id |-> name, name |-> name, tag |-> "groupName", components |-> SetToSeq(parts)]
        named == {i \in DOMAIN schemes : \E j \in DOMAIN schemes[i] : schemes[i][j].tag = "groupName"}
    IN  IF members = <<>> \/ parts = {} THEN info
        ELSE [info EXCEPT ![kind] = IF named = {} THEN Append(@, <<group>>) ELSE [@ EXCEPT ![Min(named)] = Append(@, group)]]
applyDraftSelectionGroup(info, name, faces, edges) ==
    WithGroup(WithGroup(info, "faces", info.faceTag, name, faces), "edges", info.edgeTag, name, edges)

\* What the Draft does not say is taken from the resource it is shown with.
mergeDraftAssetTopology(source, draft) ==
    [faces |-> IF FlattenSeq(draft.faces) # <<>> THEN draft.faces ELSE source.faces,
     edges |-> IF FlattenSeq(draft.edges) # <<>> THEN draft.edges ELSE source.edges,
     bodies |-> IF FlattenSeq(draft.bodies) # <<>> THEN draft.bodies ELSE source.bodies,
     index |-> IF DOMAIN draft.index # {} THEN draft.index ELSE source.index,
     faceTag |-> IF draft.faceTag # "" THEN draft.faceTag ELSE source.faceTag,
     edgeTag |-> IF draft.edgeTag # "" THEN draft.edgeTag ELSE source.edgeTag]

(***************************************************************************)
(* Properties                                                              *)
(***************************************************************************)
\* What is offered is there, as a whole: selecting a group never leaves out a
\* part of it that the parameters name, and never takes in a face or edge with a
\* part outside it, unless the group bears the name of that member.
PresetsAreWhole(info, kind, members) ==
    LET activeTag == IF kind = "faces" THEN info.faceTag ELSE info.edgeTag
        presets == buildParameterSelectionPresets(info, kind, members)
    IN  \A p \in presets : /\ p.ids # {} /\ p.ids \subseteq {m.id : m \in ToSet(members)}
                           /\ \A q \in presets : normalize(p.label) = normalize(q.label) /\ p.ids = q.ids => p = q
=============================================================================
