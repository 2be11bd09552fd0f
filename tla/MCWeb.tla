------------------------------- MODULE MCWeb -------------------------------
(***************************************************************************)
(* The screens of the web application for TLC: a behaviour opens one of    *)
(* them, with the state of all others Off.  Each screen is an instance of  *)
(* its module; "functions" is the state in which the pure functions are    *)
(* evaluated.                                                              *)
(***************************************************************************)
EXTENDS Integers, Sequences, TLC

CONSTANTS   \* model values
    None,    \* no file, folder, plan, ...
    ent1, ent2, ent3, new1, new2, new3, new4, new5, new6   \* identifiers of entities

VARIABLES
    screen, remote, page, editor, calls, owner, store, viewer, stored, geo, jobs, diag, asked, opened, tasks, look, asks, tree,
    details, reading, held, shelf, lists, errands, form, formCalls, review, monitor, reviewCalls, recovery, recoveryCalls, scene,
    loads, sheet, probe, surface, filters, beside, volume, thresholds, cloud, home, folderOpened, reads, staged, importing,
    importCalls, sessions, progress, runs, modal, network, chats, copilot, streaming, waiting, facts, wspace, compare, cmpCalls,
    pair, ports, tools, notes, noteStore, noteCalls, camera, press, snap, picks, prepared, player, playing, polls, params, panel,
    changes, dataview, talk, memory, resultCalls

(***************************************************************************)
(* The instances                                                           *)
(***************************************************************************)
MCCanon == [d \in {"doc0", "doc1"} |-> d]
MCPatches == {[d \in {"doc0", "doc1"} |-> IF d = "doc0" THEN "doc1" ELSE "doc0"]}
MCParentOf == ("mesh" :> "root") @@ ("mesh2" :> "root") @@ ("case" :> "mesh")
MCTypeOf == ("root" :> "Geometry") @@ ("mesh" :> "SurfaceMesh") @@ ("mesh2" :> "SurfaceMesh") @@ ("case" :> "Case")
MCStageForPath == ("pathA" :> 1) @@ ("pathB" :> 3)
MCDraftOf == ("planA" :> "draftA") @@ ("planB" :> "draftB")
MCPlanOf == ("ivA" :> "planA") @@ ("ivB" :> "planB")
MCFieldsOf == ("obj" :> {"mach", "cp"}) @@ ("archived" :> {"mach"})

\* One schema of each kind, and values the server may have stored for it.
Num(n) == <<"number", n>>
Txt(t) == <<"text", t>>
Rec(f) == <<"record", f>>
Quantity(n, u) == Rec([value |-> Num(n), units |-> Txt(u)])
NumSchema == [type |-> "number", minimum |-> 1, maximum |-> 5]
QuantitySchema == [type |-> "quantity", value |-> NumSchema, units |-> <<"m", "mm">>, aliases |-> ("metre" :> "m")]
Kind(k) == [type |-> "enum", options |-> <<Txt(k)>>, default |-> Txt(k)]
Variants == <<[type |-> "object", required |-> {"kind"},
               props |-> [kind |-> Kind("A"), n |-> [type |-> "number", minimum |-> 0, maximum |-> 5, default |-> Num(2)]]],
              [type |-> "object", required |-> {"kind", "q"}, props |-> [kind |-> Kind("B"), q |-> QuantitySchema]]>>
ValueOrExpression == [type |-> "union", variants |-> <<QuantitySchema, [type |-> "expression"]>>]
OnOff == [type |-> "enum", options |-> <<Txt("on"), Txt("off")>>, nullable |-> TRUE]
Expression == Rec([expression |-> Txt("y")])
MCStored ==
       QuantitySchema :> {Quantity(3, "m")}
    @@ [type |-> "expression"] :> {Expression}
    @@ [type |-> "entity_list", choices |-> {"e1", "e2"}] :>
         {Rec([stored_entities |-> {[id |-> "e1", payload |-> "stored"], [id |-> "gone", payload |-> "stored"]}])}
    @@ [type |-> "tuple", item |-> NumSchema, length |-> 2] :> {<<"list", <<Num(1), Num(2)>>>>}
    @@ [type |-> "multi_select", picks |-> {"p", "q"}, atLeast |-> 1] :> {<<"list", <<"p">>>>, <<"list", <<"old", "q">>>>}
    @@ ValueOrExpression :> {Quantity(2, "mm"), Expression}
    @@ [type |-> "union", sentinel |-> TRUE, variants |-> <<NumSchema, [type |-> "enum", options |-> << <<"minus one">> >>]>>] :>
         {Num(3), <<"minus one">>}
    @@ [type |-> "object", required |-> {"a"},
        props |-> [a |-> NumSchema, b |-> ValueOrExpression, c |-> [type |-> "text"], d |-> OnOff]] :>
         {Rec([a |-> Num(1), private_attribute |-> Txt("id"), extra |-> Txt("z")]),
          Rec([a |-> Num(1), b |-> Quantity(2, "m"), d |-> <<"null">>])}
    @@ [type |-> "entity_assignment", models |-> {"wall", "slip"}, model |-> "wall", choices |-> {"e1", "e2"}] :>
         {Rec([model |-> Txt("slip"), entities |-> {"e2"}])}
    @@ [type |-> "array", item |-> [type |-> "union", variants |-> Variants]] :>
         {<<"list", <<>>>>, <<"list", <<Rec([kind |-> Txt("B"), q |-> Quantity(2, "m")])>>>>}
MCSchemas == DOMAIN MCStored

MCPathOf == ("face1" :> {"face2"}) @@ ("face2" :> {})
MCModels == <<[label |-> "wall", keys |-> {"*"}], [label |-> "wall", keys |-> {"face1"}], [label |-> "inlet", keys |-> {"face2"}]>>
MCVolumes == {[source |-> "primary", groups |-> <<"flat", "crinkled", "body">>], [source |-> "fallback", groups |-> <<"body">>]}
MCSliceOf == [g \in {"flat", "crinkled"} |-> [family |-> "slice", variant |-> g]] @@ ("body" :> [family |-> None, variant |-> "flat"])
MCHintsOf == ("flat" :> <<"flat">>) @@ ("crinkled" :> <<"crinkled">>) @@ ("body" :> <<"region", "body">>)
MCZoneWords == [n \in {"region", "flat", "crinkled", "body"} |-> IF n = "region" THEN "fluid" ELSE "unknown"]
MCZones == [n \in {"region", "flat", "crinkled", "body"} |-> IF n = "body" THEN "solid" ELSE "unknown"]
MCVolumeFields ==
    ("skew" :> [worst |-> 2, quality |-> TRUE, layer |-> FALSE, baseline |-> [down |-> FALSE, warning |-> 2, critical |-> 3]])
    @@ ("layer" :> [worst |-> 1, quality |-> FALSE, layer |-> TRUE, baseline |-> None])
MCRules == <<
    [kind |-> "boundary-layer", thickness |-> TRUE, spacing |-> FALSE, targets |-> <<"*">>, regions |-> <<>>],
    [kind |-> "uniform", thickness |-> FALSE, spacing |-> TRUE, targets |-> <<"region", "gone">>,
     regions |-> <<[lo |-> 0, hi |-> 2], [lo |-> 2, hi |-> 5]>>],
    [kind |-> "none", thickness |-> FALSE, spacing |-> TRUE, targets |-> <<"region">>, regions |-> <<[lo |-> 3, hi |-> 3]>>]>>
MCParents == ("folderA" :> "rootFolder") @@ ("folderB" :> "folderA")
MCFolderProjects == ("folderA" :> {"project1"}) @@ ("folderB" :> {})
MCAssetOf == ("ver1" :> "wing") @@ ("ver2" :> "body")
MCSessions == {<<>>, <<[pending |-> 0, rounds |-> 0, prepared |-> TRUE, params |-> TRUE, phase |-> "failed"]>>,
               <<[pending |-> 1, rounds |-> 0, prepared |-> FALSE, params |-> FALSE, phase |-> "needs_input"]>>}
Question == [type |-> "none", options |-> FALSE, default |-> "none", unit |-> FALSE, bounded |-> FALSE, derives |-> FALSE,
             quantity |-> FALSE, confirms |-> FALSE, stated |-> FALSE, required |-> TRUE]
MCQuestions == {Question, [Question EXCEPT !.confirms = TRUE], [Question EXCEPT !.unit = TRUE, !.stated = TRUE]}
Field(x) == <<"leaf", x>>
MCDocument == Rec([time |-> Rec([steps |-> Field(1), cfl |-> Field(2)]), name |-> Field(1)])
MCEdits == {Rec([time |-> Rec([steps |-> Field(1), cfl |-> <<"null">>])]), Rec([name |-> Rec([steps |-> Field(2)])]),
            Rec([name |-> Field(1)])}
Item(i, p, n, v) == [id |-> i, path |-> p, name |-> n, visible |-> v]
MCGroupsOf == ("caseA" :> <<Item("i1", <<"p">>, "wing", TRUE), Item("i2", <<"q">>, "wing", FALSE)>>)
    @@ ("caseB" :> <<Item("i9", <<"q">>, "wing", TRUE)>>) @@ ("caseC" :> <<Item("i1", <<"q">>, "tail", TRUE)>>)
MCSavedVis == {[c \in {} |-> TRUE], ("caseA" :> ("i1" :> FALSE))}
MCMeasured == {<<0, 0, 0>>, <<2, 0, 0>>, <<0, 1, 1>>, <<1, -1, 3>>}
MCToolViews == {[project |-> "pA", resource |-> "r1", asset |-> "r1"], [project |-> "pB", resource |-> "r2", asset |-> "r3"]}
MCFirstNotes == <<[id |-> 1, project |-> "pA", resource |-> "r1", frame |-> "r1", kind |-> "distance",
                   points |-> <<<<0, 0, 0>>, <<2, 0, 0>>>>, name |-> "made", visible |-> TRUE]>>
Edge(t, i, c, away, sure) == [type |-> t, id |-> i, class |-> c, seen |-> TRUE, away |-> away, sure |-> sure]
MCScene == [p \in {"part1", "part2"} |->
    [topology |-> <<Edge("edge", "e1", "none", 3, 98)>>
                  \o (IF p = "part1" THEN <<Edge("feature", "f1", "convex", 5, 90), Edge("vertex", "v1", "none", 20, 98)>> ELSE <<>>),
     corners |-> <<[id |-> "c1", away |-> 2, class |-> "convex"], [id |-> "c2", away |-> 13, class |-> "sharp"]>>,
     triangles |-> 2]]
Frame(t, s, l, h) == [track |-> t, step |-> s, low |-> l, high |-> h]
MCArchive == <<Frame(1, 2, 0, 3), Frame(1, 1, 0, 5), Frame(2, 2, -1, 2), Frame(2, 3, 0, 1)>>

MCNormalOf == ("F1" :> "f1") @@ ("F2" :> "f2") @@ ("F3" :> "f3") @@ ("E1" :> "e1") @@ ("E2" :> "e2") @@ ("Wing" :> "wing")
Tagged(n, t, c) == [id |-> n, name |-> n, tag |-> t, components |-> c]
MCInfo == [faces |-> <<<<Tagged("wing", "groupName", <<"f1", "f2">>)>>,
                       <<Tagged("f1", "faceId", <<"f1">>), Tagged("f2", "faceId", <<"f2">>), Tagged("f3", "faceId", <<"f3">>)>>>>,
           edges |-> <<<<Tagged("e1", "edgeId", <<"raw1">>)>>>>, bodies |-> <<>>,
           index |-> [b1 |-> [faces |-> {"f1", "f3"}, edges |-> {"raw1"}]], faceTag |-> "faceId", edgeTag |-> "edgeId"]
Drawn(i, n) == [id |-> i, name |-> n, path |-> <<>>]
MCFaces == <<Drawn("f1", "F1"), Drawn("f2", "F2"), Drawn("f3", "F3")>>
MCEdges == <<Drawn("e1", "E1"), Drawn("e2", "E2")>>
Entity(p, i, n, t, v, r) == [pid |-> p, id |-> i, name |-> n, type |-> t, values |-> v, cache |-> [none |-> 0], rest |-> r]
MCEntities ==
    {[draft |-> <<Entity(None, None, "p", "Point", [location |-> <<0, 0, 0>>], TRUE),
                  Entity(ent1, None, "c", "Cylinder",
                         [axis |-> <<0, 0, 1>>, center |-> <<0, 0, 0>>, height |-> 1, inner_radius |-> 0, outer_radius |-> 1], TRUE)>>,
      ghost |-> <<Entity(ent2, None, "g", "GhostSphere", [none |-> 0], FALSE),
                  Entity(ent3, None, "t", "WindTunnelGhostSurface", [none |-> 0], FALSE)>>],
     [draft |-> <<[Entity(None, ent1, "b", "Box", [center |-> <<0, 0, 0>>, size |-> <<1, 1, 1>>], TRUE)
                     EXCEPT !.cache = [axes |-> <<<<0, 1, 0>>, <<1, 0, 0>>>>]]>>, ghost |-> <<>>]}

Text(k) == [kind |-> "text", value |-> k]
Number(k) == [kind |-> "number", value |-> k]
Blank == [kind |-> "blank", value |-> 0]
MCContents ==
       ("fileA" :> << <<Text(1), Text(2), Text(3), Blank>>, <<Number(1), Number(5), Text(9)>>,
                      <<Number(2), Number(7000), Text(8)>>, <<Number(3), Number(6)>> >>)
    @@ ("fileB" :> << <<Text(1), Text(2), Blank>>, <<Number(1), Number(-5)>>, <<Number(2), Number(7), Text(8)>>,
                      <<Number(3), Number(-6)>> >>)
    @@ ("fileC" :> << <<Text(1), Text(3)>>, <<Number(1), Blank>>, <<Number(1), Text(4)>>, <<Number(2), Text(4)>>,
                      <<Number(2), Blank, Number(3), Number(4), Number(5)>> >>)
MCTexts == {<<>>, <<"quote">>, <<"comma">>, <<"quote", "newline">>, <<"return", "newline">>, <<"space">>, <<"x">>}

Group(id, name, path, type, v) == [id |-> id, name |-> name, path |-> path, type |-> type, visible |-> v]
MCGroups == {Group("g1", "wing", <<"root", "Slices", "Slice 1">>, "Face", TRUE),
             Group("g2", "wing", <<"root", "Slices", "slice1">>, "Face", FALSE),
             Group("g3", "body", <<"root", "Body">>, "SolidGeometry", TRUE),
             Group("g4", "body", <<"root", "Body", "Wing">>, "Face", TRUE),
             Group("g5", "iso_x", <<"root">>, "GeometryGroup", FALSE), Group("g6", "x", <<>>, "Face", TRUE)}
Output(id, name, type) == [id |-> id, name |-> name, type |-> type]
MCOutputs == {Output("o1", "Slice 1", "SliceOutput"), Output("o2", "", "SliceOutput"), Output("o3", "Body", "SurfaceOutput"),
              Output("o4", "Slices", "SliceOutput"), Output("o5", "x", "ProbeOutput")}
UpToTwo(S) == {<<>>} \union {<<x>> : x \in S} \union {p \in S \X S : p[1] # p[2]}
MCGroupLists == UpToTwo(MCGroups)
MCOutputLists == UpToTwo(MCOutputs)
MCFiles == {{}, {[path |-> "results/slices.tar.gz", name |-> "x"]},
            {[path |-> "", name |-> "surfaces.tar.gz"], [path |-> "old/slices.tar.gz", name |-> "slices.tar.gz"]}}
MCNormOf == ("Slice 1" :> "slice1") @@ ("Slices" :> "slices") @@ ("Body" :> "body") @@ ("Wing" :> "wing")
MCHintOf == [n \in {"Slices", "Slice 1", "slice1"} |-> "slices"] @@ ("iso_x" :> "isosurfaces")

Leaf(t, n) == [kind |-> "leaf", type |-> t, number |-> n]
Items(items) == [kind |-> "list", items |-> items]
Object(entries) == [kind |-> "object", entries |-> entries]
Zero == Leaf("number", 0)
Word == Leaf("text", 0)
MCDocuments ==
    {Object(<<>>),
     Object(<< <<"unit", Word>>, <<"free_edge_count", Zero>>, <<"self_intersections", Zero>>,
               <<"nested", Object(<< <<"component_count", Leaf("number", 1)>>, <<"non_manifold_edges", Zero>> >>)>> >>),
     Items(<<Object(<< <<"free_edges", Leaf("null", 0)>>,
                       <<"x", Items(<<Object(<< <<"open_edges", Items(<<Word, Object(<< <<"id", Word>> >>)>>)>> >>)>>)>> >>),
             Object(<< <<"component_count", Object(<< <<"value", Leaf("number", 2)>> >>)>>, <<"length_unit", Word>> >>)>>),
     Object(<< <<"free_edge_count", Object(<< <<"value", Zero>> >>)>>, <<"non_manifold_edges", Zero>>,
               <<"intersection_count", Items(<<>>)>>, <<"disconnected_components", Items(<<Word>>)>> >>),
     Object(<< <<"free_edge_count", Zero>>, <<"non_manifold_edges", Zero>>, <<"intersection_count", Zero>>,
               <<"disconnected_components", Items(<<Word>>)>>, <<"unit", Leaf("empty", 0)>> >>)}
Level(l) == [level |-> l, count |-> 0]
MCReports == UNION {[C -> {Level("ready"), Level("blocked"), Level("unknown")}] : C \in SUBSET {"freeEdges", "intersections"}}
MCMeshParams == {"max_edge" :> Word} \union
    UNION {[P -> {Leaf("number", 1000), Leaf("number", 1200), Leaf("number", 30000)}] : P \in SUBSET {"max_edge", "growth", "aspect", "angle"}}

D == INSTANCE DraftEditor WITH
    Drafts <- {"draftA"}, Docs <- {"doc0", "doc1"}, Canon <- MCCanon, Valid <- {"doc0"}, Blocked <- {},
    Patches <- MCPatches, MaxHistory <- 1, MaxPending <- 1
V == INSTANCE ViewerAssets WITH
    Urls <- {"urlA", "urlB"}, Gltf <- {"urlB"}, Wants <- {<<>>, <<"urlA">>, <<"urlA", "urlB">>}, Loads <- 1..3,
    Capacity <- 1, Buffers <- 1, NoUrl <- None
G == INSTANCE GeometryReview WITH
    Faces <- {"face1"}, Bounded <- {}, Telling <- {"face1"}, Customs <- {"mat1"}, MaxUndo <- 2, MaxGestures <- 5,
    NoMaterial <- None
GD == INSTANCE GeometryDiagnostics WITH
    Ratios <- {"fine", "coarse"}, Versions <- {"ver1"}, MaxJobs <- 2, MaxDiagGestures <- 4, Nothing <- None
PI == INSTANCE ProjectInventory WITH
    Projects <- {"project1", "project2"}, MaxMoves <- 1, NoProject <- None
PR == INSTANCE ProjectResources WITH
    Depth <- 2, DraftSources <- {2}, MaxTurns <- 1
T == INSTANCE ResourceTree WITH
    Preorder <- <<"root", "mesh", "case", "mesh2">>, ParentOf <- MCParentOf, TypeOf <- MCTypeOf,
    ReadyNodes <- {"root", "mesh", "case"}
RD == INSTANCE ResourceDetails WITH
    Cases <- {"caseA", "caseB"}, Tails <- {200, 500}, MaxDetailSteps <- 3, NoContent <- None
PD == INSTANCE ProjectDrafts WITH
    DraftIds <- {"draftA", "draftB"}, MaxChanges <- 2, NoDraft <- None
F == INSTANCE PlanForm WITH
    SourceStage <- 1, Paths <- {"pathA", "pathB"}, StageForPath <- MCStageForPath, Fields <- {"field1"}, MaxFormSteps <- 5,
    NoTarget <- 0
R == INSTANCE PlanReview WITH
    ReviewPlans <- {"planA", "planB"}, DraftOf <- MCDraftOf, PanelDrafts <- {"draftA", None}, MaxReviewSteps <- 2,
    NoReview <- None
RC == INSTANCE PlanRecovery WITH
    Interventions <- <<"ivA", "ivB">>, PlanOfIntervention <- MCPlanOf, AskedPlans <- {"planA"}, MaxRecoverySteps <- 2,
    NoIntervention <- None
C == INSTANCE CaseReview WITH
    Objects <- {"obj", "archived"}, ArchiveObjects <- {"archived"}, FieldsOfObject <- MCFieldsOf, Frames <- {1, 2},
    MaxCaseSteps <- 4, NoObject <- None
SF == INSTANCE SchemaForm WITH
    FormSchemas <- MCSchemas, StoredValues <- MCStored, TypedNumbers <- {0, 4}, MaxFormEdits <- 3
SU == INSTANCE SurfaceReview WITH
    Meshes <- {"meshA", "meshB"}, Manifests <- {<<"face1", "face2">>, <<"face2">>}, PathOf <- MCPathOf,
    BoundaryModels <- MCModels, QualityFields <- {"skew", "aspect"}, MaxRules <- 1, MaxSurfaceSteps <- 4, NoFace <- None
VO == INSTANCE VolumeReview WITH
    VolumeManifests <- MCVolumes, SliceOf <- MCSliceOf, HintsOf <- MCHintsOf, ZoneWords <- MCZoneWords,
    ProvidedZones <- MCZones, VolumeFields <- MCVolumeFields, MeshingRules <- MCRules, Domain <- [lo |-> 0, hi |-> 3],
    MaxVolumeSteps <- 5, NoGroup <- None
W == INSTANCE WorkspaceFolders WITH
    FolderIds <- {"folderA", "folderB", "created"}, RootFolder <- "rootFolder", FirstParents <- MCParents,
    FolderProjects <- MCFolderProjects, Queries <- {{"folderB"}}, MaxWorkspaceSteps <- 2, NoFolder <- None, opened <- folderOpened
I == INSTANCE ImportForm WITH
    ImportIds <- {"import1"}, ReadyVersions <- {"ver1", "ver2"}, AssetOf <- MCAssetOf, MaxImportSteps <- 5, NoImport <- None
AC == INSTANCE AICreate WITH
    FirstSessions <- MCSessions, MaxRuns <- 2, MaxRounds <- 2, MaxDisturbances <- 1, MaxCreateSteps <- 2
CO == INSTANCE Copilot WITH
    Scopes <- {"scopeR", "scopeD"}, DraftScopes <- {"scopeD"}, Questions <- MCQuestions, Document <- MCDocument,
    Edits <- MCEdits, Merged <- SF!Merged, Changes <- SF!Changes, MaxTurns <- 2, MaxCopilotSteps <- 4
CP == INSTANCE Compare WITH
    CaseIds <- {"caseA", "caseB", "caseC"}, Changing <- {"caseA"}, FirstCases <- <<"caseA", "caseB", "caseC">>,
    MaxFacts <- 2, MaxRevisions <- 2, MaxCompareSteps <- 2
PT == INSTANCE ComparePorts WITH
    Compared <- <<"caseA", "caseB", "caseC">>, GroupsOf <- MCGroupsOf, SavedVis <- MCSavedVis, MaxPortSteps <- 4,
    NoItem <- None
VT == INSTANCE ViewerTools WITH
    PickSpots <- {<<0, 0, 0>>, <<2, 0, 0>>}, MeasuredSpots <- MCMeasured, ToolKinds <- {"polyline"},
    ToolViews <- MCToolViews, MaxToolPoints <- 2, MaxToolSteps <- 3, FirstNotes <- MCFirstNotes, NoSpot <- None
VI == INSTANCE ViewerInput WITH
    Parts <- {"part1", "part2"}, SceneAt <- MCScene, Policies <- {[named |-> FALSE, kinds |-> {}]},
    CubeFaces <- {"cubeTop"}, Tolerance <- 12, MaxTopology <- 2, MaxTriangles <- 2, MaxInputSteps <- 2, NoPart <- None
PB == INSTANCE SlicePlayback WITH
    Archive <- MCArchive, NoStep <- None, MaxPrepared <- 1, MaxPolls <- 1, MaxPlayerSteps <- 2
DE == INSTANCE DraftEntities WITH
    NormalOf <- MCNormalOf, IdTags <- {"builtinName"}, PlainTags <- {"faceId", "edgeId"}, NoNames <- {"no_name"},
    FirstEntities <- MCEntities, FirstInfo <- MCInfo, ShownFaces <- MCFaces, ShownEdges <- MCEdges, EntityTypes <- {"Box"},
    TypedValues <- {0}, FreshIds <- <<new1, new2, new3, new4, new5, new6>>, GroupNames <- {"tail", "Wing"},
    MaxEntityClicks <- 3, NoId <- None
RR == INSTANCE ResultReview WITH
    Contents <- MCContents, Hinted <- {Text(2)}, Penalised <- {}, AxisNames <- {Text(1)}, MaxRows <- 3, MaxColumns <- 4,
    MaxPoints <- 4, TextCells <- MCTexts, Listing <- <<"fileA", "fileB">>, MaxTalk <- 2, MaxResultSteps <- 5,
    NoFile <- None
CI == INSTANCE CaseInventory WITH
    GroupLists <- MCGroupLists, OutputLists <- MCOutputLists, ArchiveSets <- MCFiles, NormOf <- MCNormOf,
    HintOf <- MCHintOf
RE == INSTANCE ReviewEvidence WITH
    Documents <- MCDocuments, MeshParams <- MCMeshParams, Reports <- MCReports,
    Statuses <- {"completed", "failed", "running", "queued", "odd", "success"}

ASSUME
    /\ D!DraftEditorAssumption
    /\ V!ViewerAssetsAssumption
    /\ G!GeometryReviewAssumption
    /\ GD!GeometryDiagnosticsAssumption
    /\ PI!ProjectInventoryAssumption
    /\ PR!ProjectResourcesAssumption
    /\ T!ResourceTreeAssumption
    /\ RD!ResourceDetailsAssumption
    /\ PD!ProjectDraftsAssumption
    /\ F!PlanFormAssumption
    /\ R!PlanReviewAssumption
    /\ RC!PlanRecoveryAssumption
    /\ C!CaseReviewAssumption
    /\ SF!SchemaFormAssumption
    /\ SU!SurfaceReviewAssumption
    /\ VO!VolumeReviewAssumption
    /\ W!WorkspaceFoldersAssumption
    /\ I!ImportFormAssumption
    /\ AC!AICreateAssumption
    /\ CO!CopilotAssumption
    /\ CP!CompareAssumption
    /\ PT!ComparePortsAssumption
    /\ VT!ViewerToolsAssumption
    /\ VI!ViewerInputAssumption
    /\ PB!SlicePlaybackAssumption
    /\ DE!DraftEntitiesAssumption
    /\ RR!ResultReviewAssumption

(***************************************************************************)
(* The composition                                                         *)
(***************************************************************************)
Off == <<"off">>
DVars == <<remote, page, editor, calls>>
VVars == <<owner, store, viewer>>
GVars == <<stored, geo>>
GDVars == <<jobs, diag, asked>>
PIVars == <<opened, tasks>>
PRVars == <<look, asks>>
TVars == <<tree>>
RDVars == <<details, reading>>
PDVars == <<held, shelf, lists, errands>>
FVars == <<form, formCalls>>
RVars == <<review, monitor, reviewCalls>>
RCVars == <<recovery, recoveryCalls>>
CVars == <<scene, loads>>
SFVars == <<sheet, probe>>
SUVars == <<surface, filters, beside>>
VOVars == <<volume, thresholds>>
WVars == <<cloud, home, folderOpened, reads>>
IVars == <<staged, importing, importCalls>>
ACVars == <<sessions, progress, runs, modal, network>>
COVars == <<chats, copilot, streaming, waiting>>
CPVars == <<facts, wspace, compare, cmpCalls>>
PTVars == <<pair, ports>>
VTVars == <<tools, notes, noteStore, noteCalls>>
VIVars == <<camera, press, snap, picks>>
PBVars == <<prepared, player, playing, polls>>
DEVars == <<params, panel, changes>>
RRVars == <<dataview, talk, memory, resultCalls>>

OffBut(s) ==
    /\ IF s = "drafts" THEN TRUE ELSE remote = Off /\ page = Off /\ editor = Off /\ calls = Off
    /\ IF s = "viewer" THEN TRUE ELSE owner = Off /\ store = Off /\ viewer = Off
    /\ IF s = "geometry" THEN TRUE ELSE stored = Off /\ geo = Off
    /\ IF s = "diagnostics" THEN TRUE ELSE jobs = Off /\ diag = Off /\ asked = Off
    /\ IF s = "inventory" THEN TRUE ELSE opened = Off /\ tasks = Off
    /\ IF s = "resources" THEN TRUE ELSE look = Off /\ asks = Off
    /\ IF s = "tree" THEN TRUE ELSE tree = Off
    /\ IF s = "details" THEN TRUE ELSE details = Off /\ reading = Off
    /\ IF s = "shelf" THEN TRUE ELSE held = Off /\ shelf = Off /\ lists = Off /\ errands = Off
    /\ IF s = "planform" THEN TRUE ELSE form = Off /\ formCalls = Off
    /\ IF s = "planreview" THEN TRUE ELSE review = Off /\ monitor = Off /\ reviewCalls = Off
    /\ IF s = "recovery" THEN TRUE ELSE recovery = Off /\ recoveryCalls = Off
    /\ IF s = "case" THEN TRUE ELSE scene = Off /\ loads = Off
    /\ IF s = "schema" THEN TRUE ELSE sheet = Off /\ probe = Off
    /\ IF s = "surface" THEN TRUE ELSE surface = Off /\ filters = Off /\ beside = Off
    /\ IF s = "volume" THEN TRUE ELSE volume = Off /\ thresholds = Off
    /\ IF s = "folders" THEN TRUE ELSE cloud = Off /\ home = Off /\ folderOpened = Off /\ reads = Off
    /\ IF s = "import" THEN TRUE ELSE staged = Off /\ importing = Off /\ importCalls = Off
    /\ IF s = "create" THEN TRUE ELSE sessions = Off /\ progress = Off /\ runs = Off /\ modal = Off /\ network = Off
    /\ IF s = "copilot" THEN TRUE ELSE chats = Off /\ copilot = Off /\ streaming = Off /\ waiting = Off
    /\ IF s = "compare" THEN TRUE ELSE facts = Off /\ wspace = Off /\ compare = Off /\ cmpCalls = Off
    /\ IF s = "ports" THEN TRUE ELSE pair = Off /\ ports = Off
    /\ IF s = "tools" THEN TRUE ELSE tools = Off /\ notes = Off /\ noteStore = Off /\ noteCalls = Off
    /\ IF s = "input" THEN TRUE ELSE camera = Off /\ press = Off /\ snap = Off /\ picks = Off
    /\ IF s = "playback" THEN TRUE ELSE prepared = Off /\ player = Off /\ playing = Off /\ polls = Off
    /\ IF s = "entities" THEN TRUE ELSE params = Off /\ panel = Off /\ changes = Off
    /\ IF s = "results" THEN TRUE ELSE dataview = Off /\ talk = Off /\ memory = Off /\ resultCalls = Off
StillBut(s) ==
    /\ UNCHANGED screen
    /\ IF s = "drafts" THEN TRUE ELSE UNCHANGED DVars
    /\ IF s = "viewer" THEN TRUE ELSE UNCHANGED VVars
    /\ IF s = "geometry" THEN TRUE ELSE UNCHANGED GVars
    /\ IF s = "diagnostics" THEN TRUE ELSE UNCHANGED GDVars
    /\ IF s = "inventory" THEN TRUE ELSE UNCHANGED PIVars
    /\ IF s = "resources" THEN TRUE ELSE UNCHANGED PRVars
    /\ IF s = "tree" THEN TRUE ELSE UNCHANGED TVars
    /\ IF s = "details" THEN TRUE ELSE UNCHANGED RDVars
    /\ IF s = "shelf" THEN TRUE ELSE UNCHANGED PDVars
    /\ IF s = "planform" THEN TRUE ELSE UNCHANGED FVars
    /\ IF s = "planreview" THEN TRUE ELSE UNCHANGED RVars
    /\ IF s = "recovery" THEN TRUE ELSE UNCHANGED RCVars
    /\ IF s = "case" THEN TRUE ELSE UNCHANGED CVars
    /\ IF s = "schema" THEN TRUE ELSE UNCHANGED SFVars
    /\ IF s = "surface" THEN TRUE ELSE UNCHANGED SUVars
    /\ IF s = "volume" THEN TRUE ELSE UNCHANGED VOVars
    /\ IF s = "folders" THEN TRUE ELSE UNCHANGED WVars
    /\ IF s = "import" THEN TRUE ELSE UNCHANGED IVars
    /\ IF s = "create" THEN TRUE ELSE UNCHANGED ACVars
    /\ IF s = "copilot" THEN TRUE ELSE UNCHANGED COVars
    /\ IF s = "compare" THEN TRUE ELSE UNCHANGED CPVars
    /\ IF s = "ports" THEN TRUE ELSE UNCHANGED PTVars
    /\ IF s = "tools" THEN TRUE ELSE UNCHANGED VTVars
    /\ IF s = "input" THEN TRUE ELSE UNCHANGED VIVars
    /\ IF s = "playback" THEN TRUE ELSE UNCHANGED PBVars
    /\ IF s = "entities" THEN TRUE ELSE UNCHANGED DEVars
    /\ IF s = "results" THEN TRUE ELSE UNCHANGED RRVars

Init ==
    \/ screen = "functions" /\ OffBut("functions")
    \/ screen = "drafts" /\ D!Init /\ OffBut("drafts")
    \/ screen = "viewer" /\ V!Init /\ OffBut("viewer")
    \/ screen = "geometry" /\ G!Init /\ OffBut("geometry")
    \/ screen = "diagnostics" /\ GD!Init /\ OffBut("diagnostics")
    \/ screen = "inventory" /\ PI!Init /\ OffBut("inventory")
    \/ screen = "resources" /\ PR!Init /\ OffBut("resources")
    \/ screen = "tree" /\ T!Init /\ OffBut("tree")
    \/ screen = "details" /\ RD!Init /\ OffBut("details")
    \/ screen = "shelf" /\ PD!Init /\ OffBut("shelf")
    \/ screen = "planform" /\ F!Init /\ OffBut("planform")
    \/ screen = "planreview" /\ R!Init /\ OffBut("planreview")
    \/ screen = "recovery" /\ RC!Init /\ OffBut("recovery")
    \/ screen = "case" /\ C!Init /\ OffBut("case")
    \/ screen = "schema" /\ SF!Init /\ OffBut("schema")
    \/ screen = "surface" /\ SU!Init /\ OffBut("surface")
    \/ screen = "volume" /\ VO!Init /\ OffBut("volume")
    \/ screen = "folders" /\ W!Init /\ OffBut("folders")
    \/ screen = "import" /\ I!Init /\ OffBut("import")
    \/ screen = "create" /\ AC!Init /\ OffBut("create")
    \/ screen = "copilot" /\ CO!Init /\ OffBut("copilot")
    \/ screen = "compare" /\ CP!Init /\ OffBut("compare")
    \/ screen = "ports" /\ PT!Init /\ OffBut("ports")
    \/ screen = "tools" /\ VT!Init /\ OffBut("tools")
    \/ screen = "input" /\ VI!Init /\ OffBut("input")
    \/ screen = "playback" /\ PB!Init /\ OffBut("playback")
    \/ screen = "entities" /\ DE!Init /\ OffBut("entities")
    \/ screen = "results" /\ RR!Init /\ OffBut("results")

Next ==
    \/ screen = "drafts" /\ D!Next /\ StillBut("drafts")
    \/ screen = "viewer" /\ V!Next /\ StillBut("viewer")
    \/ screen = "geometry" /\ G!Next /\ StillBut("geometry")
    \/ screen = "diagnostics" /\ GD!Next /\ StillBut("diagnostics")
    \/ screen = "inventory" /\ PI!Next /\ StillBut("inventory")
    \/ screen = "resources" /\ PR!Next /\ StillBut("resources")
    \/ screen = "tree" /\ T!Next /\ StillBut("tree")
    \/ screen = "details" /\ RD!Next /\ StillBut("details")
    \/ screen = "shelf" /\ PD!Next /\ StillBut("shelf")
    \/ screen = "planform" /\ F!Next /\ StillBut("planform")
    \/ screen = "planreview" /\ R!Next /\ StillBut("planreview")
    \/ screen = "recovery" /\ RC!Next /\ StillBut("recovery")
    \/ screen = "case" /\ C!Next /\ StillBut("case")
    \/ screen = "schema" /\ SF!Next /\ StillBut("schema")
    \/ screen = "surface" /\ SU!Next /\ StillBut("surface")
    \/ screen = "volume" /\ VO!Next /\ StillBut("volume")
    \/ screen = "folders" /\ W!Next /\ StillBut("folders")
    \/ screen = "import" /\ I!Next /\ StillBut("import")
    \/ screen = "create" /\ AC!Next /\ StillBut("create")
    \/ screen = "copilot" /\ CO!Next /\ StillBut("copilot")
    \/ screen = "compare" /\ CP!Next /\ StillBut("compare")
    \/ screen = "ports" /\ PT!Next /\ StillBut("ports")
    \/ screen = "tools" /\ VT!Next /\ StillBut("tools")
    \/ screen = "input" /\ VI!Next /\ StillBut("input")
    \/ screen = "playback" /\ PB!Next /\ StillBut("playback")
    \/ screen = "entities" /\ DE!Next /\ StillBut("entities")
    \/ screen = "results" /\ RR!Next /\ StillBut("results")

vars == <<screen, DVars, VVars, GVars, GDVars, PIVars, PRVars, TVars, RDVars, PDVars, FVars, RVars, RCVars, CVars, SFVars,
          SUVars, VOVars, WVars, IVars, ACVars, COVars, CPVars, PTVars, VTVars, VIVars, PBVars, DEVars, RRVars>>
Spec == Init /\ [][Next]_vars

(***************************************************************************)
(* Properties: each is of the whole application, screen by screen          *)
(***************************************************************************)
On(s, P) == screen = s => P

\* Every screen keeps a state of its type.
TypeOK ==
    /\ On("drafts", D!TypeOK) /\ On("viewer", V!TypeOK) /\ On("geometry", G!TypeOK)
    /\ On("diagnostics", GD!TypeOK) /\ On("inventory", PI!TypeOK) /\ On("resources", PR!TypeOK)
    /\ On("tree", T!TypeOK) /\ On("details", RD!TypeOK) /\ On("shelf", PD!TypeOK)
    /\ On("planform", F!TypeOK) /\ On("planreview", R!TypeOK) /\ On("recovery", RC!TypeOK)
    /\ On("case", C!TypeOK) /\ On("schema", SF!TypeOK) /\ On("surface", SU!TypeOK)
    /\ On("volume", VO!TypeOK) /\ On("folders", W!TypeOK) /\ On("import", I!TypeOK)
    /\ On("create", AC!TypeOK) /\ On("copilot", CO!TypeOK) /\ On("compare", CP!TypeOK)
    /\ On("ports", PT!TypeOK) /\ On("tools", VT!TypeOK) /\ On("input", VI!TypeOK)
    /\ On("playback", PB!TypeOK) /\ On("entities", DE!TypeOK) /\ On("results", RR!TypeOK)

\* What a screen shows is what was asked for last, and never an answer to an
\* earlier question: the asset of the resource chosen, the log of the length
\* wanted, the schema of the target, the fields all chosen objects have, the
\* questions of the session, the messages of the conversation, the evidence of
\* the revision, the annotations of the project, the chart of all its files.
ShownIsWhatIsAskedFor ==
    /\ On("viewer", V!ReadyShowsWanted) /\ On("resources", PR!DetailIsOfResource)
    /\ On("shelf", PD!DetailIsOfActive) /\ On("details", RD!LogIsWanted)
    /\ On("planform", F!SchemaIsOfTarget) /\ On("planreview", R!SnapshotSettles)
    /\ On("case", C!ViewerFollows /\ C!FieldIsCommon) /\ On("surface", SU!ComparisonIsOfChoice)
    /\ On("volume", VO!FieldFitsView /\ VO!ContextIsNoEvidence) /\ On("create", AC!QuestionsAreCurrent)
    /\ On("copilot", CO!MessagesAreOfScope /\ CO!AnswersFollowQuestions)
    /\ On("compare", CP!EvidenceIsOfRevision /\ CP!SessionsAreOfEvidence)
    /\ On("ports", PT!PickIsKept /\ PT!VisibilityIsKept) /\ On("tools", VT!ListsAreOfProject)
    /\ On("input", VI!SnapIsOffered) /\ On("playback", PB!ShownIsPrepared) /\ On("entities", DE!VisibleAreListed)
    /\ On("results", RR!CandidatesAreComplete /\ RR!ChartIsOfAllFiles /\ RR!QuestionsAreInOrder)

\* Every spinner, disabled control and "busy" flag has a request or a timer
\* that will end it: no screen waits for an answer nobody owes.
BusyIsBacked ==
    /\ On("diagnostics", GD!BusyIsBacked) /\ On("inventory", PI!BusyIsBacked) /\ On("resources", PR!LoadingIsBacked)
    /\ On("details", RD!BusyIsBacked) /\ On("shelf", PD!BusyIsBacked) /\ On("planform", F!BusyIsBacked)
    /\ On("planreview", R!BusyIsBacked) /\ On("recovery", RC!BusyIsBacked) /\ On("case", C!LoadingIsBacked)
    /\ On("schema", SF!CheckingIsBacked) /\ On("folders", W!BusyIsBacked) /\ On("import", I!BusyIsBacked)
    /\ On("create", AC!BusyIsBacked /\ AC!OneRunAtATime) /\ On("copilot", CO!BusyIsBacked) /\ On("compare", CP!BusyIsBacked)
    /\ On("tools", VT!BusyIsBacked) /\ On("input", VI!NavigatingIsBacked) /\ On("playback", PB!BusyIsBacked)
    /\ On("entities", DE!BusyIsBacked) /\ On("results", RR!BusyIsBacked)

\* What a screen refers to exists: the asset it shows has not been disposed of
\* and the cache holds no more than its users need; assigned materials, active
\* Drafts, selected faces, zones and folders are in the lists they are of; and
\* no filter or search loses what it should find.
ReferencesResolve ==
    /\ On("viewer", V!ShownAssetIsAlive /\ V!PinsMatchHolders /\ V!CacheIsBounded)
    /\ On("geometry", G!MaterialsExist) /\ On("inventory", PI!SettledShows) /\ On("resources", PR!RedirectsSettle)
    /\ On("tree", T!FilterFindsAll) /\ On("shelf", PD!ActiveIsListed)
    /\ On("folders", W!SearchFindsAll /\ W!SelectedIsStored)
    /\ On("surface", SU!SelectionExists /\ SU!ConflictsAreFound)
    /\ On("volume", VO!SelectionExists /\ VO!SoundRefinementsFit) /\ On("entities", DE!AllAreListed)

\* A screen does one thing at a time and each thing once: a schema is asked
\* for once, an intervention's questions only while they are needed, a round
\* of AI Create is counted, one tool collects points and one pointer holds the
\* camera, and a critical mesh threshold lies beyond the warning.
ProtocolIsKept ==
    /\ On("planform", F!AskedOnce) /\ On("recovery", RC!QuestionsAreNeeded) /\ On("create", AC!RoundsCount)
    /\ On("tools", VT!DraftIsComplete /\ VT!OneToolAtATime /\ VT!ShapesAreDistinct)
    /\ On("input", VI!MovesAreTold /\ VI!OneHolder) /\ On("volume", VO!ThresholdsOrdered)

\* Opening a form and closing it changes nothing; what it sends is what its
\* schema allows; entities it does not know and boxes it only edits in part
\* come back whole; a stored filter is read back as it was; and the changes the
\* assistant lists for confirmation are all of those its patch makes.
FormsSendWhatTheyHold ==
    /\ On("schema", SF!OpeningChangesNothing /\ SF!SendsItsSchema /\ SF!UnknownEntitiesKept)
    /\ On("surface", SU!FilterComesBack) /\ On("entities", DE!SavedBoxesAgree)
    /\ On("copilot", CO!DefaultsFitControls /\ (copilot.update # 0 => SF!ChangesAreComplete(copilot.draft, copilot.patch)))

\* The functions the screens compute with, over bounded inputs: the tables and
\* charts of results, the inventory of a Case, the evidence of the reviews,
\* snapping, measuring, the timeline of a playback, and selection groups.
FunctionsAreSound ==
    On("functions",
        /\ RR!ReaderFindsWhatIsWritten /\ RR!TruncationIsTold /\ RR!SamplesSpanTheRows /\ RR!SummaryIsOfTheTable
        /\ RR!RecommendedIsDrawn /\ RR!CompatibleFilesCompare
        /\ CI!GroupsAreReachedOnce /\ CI!OutputsAreListed /\ CI!FoldersHideTheirOwn /\ CI!IsolationKeepsTheSelected
        /\ RE!SearchFindsTheFirst /\ RE!ReadinessIsEarned /\ RE!RemediationOnlyRefines /\ RE!EndedCasesHideNothing
        /\ VI!SnapsAreSound /\ VT!ResultsAreSound /\ PB!TimelineIsSynchronous
        /\ DE!SavedGroupsAreOffered /\ DE!GroupsAreWhole /\ DE!SoundEntitiesAreDrawn)

\* What the user has typed or chosen is replaced only by the user: an AI patch
\* or an answer that comes late keeps the editor's document in reach of undo,
\* the edited fields, the typed name, the chosen folder and the snap, the
\* revisions of a comparison, the rest of an edited entity; and what a later
\* choice has put in place stays.
InputIsKept ==
    [][/\ On("drafts", D!CandidateKept) /\ On("geometry", G!RoleKept) /\ On("resources", PR!OverlayOnce)
       /\ On("planform", F!FillKeeps) /\ On("case", C!LaterLayer) /\ On("volume", VO!SelectedVariantIsShown)
       /\ On("folders", W!RestoreKeepsChoice) /\ On("import", I!NameIsKept) /\ On("compare", CP!KeepsHistory)
       /\ On("input", VI!ChoiceIsKept) /\ On("entities", DE!EditKeepsTheRest)]_vars

\* No step is taken that what went before does not allow: a cancelled job does
\* not come back, a plan is run only for the panel's own Draft, an import only
\* after it was confirmed, a recovery leaves the others alone, and a playback
\* goes on only when the next frame is ready.
StepsAreAllowed ==
    [][/\ On("diagnostics", GD!CancelledStays) /\ On("planreview", R!OfThisDraft) /\ On("recovery", RC!ChoiceStays)
       /\ On("import", I!RunIsConfirmed) /\ On("playback", PB!AdvancesWhenReady)]_vars
==============================================================================
