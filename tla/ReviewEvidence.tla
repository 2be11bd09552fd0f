--------------------------- MODULE ReviewEvidence ---------------------------
(***************************************************************************)
(* What the reviews of a Geometry and of a Case read from the documents    *)
(* the server passes on: the search for a value under any of several keys, *)
(* the checks of a Geometry and its readiness, the status of a Case and    *)
(* the read errors worth showing.  Pure, and only evaluated.               *)
(*                                                                         *)
(* A document is a leaf, a list or an object whose entries are in order;   *)
(* of a leaf only its type and the number it stands for are kept (a text   *)
(* that writes a number is a "number").                                    *)
(***************************************************************************)
EXTENDS Naturals, Sequences, FiniteSets, SequencesExt, TLC

CONSTANTS
    Documents,   \* documents the metadata may be
    MeshParams,  \* meshing defaults of a surface mesh: functions from paths to leaves
    Reports,     \* reports of the diagnosis: functions from checks to [level, count]
    Statuses     \* states of a resource

Missing == [kind |-> "missing"]
Leaf(type, number) == [kind |-> "leaf", type |-> type, number |-> number]
Items(items) == [kind |-> "list", items |-> items]
Object(entries) == [kind |-> "object", entries |-> entries]
IsEmpty(v) == v.kind = "leaf" /\ v.type \in {"null", "empty"}

FirstFound(found) ==
    LET there == SelectSeq(found, LAMBDA v : v # Missing) IN IF there = <<>> THEN Missing ELSE there[1]
\* findGeometryValue, and findMetric, which takes an empty value too.
RECURSIVE Find(_, _, _)
Find(v, aliases, empty) ==
    CASE v.kind = "list" -> FirstFound([i \in DOMAIN v.items |-> Find(v.items[i], aliases, empty)])
      [] v.kind = "object" -> FirstFound([i \in DOMAIN v.entries |->
            LET child == v.entries[i][2]
            IN  IF v.entries[i][1] \in aliases /\ (empty \/ ~IsEmpty(child)) THEN child ELSE Find(child, aliases, empty)])
      [] OTHER -> Missing
findGeometryValue(v, aliases) == Find(v, aliases, FALSE)
findMetric(v, aliases) == Find(v, aliases, TRUE)

\* The number a value stands for, <<>> if it stands for none.
RECURSIVE numericValue(_)
numericValue(v) ==
    CASE v.kind = "leaf" /\ v.type = "number" -> <<v.number>>
      [] v.kind = "object" /\ (\E i \in DOMAIN v.entries : v.entries[i][1] = "value") ->
           numericValue((CHOOSE e \in ToSet(v.entries) : e[1] = "value")[2])
      [] OTHER -> <<>>
\* The entities a list names: a text names itself, an object by the first of
\* its names that is not null, when that is a text.
Names(e) == SelectSeq(FlattenSeq([k \in 1..3 |-> SelectSeq(e.entries, LAMBDA entry : entry[1] = <<"id", "entity_id", "name">>[k])]),
                      LAMBDA entry : entry[2] # Leaf("null", 0))
EntityCount(v) ==
    LET Text(e) == e.kind = "leaf" /\ e.type \in {"text", "empty"}
    IN  Len(SelectSeq(v.items, LAMBDA e : \/ Text(e)
                                          \/ e.kind = "object" /\ Names(e) # <<>> /\ Text(Names(e)[1][2])))

(***************************************************************************)
(* The review of a Geometry                                                *)
(***************************************************************************)
Topology == [freeEdges |-> {"free_edge_count", "free_edges", "open_edge_count", "open_edges"},
             nonManifold |-> {"non_manifold_edge_count", "non_manifold_edges", "nonmanifold_edge_count"},
             intersections |-> {"self_intersection_count", "self_intersections", "intersection_count"},
             components |-> {"disconnected_component_count", "disconnected_components", "component_count"}]
Questions == DOMAIN Topology
Allowed(q) == IF q = "components" THEN 1 ELSE 0
Severity(q) == IF q = "components" THEN "warning" ELSE "blocked"
\* How many there are by the metadata.
Reported(metadata, q) ==
    LET raw == findGeometryValue(metadata, Topology[q])
    IN  IF raw.kind = "list" /\ EntityCount(raw) > 0 THEN <<EntityCount(raw)>> ELSE numericValue(raw)
diagnosticCheck(metadata, q) ==
    LET count == Reported(metadata, q)
    IN  IF count = <<>> THEN "unknown" ELSE IF count[1] > Allowed(q) THEN Severity(q) ELSE "ready"
\* The report decides on what it has looked at.
topologyCheck(metadata, report, q) ==
    IF q \in DOMAIN report THEN report[q].level ELSE diagnosticCheck(metadata, q)

Processed == {"completed", "processed", "success"}
buildGeometryReview(metadata, unitSource, errors, view, status, report) ==
    LET auto == view.groups # <<>> /\ \A i \in DOMAIN view.groups : view.groups[i] = "generated"
        unit == findGeometryValue(unitSource, {"length_unit", "lengthunit", "project_length_unit", "unit"})
        Level(ok, otherwise) == IF ok THEN "ready" ELSE otherwise
        checks == <<Level(status \in Processed, "blocked"), Level(unit # Missing, "blocked"),
                    Level(view.bounded, "warning"), Level(view.groups # <<>>, "warning"),
                    Level(~auto /\ view.groups # <<>>, "warning"), Level(errors = {}, "blocked")>>
        levels == ToSet(checks) \union {topologyCheck(metadata, report, q) : q \in Questions}
    IN  IF "blocked" \in levels THEN "blocked" ELSE IF levels \intersect {"warning", "unknown"} # {} THEN "warning" ELSE "ready"

(***************************************************************************)
(* The remediation of a surface mesh: numbers in thousandths, a quantity    *)
(* by its number                                                           *)
(***************************************************************************)
\* compareSurfaceParameters
compareSurfaceParameters(before, after) ==
    {[path |-> p, kind |-> CASE p \notin DOMAIN before -> "added" [] p \notin DOMAIN after -> "removed" [] OTHER -> "changed"] :
        p \in {q \in DOMAIN before \union DOMAIN after :
                 ~(q \in DOMAIN before \intersect DOMAIN after /\ before[q] = after[q])}}
scaleParameter(v, percent) == IF v.type # "number" THEN v ELSE Leaf(v.type, (v.number * percent) \div 100)
AtMost(params, path, limit) ==
    Leaf("number", IF path \in DOMAIN params /\ params[path].type = "number" /\ params[path].number < limit
                   THEN params[path].number ELSE limit)
\* buildSurfaceRemediationRecommendation: the defaults proposed for a bad
\* value of a field whose name tells the kinds.
buildSurfaceRemediationRecommendation(kinds, params) ==
    (IF "max_edge" \in DOMAIN params THEN "max_edge" :> scaleParameter(params["max_edge"], 75) ELSE <<>>)
    @@ "growth" :> AtMost(params, "growth", 1150)
    @@ (IF "aspect" \in kinds THEN "aspect" :> AtMost(params, "aspect", 20000) ELSE <<>>)
    @@ (IF "angle" \notin kinds THEN <<>>
        ELSE "angle" :> IF "angle" \in DOMAIN params THEN scaleParameter(params["angle"], 80) ELSE Leaf("number", 12000))

(***************************************************************************)
(* The review of a Case                                                    *)
(***************************************************************************)
mapCaseStatus(raw) ==
    CASE raw \in {"queued", "pending", "waiting"} -> "queued"
      [] raw \in {"preprocessing", "pre-process"} -> "preprocessing"
      [] raw \in {"running", "executing"} -> "running"
      [] raw \in {"completed", "processed", "success", "done"} -> "completed"
      [] raw \in {"failed", "error", "crashed"} -> "failed"
      [] OTHER -> "unknown"
isTerminal(view) == view \in {"completed", "failed"}
caseRecoverableReadErrors(raw, errors) ==
    IF isTerminal(mapCaseStatus(raw)) THEN errors ELSE errors \ {"simulation_params", "results", "convergence"}
\* Whether something is said about a Case whose results are not there yet.
Readiness(raw, results) ==
    CASE mapCaseStatus(raw) \in {"queued", "preprocessing"} -> "later"
      [] mapCaseStatus(raw) = "running" -> IF results = 0 THEN "none yet" ELSE "partial"
      [] OTHER -> "nothing"
Either(v, w) == IF v \notin {Missing, Leaf("null", 0)} THEN v ELSE w
normalizeCase(raw, summary, params) ==
    [status |-> mapCaseStatus(raw),
     runTime |-> findMetric(summary, {"elapsed_time", "run_time", "duration", "wall_time"}),
     operatingPoint |-> Either(findMetric(params, {"operating_condition"}), findMetric(summary, {"operating_condition"})),
     turbulence |-> Either(findMetric(summary, {"turbulence_model", "turbulence"}), findMetric(params, {"turbulence_model"}))]

(***************************************************************************)
(* Properties                                                              *)
(***************************************************************************)
\* All values under one of the keys, in the order of the document.
RECURSIVE Occurrences(_, _)
Occurrences(v, aliases) ==
    CASE v.kind = "list" -> FlattenSeq([i \in DOMAIN v.items |-> Occurrences(v.items[i], aliases)])
      [] v.kind = "object" -> FlattenSeq([i \in DOMAIN v.entries |->
            (IF v.entries[i][1] \in aliases THEN <<v.entries[i][2]>> ELSE <<>>) \o Occurrences(v.entries[i][2], aliases)])
      [] OTHER -> <<>>
\* The search finds the first value of the document under one of the keys that
\* says something, however deep it lies and whatever empty ones come before.
SearchFindsTheFirst ==
    \A v \in Documents, q \in Questions :
        LET telling == SelectSeq(Occurrences(v, Topology[q]), LAMBDA w : ~IsEmpty(w))
        IN  findGeometryValue(v, Topology[q]) = (IF telling = <<>> THEN Missing ELSE telling[1])

\* A Geometry is ready only when it has been processed and its length unit is
\* known, when all it was read from could be read, and when each question about
\* its topology has an answer in its favour: from the report, or a number in
\* the metadata.  What is not known is never taken as passed.
Inventories == {[bounded |-> TRUE, groups |-> <<"named">>], [bounded |-> TRUE, groups |-> <<"generated">>],
                [bounded |-> FALSE, groups |-> <<>>]}
ReadinessIsEarned ==
    \A metadata \in Documents, units \in Documents, report \in Reports, status \in Statuses, view \in Inventories,
       errors \in SUBSET {"results"} :
        buildGeometryReview(metadata, units, errors, view, status, report) = "ready" =>
            /\ status \in Processed /\ errors = {} /\ Occurrences(units, {"length_unit", "unit"}) # <<>>
            /\ \A q \in Questions :
                 IF q \in DOMAIN report THEN report[q].level = "ready"
                 ELSE \E w \in ToSet(Occurrences(metadata, Topology[q])) :
                        \/ w.kind = "list" /\ Len(w.items) <= Allowed(q)
                        \/ w.kind # "list" /\ numericValue(w) # <<>> /\ numericValue(w)[1] <= Allowed(q)

\* A remediation only refines: of the mesh's own numbers none becomes coarser
\* and none is dropped, and the comparison with the parameters before tells of
\* every change the patch makes.
RemediationOnlyRefines ==
    \A params \in MeshParams, kinds \in SUBSET {"aspect", "angle"} :
        LET patch == buildSurfaceRemediationRecommendation(kinds, params)
            after == patch @@ params
            told == compareSurfaceParameters(params, after)
        IN  /\ \A p \in DOMAIN params : params[p].type = "number" => after[p].number <= params[p].number
            /\ \A p \in DOMAIN after : (p \notin DOMAIN params \/ after[p] # params[p]) =>
                 p \in DOMAIN patch /\ \E d \in told : d.path = p /\ d.kind # "removed"

\* Of a Case that has ended every failed read is shown; of one that has not,
\* those of what is not there yet are left out only while that can be said.
EndedCasesHideNothing ==
    \A status \in Statuses, errors \in SUBSET {"simulation_params", "results", "convergence", "summary"} :
        /\ isTerminal(normalizeCase(status, Missing, Missing).status) =>
             caseRecoverableReadErrors(status, errors) = errors /\ Readiness(status, 0) = "nothing"
        /\ errors \ caseRecoverableReadErrors(status, errors) \subseteq {"simulation_params", "results", "convergence"}
=============================================================================
