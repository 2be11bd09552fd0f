------------------------------ MODULE PlanForm ------------------------------
(***************************************************************************)
(* The form of PlanPanel: the schema of the target, the values of each     *)
(* stage, the Agent that fills them and asks questions, and the compile.   *)
(*                                                                         *)
(* A stage is its number: 1 SurfaceMesh, 2 VolumeMesh, 3 Case; a resource  *)
(* has the number of its stage and a Geometry 0, and a target is the last  *)
(* stage to run.  A patch maps the paths it sets to who set them, "user"   *)
(* or "agent".                                                             *)
(***************************************************************************)
EXTENDS Naturals, FiniteSets, FiniteSetsExt, Functions

CONSTANTS
    SourceStage, \* the stage of the resource the form is about
    Paths,       \* parameter paths of the patches
    StageForPath,\* stageForPath: the stage that a path belongs to
    Fields,      \* what the Agent may ask about
    MaxFormSteps,\* bound on the user's steps of a behaviour
    NoTarget     \* "no schema"

PlanFormAssumption ==
    /\ SourceStage \in 0..3 /\ MaxFormSteps \in Nat
    /\ StageForPath \in [Paths -> 1..3] /\ NoTarget \notin 1..3

VARIABLES
    form,     \* the panel with its form
    formCalls \* requests under way

(***************************************************************************)
(* Stages and patches.                                                     *)
(***************************************************************************)
Targets == IF SourceStage = 3 THEN {3} ELSE (SourceStage + 1)..3

DownstreamStages(target) ==
    IF SourceStage = 3 THEN {3} ELSE (SourceStage + 1)..target

EmptyPatch == [p \in {} |-> "user"]
NoValues == [s \in 1..3 |-> EmptyPatch]
Over(patch, base) == [p \in DOMAIN patch \union DOMAIN base |->
                        IF p \in DOMAIN patch THEN patch[p] ELSE base[p]]

\* mergeStagePatches: a later stage over an earlier one
MergeStagePatches(stages, values, advanced) ==
    LET Setters(p) == {s \in stages : p \in DOMAIN values[s]}
        staged == [p \in UNION {DOMAIN values[s] : s \in stages} |-> values[Max(Setters(p))][p]]
    IN  Over(advanced, staged)

\* partitionPatchByStages: a path of a stage that does not run goes to the last
PartitionPatchByStages(patch, stages) ==
    LET StageOf(p) == IF StageForPath[p] \in stages THEN StageForPath[p] ELSE Max(stages)
    IN  [s \in 1..3 |-> Restrict(patch, {p \in DOMAIN patch : StageOf(p) = s})]

ApplyProposalToStagePatches(stages, values, proposal) ==
    PartitionPatchByStages(MergeStagePatches(stages, values, proposal), stages)

(***************************************************************************)
(* The form.                                                               *)
(***************************************************************************)
ActiveStages(f) == DownstreamStages(f.target)
Showing(f) == f.open /\ f.show
Candidate(f) == MergeStagePatches(ActiveStages(f), f.values, EmptyPatch)
CompileBlocked(f) == f.schemaLoading \/ f.schema = NoTarget

\* What the change of the target and of the resource both forget
Unassisted(f) == [f EXCEPT !.values = NoValues, !.schema = NoTarget, !.asked = {},
                           !.questions = {}, !.confirmed = {}, !.stalled = FALSE, !.failed = FALSE]

\* The schema effect: it runs when the form is shown for another target or
\* again, and the answer to the request before it counts no more.
SchemaCalls == {c \in formCalls : c.kind = "schema"}
Unloaded(cs) == {c \in cs : c.kind # "schema"}
Rendered(f, cs) ==
    IF ~Showing(f) THEN form' = f /\ formCalls' = Unloaded(cs)
    ELSE /\ form' = [f EXCEPT !.schemaLoading = TRUE]
         /\ formCalls' = Unloaded(cs) \union {[kind |-> "schema", target |-> f.target]}

Init ==
    /\ formCalls = {}
    /\ form = [open |-> FALSE, show |-> TRUE, target |-> Min(Targets), values |-> NoValues,
               schema |-> NoTarget, schemaLoading |-> FALSE, assisting |-> FALSE, asked |-> {},
               questions |-> {}, confirmed |-> {}, stalled |-> FALSE, failed |-> FALSE,
               compiling |-> FALSE, steps |-> 0]

TypeOK ==
    /\ form.target \in Targets /\ form.schema \in Targets \union {NoTarget}
    /\ \A s \in 1..3 : DOMAIN form.values[s] \subseteq Paths
    /\ form.asked \subseteq Fields /\ form.questions \subseteq form.asked
    /\ form.confirmed \subseteq Fields
    /\ Cardinality(SchemaCalls) <= 1

Step == /\ form.steps < MaxFormSteps
Stepped == [form EXCEPT !.steps = @ + 1]

\* The open effect; the panel is mounted when it is closed too, and requests of
\* before go on.  A panel opened on a review shows no form.
Open == /\ Step /\ ~form.open
        /\ \E review \in BOOLEAN :
             Rendered([Unassisted(Stepped) EXCEPT !.open = TRUE, !.show = ~review,
                                                  !.target = Min(Targets)],
                      IF review THEN formCalls \union {[kind |-> "review"]} ELSE formCalls)
Close == form.open /\ Rendered([form EXCEPT !.open = FALSE], formCalls)

\* The history beside the form: a review, and "New revision" that returns
History == /\ Step /\ form.open /\ form.questions = {}
           /\ Rendered([Stepped EXCEPT !.show = ~@], formCalls)

ChangeTarget == /\ Step /\ Showing(form) /\ form.questions = {}
                /\ \E t \in Targets \ {form.target} :
                     Rendered([Unassisted(Stepped) EXCEPT !.target = t], formCalls)

\* A field of a stage's schema; a path may be in the schema of several stages.
Edit == /\ Step /\ Showing(form) /\ form.schema # NoTarget /\ form.questions = {}
        /\ \E s \in ActiveStages(form), p \in Paths :
             form' = [Stepped EXCEPT !.values[s] = Over([q \in {p} |-> "user"], @)]
        /\ UNCHANGED formCalls

SchemaArrives(c) ==
    /\ c.kind = "schema"
    /\ formCalls' = formCalls \ {c}
    /\ \E ok \in BOOLEAN :
         form' = [form EXCEPT !.schemaLoading = FALSE,
                              !.schema = IF ok THEN c.target ELSE NoTarget]

\* The review that a panel was opened on replaces the form, a later one too.
ReviewArrives(c) == /\ c.kind = "review"
                    /\ \/ Rendered([form EXCEPT !.show = FALSE], formCalls \ {c})
                       \/ form' = form /\ formCalls' = formCalls \ {c}

(***************************************************************************)
(* The Agent.                                                              *)
(***************************************************************************)
CanFill(f) == ~f.assisting /\ ~f.schemaLoading /\ f.schema # NoTarget

\* fillWithAI.  An expert patch that is no JSON object fails at once.
Filled(f, confirmed) ==
    LET asking == [f EXCEPT !.asked = {}, !.stalled = FALSE, !.failed = FALSE]
    IN  IF ~CanFill(f) THEN form' = f /\ UNCHANGED formCalls
        ELSE \/ /\ form' = [asking EXCEPT !.assisting = TRUE]
                /\ formCalls' = formCalls \union
                     {[kind |-> "assist", stages |-> ActiveStages(f), confirmed |-> confirmed]}
             \/ form' = [asking EXCEPT !.failed = TRUE] /\ UNCHANGED formCalls

FillWithAI == /\ Step /\ Showing(form) /\ CanFill(form) /\ form.questions = {}
              /\ Filled(Stepped, form.confirmed)

\* The answer: questions, of which those already answered are not shown, and a
\* proposal, whose values go to the forms at once.
AssistArrives(c) ==
    /\ c.kind = "assist"
    /\ formCalls' = formCalls \ {c}
    /\ \/ form' = [form EXCEPT !.assisting = FALSE, !.failed = TRUE]
       \/ \E questions \in SUBSET Fields, proposed \in SUBSET Paths :
            form' = [form EXCEPT !.assisting = FALSE, !.asked = questions,
                                 !.questions = questions \ c.confirmed,
                                 !.stalled = questions # {} /\ questions \subseteq c.confirmed,
                                 !.values = ApplyProposalToStagePatches(c.stages, @,
                                                                [p \in proposed |-> "agent"])]

\* AgentClarificationDialog: it asks all its questions, and sends all answers.
AnswerQuestions ==
    /\ Step /\ Showing(form) /\ form.questions # {} /\ ~form.assisting
    /\ LET confirmed == form.confirmed \union form.questions
       IN  Filled([Stepped EXCEPT !.confirmed = confirmed, !.questions = {}], confirmed)
CloseQuestions == /\ Showing(form) /\ form.questions # {} /\ ~form.assisting
                  /\ form' = [form EXCEPT !.questions = {}] /\ UNCHANGED formCalls
ReopenQuestions == /\ Step /\ Showing(form) /\ form.questions = {} /\ ~form.stalled
                   /\ form.asked \ form.confirmed # {}
                   /\ form' = [Stepped EXCEPT !.questions = form.asked \ form.confirmed]
                   /\ UNCHANGED formCalls

(***************************************************************************)
(* createPlan: the plan made is shown in place of the form.                *)
(***************************************************************************)
Compile == /\ Step /\ Showing(form) /\ ~form.compiling /\ ~CompileBlocked(form)
           /\ form.questions = {}
           /\ form' = [Stepped EXCEPT !.compiling = TRUE]
           /\ formCalls' = formCalls \union {[kind |-> "create"]}
CompileArrives(c) ==
    /\ c.kind = "create"
    /\ \E ok \in BOOLEAN :
         IF ok /\ Showing(form)
         THEN Rendered([form EXCEPT !.compiling = FALSE, !.show = FALSE], formCalls \ {c})
         ELSE /\ form' = [form EXCEPT !.compiling = FALSE, !.show = ~ok /\ @]
              /\ formCalls' = formCalls \ {c}

Next ==
    \/ Open \/ Close \/ History \/ ChangeTarget \/ Edit
    \/ FillWithAI \/ AnswerQuestions \/ CloseQuestions \/ ReopenQuestions \/ Compile
    \/ \E c \in formCalls : SchemaArrives(c) \/ ReviewArrives(c) \/ AssistArrives(c) \/ CompileArrives(c)

Spec == Init /\ [][Next]_<<form, formCalls>>

(***************************************************************************)
(* Properties.                                                             *)
(***************************************************************************)
\* The fields shown come from the schema of the target that is selected,
\* however requests for other targets and closed panels end.
SchemaIsOfTarget == form.schema \in {form.target, NoTarget}

\* The dialog never asks again what the user has already answered.
AskedOnce == form.questions \intersect form.confirmed = {}

\* A spinner of the form that is shown has its request under way.
BusyIsBacked ==
    /\ Showing(form) /\ form.schemaLoading => SchemaCalls # {}
    /\ form.assisting <=> \E c \in formCalls : c.kind = "assist"
    /\ form.compiling <=> \E c \in formCalls : c.kind = "create"

\* The Agent's answer changes what would be compiled at the paths it proposes
\* only, if the target is still the one it was asked for.
FillKeeps ==
    \A c \in formCalls :
      (c.kind = "assist" /\ c \notin formCalls' /\ c.stages = ActiveStages(form)) =>
        \A p \in DOMAIN Candidate(form) :
          p \in DOMAIN Candidate(form)' /\ Candidate(form)'[p] \in {Candidate(form)[p], "agent"}
=============================================================================
