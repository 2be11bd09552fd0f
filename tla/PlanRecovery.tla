---------------------------- MODULE PlanRecovery ----------------------------
(***************************************************************************)
(* InterventionPanel: the interventions of a project, polled every two     *)
(* seconds, the one that is shown, and what the user does with it.  The    *)
(* Agent moves interventions on by itself, so a list is any states; the    *)
(* answer to a list that was asked for before an action may come after it. *)
(***************************************************************************)
EXTENDS Naturals, Sequences, FiniteSets, SequencesExt

CONSTANTS
    Interventions, \* sequence of the interventions, as the server lists them
    PlanOfIntervention, \* their plans
    AskedPlans,    \* the plans for which the panel may be opened
    MaxRecoverySteps, \* bound on the user's steps of a behaviour
    NoIntervention \* "none shown"

PlanRecoveryAssumption ==
    /\ Interventions \in Seq(ToSet(Interventions)) /\ IsInjective(Interventions)
    /\ Interventions # <<>>
    /\ NoIntervention \notin ToSet(Interventions) /\ MaxRecoverySteps \in Nat

VARIABLES
    recovery,     \* the panel
    recoveryCalls \* requests under way

\* "diagnosis" stands for the states in which the Agent works.
InterventionStates == {"diagnosis", "missing_input", "proposal", "failed", "resolved", "closed"}
Over == {"resolved", "closed"}
Ids == ToSet(Interventions)

(***************************************************************************)
(* chooseIntervention: which of the interventions `items', with their      *)
(* states, to show for a plan; `id' is the one shown before.               *)
(***************************************************************************)
FirstThat(set) == IF set = {} THEN {}
                  ELSE {CHOOSE i \in set : \A j \in set :
                          \E x, y \in 1..Len(Interventions) :
                            x <= y /\ Interventions[x] = i /\ Interventions[y] = j}
ChooseIntervention(items, plan, id) ==
    LET listed == DOMAIN items
        active == {i \in listed : items[i] \notin Over}
        current == {id} \intersect listed
        relevant == IF plan # NoIntervention THEN {plan} ELSE {PlanOfIntervention[i] : i \in current}
        choices == << current \intersect active,
                      FirstThat({i \in active : PlanOfIntervention[i] \in relevant}),
                      current, FirstThat(active),
                      FirstThat({i \in listed : PlanOfIntervention[i] = plan}), FirstThat(listed) >>
        some == {k \in 1..6 : choices[k] # {}}
    IN  IF some = {} THEN NoIntervention
        ELSE CHOOSE i \in choices[CHOOSE k \in some : \A l \in some : k <= l] : TRUE

(***************************************************************************)
(* The panel.                                                              *)
(***************************************************************************)
\* The effect of a change of the intervention shown or of its state: questions
\* open the dialog, and anything else closes it.
Shown(r, id, state, questions) ==
    [r EXCEPT !.id = id, !.state = state,
              !.asking = IF id = r.id /\ state = r.state THEN @
                         ELSE state = "missing_input" /\ questions]

Init ==
    /\ recovery = [open |-> FALSE, plan |-> NoIntervention, list |-> [i \in {} |-> "closed"],
                   id |-> NoIntervention, state |-> "closed", asking |-> FALSE,
                   busy |-> "no", steps |-> 0]
    /\ recoveryCalls = {}

TypeOK ==
    /\ DOMAIN recovery.list \subseteq Ids
    /\ recovery.id \in Ids \union {NoIntervention} /\ recovery.state \in InterventionStates
    /\ recovery.plan \in AskedPlans \union {NoIntervention}
    /\ recovery.busy \in {"no", "answer", "select", "close"}

RecoveryOffers(r) ==
    IF ~r.open \/ r.id = NoIntervention THEN {} ELSE
      {o \in {"select", "dismiss", "questions", "plan"} :
         CASE o = "select" -> r.state = "proposal" /\ r.busy = "no"
           [] o = "dismiss" -> r.state \in {"proposal", "failed", "resolved"} /\ r.busy = "no"
           [] o = "questions" -> r.state = "missing_input" /\ r.busy = "no"
           [] o = "plan" -> r.state \in Over}
Offered(o) == o \in RecoveryOffers(recovery) /\ ~recovery.asking

Step == recovery.steps < MaxRecoverySteps
Stepped == [recovery EXCEPT !.steps = @ + 1]
List(r) == [kind |-> "list", plan |-> r.plan]

\* The effect of the panel: a list at once, and one every two seconds
Open == /\ Step /\ ~recovery.open
        /\ \E p \in AskedPlans :
             LET r == [Stepped EXCEPT !.open = TRUE, !.plan = p]
             IN  recovery' = r /\ recoveryCalls' = recoveryCalls \union {List(r)}
Tick == /\ recovery.open /\ recoveryCalls' = recoveryCalls \union {List(recovery)}
        /\ UNCHANGED recovery
Close == recovery.open /\ recovery' = [recovery EXCEPT !.open = FALSE] /\ UNCHANGED recoveryCalls

ListArrives(c) ==
    /\ c.kind = "list" /\ recoveryCalls' = recoveryCalls \ {c}
    /\ \/ UNCHANGED recovery   \* "Failed to load interventions"
       \/ \E listed \in SUBSET Ids : \E items \in [listed -> InterventionStates], q \in BOOLEAN :
            LET id == ChooseIntervention(items, c.plan, recovery.id)
                r == [recovery EXCEPT !.list = items]
            IN  recovery' = IF id = NoIntervention
                            THEN [r EXCEPT !.id = id, !.state = "closed", !.asking = FALSE]
                            ELSE Shown(r, id, items[id], q)

Choose == /\ Step /\ recovery.open /\ ~recovery.asking
          /\ \E i \in DOMAIN recovery.list, q \in BOOLEAN :
               recovery' = Shown(Stepped, i, recovery.list[i], q)
          /\ UNCHANGED recoveryCalls

Ask(r, kind) == /\ recovery' = [r EXCEPT !.busy = kind]
                /\ recoveryCalls' = recoveryCalls \union {[kind |-> kind, id |-> recovery.id]}
SelectProposal == Step /\ Offered("select") /\ Ask(Stepped, "select")
CloseIntervention == Step /\ Offered("dismiss") /\ Ask(Stepped, "close")
AnswerQuestions == /\ Step /\ recovery.open /\ recovery.asking /\ recovery.busy = "no"
                   /\ recovery.id # NoIntervention /\ Ask(Stepped, "answer")
OpenQuestions == /\ Step /\ Offered("questions")
                 /\ recovery' = [Stepped EXCEPT !.asking = TRUE] /\ UNCHANGED recoveryCalls
CloseQuestions == /\ recovery.open /\ recovery.asking /\ recovery.busy # "answer"
                  /\ recovery' = [recovery EXCEPT !.asking = FALSE] /\ UNCHANGED recoveryCalls
\* "Review repaired Draft" closes the panel for that of the plan.
OpenPlan == /\ Offered("plan") /\ recovery' = [recovery EXCEPT !.open = FALSE]
            /\ UNCHANGED recoveryCalls

\* handleSelectProposal, handleClose and handleClarification end: the answer is
\* shown, and takes its place in the list.
ActionArrives(c) ==
    /\ c.kind # "list" /\ recoveryCalls' = recoveryCalls \ {c}
    /\ \/ recovery' = [recovery EXCEPT !.busy = "no"]
       \/ \E state \in InterventionStates, q \in BOOLEAN :
            LET free == [recovery EXCEPT !.busy = "no",
                           !.list = [i \in DOMAIN @ |-> IF i = c.id THEN state ELSE @[i]]]
                shown == Shown(free, c.id, state, q)
            IN  recovery' = IF c.kind = "answer"
                            THEN [shown EXCEPT !.asking = state = "missing_input" /\ q] ELSE shown

Next ==
    \/ Open \/ Tick \/ Close \/ Choose \/ SelectProposal \/ CloseIntervention \/ AnswerQuestions
    \/ OpenQuestions \/ CloseQuestions \/ OpenPlan
    \/ \E c \in recoveryCalls : ListArrives(c) \/ ActionArrives(c)

vars == <<recovery, recoveryCalls>>
Spec == Init /\ [][Next]_vars

(***************************************************************************)
(* Properties.                                                             *)
(***************************************************************************)
\* The dialog asks only for an intervention that needs input, although lists
\* and answers change what is shown while it is open.
QuestionsAreNeeded == recovery.asking => recovery.state = "missing_input"

\* A spinner has its request, and there is one action at a time.
BusyIsBacked ==
    /\ recovery.busy = "no" <=> \A c \in recoveryCalls : c.kind = "list"
    /\ \A c, d \in recoveryCalls : c.kind # "list" /\ d.kind # "list" => c = d

\* A list never takes the user away from an intervention that is still open.
ChoiceStays ==
    \A c \in recoveryCalls \ recoveryCalls' :
      (/\ c.kind = "list" /\ recovery.id \in DOMAIN recovery'.list
       /\ recovery'.list[recovery.id] \notin Over) => recovery'.id = recovery.id
=============================================================================
