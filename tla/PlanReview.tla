----------------------------- MODULE PlanReview -----------------------------
(***************************************************************************)
(* The review in PlanPanel of one plan: validation, the repair that the    *)
(* Agent proposes, approval, and the run with its confirmation dialog and  *)
(* ExecutionMonitor.                                                       *)
(*                                                                         *)
(* The panel stays mounted while it is closed: its requests go on, and     *)
(* their answers reach the panel that is open by then.  What the server    *)
(* does with a request is not modelled here; its answer is any state of    *)
(* the plan asked for.                                                     *)
(***************************************************************************)
EXTENDS Naturals, FiniteSets

CONSTANTS
    ReviewPlans,   \* plans
    DraftOf,       \* the Draft that each plan is bound to, or NoReview
    PanelDrafts,   \* what the panel may be opened for: a Draft, or NoReview
    MaxReviewSteps,\* bound on the user's steps of a behaviour
    NoReview       \* "no plan", "no Draft"

PlanReviewAssumption ==
    /\ DOMAIN DraftOf = ReviewPlans
    /\ NoReview \notin ReviewPlans /\ NoReview \in PanelDrafts /\ MaxReviewSteps \in Nat

VARIABLES
    review,     \* the panel
    monitor,    \* ExecutionMonitor, which the review shows
    reviewCalls \* requests under way

Statuses == {"draft", "approved", "submitted", "failed"}
\* `valid' stands for a preflight of the current revision with no error.
PlanValues(p) == [id : {p}, status : Statuses, valid : BOOLEAN]
Nothing == [id |-> NoReview, status |-> "draft", valid |-> FALSE]

(***************************************************************************)
(* What the panel offers.                                                  *)
(***************************************************************************)
ReviewMatchesDraft(r) == r.draft = NoReview \/ r.draft = DraftOf[r.selected.id]
Selected(r) == r.open /\ r.selected # Nothing /\ ~r.loading
PreflightReady(r) == r.selected.valid /\ ReviewMatchesDraft(r)
Idle(r) == r.busy = "no"
Modal(r) == r.dialog # "closed"

ReviewOffers(r) ==
    IF ~Selected(r) THEN {} ELSE
      {o \in {"preflight", "generate", "apply", "discard", "review", "approve", "continue",
              "confirm", "submit"} :
         CASE o = "preflight" -> ~r.validating
           [] o = "generate" -> r.candidate = NoReview /\ ~r.selected.valid /\ ~r.repairing
           [] o \in {"apply", "discard"} -> r.candidate # NoReview /\ ~r.validating
           [] o = "review" -> r.selected.status = "draft"
           [] o = "approve" -> r.selected.status = "draft" /\ r.reviewed /\ PreflightReady(r) /\ Idle(r)
           [] o = "continue" -> r.mode = "review" /\ r.selected.status = "approved" /\ PreflightReady(r)
           [] o \in {"confirm", "submit"} ->
                /\ r.mode = "run" /\ r.selected.status \in {"approved", "failed"} /\ PreflightReady(r)
                /\ o = "submit" => r.confirmed /\ Idle(r)}
Offered(o) == o \in ReviewOffers(review) /\ ~Modal(review)

Trackable(p) == p.status \in {"submitted", "failed"}
Tracked(r) == IF Selected(r) /\ Trackable(r.selected) THEN r.selected.id ELSE NoReview

(***************************************************************************)
(* ExecutionMonitor: `of' is the plan it shows, and `asking' that of its   *)
(* one request.  Its effects forget the snapshot of a former plan, and ask *)
(* anew when the plan, its status or the end of the snapshot change.       *)
(***************************************************************************)
NoMonitor == [of |-> NoReview, asking |-> NoReview, snapshot |-> NoReview, ended |-> FALSE,
              paused |-> FALSE, failed |-> FALSE]

Refresh(m) == IF m.asking = NoReview THEN [m EXCEPT !.asking = m.of] ELSE m
Followed(m, of) == [m EXCEPT !.of = of, !.snapshot = NoReview, !.ended = FALSE, !.paused = FALSE,
                           !.failed = FALSE]
Watch(r, m) == LET of == Tracked(r)
               IN  IF of = NoReview THEN NoMonitor   \* unmounted
                   ELSE IF m.of # of THEN Refresh(Followed(m, of))
                   ELSE IF r.selected.status # review.selected.status THEN Refresh(m) ELSE m

(***************************************************************************)
(* The panel.                                                              *)
(***************************************************************************)
Call(k, p) == [kind |-> k, plan |-> p]

\* The request of a monitor that is taken away is "lost" to it, not to the panel.
Becomes(r, calls) ==
    /\ review' = r /\ monitor' = Watch(r, monitor)
    /\ reviewCalls' = IF Tracked(r) = NoReview /\ monitor.asking # NoReview
                      THEN calls \union {Call("lost", monitor.asking)} ELSE calls
Sets(r) == Becomes(r, reviewCalls)
Asks(r, kind) == Becomes(r, reviewCalls \union {Call(kind, review.selected.id)})
Answers(c, r) == Becomes(r, reviewCalls \ {c})
Calls(ks) == {c \in reviewCalls : c.kind \in ks}

Fresh(r) == [r EXCEPT !.reviewed = FALSE, !.confirmed = FALSE, !.candidate = NoReview]

Init ==
    /\ review = [open |-> FALSE, draft |-> NoReview, mode |-> "run", selected |-> Nothing,
                 reviewed |-> FALSE, confirmed |-> FALSE, candidate |-> NoReview,
                 dialog |-> "closed", busy |-> "no", validating |-> FALSE, repairing |-> FALSE,
                 loading |-> FALSE, steps |-> 0]
    /\ monitor = NoMonitor
    /\ reviewCalls = {}

TypeOK ==
    /\ review.selected \in {Nothing} \union UNION {PlanValues(p) : p \in ReviewPlans}
    /\ review.draft \in PanelDrafts /\ review.mode \in {"review", "run"}
    /\ review.candidate \in ReviewPlans \union {NoReview}
    /\ review.dialog \in {"closed", "opening", "open"} /\ review.busy \in {"no", "approve", "run"}
    /\ {monitor.of, monitor.asking, monitor.snapshot} \subseteq ReviewPlans \union {NoReview}
    /\ reviewCalls \subseteq [kind : {"open", "preflight", "repair", "apply", "approve", "run", "lost"},
                              plan : ReviewPlans]

Step == review.steps < MaxReviewSteps
Stepped == [review EXCEPT !.steps = @ + 1]

\* The open effect.  The review of a Draft's panel is the plan of the URL or of
\* an Agent, which may be bound to another Draft.
Open == /\ Step /\ ~review.open
        /\ \E d \in PanelDrafts, p \in ReviewPlans, m \in {"review", "run"} :
             Becomes([Fresh(Stepped) EXCEPT !.open = TRUE, !.draft = d, !.mode = m,
                                            !.selected = Nothing, !.loading = TRUE,
                                            !.dialog = "closed"],
                     reviewCalls \union {Call("open", p)})
OpenArrives(c) == /\ c.kind = "open"
                  /\ \E v \in PlanValues(c.plan) \union {review.selected} :
                       Answers(c, [review EXCEPT !.selected = v, !.loading = FALSE])
Close == /\ review.open /\ Sets([review EXCEPT !.open = FALSE])

\* The history, which the panel of a Draft does not show
Choose == /\ Step /\ review.open /\ review.draft = NoReview /\ ~Modal(review)
          /\ \E p \in ReviewPlans \ {review.selected.id} : \E v \in PlanValues(p) :
               Sets([Fresh(Stepped) EXCEPT !.selected = v])

Continue == /\ Offered("continue") /\ Sets([review EXCEPT !.mode = "run"])
Check == /\ Step
         /\ \/ Offered("review") /\ Sets([Stepped EXCEPT !.reviewed = ~@])
            \/ Offered("confirm") /\ Sets([Stepped EXCEPT !.confirmed = ~@])

\* refreshPreflight
RefreshPreflight == /\ Step /\ Offered("preflight")
                    /\ Asks([Stepped EXCEPT !.validating = TRUE], "preflight")
PreflightArrives(c) ==
    /\ c.kind = "preflight"
    /\ \/ \E v \in PlanValues(c.plan) :
            Answers(c, [review EXCEPT !.validating = FALSE, !.selected = v, !.candidate = NoReview])
       \/ Answers(c, [review EXCEPT !.validating = FALSE])

\* generateReviewedRepair
GenerateRepair == /\ Step /\ Offered("generate")
                  /\ Asks([Stepped EXCEPT !.repairing = TRUE, !.candidate = NoReview], "repair")
RepairArrives(c) == /\ c.kind = "repair"
                    /\ \E found \in {c.plan, review.candidate} :
                         Answers(c, [review EXCEPT !.repairing = FALSE, !.candidate = found])

\* applyReviewedRepair; a new revision has to be reviewed and confirmed again.
ApplyRepair == /\ Step /\ Offered("apply")
               /\ Asks([Stepped EXCEPT !.validating = TRUE], "apply")
DiscardRepair == /\ Offered("discard") /\ Sets([review EXCEPT !.candidate = NoReview])
ApplyArrives(c) ==
    /\ c.kind = "apply"
    /\ \/ \E v \in PlanValues(c.plan) :
            Answers(c, [Fresh(review) EXCEPT !.validating = FALSE, !.selected = v])
       \/ Answers(c, [review EXCEPT !.validating = FALSE])

Approve == /\ Step /\ Offered("approve")
           /\ Asks([Stepped EXCEPT !.busy = "approve"], "approve")
ApproveArrives(c) ==
    /\ c.kind = "approve"
    /\ \E v \in {x \in PlanValues(c.plan) : x.status = "approved"} \union {review.selected} :
         Answers(c, [review EXCEPT !.busy = "no", !.selected = v])

\* requestRun, and Flow360ConfirmationDialog, whose button needs half a second.
\* What is behind the dialog may change meanwhile.
RequestRun == /\ Step /\ Offered("submit") /\ Sets([Stepped EXCEPT !.dialog = "opening"])
Dialog(r) == Selected(r) /\ r.mode = "run" /\ Modal(r)
DialogReady == /\ Dialog(review) /\ review.dialog = "opening"
               /\ Sets([review EXCEPT !.dialog = "open"])
CancelRun == /\ Dialog(review) /\ Sets([review EXCEPT !.dialog = "closed"])
Run == /\ Dialog(review) /\ review.dialog = "open" /\ Idle(review)
       /\ IF ReviewMatchesDraft(review)
          THEN Asks([review EXCEPT !.dialog = "closed", !.busy = "run"], "run")
          ELSE UNCHANGED <<review, monitor, reviewCalls>>
\* A failed run is shown as the server has it by then, if it can be told.
RunArrives(c) ==
    /\ c.kind = "run"
    /\ \E v \in PlanValues(c.plan) \union {review.selected} :
         Answers(c, [review EXCEPT !.busy = "no", !.selected = v])

\* The monitor's timer (while it is not paused and has not ended), its Refresh
\* (otherwise), its Pause, whose effect asks once more, and the answer
MonitorAsks == /\ monitor.of # NoReview /\ monitor.asking = NoReview
               /\ monitor' = Refresh(monitor) /\ UNCHANGED <<review, reviewCalls>>
PauseMonitor == /\ Step /\ monitor.of # NoReview /\ ~monitor.ended
                /\ monitor' = Refresh([monitor EXCEPT !.paused = ~@])
                /\ review' = Stepped /\ UNCHANGED reviewCalls
\* updateExecutionPlan
Updated(r, v) == IF v.id = r.selected.id THEN [r EXCEPT !.selected = v] ELSE r

\* refresh's end, updateExecutionPlan for the plan asked about, and the effect
\* that asks again when `terminal' changes, as it does on a first snapshot.
MonitorArrives ==
    /\ monitor.asking # NoReview /\ UNCHANGED reviewCalls
    /\ LET p == monitor.asking
           free == [monitor EXCEPT !.asking = NoReview]
       IN  \/ monitor' = [free EXCEPT !.failed = TRUE] /\ UNCHANGED review
           \/ \E ended \in BOOLEAN, v \in {x \in PlanValues(p) : Trackable(x)} :
                LET shown == [free EXCEPT !.snapshot = p, !.ended = ended, !.failed = FALSE]
                    r == Updated(review, v)
                    again == \/ monitor.snapshot = NoReview \/ ended # monitor.ended
                             \/ r.selected.status # review.selected.status
                IN  review' = r /\ monitor' = IF again THEN Refresh(shown) ELSE shown
LostArrives(c) ==
    /\ c.kind = "lost"
    /\ \/ Answers(c, review)
       \/ \E v \in {x \in PlanValues(c.plan) : Trackable(x)} : Answers(c, Updated(review, v))

Next ==
    \/ Open \/ Close \/ Choose \/ Continue \/ Check \/ RefreshPreflight \/ GenerateRepair
    \/ ApplyRepair \/ DiscardRepair \/ Approve
    \/ RequestRun \/ DialogReady \/ CancelRun \/ Run
    \/ MonitorAsks \/ PauseMonitor \/ MonitorArrives
    \/ \E c \in reviewCalls : \/ OpenArrives(c) \/ PreflightArrives(c) \/ RepairArrives(c)
                              \/ ApplyArrives(c) \/ ApproveArrives(c) \/ RunArrives(c)
                              \/ LostArrives(c)

vars == <<review, monitor, reviewCalls>>
Spec == Init /\ [][Next]_vars

(***************************************************************************)
(* Properties.                                                             *)
(***************************************************************************)
\* The panel of a Draft never asks to approve or to run a plan of another one,
\* whatever answers of an earlier opening it has been given to show.
OfThisDraft ==
    \A c \in reviewCalls' \ reviewCalls :
      c.kind \in {"approve", "run"} => review.draft \in {NoReview, DraftOf[c.plan]}

\* A spinner has its request, and there is one approval or run at a time.
BusyIsBacked ==
    /\ review.busy = "approve" <=> Calls({"approve"}) # {}
    /\ review.busy = "run" <=> Calls({"run"}) # {}
    /\ Cardinality(Calls({"approve", "run"})) <= 1
    /\ review.validating <=> Calls({"preflight", "apply"}) # {}
    /\ review.repairing <=> Calls({"repair"}) # {}
    /\ review.loading => Calls({"open"}) # {}

\* A snapshot of another plan than the one shown is about to be replaced, or the
\* monitor says that its status could not be refreshed.
SnapshotSettles ==
    monitor.snapshot \in {NoReview, monitor.of} \/ monitor.asking = monitor.of \/ monitor.failed
=============================================================================
