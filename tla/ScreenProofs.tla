---------------------------- MODULE ScreenProofs ----------------------------
(***************************************************************************)
(* Proofs about six screens of the web client, for any values of their     *)
(* constants and any number of clicks: the review of a plan, the           *)
(* interventions of a project, the form of the plan panel, the inventory   *)
(* that opens a project, the panel of a Case's details, and the Drafts of  *)
(* a project.                                                              *)
(*                                                                         *)
(* Each screen is a module of its own, which MCWeb instantiates as this    *)
(* module does.  What is proved of each is the types, that what the screen *)
(* says is under way is, and what the screen is there for: that a plan is  *)
(* run only from a panel of its Draft, that a question is asked only where *)
(* one is needed, that a schema is that of the form's target, that a       *)
(* project is never blank, that a log is the one that was asked for, that  *)
(* the active Draft is listed.                                             *)
(***************************************************************************)
EXTENDS Naturals, Sequences, FiniteSets, Functions, FiniteSetTheorems, SequenceTheorems, WellFoundedInduction, TLAPS

CONSTANTS
    ReviewPlans, DraftOf, PanelDrafts, MaxReviewSteps, NoReview,                        \* of PlanReview
    Interventions, PlanOfIntervention, AskedPlans, MaxRecoverySteps, NoIntervention,    \* of PlanRecovery
    SourceStage, Paths, StageForPath, Fields, MaxFormSteps, NoTarget,                   \* of PlanForm
    Projects, MaxMoves, NoProject,                                                      \* of ProjectInventory
    Cases, Tails, MaxDetailSteps, NoContent,                                            \* of ResourceDetails
    DraftIds, MaxChanges, NoDraft                                                       \* of ProjectDrafts

VARIABLES
    review, monitor, reviewCalls,
    recovery, recoveryCalls,
    form, formCalls,
    opened, tasks,
    details, reading,
    held, shelf, lists, errands

PR == INSTANCE PlanReview
RV == INSTANCE PlanRecovery
PF == INSTANCE PlanForm
PI == INSTANCE ProjectInventory
RD == INSTANCE ResourceDetails
PD == INSTANCE ProjectDrafts

-----------------------------------------------------------------------------

\* A set of naturals has a least element.
LEMMA Least ==
  ASSUME NEW T, T \subseteq Nat, T # {}
  PROVE  \E x \in T : \A y \in T : x <= y
<1>1. PICK x \in T : \A y \in T : ~ (<<y, x>> \in OpToRel(<, Nat))
  BY NatLessThanWellFounded, WFMin
<1>2. \A y \in T : ~ (y < x)
  BY <1>1 DEF OpToRel
<1> QED BY <1>2

-----------------------------------------------------------------------------
(***************************************************************************)
(* What a state is made of.                                                *)
(***************************************************************************)
PanelFields == {"open", "draft", "mode", "selected", "reviewed", "confirmed", "candidate", "dialog", "busy",
                "validating", "repairing", "loading", "steps"}
MonitorFields == {"of", "asking", "snapshot", "ended", "paused", "failed"}
AnyPlan == ReviewPlans \union {NoReview}
Shown == {PR!Nothing} \union UNION {PR!PlanValues(p) : p \in ReviewPlans}
Runs == {"approve", "run"}
Checks == {"preflight", "apply"}
Kinds == {"open", "repair", "lost"} \union Runs \union Checks

PanelInv(r) ==
    /\ DOMAIN r = PanelFields
    /\ r.selected \in Shown /\ r.draft \in PanelDrafts /\ r.mode \in {"review", "run"}
    /\ r.candidate \in AnyPlan
    /\ r.dialog \in {"closed", "opening", "open"} /\ r.busy \in {"no", "approve", "run"}
    /\ r.validating \in BOOLEAN /\ r.repairing \in BOOLEAN /\ r.loading \in BOOLEAN

\* A monitor that still asks about a former plan has no snapshot: its effect
\* has forgotten that of the former plan, and the answer is not there yet.
MonitorInv(m) ==
    /\ DOMAIN m = MonitorFields /\ m.failed \in BOOLEAN
    /\ m.of \in AnyPlan /\ m.asking \in AnyPlan /\ m.snapshot \in AnyPlan
    /\ m.snapshot \in {NoReview, m.of} \/ m.asking = m.of \/ m.failed
    /\ m.asking \notin {NoReview, m.of} => m.snapshot = NoReview

\* The panel's spinners and its requests: one approval or run, one check and
\* one repair at a time.
Among(calls, kinds) == \E c \in calls : c.kind \in kinds
OneOf(calls, kinds) == \A c, d \in calls : c.kind \in kinds /\ d.kind \in kinds => c = d
Backed(r, calls) ==
    /\ r.busy = "approve" <=> Among(calls, {"approve"})
    /\ r.busy = "run" <=> Among(calls, {"run"})
    /\ r.validating = TRUE <=> Among(calls, Checks)
    /\ r.repairing = TRUE <=> Among(calls, {"repair"})
    /\ r.loading = TRUE => Among(calls, {"open"})
    /\ OneOf(calls, Runs) /\ OneOf(calls, Checks) /\ OneOf(calls, {"repair"})

PanelCallsFit(calls) == calls \subseteq [kind : Kinds, plan : ReviewPlans]
ReviewInv == PanelInv(review) /\ MonitorInv(monitor) /\ PanelCallsFit(reviewCalls) /\ Backed(review, reviewCalls)

-----------------------------------------------------------------------------
(***************************************************************************)
(* Plans, the panel's shape, and its monitor.                              *)
(***************************************************************************)
LEMMA ShownPlan ==
  ASSUME PR!PlanReviewAssumption, NEW p \in ReviewPlans, NEW v \in PR!PlanValues(p)
  PROVE  v \in Shown /\ v # PR!Nothing /\ v.id = p
BY DEF Shown, PR!PlanValues, PR!Nothing, PR!PlanReviewAssumption

LEMMA ShownId ==
  ASSUME NEW v \in Shown, v # PR!Nothing
  PROVE  v.id \in ReviewPlans
BY DEF Shown, PR!PlanValues

LEMMA TrackedPlan ==
  ASSUME NEW r, PanelInv(r)
  PROVE  PR!Tracked(r) \in AnyPlan
BY ShownId DEF PR!Tracked, PR!Selected, PanelInv, AnyPlan

LEMMA RefreshFits ==
  ASSUME NEW m, MonitorInv(m)
  PROVE  MonitorInv(PR!Refresh(m))
<1>1. CASE m.asking = NoReview
  <2> DEFINE n == [m EXCEPT !.asking = m.of]
  <2>1. /\ DOMAIN n = MonitorFields /\ n.asking = m.of /\ n.of = m.of /\ n.snapshot = m.snapshot
        /\ n.failed = m.failed
    BY DEF MonitorInv, MonitorFields
  <2>2. PR!Refresh(m) = n
    BY <1>1 DEF PR!Refresh
  <2> HIDE DEF n
  <2> QED BY <2>1, <2>2 DEF MonitorInv
<1>2. CASE m.asking # NoReview
  BY <1>2 DEF PR!Refresh
<1> QED BY <1>1, <1>2

LEMMA WatchFits ==
  ASSUME ReviewInv, NEW r, PanelInv(r)
  PROVE  MonitorInv(PR!Watch(r, monitor))
<1> DEFINE of == PR!Tracked(r)
<1>1. of \in AnyPlan /\ MonitorInv(monitor)
  BY TrackedPlan DEF ReviewInv
<1>2. MonitorInv(PR!NoMonitor)
  BY DEF MonitorInv, MonitorFields, PR!NoMonitor, AnyPlan
<1>3. MonitorInv(PR!Followed(monitor, of))
  <2> DEFINE n == PR!Followed(monitor, of)
  <2>1. /\ DOMAIN n = MonitorFields /\ n.of = of /\ n.snapshot = NoReview /\ n.failed = FALSE
        /\ n.asking = monitor.asking
    BY <1>1 DEF PR!Followed, MonitorInv, MonitorFields
  <2> HIDE DEF n, of
  <2>2. MonitorInv(n)
    BY <1>1, <2>1 DEF MonitorInv, AnyPlan
  <2> QED BY <2>2 DEF n
<1> HIDE DEF of
<1>4. /\ MonitorInv(PR!Refresh(PR!Followed(monitor, of)))
      /\ MonitorInv(PR!Refresh(monitor))
  BY <1>1, <1>3, RefreshFits
<1> QED BY <1>1, <1>2, <1>4 DEF PR!Watch, of

-----------------------------------------------------------------------------
(***************************************************************************)
(* The steps of the panel.                                                 *)
(***************************************************************************)
\* A step may leave a request of the monitor behind, which backs no spinner.
LEMMA PanelStep ==
  ASSUME ReviewInv, NEW r, PanelInv(r), NEW calls, PanelCallsFit(calls), Backed(r, calls), PR!Becomes(r, calls)
  PROVE  /\ ReviewInv'
         /\ \A c \in reviewCalls' : c.kind \in Runs => c \in calls
<1>1. PanelInv(review)' /\ MonitorInv(monitor)'
  <2>1. review' = r /\ monitor' = PR!Watch(r, monitor) /\ MonitorInv(PR!Watch(r, monitor))
    BY WatchFits DEF PR!Becomes
  <2> QED BY <2>1 DEF PanelInv, MonitorInv
<1> DEFINE lost == PR!Call("lost", monitor.asking)
<1>2. CASE reviewCalls' = calls
  BY <1>1, <1>2 DEF ReviewInv, PanelCallsFit, PR!Becomes
<1>3. CASE monitor.asking # NoReview /\ reviewCalls' = calls \union {lost}
  <2>1. lost.kind = "lost" /\ lost \in [kind : Kinds, plan : ReviewPlans]
    BY <1>3 DEF PR!Call, Kinds, ReviewInv, MonitorInv, AnyPlan
  <2> HIDE DEF lost
  <2> DEFINE all == calls \union {lost}
  <2>2. PanelCallsFit(all)
    BY <2>1 DEF PanelCallsFit
  <2>3. \A c \in all : c.kind # "lost" => c \in calls
    BY <2>1
  <2>4. calls \subseteq all
    OBVIOUS
  <2> HIDE DEF all
  <2>5. Backed(r, all)
    BY <2>3, <2>4 DEF Backed, Among, OneOf, Runs, Checks
  <2>6. review' = r /\ reviewCalls' = all
    BY <1>3 DEF PR!Becomes, all
  <2> QED BY <1>1, <2>2, <2>3, <2>5, <2>6 DEF ReviewInv, Runs, PanelCallsFit
<1> QED BY <1>2, <1>3 DEF PR!Becomes

\* A panel with the spinners it has.
Alike(r) ==
    /\ PanelInv(r) /\ r.busy = review.busy /\ r.validating = review.validating
    /\ r.repairing = review.repairing /\ r.loading = review.loading

LEMMA AlikeStep ==
  ASSUME ReviewInv, NEW r, Alike(r), PR!Sets(r)
  PROVE  ReviewInv' /\ PR!OfThisDraft
<1>1. PanelInv(r) /\ PanelCallsFit(reviewCalls) /\ Backed(r, reviewCalls)
  BY DEF Alike, ReviewInv, Backed
<1> QED BY <1>1, PanelStep DEF PR!Sets, PR!OfThisDraft, Runs

\* A request is sent: for an approval or a run there must be none, and the plan
\* must be of the panel's Draft.
LEMMA AskStep ==
  ASSUME ReviewInv, NEW r, PanelInv(r), NEW kind \in Kinds, NEW p \in ReviewPlans,
         NEW call, call = PR!Call(kind, p),
         Backed(r, reviewCalls \union {call}), PR!Becomes(r, reviewCalls \union {call}),
         kind \in Runs => review.draft = NoReview \/ review.draft = DraftOf[p]
  PROVE  ReviewInv' /\ PR!OfThisDraft
<1> DEFINE calls == reviewCalls \union {call}
<1>1. call.kind = kind /\ call.plan = p /\ call \in [kind : Kinds, plan : ReviewPlans]
  BY DEF PR!Call
<1>2. PanelCallsFit(calls)
  BY <1>1 DEF PanelCallsFit, ReviewInv
<1>3. ReviewInv' /\ \A c \in reviewCalls' : c.kind \in Runs => c \in calls
  <2> HIDE DEF calls
  <2>1. PR!Becomes(r, calls) /\ Backed(r, calls)
    BY DEF calls
  <2> QED BY <1>2, <2>1, PanelStep
<1> QED BY <1>1, <1>3 DEF PR!OfThisDraft, Runs

\* An answer is heard: there is no other of its kind that has a spinner.
LEMMA AnswerStep ==
  ASSUME ReviewInv, NEW c \in reviewCalls, NEW r, PanelInv(r), Backed(r, reviewCalls \ {c}), PR!Answers(c, r)
  PROVE  ReviewInv' /\ PR!OfThisDraft
<1> DEFINE calls == reviewCalls \ {c}
<1>1. PanelCallsFit(calls) /\ \A d \in calls : d \in reviewCalls
  BY DEF ReviewInv, PanelCallsFit
<1>2. Backed(r, calls) /\ PR!Becomes(r, calls)
  BY DEF PR!Answers
<1> HIDE DEF calls
<1> QED BY <1>1, <1>2, PanelStep DEF PR!OfThisDraft, Runs

-----------------------------------------------------------------------------
(***************************************************************************)
(* What the panel's steps change of it.                                    *)
(***************************************************************************)
LEMMA SteppedAlike ==
  ASSUME ReviewInv
  PROVE  Alike(PR!Stepped) /\ Alike(review) /\ PR!Stepped.selected = review.selected
BY DEF ReviewInv, PanelInv, Alike, PR!Stepped, PanelFields

LEMMA FreshAlike ==
  ASSUME NEW r, Alike(r)
  PROVE  LET f == PR!Fresh(r)
         IN  Alike(f) /\ f.selected = r.selected
<1> DEFINE f == PR!Fresh(r)
<1>1. /\ DOMAIN f = PanelFields /\ f.selected = r.selected /\ f.draft = r.draft /\ f.mode = r.mode
      /\ f.candidate = NoReview /\ f.dialog = r.dialog /\ f.busy = r.busy
      /\ f.validating = r.validating /\ f.repairing = r.repairing /\ f.loading = r.loading
  BY DEF PR!Fresh, Alike, PanelInv, PanelFields
<1> HIDE DEF f
<1>2. Alike(f)
  BY <1>1 DEF Alike, PanelInv, AnyPlan
<1> QED BY <1>1, <1>2 DEF f

\* What is offered is about a plan.
LEMMA OfferedPlan ==
  ASSUME ReviewInv, PR!Selected(review)
  PROVE  review.selected.id \in ReviewPlans
BY ShownId DEF ReviewInv, PanelInv, PR!Selected

LEMMA OfferedIsSelected ==
  ASSUME NEW o, PR!Offered(o)
  PROVE  PR!Selected(review)
BY DEF PR!Offered, PR!ReviewOffers

-----------------------------------------------------------------------------
(***************************************************************************)
(* The actions.                                                            *)
(***************************************************************************)
LEMMA OpenStep ==
  ASSUME ReviewInv, PR!Open
  PROVE  ReviewInv' /\ PR!OfThisDraft
<1> DEFINE Opened(d, m) == [PR!Fresh(PR!Stepped) EXCEPT !.open = TRUE, !.draft = d, !.mode = m,
                                                  !.selected = PR!Nothing, !.loading = TRUE, !.dialog = "closed"]
<1>1. PICK d \in PanelDrafts, p \in ReviewPlans, m \in {"review", "run"} :
        PR!Becomes(Opened(d, m), reviewCalls \union {PR!Call("open", p)})
  BY DEF PR!Open
<1> DEFINE r == Opened(d, m)
           f == PR!Fresh(PR!Stepped)
           call == PR!Call("open", p)
<1>2. Alike(f)
  BY SteppedAlike, FreshAlike
<1>3. r = [f EXCEPT !.open = TRUE, !.draft = d, !.mode = m, !.selected = PR!Nothing, !.loading = TRUE,
                    !.dialog = "closed"]
  OBVIOUS
<1>4. PR!Becomes(r, reviewCalls \union {call})
  BY <1>1
<1> HIDE DEF r, f
<1>5. /\ DOMAIN r = PanelFields /\ r.selected = PR!Nothing /\ r.draft = d /\ r.mode = m
      /\ r.candidate = f.candidate /\ r.dialog = "closed" /\ r.busy = review.busy
      /\ r.validating = review.validating /\ r.repairing = review.repairing /\ r.loading = TRUE
  BY <1>2, <1>3 DEF Alike, PanelInv, PanelFields
<1>6. PanelInv(r)
  BY <1>2, <1>5 DEF PanelInv, Alike, Shown
<1>7. Backed(r, reviewCalls \union {call})
  <2>1. call.kind = "open"
    BY DEF PR!Call
  <2> HIDE DEF call
  <2> QED BY <1>5, <2>1 DEF ReviewInv, Backed, Among, OneOf, Runs, Checks
<1> HIDE DEF call
<1> QED BY <1>4, <1>6, <1>7, AskStep DEF Kinds, Runs, call

LEMMA OpenArrivesStep ==
  ASSUME PR!PlanReviewAssumption, ReviewInv, NEW c \in reviewCalls, PR!OpenArrives(c)
  PROVE  ReviewInv' /\ PR!OfThisDraft
<1>1. c.plan \in ReviewPlans
  BY DEF ReviewInv, PanelCallsFit
<1>2. PICK v \in PR!PlanValues(c.plan) \union {review.selected} :
        PR!Answers(c, [review EXCEPT !.selected = v, !.loading = FALSE])
  BY DEF PR!OpenArrives
<1> DEFINE r == [review EXCEPT !.selected = v, !.loading = FALSE]
<1>3. PR!Answers(c, r) /\ v \in Shown
  BY <1>1, <1>2, ShownPlan DEF ReviewInv, PanelInv
<1>4. /\ DOMAIN r = PanelFields /\ r.selected = v /\ r.draft = review.draft /\ r.mode = review.mode
      /\ r.candidate = review.candidate /\ r.dialog = review.dialog /\ r.busy = review.busy
      /\ r.validating = review.validating /\ r.repairing = review.repairing /\ r.loading = FALSE
  BY DEF ReviewInv, PanelInv, PanelFields
<1> HIDE DEF r
<1>5. PanelInv(r)
  BY <1>3, <1>4 DEF ReviewInv, PanelInv
<1>6. Backed(r, reviewCalls \ {c})
  <2>1. c.kind = "open"
    BY DEF PR!OpenArrives
  <2> QED BY <1>4, <2>1 DEF ReviewInv, Backed, Among, OneOf, Runs, Checks
<1> QED BY <1>3, <1>5, <1>6, AnswerStep

LEMMA ViewStep ==
  ASSUME PR!PlanReviewAssumption, ReviewInv,
         PR!Close \/ PR!Continue \/ PR!Check \/ PR!DiscardRepair \/ PR!RequestRun \/ PR!DialogReady \/ PR!CancelRun
  PROVE  ReviewInv' /\ PR!OfThisDraft
<1> DEFINE s == PR!Stepped
<1>1. PanelInv(s) /\ Alike(s) /\ PanelInv(review) /\ Alike(review)
  BY SteppedAlike DEF Alike
<1> HIDE DEF s
<1>2. /\ Alike([review EXCEPT !.open = FALSE])
      /\ Alike([review EXCEPT !.mode = "run"])
      /\ Alike([s EXCEPT !.reviewed = ~@])
      /\ Alike([s EXCEPT !.confirmed = ~@])
  BY <1>1 DEF Alike, PanelInv, PanelFields
<1>3. /\ Alike([review EXCEPT !.candidate = NoReview])
      /\ Alike([s EXCEPT !.dialog = "opening"])
      /\ Alike([review EXCEPT !.dialog = "open"])
      /\ Alike([review EXCEPT !.dialog = "closed"])
  BY <1>1 DEF Alike, PanelInv, PanelFields, AnyPlan
<1>4. \E r : Alike(r) /\ PR!Sets(r)
  BY <1>2, <1>3 DEF PR!Close, PR!Continue, PR!Check, PR!DiscardRepair, PR!RequestRun, PR!DialogReady, PR!CancelRun, s
<1> QED BY <1>4, AlikeStep

LEMMA ChooseStep ==
  ASSUME PR!PlanReviewAssumption, ReviewInv, PR!Choose
  PROVE  ReviewInv' /\ PR!OfThisDraft
<1>1. PICK p \in ReviewPlans \ {review.selected.id} : \E v \in PR!PlanValues(p) :
        PR!Sets([PR!Fresh(PR!Stepped) EXCEPT !.selected = v])
  BY DEF PR!Choose
<1>2. PICK v \in PR!PlanValues(p) : PR!Sets([PR!Fresh(PR!Stepped) EXCEPT !.selected = v])
  BY <1>1
<1> DEFINE f == PR!Fresh(PR!Stepped)
           r == [f EXCEPT !.selected = v]
<1>3. Alike(f) /\ v \in Shown /\ PR!Sets(r)
  BY <1>2, SteppedAlike, FreshAlike, ShownPlan
<1> HIDE DEF f
<1>4. Alike(r)
  BY <1>3 DEF Alike, PanelInv, PanelFields
<1> HIDE DEF r
<1> QED BY <1>3, <1>4, AlikeStep

\* An approval or a run is asked for, and answered.
LEMMA AskRun ==
  ASSUME ReviewInv, NEW r, PanelInv(r), NEW kind \in Runs, review.busy = "no", r.busy = kind,
         r.validating = review.validating, r.repairing = review.repairing, r.loading = review.loading,
         NEW p \in ReviewPlans, PR!Becomes(r, reviewCalls \union {PR!Call(kind, p)}),
         review.draft = NoReview \/ review.draft = DraftOf[p]
  PROVE  ReviewInv' /\ PR!OfThisDraft
<1> DEFINE call == PR!Call(kind, p)
<1>1. call.kind = kind
  BY DEF PR!Call
<1>2. Backed(r, reviewCalls \union {call})
  <2> HIDE DEF call
  <2>1. \A c \in reviewCalls : c.kind \notin Runs
    BY DEF ReviewInv, Backed, Among, Runs
  <2> QED BY <1>1, <2>1 DEF ReviewInv, Backed, Among, OneOf, Runs, Checks
<1> QED BY <1>2, AskStep DEF Kinds, Runs

LEMMA HearRun ==
  ASSUME ReviewInv, NEW c \in reviewCalls, c.kind \in Runs, NEW r, PanelInv(r), r.busy = "no",
         r.validating = review.validating, r.repairing = review.repairing, r.loading = review.loading,
         PR!Answers(c, r)
  PROVE  ReviewInv' /\ PR!OfThisDraft
<1>1. \A d \in reviewCalls \ {c} : d.kind \notin Runs
  BY DEF ReviewInv, Backed, OneOf
<1>2. Backed(r, reviewCalls \ {c})
  BY <1>1 DEF ReviewInv, Backed, Among, OneOf, Runs, Checks
<1> QED BY <1>2, AnswerStep

\* A check is asked for, and answered.
LEMMA AskCheck ==
  ASSUME ReviewInv, NEW r, PanelInv(r), NEW kind \in Checks, review.validating = FALSE, r.validating = TRUE,
         r.busy = review.busy, r.repairing = review.repairing, r.loading = review.loading,
         NEW p \in ReviewPlans, PR!Becomes(r, reviewCalls \union {PR!Call(kind, p)})
  PROVE  ReviewInv' /\ PR!OfThisDraft
<1> DEFINE call == PR!Call(kind, p)
<1>1. call.kind = kind
  BY DEF PR!Call
<1>2. Backed(r, reviewCalls \union {call})
  <2> HIDE DEF call
  <2>1. \A c \in reviewCalls : c.kind \notin Checks
    BY DEF ReviewInv, Backed, Among
  <2> QED BY <1>1, <2>1 DEF ReviewInv, Backed, Among, OneOf, Runs, Checks
<1> QED BY <1>2, AskStep DEF Kinds, Runs, Checks

LEMMA HearCheck ==
  ASSUME ReviewInv, NEW c \in reviewCalls, c.kind \in Checks, NEW r, PanelInv(r), r.validating = FALSE,
         r.busy = review.busy, r.repairing = review.repairing, r.loading = review.loading,
         PR!Answers(c, r)
  PROVE  ReviewInv' /\ PR!OfThisDraft
<1>1. \A d \in reviewCalls \ {c} : d.kind \notin Checks
  BY DEF ReviewInv, Backed, OneOf
<1>2. Backed(r, reviewCalls \ {c})
  BY <1>1 DEF ReviewInv, Backed, Among, OneOf, Runs, Checks
<1> QED BY <1>2, AnswerStep

LEMMA CheckingStep ==
  ASSUME PR!PlanReviewAssumption, ReviewInv, PR!RefreshPreflight \/ PR!ApplyRepair
  PROVE  ReviewInv' /\ PR!OfThisDraft
<1>1. review.validating = FALSE /\ PR!Selected(review)
  BY DEF PR!RefreshPreflight, PR!ApplyRepair, PR!Offered, PR!ReviewOffers, ReviewInv, PanelInv
<1>2. review.selected.id \in ReviewPlans
  BY <1>1, OfferedPlan
<1> DEFINE s == PR!Stepped
           r == [s EXCEPT !.validating = TRUE]
<1>3. PICK kind \in Checks : PR!Becomes(r, reviewCalls \union {PR!Call(kind, review.selected.id)})
  BY DEF PR!RefreshPreflight, PR!ApplyRepair, PR!Asks, Checks
<1>4. Alike(s)
  BY SteppedAlike
<1> HIDE DEF s
<1>5. /\ PanelInv(r) /\ r.validating = TRUE /\ r.busy = review.busy /\ r.repairing = review.repairing
      /\ r.loading = review.loading
  BY <1>4 DEF Alike, PanelInv, PanelFields
<1> HIDE DEF r
<1> QED BY <1>1, <1>2, <1>3, <1>5, AskCheck

LEMMA CheckedStep ==
  ASSUME PR!PlanReviewAssumption, ReviewInv, NEW c \in reviewCalls, PR!PreflightArrives(c) \/ PR!ApplyArrives(c)
  PROVE  ReviewInv' /\ PR!OfThisDraft
<1>1. c.kind \in Checks /\ c.plan \in ReviewPlans
  BY DEF PR!PreflightArrives, PR!ApplyArrives, Checks, ReviewInv, PanelCallsFit
<1>2. ASSUME NEW f, Alike(f), NEW v \in Shown, NEW k \in AnyPlan,
             PR!Answers(c, [f EXCEPT !.validating = FALSE, !.selected = v, !.candidate = k])
      PROVE  ReviewInv' /\ PR!OfThisDraft
  <2> DEFINE r == [f EXCEPT !.validating = FALSE, !.selected = v, !.candidate = k]
  <2>1. /\ PanelInv(r) /\ r.validating = FALSE /\ r.busy = review.busy /\ r.repairing = review.repairing
        /\ r.loading = review.loading
    BY <1>2 DEF Alike, PanelInv, PanelFields
  <2>2. PR!Answers(c, r)
    BY <1>2
  <2> HIDE DEF r
  <2> QED BY <1>1, <2>1, <2>2, HearCheck
<1>3. ASSUME PR!Answers(c, [review EXCEPT !.validating = FALSE])
      PROVE  ReviewInv' /\ PR!OfThisDraft
  <2> DEFINE r == [review EXCEPT !.validating = FALSE]
  <2>1. /\ PanelInv(r) /\ r.validating = FALSE /\ r.busy = review.busy /\ r.repairing = review.repairing
        /\ r.loading = review.loading
    BY DEF ReviewInv, PanelInv, PanelFields
  <2>2. PR!Answers(c, r)
    BY <1>3
  <2> HIDE DEF r
  <2> QED BY <1>1, <2>1, <2>2, HearCheck
<1>4. ASSUME NEW v \in PR!PlanValues(c.plan),
             PR!Answers(c, [review EXCEPT !.validating = FALSE, !.selected = v, !.candidate = NoReview])
      PROVE  ReviewInv' /\ PR!OfThisDraft
  BY <1>1, <1>2, <1>4, SteppedAlike, ShownPlan DEF AnyPlan
<1>5. ASSUME NEW v \in PR!PlanValues(c.plan),
             PR!Answers(c, [PR!Fresh(review) EXCEPT !.validating = FALSE, !.selected = v])
      PROVE  ReviewInv' /\ PR!OfThisDraft
  <2> DEFINE f == PR!Fresh(review)
             r == [f EXCEPT !.validating = FALSE, !.selected = v]
  <2>1. Alike(f) /\ v \in Shown
    BY <1>1, SteppedAlike, FreshAlike, ShownPlan
  <2>2. PR!Answers(c, r)
    BY <1>5
  <2> HIDE DEF f
  <2>3. /\ PanelInv(r) /\ r.validating = FALSE /\ r.busy = review.busy /\ r.repairing = review.repairing
        /\ r.loading = review.loading
    BY <2>1 DEF Alike, PanelInv, PanelFields
  <2> HIDE DEF r
  <2> QED BY <1>1, <2>2, <2>3, HearCheck
<1> QED BY <1>3, <1>4, <1>5 DEF PR!PreflightArrives, PR!ApplyArrives

LEMMA RepairStep ==
  ASSUME PR!PlanReviewAssumption, ReviewInv, PR!GenerateRepair
  PROVE  ReviewInv' /\ PR!OfThisDraft
<1>1. review.repairing = FALSE /\ PR!Selected(review)
  BY DEF PR!GenerateRepair, PR!Offered, PR!ReviewOffers, ReviewInv, PanelInv
<1>2. review.selected.id \in ReviewPlans
  BY <1>1, OfferedPlan
<1> DEFINE s == PR!Stepped
           r == [s EXCEPT !.repairing = TRUE, !.candidate = NoReview]
           call == PR!Call("repair", review.selected.id)
<1>3. PR!Becomes(r, reviewCalls \union {call})
  BY DEF PR!GenerateRepair, PR!Asks
<1>4. Alike(s)
  BY SteppedAlike
<1> HIDE DEF s
<1>5. /\ PanelInv(r) /\ r.validating = review.validating /\ r.busy = review.busy /\ r.repairing = TRUE
      /\ r.loading = review.loading
  BY <1>4 DEF Alike, PanelInv, PanelFields, AnyPlan
<1> HIDE DEF r
<1>6. Backed(r, reviewCalls \union {call})
  <2>1. call.kind = "repair"
    BY DEF PR!Call
  <2> HIDE DEF call
  <2> QED BY <1>1, <1>5, <2>1 DEF ReviewInv, Backed, Among, OneOf, Runs, Checks
<1> QED BY <1>2, <1>3, <1>5, <1>6, AskStep DEF Kinds, Runs

LEMMA RepairedStep ==
  ASSUME PR!PlanReviewAssumption, ReviewInv, NEW c \in reviewCalls, PR!RepairArrives(c)
  PROVE  ReviewInv' /\ PR!OfThisDraft
<1>1. c.kind = "repair" /\ c.plan \in ReviewPlans
  BY DEF PR!RepairArrives, ReviewInv, PanelCallsFit
<1>2. PICK found \in {c.plan, review.candidate} :
        PR!Answers(c, [review EXCEPT !.repairing = FALSE, !.candidate = found])
  BY DEF PR!RepairArrives
<1> DEFINE r == [review EXCEPT !.repairing = FALSE, !.candidate = found]
<1>3. PR!Answers(c, r)
  BY <1>2
<1>4. found \in AnyPlan
  BY <1>1 DEF ReviewInv, PanelInv, AnyPlan
<1>5. /\ PanelInv(r) /\ r.validating = review.validating /\ r.busy = review.busy /\ r.repairing = FALSE
      /\ r.loading = review.loading
  BY <1>4 DEF ReviewInv, PanelInv, PanelFields
<1> HIDE DEF r
<1>6. Backed(r, reviewCalls \ {c})
  BY <1>1, <1>5 DEF ReviewInv, Backed, Among, OneOf, Runs, Checks
<1> QED BY <1>3, <1>5, <1>6, AnswerStep

LEMMA ApproveStep ==
  ASSUME PR!PlanReviewAssumption, ReviewInv, PR!Approve
  PROVE  ReviewInv' /\ PR!OfThisDraft
<1>1. PR!Selected(review) /\ review.busy = "no" /\ PR!ReviewMatchesDraft(review)
  BY DEF PR!Approve, PR!Offered, PR!ReviewOffers, PR!PreflightReady, PR!Idle
<1>2. review.selected.id \in ReviewPlans
  BY <1>1, OfferedPlan
<1> DEFINE s == PR!Stepped
           r == [s EXCEPT !.busy = "approve"]
<1>3. PR!Becomes(r, reviewCalls \union {PR!Call("approve", review.selected.id)})
  BY DEF PR!Approve, PR!Asks
<1>4. Alike(s)
  BY SteppedAlike
<1> HIDE DEF s
<1>5. /\ PanelInv(r) /\ r.validating = review.validating /\ r.busy = "approve" /\ r.repairing = review.repairing
      /\ r.loading = review.loading
  BY <1>4 DEF Alike, PanelInv, PanelFields
<1> HIDE DEF r
<1> QED BY <1>1, <1>2, <1>3, <1>5, AskRun DEF Runs, PR!ReviewMatchesDraft

LEMMA RunStep ==
  ASSUME PR!PlanReviewAssumption, ReviewInv, PR!Run
  PROVE  ReviewInv' /\ PR!OfThisDraft
<1>1. PR!Selected(review) /\ review.busy = "no"
  BY DEF PR!Run, PR!Dialog, PR!Idle
<1>2. review.selected.id \in ReviewPlans
  BY <1>1, OfferedPlan
<1>3. CASE PR!ReviewMatchesDraft(review)
  <2> DEFINE r == [review EXCEPT !.dialog = "closed", !.busy = "run"]
  <2>1. PR!Becomes(r, reviewCalls \union {PR!Call("run", review.selected.id)})
    BY <1>3 DEF PR!Run, PR!Asks
  <2>2. /\ PanelInv(r) /\ r.validating = review.validating /\ r.busy = "run" /\ r.repairing = review.repairing
        /\ r.loading = review.loading
    BY DEF ReviewInv, PanelInv, PanelFields
  <2> HIDE DEF r
  <2> QED BY <1>1, <1>2, <1>3, <2>1, <2>2, AskRun DEF Runs, PR!ReviewMatchesDraft
<1>4. CASE UNCHANGED <<review, monitor, reviewCalls>>
  BY <1>4 DEF ReviewInv, PanelInv, MonitorInv, PanelCallsFit, Backed, PR!OfThisDraft
<1> QED BY <1>3, <1>4 DEF PR!Run

LEMMA RunArrivesStep ==
  ASSUME PR!PlanReviewAssumption, ReviewInv, NEW c \in reviewCalls, PR!ApproveArrives(c) \/ PR!RunArrives(c)
  PROVE  ReviewInv' /\ PR!OfThisDraft
<1>1. c.kind \in Runs /\ c.plan \in ReviewPlans
  BY DEF PR!ApproveArrives, PR!RunArrives, Runs, ReviewInv, PanelCallsFit
<1>2. PICK v \in PR!PlanValues(c.plan) \union {review.selected} :
        PR!Answers(c, [review EXCEPT !.busy = "no", !.selected = v])
  BY DEF PR!ApproveArrives, PR!RunArrives
<1> DEFINE r == [review EXCEPT !.busy = "no", !.selected = v]
<1>3. PR!Answers(c, r) /\ v \in Shown
  BY <1>1, <1>2, ShownPlan DEF ReviewInv, PanelInv
<1>4. /\ PanelInv(r) /\ r.validating = review.validating /\ r.busy = "no" /\ r.repairing = review.repairing
      /\ r.loading = review.loading
  BY <1>3 DEF ReviewInv, PanelInv, PanelFields
<1> HIDE DEF r
<1> QED BY <1>1, <1>3, <1>4, HearRun

-----------------------------------------------------------------------------
(***************************************************************************)
(* The monitor.                                                            *)
(***************************************************************************)
LEMMA MonitorStep ==
  ASSUME ReviewInv, NEW m, MonitorInv(m), NEW r, Alike(r),
         monitor' = m, review' = r, UNCHANGED reviewCalls
  PROVE  ReviewInv' /\ PR!OfThisDraft
BY DEF ReviewInv, PanelInv, MonitorInv, PanelCallsFit, Backed, Alike, PR!OfThisDraft

LEMMA UpdatedAlike ==
  ASSUME ReviewInv, NEW v \in Shown
  PROVE  Alike(PR!Updated(review, v))
<1>1. Alike([review EXCEPT !.selected = v])
  BY DEF ReviewInv, PanelInv, Alike, PanelFields
<1> QED BY <1>1, SteppedAlike DEF PR!Updated

LEMMA MonitorAsksStep ==
  ASSUME ReviewInv, PR!MonitorAsks \/ PR!PauseMonitor
  PROVE  ReviewInv' /\ PR!OfThisDraft
<1>1. MonitorInv(monitor)
  BY DEF ReviewInv
<1>2. MonitorInv([monitor EXCEPT !.paused = ~@])
  <2> DEFINE n == [monitor EXCEPT !.paused = ~@]
  <2>1. /\ DOMAIN n = MonitorFields /\ n.asking = monitor.asking /\ n.of = monitor.of
        /\ n.snapshot = monitor.snapshot /\ n.failed = monitor.failed
    BY <1>1 DEF MonitorInv, MonitorFields
  <2> HIDE DEF n
  <2> QED BY <1>1, <2>1 DEF MonitorInv
<1>3. /\ MonitorInv(PR!Refresh(monitor))
      /\ MonitorInv(PR!Refresh([monitor EXCEPT !.paused = ~@]))
  BY <1>1, <1>2, RefreshFits
<1> QED BY <1>3, SteppedAlike, MonitorStep DEF PR!MonitorAsks, PR!PauseMonitor

\* The answer about a former plan comes when the monitor has no snapshot yet, so
\* that its effect asks again.
LEMMA MonitorArrivesStep ==
  ASSUME PR!PlanReviewAssumption, ReviewInv, PR!MonitorArrives
  PROVE  ReviewInv' /\ PR!OfThisDraft
<1> DEFINE p == monitor.asking
           free == [monitor EXCEPT !.asking = NoReview]
<1>1. p \in ReviewPlans /\ MonitorInv(monitor) /\ UNCHANGED reviewCalls
  BY DEF PR!MonitorArrives, ReviewInv, MonitorInv, AnyPlan
<1>2. /\ DOMAIN free = MonitorFields /\ free.asking = NoReview /\ free.of = monitor.of
      /\ free.snapshot = monitor.snapshot /\ free.failed = monitor.failed
  BY <1>1 DEF MonitorInv, MonitorFields
<1>3. CASE monitor' = [free EXCEPT !.failed = TRUE] /\ UNCHANGED review
  <2> DEFINE m == [free EXCEPT !.failed = TRUE]
  <2>1. monitor' = m
    BY <1>3
  <2> HIDE DEF free
  <2>2. /\ DOMAIN m = MonitorFields /\ m.asking = NoReview /\ m.of = monitor.of
        /\ m.snapshot = monitor.snapshot /\ m.failed = TRUE
    BY <1>2 DEF MonitorFields
  <2> HIDE DEF m
  <2>3. MonitorInv(m)
    BY <1>1, <2>2 DEF MonitorInv, AnyPlan
  <2> QED BY <1>1, <1>3, <2>1, <2>3, SteppedAlike, MonitorStep
<1>4. ASSUME NEW ended \in BOOLEAN, NEW v \in PR!PlanValues(p),
             LET shown == [free EXCEPT !.snapshot = p, !.ended = ended, !.failed = FALSE]
                 r == PR!Updated(review, v)
                 again == \/ monitor.snapshot = NoReview \/ ended # monitor.ended
                          \/ r.selected.status # review.selected.status
             IN  review' = r /\ monitor' = IF again THEN PR!Refresh(shown) ELSE shown
      PROVE  ReviewInv' /\ PR!OfThisDraft
  <2> DEFINE shown == [free EXCEPT !.snapshot = p, !.ended = ended, !.failed = FALSE]
             r == PR!Updated(review, v)
  <2>1. Alike(r) /\ review' = r
    BY <1>1, <1>4, ShownPlan, UpdatedAlike
  <2>2. \/ monitor' = PR!Refresh(shown)
        \/ monitor.snapshot # NoReview /\ monitor' = shown
    BY <1>4
  <2> HIDE DEF r, free
  <2>3. /\ DOMAIN shown = MonitorFields /\ shown.asking = NoReview /\ shown.of = monitor.of
        /\ shown.snapshot = p /\ shown.failed = FALSE
    BY <1>2 DEF MonitorFields
  <2> HIDE DEF shown
  <2>4. CASE monitor' = PR!Refresh(shown)
    <3> DEFINE m == [shown EXCEPT !.asking = shown.of]
    <3>1. /\ DOMAIN m = MonitorFields /\ m.asking = monitor.of /\ m.of = monitor.of
          /\ m.snapshot = p /\ m.failed = FALSE
      BY <2>3 DEF MonitorFields
    <3>2. monitor' = m
      BY <2>3, <2>4 DEF PR!Refresh
    <3> HIDE DEF m
    <3>3. MonitorInv(m)
      BY <1>1, <3>1 DEF MonitorInv, AnyPlan
    <3> QED BY <1>1, <2>1, <3>2, <3>3, MonitorStep
  <2>5. CASE monitor.snapshot # NoReview /\ monitor' = shown
    <3>1. p = monitor.of
      BY <1>1, <2>5 DEF MonitorInv, PR!PlanReviewAssumption
    <3>2. MonitorInv(shown)
      BY <1>1, <2>3, <3>1 DEF MonitorInv, AnyPlan
    <3> QED BY <1>1, <2>1, <2>5, <3>2, MonitorStep
  <2> QED BY <2>2, <2>4, <2>5
<1> QED BY <1>3, <1>4 DEF PR!MonitorArrives

LEMMA LostStep ==
  ASSUME PR!PlanReviewAssumption, ReviewInv, NEW c \in reviewCalls, PR!LostArrives(c)
  PROVE  ReviewInv' /\ PR!OfThisDraft
<1>1. c.kind = "lost" /\ c.plan \in ReviewPlans
  BY DEF PR!LostArrives, ReviewInv, PanelCallsFit
<1>2. PICK r : Alike(r) /\ PR!Answers(c, r)
  BY <1>1, SteppedAlike, UpdatedAlike, ShownPlan DEF PR!LostArrives
<1>3. PanelInv(r) /\ Backed(r, reviewCalls \ {c})
  BY <1>1, <1>2 DEF Alike, ReviewInv, Backed, Among, OneOf, Runs, Checks
<1> QED BY <1>2, <1>3, AnswerStep

-----------------------------------------------------------------------------
(***************************************************************************)
(* The theorems.                                                           *)
(***************************************************************************)
LEMMA PanelInit ==
  ASSUME PR!PlanReviewAssumption, PR!Init
  PROVE  ReviewInv
<1>1. PanelInv(review)
  BY DEF PR!Init, PanelInv, PanelFields, Shown, AnyPlan, PR!PlanReviewAssumption
<1>2. MonitorInv(monitor)
  BY DEF PR!Init, MonitorInv, MonitorFields, PR!NoMonitor, AnyPlan
<1> QED BY <1>1, <1>2 DEF PR!Init, ReviewInv, PanelCallsFit, Backed, Among, OneOf

LEMMA PanelSteps ==
  ASSUME PR!PlanReviewAssumption, ReviewInv, [PR!Next]_<<review, monitor, reviewCalls>>
  PROVE  ReviewInv' /\ [PR!OfThisDraft]_<<review, monitor, reviewCalls>>
<1>1. CASE UNCHANGED PR!vars
  BY <1>1 DEF PR!vars, ReviewInv, PanelInv, MonitorInv, PanelCallsFit, Backed
<1>2. CASE PR!Next
  BY <1>2, OpenStep, OpenArrivesStep, ViewStep, ChooseStep, CheckingStep, CheckedStep, RepairStep, RepairedStep,
     ApproveStep, RunStep, RunArrivesStep, MonitorAsksStep, MonitorArrivesStep, LostStep
     DEF PR!Next
<1> QED BY <1>1, <1>2 DEF PR!vars

LEMMA ReviewAlways == PR!PlanReviewAssumption => (PR!Spec => []ReviewInv)
<1> SUFFICES ASSUME PR!PlanReviewAssumption PROVE PR!Spec => []ReviewInv
  OBVIOUS
<1>1. PR!Init => ReviewInv
  BY PanelInit
<1>2. ReviewInv /\ [PR!Next]_<<review, monitor, reviewCalls>> => ReviewInv'
  BY PanelSteps
<1> QED BY <1>1, <1>2, PTL DEF PR!Spec, PR!vars

\* In every reachable state the panel, its monitor and its requests have their
\* types: what is selected is nothing or a whole plan, and every request under
\* way is about a plan.
THEOREM PanelTyped == PR!PlanReviewAssumption => (PR!Spec => []PR!TypeOK)
<1>1. ReviewInv => PR!TypeOK
  BY DEF ReviewInv, PanelInv, MonitorInv, PanelCallsFit, PR!TypeOK, Shown, AnyPlan, Kinds, Runs, Checks
<1> QED BY ReviewAlways, <1>1, PTL

\* Each spinner of the panel has a request under way, and there is at most one
\* approval or run, although the panel may be closed, opened again and given
\* another plan while its requests are under way.
THEOREM PanelIsBacked == PR!PlanReviewAssumption => (PR!Spec => []PR!BusyIsBacked)
<1>1. ReviewInv => PR!BusyIsBacked
  <2> SUFFICES ASSUME ReviewInv PROVE PR!BusyIsBacked
    OBVIOUS
  <2> DEFINE S == PR!Calls(Runs)
  <2>1. Cardinality(S) <= 1
    <3>1. \A c, d \in S : c = d
      BY DEF ReviewInv, Backed, OneOf, PR!Calls
    <3> HIDE DEF S
    <3>2. CASE S = {}
      BY <3>2, FS_EmptySet
    <3>3. CASE \E c : S = {c}
      BY <3>3, FS_Singleton
    <3> QED BY <3>1, <3>2, <3>3
  <2>2. PR!Calls({"approve", "run"}) = S
    BY DEF Runs
  <2>3. PR!Cardinality(PR!Calls({"approve", "run"})) <= 1
    BY <2>1, <2>2 DEF PR!Cardinality, Cardinality
  <2>4. /\ review.busy = "approve" <=> PR!Calls({"approve"}) # {}
        /\ review.busy = "run" <=> PR!Calls({"run"}) # {}
        /\ review.loading = TRUE => PR!Calls({"open"}) # {}
        /\ review.validating = TRUE <=> PR!Calls({"preflight", "apply"}) # {}
        /\ review.repairing = TRUE <=> PR!Calls({"repair"}) # {}
    BY DEF ReviewInv, Backed, Among, PR!Calls, Checks
  <2>5. review.validating \in BOOLEAN /\ review.repairing \in BOOLEAN /\ review.loading \in BOOLEAN
    BY DEF ReviewInv, PanelInv
  <2> QED BY <2>3, <2>4, <2>5 DEF PR!BusyIsBacked
<1> QED BY ReviewAlways, <1>1, PTL

\* A panel opened for a Draft sends no request to approve or to run a plan that
\* is bound to another one, although the answer of an earlier opening may have
\* put such a plan into it, also behind an open confirmation dialog.
THEOREM RunsAreOfThisDraft == PR!PlanReviewAssumption => (PR!Spec => [][PR!OfThisDraft]_<<review, monitor, reviewCalls>>)
<1> SUFFICES ASSUME PR!PlanReviewAssumption PROVE PR!Spec => [][PR!OfThisDraft]_<<review, monitor, reviewCalls>>
  OBVIOUS
<1>1. ReviewInv /\ [PR!Next]_<<review, monitor, reviewCalls>> => [PR!OfThisDraft]_<<review, monitor, reviewCalls>>
  BY PanelSteps
<1> QED BY ReviewAlways, <1>1, PTL DEF PR!Spec, PR!vars

\* The monitor shows no snapshot of another plan, unless it is asking for that
\* of its own or says that this failed: an answer about the former plan always
\* comes before there is a first snapshot, which makes the monitor ask again.
THEOREM SnapshotsSettle == PR!PlanReviewAssumption => (PR!Spec => []PR!SnapshotSettles)
<1>1. ReviewInv => PR!SnapshotSettles
  BY DEF ReviewInv, MonitorInv, PR!SnapshotSettles
<1> QED BY ReviewAlways, <1>1, PTL

-----------------------------------------------------------------------------
(***************************************************************************)
(* PlanRecovery: the interventions of a project.                           *)
(***************************************************************************)
Listed == UNION {[listed -> RV!InterventionStates] : listed \in SUBSET RV!Ids}
Recoveries == [open : BOOLEAN, plan : AskedPlans \union {NoIntervention}, list : Listed,
               id : RV!Ids \union {NoIntervention}, state : RV!InterventionStates, asking : BOOLEAN,
               busy : {"no", "answer", "select", "close"}, steps : Nat]
ListCalls == [kind : {"list"}, plan : AskedPlans \union {NoIntervention}]
ActionCalls == [kind : {"answer", "select", "close"}, id : RV!Ids]

\* A panel r that may ask, with the calls cs under way.
RecoveryFits(r) == r \in Recoveries /\ (r.asking => r.state = "missing_input")
RecoveryCallsFit(r, cs) ==
    /\ cs \subseteq ListCalls \union ActionCalls
    /\ r.busy = "no" <=> \A c \in cs : c.kind = "list"
    /\ \A c, d \in cs : c.kind # "list" /\ d.kind # "list" => c = d
RecoveryInv == RecoveryFits(recovery) /\ RecoveryCallsFit(recovery, recoveryCalls)

-----------------------------------------------------------------------------
\* chooseIntervention
LEMMA FirstIsOne ==
  ASSUME RV!PlanRecoveryAssumption, NEW set, set \subseteq RV!Ids
  PROVE  RV!FirstThat(set) \subseteq set
<1>1. CASE set = {}
  BY <1>1 DEF RV!FirstThat
<1>2. CASE set # {}
  <2> DEFINE T == {n \in 1 .. Len(Interventions) : Interventions[n] \in set}
             First(i) == \A j \in set : \E x, y \in 1 .. Len(Interventions) :
                            x <= y /\ Interventions[x] = i /\ Interventions[y] = j
  <2>1. \A j \in set : \E n \in T : Interventions[n] = j
    BY DEF RV!Ids, RV!ToSet, RV!PlanRecoveryAssumption
  <2>2. PICK n \in T : \A m \in T : n <= m
    <3>1. T \subseteq Nat /\ T # {}
      BY <1>2, <2>1
    <3> QED BY <3>1, Least
  <2>3. First(Interventions[n]) /\ Interventions[n] \in set
    BY <2>1, <2>2
  <2>4. RV!FirstThat(set) = {CHOOSE i \in set : First(i)}
    BY <1>2 DEF RV!FirstThat
  <2> HIDE DEF First
  <2> QED BY <2>3, <2>4
<1> QED BY <1>1, <1>2

\* What is chosen is listed, and is the one shown before if that is still open.
LEMMA ChosenIsListed ==
  ASSUME RV!PlanRecoveryAssumption, NEW listed \in SUBSET RV!Ids,
         NEW items \in [listed -> RV!InterventionStates], NEW plan, NEW id
  PROVE  LET i == RV!ChooseIntervention(items, plan, id)
         IN  /\ i \in listed \union {NoIntervention}
             /\ id \in listed /\ items[id] \notin RV!Over => i = id
<1> DEFINE active == {i \in listed : items[i] \notin RV!Over}
           current == {id} \intersect listed
           relevant == IF plan # NoIntervention THEN {plan} ELSE {PlanOfIntervention[i] : i \in current}
           c2 == RV!FirstThat({i \in active : PlanOfIntervention[i] \in relevant})
           c4 == RV!FirstThat(active)
           c5 == RV!FirstThat({i \in listed : PlanOfIntervention[i] = plan})
           c6 == RV!FirstThat(listed)
           choices == <<current \intersect active, c2, current, c4, c5, c6>>
           some == {k \in 1 .. 6 : choices[k] # {}}
           first == CHOOSE k \in some : \A l \in some : k <= l
           chosen == CHOOSE i \in choices[first] : TRUE
<1>1. RV!ChooseIntervention(items, plan, id) = IF some = {} THEN NoIntervention ELSE chosen
  BY DEF RV!ChooseIntervention
<1>2. /\ c2 \subseteq listed /\ c4 \subseteq listed /\ c5 \subseteq listed /\ c6 \subseteq listed
      /\ current \subseteq listed
  <2>1. active \subseteq listed /\ listed \subseteq RV!Ids
    OBVIOUS
  <2> HIDE DEF active, current, relevant
  <2>2. c2 \subseteq {i \in active : PlanOfIntervention[i] \in relevant}
    BY <2>1, FirstIsOne
  <2>3. c4 \subseteq active
    BY <2>1, FirstIsOne
  <2>4. c5 \subseteq {i \in listed : PlanOfIntervention[i] = plan}
    BY <2>1, FirstIsOne
  <2>5. c6 \subseteq listed
    BY <2>1, FirstIsOne
  <2> QED BY <2>1, <2>2, <2>3, <2>4, <2>5 DEF current
<1>3. id \in listed /\ items[id] \notin RV!Over => current \intersect active = {id}
  OBVIOUS
<1> HIDE DEF c2, c4, c5, c6, current, active
<1>4. \A k \in 1 .. 6 : choices[k] \subseteq listed
  BY <1>2
<1>5. choices[1] = current \intersect active
  OBVIOUS
<1> HIDE DEF choices
<1>6. CASE some = {}
  BY <1>1, <1>3, <1>5, <1>6
<1>7. CASE some # {}
  <2>1. first \in some /\ \A l \in some : first <= l
    <3>1. \E k \in some : \A l \in some : k <= l
      BY <1>7, Least
    <3> QED BY <3>1
  <2> HIDE DEF first
  <2>2. chosen \in choices[first]
    BY <2>1
  <2>3. 1 \in some => first = 1
    BY <2>1
  <2> HIDE DEF chosen
  <2> QED BY <1>1, <1>3, <1>4, <1>5, <1>7, <2>1, <2>2, <2>3
<1> QED BY <1>6, <1>7

-----------------------------------------------------------------------------
(* The panel. *)
LEMMA ShownFits ==
  ASSUME NEW r, RecoveryFits(r), NEW id \in RV!Ids, NEW state \in RV!InterventionStates, NEW q \in BOOLEAN
  PROVE  LET s == RV!Shown(r, id, state, q)
         IN  RecoveryFits(s) /\ s.busy = r.busy /\ s.id = id /\ s.list = r.list /\ s.state = state
BY DEF RecoveryFits, Recoveries, RV!Shown, RV!InterventionStates

LEMMA RecoveryInit ==
  ASSUME RV!Init
  PROVE  RecoveryInv
<1>1. [i \in {} |-> "closed"] \in Listed
  BY DEF Listed
<1> QED BY <1>1 DEF RV!Init, RecoveryInv, RecoveryFits, RecoveryCallsFit, Recoveries, RV!InterventionStates

\* The panel with its requests for lists.
LEMMA RecoveryClick ==
  ASSUME RecoveryInv, RV!Open \/ RV!Tick \/ RV!Close \/ RV!OpenQuestions \/ RV!CloseQuestions \/ RV!OpenPlan
  PROVE  RecoveryInv'
<1>0. /\ recovery \in Recoveries /\ RecoveryFits(recovery) /\ RecoveryCallsFit(recovery, recoveryCalls)
      /\ RV!Stepped \in Recoveries /\ RecoveryFits(RV!Stepped) /\ RV!Stepped.busy = recovery.busy
      /\ RV!Stepped.state = recovery.state
  BY DEF RecoveryInv, RecoveryFits, Recoveries, RV!Stepped
<1>a. ASSUME RecoveryFits(recovery'), recovery'.busy = recovery.busy,
             \/ recoveryCalls' = recoveryCalls
             \/ \E r \in Recoveries : recoveryCalls' = recoveryCalls \union {RV!List(r)}
      PROVE  RecoveryInv'
  <2>1. \A r \in Recoveries : RV!List(r) \in ListCalls /\ RV!List(r).kind = "list"
    BY DEF RV!List, ListCalls, Recoveries
  <2> QED BY <1>0, <1>a, <2>1 DEF RecoveryInv, RecoveryCallsFit
<1>1. CASE RV!Open
  <2>1. PICK p \in AskedPlans :
          LET r == [RV!Stepped EXCEPT !.open = TRUE, !.plan = p]
          IN  recovery' = r /\ recoveryCalls' = recoveryCalls \union {RV!List(r)}
    BY <1>1 DEF RV!Open
  <2>2. RecoveryFits(recovery') /\ recovery'.busy = recovery.busy /\ recovery' \in Recoveries
    BY <1>0, <2>1 DEF RecoveryFits, Recoveries
  <2> QED BY <1>a, <2>1, <2>2
<1>2. CASE RV!Tick
  BY <1>0, <1>2, <1>a DEF RV!Tick
<1>3. CASE RV!Close \/ RV!OpenPlan
  <2>1. recovery' = [recovery EXCEPT !.open = FALSE] /\ UNCHANGED recoveryCalls
    BY <1>3 DEF RV!Close, RV!OpenPlan
  <2>2. RecoveryFits(recovery') /\ recovery'.busy = recovery.busy
    BY <1>0, <2>1 DEF RecoveryFits, Recoveries
  <2> QED BY <1>a, <2>1, <2>2
<1>4. CASE RV!OpenQuestions
  <2>1. /\ recovery' = [RV!Stepped EXCEPT !.asking = TRUE] /\ UNCHANGED recoveryCalls
        /\ recovery.state = "missing_input"
    BY <1>4 DEF RV!OpenQuestions, RV!Offered, RV!RecoveryOffers
  <2>2. RecoveryFits(recovery') /\ recovery'.busy = recovery.busy
    BY <1>0, <2>1 DEF RecoveryFits, Recoveries
  <2> QED BY <1>a, <2>1, <2>2
<1>5. CASE RV!CloseQuestions
  <2>1. recovery' = [recovery EXCEPT !.asking = FALSE] /\ UNCHANGED recoveryCalls
    BY <1>5 DEF RV!CloseQuestions
  <2>2. RecoveryFits(recovery') /\ recovery'.busy = recovery.busy
    BY <1>0, <2>1 DEF RecoveryFits, Recoveries
  <2> QED BY <1>a, <2>1, <2>2
<1> QED BY <1>1, <1>2, <1>3, <1>4, <1>5

LEMMA RecoveryChosen ==
  ASSUME RecoveryInv, RV!Choose
  PROVE  RecoveryInv'
<1>0. /\ recovery \in Recoveries /\ RecoveryFits(RV!Stepped) /\ RV!Stepped.busy = recovery.busy
  BY DEF RecoveryInv, RecoveryFits, Recoveries, RV!Stepped
<1>1. PICK i \in DOMAIN recovery.list, q \in BOOLEAN :
        recovery' = RV!Shown(RV!Stepped, i, recovery.list[i], q)
  BY DEF RV!Choose
<1>2. i \in RV!Ids /\ recovery.list[i] \in RV!InterventionStates
  <2>1. recovery.list \in Listed
    BY <1>0 DEF Recoveries
  <2> QED BY <2>1 DEF Listed
<1>3. RecoveryFits(recovery') /\ recovery'.busy = recovery.busy
  BY <1>0, <1>1, <1>2, ShownFits
<1>4. recoveryCalls' = recoveryCalls
  BY DEF RV!Choose
<1> QED BY <1>3, <1>4 DEF RecoveryInv, RecoveryCallsFit

\* One action at a time.
LEMMA RecoveryAsked ==
  ASSUME RecoveryInv, RV!SelectProposal \/ RV!CloseIntervention \/ RV!AnswerQuestions
  PROVE  RecoveryInv'
<1>1. PICK kind \in {"select", "close", "answer"} : RV!Ask(RV!Stepped, kind)
  BY DEF RV!SelectProposal, RV!CloseIntervention, RV!AnswerQuestions
<1>2. recovery.busy = "no" /\ recovery.id # NoIntervention
  BY DEF RV!SelectProposal, RV!CloseIntervention, RV!AnswerQuestions, RV!Offered, RV!RecoveryOffers
<1>3. RecoveryFits(RV!Stepped) /\ recovery.id \in RV!Ids
  BY <1>2 DEF RecoveryInv, RecoveryFits, Recoveries, RV!Stepped
<1>4. /\ recovery' = [RV!Stepped EXCEPT !.busy = kind]
      /\ recoveryCalls' = recoveryCalls \union {[kind |-> kind, id |-> recovery.id]}
  BY <1>1 DEF RV!Ask
<1>5. RecoveryFits(recovery') /\ recovery'.busy = kind
  BY <1>3, <1>4 DEF RecoveryFits, Recoveries
<1>6. [kind |-> kind, id |-> recovery.id] \in ActionCalls
  BY <1>3 DEF ActionCalls
<1>7. RecoveryCallsFit(recovery', recoveryCalls')
  BY <1>2, <1>4, <1>5, <1>6 DEF RecoveryInv, RecoveryCallsFit
<1> QED BY <1>5, <1>7 DEF RecoveryInv, RecoveryFits, RecoveryCallsFit

LEMMA ListAnswered ==
  ASSUME RV!PlanRecoveryAssumption, RecoveryInv, NEW c \in recoveryCalls, RV!ListArrives(c)
  PROVE  /\ RecoveryInv'
         /\ (recovery.id \in DOMAIN recovery'.list /\ recovery'.list[recovery.id] \notin RV!Over) =>
              recovery'.id = recovery.id
<1>0. recovery \in Recoveries /\ RecoveryFits(recovery) /\ c.kind = "list" /\ recoveryCalls' = recoveryCalls \ {c}
  BY DEF RecoveryInv, RecoveryFits, RV!ListArrives
<1>1. CASE UNCHANGED recovery
  BY <1>0, <1>1 DEF RecoveryInv, RecoveryCallsFit, RecoveryFits
<1>2. CASE recovery' # recovery
  <2>1. PICK listed \in SUBSET RV!Ids :
          \E items \in [listed -> RV!InterventionStates], q \in BOOLEAN :
            LET id == RV!ChooseIntervention(items, c.plan, recovery.id)
                r == [recovery EXCEPT !.list = items]
            IN  recovery' = IF id = NoIntervention
                            THEN [r EXCEPT !.id = id, !.state = "closed", !.asking = FALSE]
                            ELSE RV!Shown(r, id, items[id], q)
    BY <1>2 DEF RV!ListArrives
  <2>2. PICK items \in [listed -> RV!InterventionStates], q \in BOOLEAN :
            LET id == RV!ChooseIntervention(items, c.plan, recovery.id)
                r == [recovery EXCEPT !.list = items]
            IN  recovery' = IF id = NoIntervention
                            THEN [r EXCEPT !.id = id, !.state = "closed", !.asking = FALSE]
                            ELSE RV!Shown(r, id, items[id], q)
    BY <2>1
  <2> DEFINE id == RV!ChooseIntervention(items, c.plan, recovery.id)
  <2>3. PICK r : r = [recovery EXCEPT !.list = items]
    OBVIOUS
  <2>4. RecoveryFits(r) /\ r.busy = recovery.busy /\ r.list = items
    BY <1>0, <2>3 DEF RecoveryFits, Recoveries, Listed
  <2>5. /\ id \in listed \union {NoIntervention}
        /\ recovery.id \in listed /\ items[recovery.id] \notin RV!Over => id = recovery.id
    BY ChosenIsListed
  <2>6. recovery' = IF id = NoIntervention
                    THEN [r EXCEPT !.id = NoIntervention, !.state = "closed", !.asking = FALSE]
                    ELSE RV!Shown(r, id, items[id], q)
    BY <2>2, <2>3
  <2> HIDE DEF id
  <2>7. RecoveryFits(recovery') /\ recovery'.busy = recovery.busy /\ recovery'.id = id /\ recovery'.list = items
    <3>1. CASE id = NoIntervention
      BY <2>4, <2>6, <3>1 DEF RecoveryFits, Recoveries, RV!InterventionStates
    <3>2. CASE id # NoIntervention
      BY <2>4, <2>5, <2>6, <3>2, ShownFits
    <3> QED BY <3>1, <3>2
  <2>8. RecoveryInv'
    BY <1>0, <2>7 DEF RecoveryInv, RecoveryCallsFit
  <2> QED BY <2>5, <2>7, <2>8
<1> QED BY <1>1, <1>2

LEMMA ActionAnswered ==
  ASSUME RecoveryInv, NEW c \in recoveryCalls, RV!ActionArrives(c)
  PROVE  RecoveryInv'
<1>0. recovery \in Recoveries /\ RecoveryFits(recovery) /\ c.kind # "list" /\ recoveryCalls' = recoveryCalls \ {c}
  BY DEF RecoveryInv, RecoveryFits, RV!ActionArrives
<1>1. c.id \in RV!Ids
  BY <1>0 DEF RecoveryInv, RecoveryCallsFit, ListCalls, ActionCalls
<1>2. RecoveryFits(recovery') /\ recovery'.busy = "no"
  <2>1. CASE recovery' = [recovery EXCEPT !.busy = "no"]
    BY <1>0, <2>1 DEF RecoveryFits, Recoveries
  <2>2. CASE recovery' # [recovery EXCEPT !.busy = "no"]
    <3> DEFINE Now(state) == [i \in DOMAIN recovery.list |-> IF i = c.id THEN state ELSE recovery.list[i]]
               Free(state) == [recovery EXCEPT !.busy = "no", !.list = Now(state)]
    <3>1. PICK state \in RV!InterventionStates, q \in BOOLEAN :
            LET shown == RV!Shown(Free(state), c.id, state, q)
            IN  recovery' = IF c.kind = "answer"
                            THEN [shown EXCEPT !.asking = state = "missing_input" /\ q] ELSE shown
      BY <2>2 DEF RV!ActionArrives
    <3>2. Now(state) \in Listed
      <4>1. recovery.list \in Listed
        BY <1>0 DEF Recoveries
      <4> QED BY <4>1 DEF Listed
    <3>3. PICK now : now = Now(state)
      OBVIOUS
    <3>4. PICK r : r = [recovery EXCEPT !.busy = "no", !.list = now]
      OBVIOUS
    <3>5. RecoveryFits(r) /\ r.busy = "no" /\ r = Free(state)
      BY <1>0, <3>2, <3>3, <3>4 DEF RecoveryFits, Recoveries
    <3> HIDE DEF Now, Free
    <3>6. PICK shown : shown = RV!Shown(r, c.id, state, q)
      OBVIOUS
    <3>7. RecoveryFits(shown) /\ shown.busy = "no" /\ shown.state = state
      BY <1>1, <3>5, <3>6, ShownFits
    <3>8. \/ recovery' = [shown EXCEPT !.asking = state = "missing_input" /\ q]
          \/ recovery' = shown
      BY <3>1, <3>5, <3>6
    <3> QED BY <3>7, <3>8 DEF RecoveryFits, Recoveries
  <2> QED BY <2>1, <2>2
<1>3. RecoveryCallsFit(recovery', recoveryCalls')
  BY <1>0, <1>2 DEF RecoveryInv, RecoveryCallsFit
<1> QED BY <1>2, <1>3 DEF RecoveryInv, RecoveryFits, RecoveryCallsFit

LEMMA RecoveryStep ==
  ASSUME RV!PlanRecoveryAssumption, RecoveryInv, [RV!Next]_<<recovery, recoveryCalls>>
  PROVE  RecoveryInv'
<1>1. CASE UNCHANGED <<recovery, recoveryCalls>>
  BY <1>1 DEF RecoveryInv, RecoveryFits, RecoveryCallsFit
<1>2. CASE RV!Next
  BY <1>2, RecoveryClick, RecoveryChosen, RecoveryAsked, ListAnswered, ActionAnswered DEF RV!Next
<1> QED BY <1>1, <1>2

LEMMA RecoveryAlways ==
  ASSUME RV!PlanRecoveryAssumption
  PROVE  RV!Spec => []RecoveryInv
BY RecoveryInit, RecoveryStep, PTL DEF RV!Spec, RV!vars

\* The panel of the interventions shows interventions that are listed, in their
\* states.
THEOREM RecoveryTyped == RV!PlanRecoveryAssumption => (RV!Spec => []RV!TypeOK)
<1> SUFFICES ASSUME RV!PlanRecoveryAssumption PROVE RV!Spec => []RV!TypeOK
  OBVIOUS
<1>1. RecoveryInv => RV!TypeOK
  BY DEF RecoveryInv, RecoveryFits, Recoveries, Listed, RV!TypeOK
<1> QED BY <1>1, RecoveryAlways, PTL

\* The dialog with the Agent's questions is open only for an intervention that
\* needs input, although lists and answers change what is shown meanwhile.
THEOREM QuestionsNeeded == RV!PlanRecoveryAssumption => (RV!Spec => []RV!QuestionsAreNeeded)
<1> SUFFICES ASSUME RV!PlanRecoveryAssumption PROVE RV!Spec => []RV!QuestionsAreNeeded
  OBVIOUS
<1>1. RecoveryInv => RV!QuestionsAreNeeded
  BY DEF RecoveryInv, RecoveryFits, RV!QuestionsAreNeeded
<1> QED BY <1>1, RecoveryAlways, PTL

\* The panel is busy exactly while an action is under way, and one is at a time.
THEOREM RecoveryIsBacked == RV!PlanRecoveryAssumption => (RV!Spec => []RV!BusyIsBacked)
<1> SUFFICES ASSUME RV!PlanRecoveryAssumption PROVE RV!Spec => []RV!BusyIsBacked
  OBVIOUS
<1>1. RecoveryInv => RV!BusyIsBacked
  BY DEF RecoveryInv, RecoveryCallsFit, RV!BusyIsBacked
<1> QED BY <1>1, RecoveryAlways, PTL

\* A list never takes the user away from an intervention that is still open.
THEOREM ChosenStays ==
  RV!PlanRecoveryAssumption => (RV!Spec => [][RV!ChoiceStays]_<<recovery, recoveryCalls>>)
<1> SUFFICES ASSUME RV!PlanRecoveryAssumption
             PROVE  RV!Spec => [][RV!ChoiceStays]_<<recovery, recoveryCalls>>
  OBVIOUS
<1>1. ASSUME RecoveryInv, RV!Next PROVE RV!ChoiceStays
  <2>1. SUFFICES ASSUME NEW c \in recoveryCalls \ recoveryCalls', c.kind = "list",
                        recovery.id \in DOMAIN recovery'.list, recovery'.list[recovery.id] \notin RV!Over
                 PROVE  recovery'.id = recovery.id
    BY DEF RV!ChoiceStays
  <2>2. PICK d \in recoveryCalls : recoveryCalls' = recoveryCalls \ {d} /\ (RV!ListArrives(d) \/ RV!ActionArrives(d))
    BY <1>1, <2>1 DEF RV!Next, RV!Open, RV!Tick, RV!Close, RV!Choose, RV!SelectProposal, RV!CloseIntervention,
       RV!AnswerQuestions, RV!OpenQuestions, RV!CloseQuestions, RV!OpenPlan, RV!Ask, RV!ListArrives,
       RV!ActionArrives
  <2>3. c = d
    BY <2>2
  <2>4. RV!ListArrives(d)
    BY <2>1, <2>2, <2>3 DEF RV!ActionArrives
  <2> QED BY <1>1, <2>1, <2>4, ListAnswered
<1> QED BY <1>1, RecoveryAlways, PTL DEF RV!Spec, RV!vars

-----------------------------------------------------------------------------
(***************************************************************************)
(* PlanForm: the form of the plan panel.                                   *)
(***************************************************************************)
Patches == UNION {[paths -> {"user", "agent"}] : paths \in SUBSET Paths}
Forms == [open : BOOLEAN, show : BOOLEAN, target : PF!Targets, values : [1 .. 3 -> Patches],
          schema : PF!Targets \union {NoTarget}, schemaLoading : BOOLEAN, assisting : BOOLEAN,
          asked : SUBSET Fields, questions : SUBSET Fields, confirmed : SUBSET Fields,
          stalled : BOOLEAN, failed : BOOLEAN, compiling : BOOLEAN, steps : Nat]
SchemaCall == [kind : {"schema"}, target : PF!Targets]
AssistCall == [kind : {"assist"}, stages : (SUBSET (1 .. 3)) \ {{}}, confirmed : SUBSET Fields]
OtherCall == [kind : {"review", "create"}]

\* A form f whose questions are unanswered and whose schema is of its target.
FormFits(f) ==
    /\ f \in Forms /\ f.questions \subseteq f.asked /\ f.questions \intersect f.confirmed = {}
    /\ f.schema \in {f.target, NoTarget}
\* The requests cs under way other than those for a schema: the Agent has been
\* told at least what the form has confirmed.
AssistFits(f, cs) ==
    /\ cs \subseteq SchemaCall \union AssistCall \union OtherCall
    /\ \A c \in cs : c.kind = "assist" => f.confirmed \subseteq c.confirmed
    /\ \A c, d \in cs : c.kind = "assist" /\ d.kind = "assist" => c = d
    /\ f.assisting <=> \E c \in cs : c.kind = "assist"
    /\ f.compiling <=> \E c \in cs : c.kind = "create"
\* The request for a schema is for the target of the form.
SchemaFits(f, cs) ==
    /\ \A c \in cs : c.kind = "schema" => c.target = f.target
    /\ PF!Showing(f) /\ f.schemaLoading => \E c \in cs : c.kind = "schema"
FormInv == FormFits(form) /\ AssistFits(form, formCalls) /\ SchemaFits(form, formCalls)

-----------------------------------------------------------------------------
(* Stages and patches. *)
LEMMA StagesRun ==
  ASSUME PF!PlanFormAssumption
  PROVE  /\ PF!Targets \subseteq 1 .. 3 /\ PF!Min(PF!Targets) \in PF!Targets
         /\ \A t \in PF!Targets : PF!DownstreamStages(t) \subseteq 1 .. 3 /\ PF!DownstreamStages(t) # {}
<1>1. PF!Targets \subseteq 1 .. 3 /\ PF!Targets # {}
  BY DEF PF!PlanFormAssumption, PF!Targets
<1>2. \E x \in PF!Targets : \A y \in PF!Targets : x <= y
  <2>1. PF!Targets \subseteq Nat
    BY <1>1
  <2> QED BY <1>1, <2>1, Least
<1>3. PF!Min(PF!Targets) \in PF!Targets
  BY <1>2 DEF PF!Min
<1>4. ASSUME NEW t \in PF!Targets
      PROVE  PF!DownstreamStages(t) \subseteq 1 .. 3 /\ t \in PF!DownstreamStages(t)
  BY DEF PF!PlanFormAssumption, PF!Targets, PF!DownstreamStages
<1> QED BY <1>1, <1>3, <1>4

LEMMA LastStage ==
  ASSUME NEW S, S \subseteq 1 .. 3, S # {}
  PROVE  PF!Max(S) \in S
<1>1. \E x \in S : \A y \in S : x >= y
  <2> DEFINE T == {4 - x : x \in S}
  <2>1. T \subseteq Nat /\ T # {} /\ \A x \in S : 4 - x \in T
    <3>1. \A x \in S : 4 - x \in Nat
      OBVIOUS
    <3>2. T # {} /\ \A x \in S : 4 - x \in T
      OBVIOUS
    <3> QED BY <3>1, <3>2
  <2>2. PICK z \in T : \A y \in T : z <= y
    <3> HIDE DEF T
    <3> QED BY <2>1, Least
  <2>3. PICK x \in S : z = 4 - x
    OBVIOUS
  <2>4. \A y \in S : 4 - x <= 4 - y
    BY <2>1, <2>2, <2>3
  <2>5. \A y \in S : x >= y
    <3> TAKE y \in S
    <3> HIDE DEF T
    <3>1. x \in 0..4 /\ y \in 0..4
      OBVIOUS
    <3>2. 4 - x <= 4 - y
      BY <2>4
    <3> QED BY <3>1, <3>2
  <2> QED BY <2>5
<1> QED BY <1>1 DEF PF!Max

\* The stages that set path p, and all paths that are set.
Setting(stages, values, p) == {s \in stages : p \in DOMAIN values[s]}
SetPaths(stages, values) == UNION {DOMAIN values[s] : s \in stages}

\* mergeStagePatches, path by path
IsMerge(m, stages, values, advanced) ==
    /\ m \in Patches
    /\ DOMAIN m = DOMAIN advanced \union SetPaths(stages, values)
    /\ \A p \in DOMAIN m : /\ p \in DOMAIN advanced => m[p] = advanced[p]
                           /\ p \notin DOMAIN advanced => m[p] = values[PF!Max(Setting(stages, values, p))][p]
LEMMA Merged ==
  ASSUME NEW stages, stages \subseteq 1 .. 3, NEW values \in [1 .. 3 -> Patches], NEW advanced \in Patches
  PROVE  IsMerge(PF!MergeStagePatches(stages, values, advanced), stages, values, advanced)
<1> DEFINE m == PF!MergeStagePatches(stages, values, advanced)
<1> DEFINE all == SetPaths(stages, values)
<1>1. m = [p \in DOMAIN advanced \union all |->
             IF p \in DOMAIN advanced THEN advanced[p] ELSE values[PF!Max(Setting(stages, values, p))][p]]
  BY DEF PF!MergeStagePatches, PF!Over, SetPaths, Setting
<1>2. all \subseteq Paths /\ DOMAIN advanced \subseteq Paths
  BY DEF Patches, SetPaths
<1>3. \A p \in all : values[PF!Max(Setting(stages, values, p))][p] \in {"user", "agent"}
  <2> SUFFICES ASSUME NEW p \in all PROVE values[PF!Max(Setting(stages, values, p))][p] \in {"user", "agent"}
    OBVIOUS
  <2>1. Setting(stages, values, p) \subseteq 1 .. 3 /\ Setting(stages, values, p) # {}
    BY DEF Setting, SetPaths
  <2>2. PICK s : s = PF!Max(Setting(stages, values, p))
    OBVIOUS
  <2>3. s \in 1 .. 3 /\ p \in DOMAIN values[s]
    BY <2>1, <2>2, LastStage DEF Setting
  <2>4. values[s][p] \in {"user", "agent"}
    BY <2>3 DEF Patches
  <2> QED BY <2>2, <2>4
<1>4. \A p \in DOMAIN advanced : advanced[p] \in {"user", "agent"}
  BY DEF Patches
<1> HIDE DEF all
<1> HIDE DEF m
<1>5. m \in [DOMAIN advanced \union all -> {"user", "agent"}]
  BY <1>1, <1>3, <1>4
<1>6. m \in Patches
  BY <1>2, <1>5 DEF Patches
<1> QED BY <1>1, <1>6 DEF all, m, IsMerge

\* A proposal that is applied keeps every path in one stage, and changes what
\* the stages give together at the paths of the proposal only.
LEMMA Applied ==
  ASSUME NEW stages, stages \subseteq 1 .. 3, stages # {}, NEW values \in [1 .. 3 -> Patches],
         NEW proposal \in Patches
  PROVE  LET v == PF!ApplyProposalToStagePatches(stages, values, proposal)
             old == PF!MergeStagePatches(stages, values, PF!EmptyPatch)
             new == PF!MergeStagePatches(stages, v, PF!EmptyPatch)
         IN  /\ v \in [1 .. 3 -> Patches]
             /\ \A p \in DOMAIN old : /\ p \in DOMAIN new
                                      /\ new[p] = IF p \in DOMAIN proposal THEN proposal[p] ELSE old[p]
<1> DEFINE m == PF!MergeStagePatches(stages, values, proposal)
           StageOf(p) == IF StageForPath[p] \in stages THEN StageForPath[p] ELSE PF!Max(stages)
           v == [s \in 1 .. 3 |-> PF!Restrict(m, {p \in DOMAIN m : StageOf(p) = s})]
           old == PF!MergeStagePatches(stages, values, PF!EmptyPatch)
           new == PF!MergeStagePatches(stages, v, PF!EmptyPatch)
<1>0. PF!ApplyProposalToStagePatches(stages, values, proposal) = v
  BY DEF PF!ApplyProposalToStagePatches, PF!PartitionPatchByStages
<1>1. IsMerge(m, stages, values, proposal)
  BY Merged
<1> HIDE DEF m
<1>2. \A p : StageOf(p) \in stages
  BY LastStage
<1> HIDE DEF StageOf
<1>3. \A s \in 1 .. 3 : /\ v[s] = [p \in {q \in DOMAIN m : StageOf(q) = s} |-> m[p]]
                        /\ DOMAIN v[s] = {q \in DOMAIN m : StageOf(q) = s}
  BY DEF PF!Restrict
<1>4. v \in [1 .. 3 -> Patches]
  <2> SUFFICES ASSUME NEW s \in 1 .. 3 PROVE v[s] \in Patches
    BY Zenon
  <2>1. v[s] \in [{q \in DOMAIN m : StageOf(q) = s} -> {"user", "agent"}]
    <3>1. \A p \in DOMAIN m : m[p] \in {"user", "agent"}
      BY <1>1 DEF Patches, IsMerge
    <3> QED BY <1>3, <3>1
  <2>2. {q \in DOMAIN m : StageOf(q) = s} \subseteq Paths
    BY <1>1 DEF Patches, IsMerge
  <2> QED BY <2>1, <2>2 DEF Patches
<1> HIDE DEF v
<1>5. PF!EmptyPatch \in Patches /\ DOMAIN PF!EmptyPatch = {}
  <2>1. PF!EmptyPatch \in [{} -> {"user", "agent"}] /\ {} \in SUBSET Paths
    BY DEF PF!EmptyPatch
  <2> QED BY <2>1 DEF Patches
<1>6. /\ DOMAIN old = SetPaths(stages, values)
      /\ \A p \in DOMAIN old : old[p] = values[PF!Max(Setting(stages, values, p))][p]
  <2>1. IsMerge(old, stages, values, PF!EmptyPatch)
    BY <1>5, Merged
  <2> HIDE DEF old
  <2> QED BY <1>5, <2>1 DEF IsMerge
<1>7. /\ DOMAIN new = SetPaths(stages, v)
      /\ \A p \in DOMAIN new : new[p] = v[PF!Max(Setting(stages, v, p))][p]
  <2>1. IsMerge(new, stages, v, PF!EmptyPatch)
    BY <1>4, <1>5, Merged
  <2> HIDE DEF new
  <2> QED BY <1>5, <2>1 DEF IsMerge
<1> HIDE DEF old, new
<1>8. ASSUME NEW p \in DOMAIN old
      PROVE  p \in DOMAIN new /\ new[p] = m[p] /\ p \in DOMAIN m
  <2>1. p \in DOMAIN m
    BY <1>1, <1>6 DEF IsMerge
  <2>2. PICK s \in stages : s = StageOf(p)
    BY <1>2
  <2>3. p \in DOMAIN v[s] /\ v[s][p] = m[p]
    <3>1. p \in {q \in DOMAIN m : StageOf(q) = s} /\ s \in 1 .. 3
      BY <2>1, <2>2
    <3>2. v[s] = [x \in {q \in DOMAIN m : StageOf(q) = s} |-> m[x]]
      BY <1>3, <3>1
    <3> QED BY <3>1, <3>2
  <2>4. \A r \in stages : p \in DOMAIN v[r] => r = s
    BY <1>3, <2>1, <2>2
  <2>5. Setting(stages, v, p) = {s}
    BY <2>3, <2>4 DEF Setting
  <2>6. PF!Max(Setting(stages, v, p)) = s
    BY <2>5, LastStage
  <2>7. p \in DOMAIN new
    BY <1>7, <2>3 DEF SetPaths
  <2>8. new[p] = v[s][p]
    BY <1>7, <2>6, <2>7
  <2> QED BY <2>1, <2>3, <2>7, <2>8
<1>9. \A p \in DOMAIN old : /\ p \in DOMAIN new
                            /\ new[p] = IF p \in DOMAIN proposal THEN proposal[p] ELSE old[p]
  BY <1>1, <1>6, <1>8 DEF IsMerge
<1> QED BY <1>0, <1>4, <1>9 DEF old, new

-----------------------------------------------------------------------------
(* The form. *)
LEMMA NothingSet ==
  PF!EmptyPatch \in Patches /\ PF!NoValues \in [1 .. 3 -> Patches]
<1>1. PF!EmptyPatch \in [{} -> {"user", "agent"}] /\ {} \in SUBSET Paths
  BY DEF PF!EmptyPatch
<1>2. PF!EmptyPatch \in Patches
  BY <1>1 DEF Patches
<1> QED BY <1>2 DEF PF!NoValues

LEMMA SteppedFits ==
  ASSUME FormInv
  PROVE  LET f == PF!Stepped
         IN  /\ FormFits(f) /\ f.confirmed = form.confirmed /\ f.assisting = form.assisting
             /\ f.compiling = form.compiling /\ f.target = form.target /\ f.values = form.values
             /\ f.open = form.open /\ f.show = form.show /\ f.schemaLoading = form.schemaLoading
             /\ f.schema = form.schema /\ f.asked = form.asked /\ f.questions = form.questions
BY DEF FormInv, FormFits, Forms, PF!Stepped

\* What the change of the target and of the resource both forget
LEMMA UnassistedFits ==
  ASSUME NEW f, FormFits(f)
  PROVE  LET e == PF!Unassisted(f)
         IN  /\ e \in Forms /\ e.questions = {} /\ e.confirmed = {} /\ e.schema = NoTarget
             /\ e.assisting = f.assisting /\ e.compiling = f.compiling
<1> DEFINE a == [f EXCEPT !.values = PF!NoValues, !.schema = NoTarget, !.asked = {}]
           b == [a EXCEPT !.questions = {}, !.confirmed = {}]
           e == [b EXCEPT !.stalled = FALSE, !.failed = FALSE]
<1>1. a \in Forms /\ a.schema = NoTarget /\ a.assisting = f.assisting /\ a.compiling = f.compiling
  BY NothingSet DEF FormFits, Forms
<1> HIDE DEF a
<1>2. /\ b \in Forms /\ b.schema = NoTarget /\ b.assisting = f.assisting /\ b.compiling = f.compiling
      /\ b.questions = {} /\ b.confirmed = {}
  BY <1>1 DEF Forms
<1> HIDE DEF b
<1>3. /\ e \in Forms /\ e.schema = NoTarget /\ e.assisting = f.assisting /\ e.compiling = f.compiling
      /\ e.questions = {} /\ e.confirmed = {}
  BY <1>2 DEF Forms
<1>4. PF!Unassisted(f) = e
  BY Zenon DEF PF!Unassisted, a, b
<1> QED BY <1>3, <1>4

\* Less to know and the same runs.
LEMMA AssistKept ==
  ASSUME NEW f, NEW e, NEW cs, AssistFits(f, cs), e.confirmed \subseteq f.confirmed,
         e.assisting = f.assisting, e.compiling = f.compiling
  PROVE  AssistFits(e, cs)
BY DEF AssistFits

\* The schema effect.
LEMMA FormRendered ==
  ASSUME NEW f, NEW cs, FormFits(f), AssistFits(f, cs), PF!Rendered(f, cs)
  PROVE  FormInv'
<1>1. AssistFits(f, PF!Unloaded(cs)) /\ \A c \in PF!Unloaded(cs) : c.kind # "schema"
  BY DEF AssistFits, PF!Unloaded
<1>2. CASE ~PF!Showing(f)
  <2>1. form' = f /\ formCalls' = PF!Unloaded(cs)
    BY <1>2 DEF PF!Rendered
  <2> QED BY <1>1, <1>2, <2>1 DEF FormInv, SchemaFits, FormFits, AssistFits, PF!Showing
<1>3. CASE PF!Showing(f)
  <2> DEFINE c == [kind |-> "schema", target |-> f.target]
  <2>1. form' = [f EXCEPT !.schemaLoading = TRUE] /\ formCalls' = PF!Unloaded(cs) \union {c}
    BY <1>3 DEF PF!Rendered
  <2>2. /\ form' \in Forms /\ form'.questions = f.questions /\ form'.asked = f.asked
        /\ form'.confirmed = f.confirmed /\ form'.schema = f.schema /\ form'.target = f.target
        /\ form'.assisting = f.assisting /\ form'.compiling = f.compiling
    BY <2>1 DEF FormFits, Forms
  <2>3. c \in SchemaCall /\ c.kind = "schema" /\ c.target = f.target
    BY DEF FormFits, Forms, SchemaCall
  <2> HIDE DEF c
  <2>4. FormFits(form')
    BY <2>2 DEF FormFits
  <2>5. AssistFits(form', formCalls')
    BY <1>1, <2>1, <2>2, <2>3 DEF AssistFits
  <2>6. SchemaFits(form', formCalls')
    BY <1>1, <2>1, <2>2, <2>3 DEF SchemaFits
  <2> QED BY <2>4, <2>5, <2>6 DEF FormInv, FormFits, AssistFits, SchemaFits, PF!Showing
<1> QED BY <1>2, <1>3

\* A step that leaves the target and its request alone.
LEMMA SchemaStays ==
  ASSUME FormInv, FormFits(form'), AssistFits(form', formCalls'), form'.target = form.target,
         PF!Showing(form') /\ form'.schemaLoading => PF!Showing(form) /\ form.schemaLoading,
         \A c : c.kind = "schema" => (c \in formCalls <=> c \in formCalls')
  PROVE  FormInv'
<1>1. SchemaFits(form', formCalls')
  BY DEF FormInv, SchemaFits
<1> QED BY <1>1 DEF FormInv, FormFits, AssistFits, SchemaFits, PF!Showing

LEMMA FormInit ==
  ASSUME PF!PlanFormAssumption, PF!Init
  PROVE  FormInv
<1>1. PF!Min(PF!Targets) \in PF!Targets
  BY StagesRun
<1> QED BY <1>1, NothingSet DEF PF!Init, FormInv, FormFits, AssistFits, SchemaFits, Forms

-----------------------------------------------------------------------------
(* The user. *)
LEMMA FormOpened ==
  ASSUME PF!PlanFormAssumption, FormInv, PF!Open \/ PF!ChangeTarget
  PROVE  FormInv'
<1> DEFINE u == PF!Unassisted(PF!Stepped)
<1>1. /\ u \in Forms /\ u.questions = {} /\ u.confirmed = {} /\ u.schema = NoTarget
      /\ u.assisting = form.assisting /\ u.compiling = form.compiling
  BY SteppedFits, UnassistedFits
<1> HIDE DEF u
<1>2. ASSUME NEW f, NEW cs, f \in Forms, f.questions = {}, f.confirmed = {}, f.schema = NoTarget,
             f.assisting = form.assisting, f.compiling = form.compiling,
             cs = formCalls \/ cs = formCalls \union {[kind |-> "review"]}, PF!Rendered(f, cs)
      PROVE  FormInv'
  <2>1. FormFits(f)
    BY <1>2 DEF FormFits
  <2>2. [kind |-> "review"] \in OtherCall /\ [kind |-> "review"].kind = "review"
    BY DEF OtherCall
  <2>3. AssistFits(f, cs)
    BY <1>2, <2>2 DEF FormInv, AssistFits
  <2> QED BY <1>2, <2>1, <2>3, FormRendered
<1>3. CASE PF!Open
  <2>1. PICK r \in BOOLEAN :
          PF!Rendered([u EXCEPT !.open = TRUE, !.show = ~r, !.target = PF!Min(PF!Targets)],
                      IF r THEN formCalls \union {[kind |-> "review"]} ELSE formCalls)
    BY <1>3 DEF PF!Open, u
  <2>2. PICK f : f = [u EXCEPT !.open = TRUE, !.show = ~r, !.target = PF!Min(PF!Targets)]
    OBVIOUS
  <2>3. PICK cs : cs = IF r THEN formCalls \union {[kind |-> "review"]} ELSE formCalls
    OBVIOUS
  <2>4. /\ f \in Forms /\ f.questions = {} /\ f.confirmed = {} /\ f.schema = NoTarget
        /\ f.assisting = form.assisting /\ f.compiling = form.compiling
    BY <1>1, <2>2, StagesRun DEF Forms
  <2> QED BY <1>2, <2>1, <2>2, <2>3, <2>4
<1>4. CASE PF!ChangeTarget
  <2>1. PICK t \in PF!Targets : PF!Rendered([u EXCEPT !.target = t], formCalls)
    BY <1>4 DEF PF!ChangeTarget, u
  <2>2. PICK f : f = [u EXCEPT !.target = t]
    OBVIOUS
  <2>3. /\ f \in Forms /\ f.questions = {} /\ f.confirmed = {} /\ f.schema = NoTarget
        /\ f.assisting = form.assisting /\ f.compiling = form.compiling
    BY <1>1, <2>2 DEF Forms
  <2> QED BY <1>2, <2>1, <2>2, <2>3
<1> QED BY <1>3, <1>4

LEMMA FormShown ==
  ASSUME FormInv, PF!Close \/ PF!History \/ \E c \in formCalls : PF!ReviewArrives(c)
  PROVE  FormInv'
<1>1. ASSUME NEW f \in {form, PF!Stepped}, NEW e, NEW cs, \E o, h \in BOOLEAN : e = [f EXCEPT !.open = o, !.show = h],
             AssistFits(form, cs), PF!Rendered(e, cs)
      PROVE  FormInv'
  <2>1. FormFits(f) /\ f.confirmed = form.confirmed /\ f.assisting = form.assisting
        /\ f.compiling = form.compiling
    BY SteppedFits DEF FormInv
  <2>2. /\ FormFits(e) /\ e.confirmed = f.confirmed /\ e.assisting = f.assisting
        /\ e.compiling = f.compiling
    BY <1>1, <2>1 DEF FormFits, Forms
  <2>3. AssistFits(e, cs)
    BY <1>1, <2>1, <2>2, AssistKept
  <2> QED BY <1>1, <2>2, <2>3, FormRendered
<1>2. form \in Forms /\ PF!Stepped \in Forms
  BY SteppedFits DEF FormInv, FormFits
<1>3. CASE PF!Close
  <2>1. PICK e : e = [form EXCEPT !.open = FALSE] /\ PF!Rendered(e, formCalls)
    BY <1>3 DEF PF!Close
  <2>2. e = [form EXCEPT !.open = FALSE, !.show = form.show] /\ form.show \in BOOLEAN
    BY <1>2, <2>1 DEF Forms
  <2> QED BY <1>1, <2>1, <2>2 DEF FormInv
<1>4. CASE PF!History
  <2>1. PICK e : e = [PF!Stepped EXCEPT !.show = ~@] /\ PF!Rendered(e, formCalls)
    BY <1>4 DEF PF!History
  <2>2. \E o, h \in BOOLEAN : e = [PF!Stepped EXCEPT !.open = o, !.show = h]
    <3>1. /\ e = [PF!Stepped EXCEPT !.open = PF!Stepped.open, !.show = ~PF!Stepped.show]
          /\ PF!Stepped.open \in BOOLEAN /\ (~PF!Stepped.show) \in BOOLEAN
      BY <1>2, <2>1 DEF Forms
    <3> QED BY <3>1
  <2> QED BY <1>1, <2>1, <2>2 DEF FormInv
<1>5. CASE \E c \in formCalls : PF!ReviewArrives(c)
  <2>1. PICK c \in formCalls : PF!ReviewArrives(c)
    BY <1>5
  <2>2. c.kind = "review" /\ AssistFits(form, formCalls \ {c})
    BY <2>1 DEF FormInv, AssistFits, PF!ReviewArrives
  <2>3. CASE PF!Rendered([form EXCEPT !.show = FALSE], formCalls \ {c})
    <3>1. [form EXCEPT !.show = FALSE] = [form EXCEPT !.open = form.open, !.show = FALSE] /\ form.open \in BOOLEAN
      BY <1>2 DEF Forms
    <3> QED BY <1>1, <2>2, <2>3, <3>1
  <2>4. CASE form' = form /\ formCalls' = formCalls \ {c}
    BY <2>2, <2>4, SchemaStays DEF FormInv
  <2> QED BY <2>1, <2>3, <2>4 DEF PF!ReviewArrives
<1> QED BY <1>3, <1>4, <1>5

LEMMA FormEdited ==
  ASSUME PF!PlanFormAssumption, FormInv, PF!Edit
  PROVE  FormInv'
<1>1. PICK s \in PF!ActiveStages(form), p \in Paths :
        form' = [PF!Stepped EXCEPT !.values[s] = PF!Over([q \in {p} |-> "user"], @)]
  BY DEF PF!Edit
<1>2. PICK f : f = PF!Stepped
  OBVIOUS
<1>3. /\ f \in Forms /\ FormFits(f) /\ f.confirmed = form.confirmed /\ f.assisting = form.assisting
      /\ f.compiling = form.compiling /\ f.target = form.target /\ f.values = form.values
      /\ f.open = form.open /\ f.show = form.show /\ f.schemaLoading = form.schemaLoading
  BY <1>2, SteppedFits DEF FormFits
<1>4. s \in 1 .. 3 /\ f.values \in [1 .. 3 -> Patches]
  BY <1>3, StagesRun DEF PF!ActiveStages, FormInv, FormFits, Forms
<1>5. PICK q : q = PF!Over([x \in {p} |-> "user"], f.values[s])
  OBVIOUS
<1>6. q \in Patches
  <2>1. f.values[s] \in Patches
    BY <1>4
  <2>2. q \in [{p} \union DOMAIN f.values[s] -> {"user", "agent"}] /\ {p} \union DOMAIN f.values[s] \subseteq Paths
    BY <1>5, <2>1 DEF PF!Over, Patches
  <2> QED BY <2>2 DEF Patches
<1>7. [f.values EXCEPT ![s] = q] \in [1 .. 3 -> Patches]
  BY <1>4, <1>6
<1>8. form' = [f EXCEPT !.values = [f.values EXCEPT ![s] = q]]
  BY <1>1, <1>2, <1>3, <1>4, <1>5 DEF Forms
<1>9. PICK v \in [1 .. 3 -> Patches] : form' = [f EXCEPT !.values = v]
  BY <1>7, <1>8
<1>10. /\ FormFits(form') /\ form'.confirmed = form.confirmed /\ form'.assisting = form.assisting
       /\ form'.compiling = form.compiling /\ form'.target = form.target
       /\ form'.open = form.open /\ form'.show = form.show /\ form'.schemaLoading = form.schemaLoading
  BY <1>3, <1>9 DEF FormFits, Forms
<1>11. formCalls' = formCalls
  BY DEF PF!Edit
<1>12. AssistFits(form', formCalls')
  BY <1>10, <1>11, AssistKept DEF FormInv
<1> QED BY <1>10, <1>11, <1>12, SchemaStays DEF PF!Showing

LEMMA SchemaAnswered ==
  ASSUME FormInv, NEW c \in formCalls, PF!SchemaArrives(c)
  PROVE  FormInv'
<1>1. PICK ok \in BOOLEAN :
        form' = [form EXCEPT !.schemaLoading = FALSE, !.schema = IF ok THEN c.target ELSE NoTarget]
  BY DEF PF!SchemaArrives
<1>2. c.kind = "schema" /\ formCalls' = formCalls \ {c} /\ c.target = form.target
  BY DEF PF!SchemaArrives, FormInv, SchemaFits
<1>3. form \in Forms /\ FormFits(form) /\ form.target \in PF!Targets
  BY DEF FormInv, FormFits, Forms
<1>4. /\ FormFits(form') /\ form'.confirmed = form.confirmed /\ form'.assisting = form.assisting
      /\ form'.compiling = form.compiling /\ form'.target = form.target /\ form'.schemaLoading = FALSE
  BY <1>1, <1>2, <1>3 DEF FormFits, Forms
<1>5. AssistFits(form', formCalls')
  BY <1>2, <1>4 DEF FormInv, AssistFits
<1>6. SchemaFits(form', formCalls')
  BY <1>2, <1>4 DEF FormInv, SchemaFits
<1> QED BY <1>4, <1>5, <1>6 DEF FormInv, FormFits, AssistFits, SchemaFits, PF!Showing

-----------------------------------------------------------------------------
(* The Agent. *)
\* fillWithAI, for a form f that the user has confirmed more of or not.
LEMMA FormFilled ==
  ASSUME PF!PlanFormAssumption, FormInv, NEW f, FormFits(f), f.questions = {},
         f.confirmed = form.confirmed \/ ~form.assisting, f.assisting = form.assisting,
         f.compiling = form.compiling, f.target = form.target, f.open = form.open, f.show = form.show,
         f.schemaLoading = form.schemaLoading, PF!Filled(f, f.confirmed)
  PROVE  FormInv'
<1>0. f \in Forms /\ f.target \in PF!Targets /\ f.confirmed \subseteq Fields
  BY DEF FormFits, Forms
<1>1. AssistFits(f, formCalls)
  BY DEF FormInv, AssistFits
<1>2. PICK a : a = [f EXCEPT !.asked = {}, !.stalled = FALSE, !.failed = FALSE]
  OBVIOUS
<1>3. /\ FormFits(a) /\ a \in Forms /\ a.confirmed = f.confirmed /\ a.assisting = f.assisting
      /\ a.compiling = f.compiling /\ a.target = f.target /\ a.open = f.open /\ a.show = f.show
      /\ a.schemaLoading = f.schemaLoading
  BY <1>0, <1>2 DEF FormFits, Forms
<1>4. CASE form' = f /\ UNCHANGED formCalls
  BY <1>1, <1>4, SchemaStays DEF PF!Showing
<1>5. CASE form' = [a EXCEPT !.failed = TRUE] /\ UNCHANGED formCalls
  <2>1. /\ FormFits(form') /\ form'.confirmed = f.confirmed /\ form'.assisting = f.assisting
        /\ form'.compiling = f.compiling /\ form'.target = f.target /\ form'.open = f.open
        /\ form'.show = f.show /\ form'.schemaLoading = f.schemaLoading
    BY <1>3, <1>5 DEF FormFits, Forms
  <2>2. AssistFits(form', formCalls')
    BY <1>1, <1>5, <2>1, AssistKept
  <2> QED BY <1>5, <2>1, <2>2, SchemaStays DEF PF!Showing
<1>6. CASE /\ ~f.assisting /\ form' = [a EXCEPT !.assisting = TRUE]
           /\ formCalls' = formCalls \union
                {[kind |-> "assist", stages |-> PF!ActiveStages(f), confirmed |-> f.confirmed]}
  <2>1. /\ FormFits(form') /\ form'.confirmed = f.confirmed /\ form'.assisting = TRUE
        /\ form'.compiling = f.compiling /\ form'.target = f.target /\ form'.open = f.open
        /\ form'.show = f.show /\ form'.schemaLoading = f.schemaLoading
    BY <1>3, <1>6 DEF FormFits, Forms
  <2>2. PICK c : c = [kind |-> "assist", stages |-> PF!ActiveStages(f), confirmed |-> f.confirmed]
    OBVIOUS
  <2>3. c \in AssistCall /\ c.kind = "assist" /\ c.confirmed = f.confirmed
    BY <1>0, <2>2, StagesRun DEF AssistCall, PF!ActiveStages
  <2>4. formCalls' = formCalls \union {c} /\ \A d \in formCalls : d.kind # "assist"
    BY <1>1, <1>6, <2>2 DEF AssistFits
  <2>5. AssistFits(form', formCalls')
    BY <1>1, <2>1, <2>3, <2>4 DEF AssistFits
  <2>6. \A d : d.kind = "schema" => (d \in formCalls <=> d \in formCalls')
    BY <2>3, <2>4
  <2> QED BY <2>1, <2>5, <2>6, SchemaStays DEF PF!Showing
<1> QED BY <1>2, <1>4, <1>5, <1>6 DEF PF!Filled, PF!CanFill

LEMMA FormAsked ==
  ASSUME PF!PlanFormAssumption, FormInv, PF!FillWithAI \/ PF!AnswerQuestions
  PROVE  FormInv'
<1>1. CASE PF!FillWithAI
  <2>1. PF!Filled(PF!Stepped, PF!Stepped.confirmed) /\ form.questions = {}
    BY <1>1, SteppedFits DEF PF!FillWithAI
  <2> QED BY <2>1, SteppedFits, FormFilled
<1>2. CASE PF!AnswerQuestions
  <2>1. PICK f : f = [PF!Stepped EXCEPT !.confirmed = form.confirmed \union form.questions, !.questions = {}]
    OBVIOUS
  <2>2. /\ FormFits(f) /\ f.questions = {} /\ f.confirmed = form.confirmed \union form.questions
        /\ f.assisting = form.assisting /\ f.compiling = form.compiling /\ f.target = form.target
        /\ f.open = form.open /\ f.show = form.show /\ f.schemaLoading = form.schemaLoading
    <3>1. form.confirmed \union form.questions \subseteq Fields
      BY DEF FormInv, FormFits, Forms
    <3>2. PICK e : e = PF!Stepped
      OBVIOUS
    <3>3. /\ FormFits(e) /\ e.assisting = form.assisting /\ e.compiling = form.compiling
          /\ e.target = form.target /\ e.open = form.open /\ e.show = form.show
          /\ e.schemaLoading = form.schemaLoading
      BY <3>2, SteppedFits
    <3> QED BY <2>1, <3>1, <3>2, <3>3 DEF FormFits, Forms
  <2>3. ~form.assisting /\ PF!Filled(f, f.confirmed)
    BY <1>2, <2>1, <2>2 DEF PF!AnswerQuestions
  <2> QED BY <2>2, <2>3, FormFilled
<1> QED BY <1>1, <1>2

LEMMA QuestionsMoved ==
  ASSUME FormInv, PF!CloseQuestions \/ PF!ReopenQuestions
  PROVE  FormInv'
<1>1. PICK f \in {form, PF!Stepped}, q \in {{}, form.asked \ form.confirmed} : form' = [f EXCEPT !.questions = q]
  BY DEF PF!CloseQuestions, PF!ReopenQuestions
<1>2. /\ FormFits(f) /\ f.confirmed = form.confirmed /\ f.assisting = form.assisting
      /\ f.compiling = form.compiling /\ f.target = form.target /\ f.open = form.open
      /\ f.show = form.show /\ f.schemaLoading = form.schemaLoading /\ f.asked = form.asked
  BY <1>1, SteppedFits DEF FormInv
<1>3. q \subseteq f.asked /\ q \intersect f.confirmed = {} /\ q \subseteq Fields
  BY <1>1, <1>2 DEF FormFits, Forms
<1>4. /\ FormFits(form') /\ form'.confirmed = form.confirmed /\ form'.assisting = form.assisting
      /\ form'.compiling = form.compiling /\ form'.target = form.target /\ form'.open = form.open
      /\ form'.show = form.show /\ form'.schemaLoading = form.schemaLoading
  BY <1>1, <1>2, <1>3 DEF FormFits, Forms
<1>5. formCalls' = formCalls
  BY DEF PF!CloseQuestions, PF!ReopenQuestions
<1>6. AssistFits(form', formCalls')
  BY <1>4, <1>5, AssistKept DEF FormInv
<1> QED BY <1>4, <1>5, <1>6, SchemaStays DEF PF!Showing

\* What the Agent answers leaves all but the form's proposal alone.
LEMMA AssistAnswered ==
  ASSUME FormInv, NEW c \in formCalls, PF!AssistArrives(c)
  PROVE  /\ FormInv'
         /\ form'.target = form.target
         /\ form'.values # form.values => \E proposal \in Patches :
              /\ form'.values = PF!ApplyProposalToStagePatches(c.stages, form.values, proposal)
              /\ \A p \in DOMAIN proposal : proposal[p] = "agent"
<1>0. /\ form \in Forms /\ FormFits(form) /\ c.kind = "assist" /\ formCalls' = formCalls \ {c}
      /\ c \in AssistCall /\ form.confirmed \subseteq c.confirmed
  BY DEF FormInv, FormFits, AssistFits, PF!AssistArrives, SchemaCall, OtherCall
<1>1. CASE form' = [form EXCEPT !.assisting = FALSE, !.failed = TRUE]
  <2>1. /\ FormFits(form') /\ form'.confirmed = form.confirmed /\ form'.assisting = FALSE
        /\ form'.compiling = form.compiling /\ form'.target = form.target /\ form'.open = form.open
        /\ form'.show = form.show /\ form'.schemaLoading = form.schemaLoading /\ form'.values = form.values
    BY <1>0, <1>1 DEF FormFits, Forms
  <2>2. AssistFits(form', formCalls')
    BY <1>0, <2>1 DEF FormInv, AssistFits
  <2> QED BY <1>0, <2>1, <2>2, SchemaStays DEF PF!Showing
<1>2. ASSUME NEW questions \in SUBSET Fields, NEW proposed \in SUBSET Paths,
             form' = [form EXCEPT !.assisting = FALSE, !.asked = questions,
                                 !.questions = questions \ c.confirmed,
                                 !.stalled = questions # {} /\ questions \subseteq c.confirmed,
                                 !.values = PF!ApplyProposalToStagePatches(c.stages, @,
                                                                [p \in proposed |-> "agent"])]
      PROVE  /\ FormInv'
             /\ form'.target = form.target
             /\ \E proposal \in Patches :
                  /\ form'.values = PF!ApplyProposalToStagePatches(c.stages, form.values, proposal)
                  /\ \A p \in DOMAIN proposal : proposal[p] = "agent"
  <2> DEFINE proposal == [p \in proposed |-> "agent"]
             v == PF!ApplyProposalToStagePatches(c.stages, form.values, proposal)
             stalled == questions # {} /\ questions \subseteq c.confirmed
  <2>1. proposal \in Patches
    <3>1. proposal \in [proposed -> {"user", "agent"}]
      OBVIOUS
    <3> QED BY <3>1 DEF Patches
  <2>2. v \in [1 .. 3 -> Patches]
    <3>1. form.values \in [1 .. 3 -> Patches] /\ c.stages \subseteq 1 .. 3 /\ c.stages # {}
      BY <1>0 DEF Forms, AssistCall
    <3> HIDE DEF proposal
    <3> QED BY <2>1, <3>1, Applied
  <2>3. stalled \in BOOLEAN
    OBVIOUS
  <2>4. \A p \in DOMAIN proposal : proposal[p] = "agent"
    OBVIOUS
  <2>5. form' = [form EXCEPT !.assisting = FALSE, !.asked = questions, !.questions = questions \ c.confirmed,
                             !.stalled = stalled, !.values = v]
    BY <1>2
  <2> HIDE DEF proposal, v, stalled
  <2>6. /\ form' \in Forms /\ form'.asked = questions /\ form'.questions = questions \ c.confirmed
        /\ form'.confirmed = form.confirmed /\ form'.assisting = FALSE
        /\ form'.compiling = form.compiling /\ form'.target = form.target /\ form'.open = form.open
        /\ form'.show = form.show /\ form'.schemaLoading = form.schemaLoading /\ form'.values = v
        /\ form'.schema = form.schema
    BY <1>0, <2>2, <2>3, <2>5 DEF Forms
  <2>7. FormFits(form')
    BY <1>0, <2>6 DEF FormFits
  <2>8. AssistFits(form', formCalls')
    BY <1>0, <2>6 DEF FormInv, AssistFits
  <2>9. FormInv'
    BY <1>0, <2>6, <2>7, <2>8, SchemaStays DEF PF!Showing
  <2> QED BY <2>1, <2>4, <2>6, <2>9 DEF v
<1> QED BY <1>1, <1>2 DEF PF!AssistArrives

-----------------------------------------------------------------------------
(* The compile. *)
LEMMA FormCompiled ==
  ASSUME FormInv, PF!Compile \/ \E c \in formCalls : PF!CompileArrives(c)
  PROVE  FormInv'
<1>0. form \in Forms /\ FormFits(form)
  BY DEF FormInv, FormFits
<1>1. CASE PF!Compile
  <2>1. PICK f : f = PF!Stepped
    OBVIOUS
  <2>2. /\ FormFits(f) /\ f.confirmed = form.confirmed /\ f.assisting = form.assisting
        /\ f.compiling = form.compiling /\ f.target = form.target /\ f.open = form.open
        /\ f.show = form.show /\ f.schemaLoading = form.schemaLoading
    BY <2>1, SteppedFits
  <2>3. form' = [f EXCEPT !.compiling = TRUE] /\ formCalls' = formCalls \union {[kind |-> "create"]}
    BY <1>1, <2>1 DEF PF!Compile
  <2>4. /\ FormFits(form') /\ form'.confirmed = form.confirmed /\ form'.assisting = form.assisting
        /\ form'.compiling = TRUE /\ form'.target = form.target /\ form'.open = form.open
        /\ form'.show = form.show /\ form'.schemaLoading = form.schemaLoading
    BY <2>2, <2>3 DEF FormFits, Forms
  <2>5. PICK c : c = [kind |-> "create"]
    OBVIOUS
  <2>6. c \in OtherCall /\ c.kind = "create"
    BY <2>5 DEF OtherCall
  <2>7. AssistFits(form', formCalls')
    BY <2>3, <2>4, <2>5, <2>6 DEF FormInv, AssistFits
  <2>8. \A d : d.kind = "schema" => (d \in formCalls <=> d \in formCalls')
    BY <2>3, <2>5, <2>6
  <2> QED BY <2>4, <2>7, <2>8, SchemaStays DEF PF!Showing
<1>2. CASE \E c \in formCalls : PF!CompileArrives(c)
  <2>1. PICK c \in formCalls : PF!CompileArrives(c)
    BY <1>2
  <2>2. PICK cs : cs = formCalls \ {c}
    OBVIOUS
  <2>3. /\ c.kind = "create" /\ \A d \in formCalls : d.kind = "create" => d = c
        /\ \A d : d.kind # "create" => (d \in cs <=> d \in formCalls)
    <3>1. c.kind = "create"
      BY <2>1 DEF PF!CompileArrives
    <3>2. \A d \in formCalls : d.kind = "create" => d \in OtherCall
      BY DEF FormInv, AssistFits, SchemaCall, AssistCall
    <3>3. \A d, e \in OtherCall : d.kind = e.kind => d = e
      BY DEF OtherCall
    <3> QED BY <2>2, <3>1, <3>2, <3>3
  <2>4. PICK ok \in BOOLEAN :
          IF ok /\ PF!Showing(form)
          THEN PF!Rendered([form EXCEPT !.compiling = FALSE, !.show = FALSE], cs)
          ELSE form' = [form EXCEPT !.compiling = FALSE, !.show = ~ok /\ @] /\ formCalls' = cs
    BY <2>1, <2>2 DEF PF!CompileArrives
  <2>5. ASSUME NEW h \in BOOLEAN, NEW e, e = [form EXCEPT !.compiling = FALSE, !.show = h]
        PROVE  /\ FormFits(e) /\ AssistFits(e, cs) /\ e.target = form.target /\ e.open = form.open
               /\ e.show = h /\ e.schemaLoading = form.schemaLoading
    <3>1. /\ FormFits(e) /\ e.confirmed = form.confirmed /\ e.assisting = form.assisting
          /\ e.compiling = FALSE /\ e.target = form.target /\ e.open = form.open
          /\ e.show = h /\ e.schemaLoading = form.schemaLoading
      BY <1>0, <2>5 DEF FormFits, Forms
    <3>2. AssistFits(e, cs)
      BY <2>2, <2>3, <3>1 DEF FormInv, AssistFits
    <3> QED BY <3>1, <3>2
  <2>6. CASE ok /\ PF!Showing(form)
    <3>1. PICK e : e = [form EXCEPT !.compiling = FALSE, !.show = FALSE]
      OBVIOUS
    <3> QED BY <2>4, <2>5, <2>6, <3>1, FormRendered
  <2>7. CASE ~(ok /\ PF!Showing(form))
    <3>1. form' = [form EXCEPT !.compiling = FALSE, !.show = ~ok /\ form.show] /\ formCalls' = cs
      BY <2>4, <2>7
    <3>2. PICK h \in BOOLEAN : h = (~ok /\ form.show)
      OBVIOUS
    <3>3. /\ FormFits(form') /\ AssistFits(form', cs) /\ form'.target = form.target /\ form'.open = form.open
          /\ form'.show = h /\ form'.schemaLoading = form.schemaLoading
      BY <2>5, <3>1, <3>2
    <3>4. h => form.show
      BY <3>2
    <3>5. PF!Showing(form') /\ form'.schemaLoading => PF!Showing(form) /\ form.schemaLoading
      BY <3>3, <3>4 DEF PF!Showing
    <3>6. \A d : d.kind = "schema" => (d \in formCalls <=> d \in formCalls')
      BY <2>3, <3>1
    <3> QED BY <3>1, <3>3, <3>5, <3>6, SchemaStays
  <2> QED BY <2>6, <2>7
<1> QED BY <1>1, <1>2

LEMMA FormStep ==
  ASSUME PF!PlanFormAssumption, FormInv, [PF!Next]_<<form, formCalls>>
  PROVE  FormInv'
<1>1. CASE UNCHANGED <<form, formCalls>>
  BY <1>1 DEF FormInv, FormFits, AssistFits, SchemaFits, PF!Showing
<1>2. CASE PF!Next
  BY <1>2, FormOpened, FormShown, FormEdited, FormAsked, QuestionsMoved, FormCompiled, SchemaAnswered,
     AssistAnswered DEF PF!Next
<1> QED BY <1>1, <1>2

LEMMA FormAlways ==
  ASSUME PF!PlanFormAssumption
  PROVE  PF!Spec => []FormInv
BY FormInit, FormStep, PTL DEF PF!Spec

\* The fields shown come from the schema of the target that is selected, however
\* requests for other targets and of closed panels end.
THEOREM SchemasAreOfTheTarget == PF!PlanFormAssumption => (PF!Spec => []PF!SchemaIsOfTarget)
<1> SUFFICES ASSUME PF!PlanFormAssumption PROVE PF!Spec => []PF!SchemaIsOfTarget
  OBVIOUS
<1>1. FormInv => PF!SchemaIsOfTarget
  BY DEF FormInv, FormFits, PF!SchemaIsOfTarget
<1> QED BY <1>1, FormAlways, PTL

\* The Agent's dialog never asks again what the user has already answered.
THEOREM NothingIsAskedTwice == PF!PlanFormAssumption => (PF!Spec => []PF!AskedOnce)
<1> SUFFICES ASSUME PF!PlanFormAssumption PROVE PF!Spec => []PF!AskedOnce
  OBVIOUS
<1>1. FormInv => PF!AskedOnce
  BY DEF FormInv, FormFits, PF!AskedOnce
<1> QED BY <1>1, FormAlways, PTL

\* A spinner of the form that is shown has its request under way.
THEOREM FormIsBacked == PF!PlanFormAssumption => (PF!Spec => []PF!BusyIsBacked)
<1> SUFFICES ASSUME PF!PlanFormAssumption PROVE PF!Spec => []PF!BusyIsBacked
  OBVIOUS
<1>1. FormInv => PF!BusyIsBacked
  BY DEF FormInv, AssistFits, SchemaFits, PF!BusyIsBacked, PF!SchemaCalls
<1> QED BY <1>1, FormAlways, PTL

\* The form is of a target and of fields that there are, and one request for a
\* schema is under way at most.
THEOREM FormTyped == PF!PlanFormAssumption => (PF!Spec => []PF!TypeOK)
<1> SUFFICES ASSUME PF!PlanFormAssumption PROVE PF!Spec => []PF!TypeOK
  OBVIOUS
<1>1. FormInv => PF!TypeOK
  <2> SUFFICES ASSUME FormInv PROVE PF!TypeOK
    OBVIOUS
  <2>1. \A c, d \in PF!SchemaCalls : c = d
    <3>1. \A c \in PF!SchemaCalls : c \in SchemaCall /\ c.target = form.target
      BY DEF FormInv, AssistFits, SchemaFits, PF!SchemaCalls, AssistCall, OtherCall
    <3> QED BY <3>1 DEF SchemaCall
  <2>2. Cardinality(PF!SchemaCalls) <= 1
    <3>1. CASE PF!SchemaCalls = {}
      BY <3>1, FS_EmptySet
    <3>2. CASE PF!SchemaCalls # {}
      <4>1. PICK c : PF!SchemaCalls = {c}
        BY <2>1, <3>2
      <4> QED BY <4>1, FS_Singleton
    <3> QED BY <3>1, <3>2
  <2>3. PF!Cardinality(PF!SchemaCalls) = Cardinality(PF!SchemaCalls)
    BY DEF PF!Cardinality, Cardinality
  <2>4. form \in Forms /\ form.questions \subseteq form.asked
    BY DEF FormInv, FormFits
  <2>5. \A s \in 1 .. 3 : DOMAIN form.values[s] \subseteq Paths
    <3>1. form.values \in [1 .. 3 -> Patches]
      BY <2>4 DEF Forms
    <3> QED BY <3>1 DEF Patches
  <2>6. /\ form.target \in PF!Targets /\ form.schema \in PF!Targets \union {NoTarget}
        /\ form.asked \subseteq Fields /\ form.confirmed \subseteq Fields
    BY <2>4 DEF Forms
  <2> QED BY <2>2, <2>3, <2>4, <2>5, <2>6 DEF PF!TypeOK
<1> QED BY <1>1, FormAlways, PTL

\* The Agent's answer changes what would be compiled at the paths that it
\* proposes only, if the target is still the one that it was asked for.
THEOREM FillKeepsTheRest ==
  PF!PlanFormAssumption => (PF!Spec => [][PF!FillKeeps]_<<form, formCalls>>)
<1> SUFFICES ASSUME PF!PlanFormAssumption PROVE PF!Spec => [][PF!FillKeeps]_<<form, formCalls>>
  OBVIOUS
<1>1. ASSUME FormInv, PF!Next PROVE PF!FillKeeps
  <2> SUFFICES ASSUME NEW c \in formCalls, c.kind = "assist", c \notin formCalls',
                      c.stages = PF!ActiveStages(form), NEW p \in DOMAIN PF!Candidate(form)
               PROVE  /\ p \in DOMAIN PF!Candidate(form)'
                      /\ PF!Candidate(form)'[p] \in {PF!Candidate(form)[p], "agent"}
    BY DEF PF!FillKeeps
  <2>1. PF!AssistArrives(c)
    <3>1. \A cs : c \in cs => c \in PF!Unloaded(cs)
      BY DEF PF!Unloaded
    <3>2. \A f, cs : c \in cs => ~PF!Rendered(f, cs)
      BY <3>1 DEF PF!Rendered
    <3>3. ~PF!Open /\ ~PF!Close /\ ~PF!History /\ ~PF!ChangeTarget /\ ~PF!Edit
      <4>1. \A x : c \in (IF x THEN formCalls \union {[kind |-> "review"]} ELSE formCalls)
        OBVIOUS
      <4> QED BY <3>2, <4>1 DEF PF!Open, PF!Close, PF!History, PF!ChangeTarget, PF!Edit
    <3>4. \A f, confirmed : ~PF!Filled(f, confirmed)
      BY DEF PF!Filled
    <3>5. /\ ~PF!FillWithAI /\ ~PF!AnswerQuestions /\ ~PF!CloseQuestions /\ ~PF!ReopenQuestions
          /\ ~PF!Compile
      BY <3>4 DEF PF!FillWithAI, PF!AnswerQuestions, PF!CloseQuestions, PF!ReopenQuestions, PF!Compile
    <3>6. \A d \in formCalls : c # d => c \in formCalls \ {d}
      OBVIOUS
    <3>7. \A d \in formCalls : ~PF!SchemaArrives(d)
      BY <3>6 DEF PF!SchemaArrives
    <3>8. \A d \in formCalls : ~PF!ReviewArrives(d)
      BY <3>2, <3>6 DEF PF!ReviewArrives
    <3>9. \A d \in formCalls : ~PF!CompileArrives(d)
      BY <3>2, <3>6 DEF PF!CompileArrives
    <3>10. \A d \in formCalls : PF!AssistArrives(d) => d = c
      BY <3>6 DEF PF!AssistArrives
    <3> QED BY <1>1, <3>3, <3>5, <3>7, <3>8, <3>9, <3>10 DEF PF!Next
  <2>2. /\ form'.target = form.target
        /\ form'.values # form.values => \E proposal \in Patches :
             /\ form'.values = PF!ApplyProposalToStagePatches(c.stages, form.values, proposal)
             /\ \A q \in DOMAIN proposal : proposal[q] = "agent"
    BY <1>1, <2>1, AssistAnswered
  <2>3. /\ PF!Candidate(form) = PF!MergeStagePatches(c.stages, form.values, PF!EmptyPatch)
        /\ PF!Candidate(form)' = PF!MergeStagePatches(c.stages, form'.values, PF!EmptyPatch)
    BY <2>2 DEF PF!Candidate, PF!ActiveStages
  <2>4. CASE form'.values = form.values
    BY <2>3, <2>4
  <2>5. CASE form'.values # form.values
    <3>1. PICK proposal \in Patches :
            /\ form'.values = PF!ApplyProposalToStagePatches(c.stages, form.values, proposal)
            /\ \A q \in DOMAIN proposal : proposal[q] = "agent"
      BY <2>2, <2>5
    <3>2. c.stages \subseteq 1 .. 3 /\ c.stages # {} /\ form.values \in [1 .. 3 -> Patches]
      BY <1>1 DEF FormInv, FormFits, AssistFits, Forms, SchemaCall, AssistCall, OtherCall
    <3> DEFINE old == PF!MergeStagePatches(c.stages, form.values, PF!EmptyPatch)
               new == PF!MergeStagePatches(c.stages,
                        PF!ApplyProposalToStagePatches(c.stages, form.values, proposal), PF!EmptyPatch)
    <3>3. p \in DOMAIN new /\ new[p] = IF p \in DOMAIN proposal THEN proposal[p] ELSE old[p]
      BY <2>3, <3>2, Applied
    <3>4. PF!Candidate(form) = old /\ PF!Candidate(form)' = new
      BY <2>3, <3>1
    <3> HIDE DEF old, new
    <3> QED BY <3>1, <3>3, <3>4
  <2> QED BY <2>4, <2>5
<1> QED BY <1>1, FormAlways, PTL DEF PF!Spec

-----------------------------------------------------------------------------
(***************************************************************************)
(* ProjectInventory: opening a project.                                    *)
(***************************************************************************)
Pages == [project : Projects, resource : BOOLEAN, query : BOOLEAN, shown : Projects \union {NoProject},
          loading : BOOLEAN, syncing : BOOLEAN, error : BOOLEAN, syncError : BOOLEAN, moves : Nat]

\* Runs of synchronize: one is live, and one that waits for a manifest or its
\* timer is; what has an inventory has shown it.
TasksFit(o, ts) ==
    /\ ts \subseteq PI!Tasks /\ IsFiniteSet(ts)
    /\ \A t, u \in ts : t.live /\ u.live => t = u
    /\ \A t \in ts : /\ t.at \in {"start", "wait", "status"} => t.live
                     /\ t.have => o.shown # NoProject

\* What the page says is under way is; a page that is blank has a live run.
InventoryFits(o, ts) ==
    /\ o \in Pages /\ TasksFit(o, ts)
    /\ o.loading => \E t \in ts : PI!Loads(t)
    /\ o.syncing => \E t \in ts : t.live /\ t.at \notin {"cache", "live"}
    /\ o.shown # NoProject \/ o.error \/ \E t \in ts : t.live
InventoryInv == InventoryFits(opened, tasks)

\* The task of a fresh run.
LEMMA FreshRun ==
  ASSUME NEW o \in Pages
  PROVE  LET t == PI!Synchronize(o)
         IN  t \in PI!Tasks /\ t.at = "first" /\ t.live /\ ~t.have /\ PI!Loads(t)
BY DEF Pages, PI!Tasks, PI!Stages, PI!Synchronize, PI!Loads

LEMMA InventoryInit ==
  ASSUME PI!ProjectInventoryAssumption, PI!Init
  PROVE  InventoryInv
<1>1. PICK p \in Projects :
        LET o == [project |-> p, resource |-> FALSE, query |-> FALSE, shown |-> NoProject,
                  loading |-> TRUE, syncing |-> TRUE, error |-> FALSE, syncError |-> FALSE, moves |-> 0]
        IN  opened = o /\ tasks = {PI!Synchronize(o)}
  BY DEF PI!Init
<1>2. opened \in Pages /\ tasks = {PI!Synchronize(opened)}
  BY <1>1 DEF Pages
<1>3. IsFiniteSet(tasks)
  BY <1>2, FS_Singleton
<1> QED BY <1>2, <1>3, FreshRun DEF InventoryInv, InventoryFits, TasksFit

\* The effect: the former run is cancelled, and a new one begins.
LEMMA EffectFits ==
  ASSUME NEW o \in Pages, NEW ts, TasksFit(o, ts), PI!Effect(o, ts)
  PROVE  InventoryInv'
<1> DEFINE dead(t) == [t EXCEPT !.live = FALSE]
           old == {u \in ts : u.at \notin {"start", "wait", "status"}}
           gone == {dead(t) : t \in old}
<1>1. opened' = [o EXCEPT !.loading = TRUE, !.error = FALSE, !.syncError = FALSE]
  BY DEF PI!Effect
<1>2. tasks' = gone \union {PI!Synchronize(o)}
  BY DEF PI!Effect
<1>3. \A t \in old : dead(t) \in PI!Tasks /\ ~dead(t).live /\ dead(t).at = t.at /\ dead(t).have = t.have
  BY DEF TasksFit, PI!Tasks
<1>4. IsFiniteSet(gone)
  <2>1. IsFiniteSet(old)
    BY FS_Subset DEF TasksFit
  <2> DEFINE f == [u \in old |-> dead(u)]
  <2>2. f \in Surjection(old, gone)
    BY DEF Surjection
  <2> QED BY <2>1, <2>2, FS_Surjection
<1> HIDE DEF dead
<1>5. \A u \in gone : u \in PI!Tasks /\ ~u.live /\ u.at \notin {"start", "wait", "status"}
                      /\ (u.have => o.shown # NoProject)
  BY <1>3 DEF TasksFit
<1> HIDE DEF gone
<1>6. opened' \in Pages /\ opened'.shown = o.shown
  BY <1>1 DEF Pages
<1>7. IsFiniteSet(tasks')
  BY <1>2, <1>4, FS_AddElement
<1>8. TasksFit(opened', tasks')
  BY <1>2, <1>5, <1>6, <1>7, FreshRun DEF TasksFit
<1>9. PI!Synchronize(o) \in tasks'
  BY <1>2
<1>10. InventoryFits(opened', tasks')
  BY <1>6, <1>8, <1>9, FreshRun DEF InventoryFits
<1> QED BY <1>10 DEF InventoryInv, InventoryFits, TasksFit, PI!Loads

LEMMA InventoryRendered ==
  ASSUME NEW o, NEW ts, InventoryFits(o, ts), PI!Render(o, ts)
  PROVE  InventoryInv'
<1>1. CASE opened' = o /\ tasks' = ts
  BY <1>1 DEF InventoryInv, InventoryFits, TasksFit, PI!Loads
<1>2. CASE PI!Effect(o, ts)
  BY <1>2, EffectFits DEF InventoryFits
<1> QED BY <1>1, <1>2 DEF PI!Render

-----------------------------------------------------------------------------
(* The parts of the page that an answer changes. *)
\* A run that goes on as t, as one task.
LEMMA RunGoesOn ==
  ASSUME InventoryInv, NEW t \in tasks, NEW u, u \in PI!Tasks, u.live = t.live, NEW o,
         opened.shown # NoProject => o.shown # NoProject,
         u.at \in {"start", "wait", "status"} => t.live, u.have => o.shown # NoProject
  PROVE  TasksFit(o, PI!Rest(t) \union {u})
<1>1. PI!Rest(t) \subseteq tasks /\ t \notin PI!Rest(t)
  BY DEF PI!Rest
<1>2. IsFiniteSet(PI!Rest(t) \union {u})
  BY <1>1, FS_Subset, FS_AddElement DEF InventoryInv, InventoryFits, TasksFit
<1> QED BY <1>1, <1>2 DEF InventoryInv, InventoryFits, TasksFit

LEMMA RunEnds ==
  ASSUME InventoryInv, NEW t \in tasks, NEW o, opened.shown # NoProject => o.shown # NoProject
  PROVE  TasksFit(o, PI!Rest(t))
<1>1. PI!Rest(t) \subseteq tasks
  BY DEF PI!Rest
<1>2. IsFiniteSet(PI!Rest(t))
  BY <1>1, FS_Subset DEF InventoryInv, InventoryFits, TasksFit
<1> QED BY <1>1, <1>2 DEF InventoryInv, InventoryFits, TasksFit

LEMMA TaskAt ==
  ASSUME NEW t \in PI!Tasks, NEW stage \in PI!Stages
  PROVE  LET u == PI!At(t, stage)
         IN  u \in PI!Tasks /\ u.at = stage /\ u.live = t.live /\ u.have = t.have
BY DEF PI!Tasks, PI!At

LEMMA TaskHas ==
  ASSUME NEW t \in PI!Tasks, NEW stage \in PI!Stages, NEW hit \in BOOLEAN
  PROVE  LET u == [PI!At(t, stage) EXCEPT !.have = hit]
         IN  u \in PI!Tasks /\ u.at = stage /\ u.live = t.live /\ u.have = hit
BY DEF PI!Tasks, PI!At

\* Show, Hidden and Begin
LEMMA Showing ==
  ASSUME PI!ProjectInventoryAssumption, NEW o \in Pages, NEW t \in PI!Tasks, NEW b \in BOOLEAN
  PROVE  LET s == PI!Show(o, t, b)
         IN  /\ s \in Pages /\ s.shown # NoProject /\ s.syncing = o.syncing
             /\ s.loading => o.loading /\ ~b
             /\ s.error = o.error
<1>1. t.project \in Projects /\ t.project # NoProject /\ t.query \in BOOLEAN
  BY DEF PI!Tasks, PI!ProjectInventoryAssumption
<1> DEFINE s == [o EXCEPT !.shown = t.project, !.loading = @ /\ ~b]
           r == [s EXCEPT !.project = t.project, !.query = t.query, !.resource = TRUE]
<1>2. /\ s \in Pages /\ s.shown # NoProject /\ s.syncing = o.syncing
      /\ s.loading => o.loading /\ ~b
      /\ s.error = o.error
  BY <1>1 DEF Pages
<1>3. PI!Show(o, t, b) \in {s, r}
  BY DEF PI!Show
<1> HIDE DEF s
<1>4. /\ r \in Pages /\ r.shown # NoProject /\ r.syncing = o.syncing
      /\ r.loading => o.loading /\ ~b
      /\ r.error = o.error
  BY <1>1, <1>2 DEF Pages
<1> HIDE DEF r
<1> QED BY <1>2, <1>3, <1>4

LEMMA Hiding ==
  ASSUME NEW o \in Pages, NEW b \in BOOLEAN
  PROVE  LET s == PI!Hidden(o, b)
         IN  /\ s \in Pages /\ s.shown = o.shown /\ s.syncing = o.syncing
             /\ s.loading => o.loading /\ ~b
             /\ s.error = o.error
BY DEF PI!Hidden, Pages

LEMMA Beginning ==
  ASSUME NEW o \in Pages, NEW b \in BOOLEAN
  PROVE  LET s == PI!Begin(o, b)
         IN  /\ s \in Pages /\ s.shown = o.shown /\ s.syncing = o.syncing
             /\ s.loading => o.loading \/ b
             /\ s.error = FALSE
BY DEF PI!Begin, Pages

\* What ends a load ends the spinner.
LEMMA LoadEnds ==
  ASSUME PI!ProjectInventoryAssumption, NEW o \in Pages, NEW t \in PI!Tasks
  PROVE  /\ LET s == PI!Show(o, t, TRUE)
            IN  /\ s \in Pages /\ s.shown # NoProject /\ s.syncing = o.syncing
                /\ ~s.loading /\ s.error = o.error
         /\ LET s == PI!Hidden(o, TRUE)
            IN  /\ s \in Pages /\ s.shown = o.shown /\ s.syncing = o.syncing
                /\ ~s.loading /\ s.error = o.error
<1>1. PICK b \in BOOLEAN : b = TRUE
  OBVIOUS
<1>2. LET s == PI!Show(o, t, b)
      IN  /\ s \in Pages /\ s.shown # NoProject /\ s.syncing = o.syncing
          /\ s.loading => o.loading /\ ~b
          /\ s.error = o.error
  BY Showing
<1>3. LET s == PI!Hidden(o, b)
      IN  /\ s \in Pages /\ s.shown = o.shown /\ s.syncing = o.syncing
          /\ s.loading => o.loading /\ ~b
          /\ s.error = o.error
  BY Hiding
<1> QED BY <1>1, <1>2, <1>3

-----------------------------------------------------------------------------
LEMMA FirstAnswered ==
  ASSUME PI!ProjectInventoryAssumption, InventoryInv, NEW t \in tasks, PI!FirstArrives(t)
  PROVE  InventoryInv'
<1>0. opened \in Pages /\ t \in PI!Tasks /\ "start" \in PI!Stages /\ t.at = "first"
  BY DEF InventoryInv, InventoryFits, TasksFit, PI!Stages, PI!FirstArrives
<1>1. PICK hit \in BOOLEAN, o \in {PI!Show(opened, t, TRUE), PI!Hidden(opened, TRUE)} :
        /\ o = IF hit THEN PI!Show(opened, t, TRUE) ELSE PI!Hidden(opened, TRUE)
        /\ IF t.live
           THEN PI!Render([o EXCEPT !.syncing = ~hit],
                          PI!Rest(t) \union {[PI!At(t, "start") EXCEPT !.have = hit]})
           ELSE PI!Render(o, PI!Rest(t))
  BY DEF PI!FirstArrives
<1>2. /\ o \in Pages /\ o.syncing = opened.syncing /\ ~o.loading /\ o.error = opened.error
      /\ opened.shown # NoProject => o.shown # NoProject
      /\ hit => o.shown # NoProject
  BY <1>0, <1>1, LoadEnds
<1>3. CASE t.live
  <2> DEFINE u == [PI!At(t, "start") EXCEPT !.have = hit]
             q == [o EXCEPT !.syncing = ~hit]
  <2>1. u \in PI!Tasks /\ u.at = "start" /\ u.live = t.live /\ u.have = hit
    BY <1>0, TaskHas
  <2>2. /\ q \in Pages /\ ~q.loading /\ q.shown = o.shown
    BY <1>2 DEF Pages
  <2>3. PI!Render(q, PI!Rest(t) \union {u})
    BY <1>1, <1>3
  <2> HIDE DEF u, q
  <2>4. TasksFit(q, PI!Rest(t) \union {u})
    BY <1>2, <1>3, <2>1, <2>2, RunGoesOn
  <2>5. InventoryFits(q, PI!Rest(t) \union {u})
    BY <1>3, <2>1, <2>2, <2>4 DEF InventoryFits
  <2> QED BY <2>3, <2>5, InventoryRendered
<1>4. CASE ~t.live
  <2>1. TasksFit(o, PI!Rest(t))
    BY <1>2, RunEnds
  <2>2. \A u \in tasks : u.live => u \in PI!Rest(t)
    BY <1>4 DEF PI!Rest
  <2>3. InventoryFits(o, PI!Rest(t))
    BY <1>2, <2>1, <2>2 DEF InventoryFits, InventoryInv
  <2> QED BY <1>1, <1>4, <2>3, InventoryRendered
<1> QED BY <1>3, <1>4

LEMMA ManifestAnswered ==
  ASSUME PI!ProjectInventoryAssumption, InventoryInv, NEW t \in tasks, PI!ManifestArrives(t)
  PROVE  InventoryInv'
<1>0. /\ opened \in Pages /\ t \in PI!Tasks /\ {"again", "wait", "cache"} \subseteq PI!Stages /\ t.live
      /\ t.have => opened.shown # NoProject
  BY DEF InventoryInv, InventoryFits, TasksFit, PI!Stages, PI!ManifestArrives
<1>1. CASE \E total \in BOOLEAN : PI!Loop(opened, t, total, PI!Rest(t))
  <2>1. CASE PI!Render(PI!Begin(opened, TRUE), PI!Rest(t) \union {PI!At(t, "again")})
    <3> DEFINE u == PI!At(t, "again")
               o == PI!Begin(opened, TRUE)
    <3>1. u \in PI!Tasks /\ u.at = "again" /\ u.live = t.live /\ u.have = t.have
      BY <1>0, TaskAt
    <3>2. o \in Pages /\ o.shown = opened.shown
      BY <1>0, Beginning
    <3> HIDE DEF u, o
    <3>3. TasksFit(o, PI!Rest(t) \union {u})
      BY <1>0, <3>1, <3>2, RunGoesOn
    <3>4. InventoryFits(o, PI!Rest(t) \union {u})
      BY <1>0, <3>1, <3>2, <3>3 DEF InventoryFits, PI!Loads
    <3> QED BY <2>1, <3>4, InventoryRendered DEF u, o
  <2>2. CASE PI!Render(opened, PI!Rest(t) \union {PI!At(t, "wait")})
    <3> DEFINE u == PI!At(t, "wait")
    <3>1. u \in PI!Tasks /\ u.at = "wait" /\ u.live = t.live /\ u.have = t.have
      BY <1>0, TaskAt
    <3> HIDE DEF u
    <3>3. TasksFit(opened, PI!Rest(t) \union {u})
      BY <1>0, <3>1, RunGoesOn
    <3>4. \A v \in tasks : PI!Loads(v) => v \in PI!Rest(t)
      BY DEF PI!Rest, PI!Loads, PI!ManifestArrives
    <3>5. InventoryFits(opened, PI!Rest(t) \union {u})
      BY <1>0, <3>1, <3>3, <3>4 DEF InventoryFits, InventoryInv
    <3> QED BY <2>2, <3>5, InventoryRendered DEF u
  <2> QED BY <1>1, <2>1, <2>2 DEF PI!Loop
<1>2. CASE \E failed \in BOOLEAN :
             PI!Finally([opened EXCEPT !.syncError = @ \/ failed], t, PI!Rest(t))
  <2>1. PICK failed \in BOOLEAN : PI!Finally([opened EXCEPT !.syncError = @ \/ failed], t, PI!Rest(t))
    BY <1>2
  <2> DEFINE o == [opened EXCEPT !.syncError = @ \/ failed]
             b == PI!Begin(o, ~t.have)
             q == [b EXCEPT !.syncing = FALSE]
             u == PI!At(t, "cache")
  <2>2. o \in Pages /\ o.shown = opened.shown /\ o.loading = opened.loading
    BY <1>0 DEF Pages
  <2>3. (~t.have) \in BOOLEAN
    OBVIOUS
  <2> HIDE DEF o
  <2>4. b \in Pages /\ b.shown = o.shown /\ (b.loading => o.loading \/ ~t.have)
    BY <1>0, <2>2, <2>3, Beginning
  <2> HIDE DEF b
  <2>5. q \in Pages /\ q.shown = opened.shown /\ (q.loading => opened.loading \/ ~t.have) /\ q.syncing = FALSE
    BY <2>2, <2>4 DEF Pages
  <2>6. u \in PI!Tasks /\ u.at = "cache" /\ u.live = t.live /\ u.have = t.have
    BY <1>0, TaskAt
  <2>7. PI!Render(q, PI!Rest(t) \union {u})
    BY <2>1 DEF PI!Finally, b, o
  <2> HIDE DEF u, q
  <2>8. TasksFit(q, PI!Rest(t) \union {u})
    BY <1>0, <2>5, <2>6, RunGoesOn
  <2>9. \A v \in tasks : PI!Loads(v) => v \in PI!Rest(t)
    BY DEF PI!Rest, PI!Loads, PI!ManifestArrives
  <2>10. q.loading => \E v \in PI!Rest(t) \union {u} : PI!Loads(v)
    <3>1. CASE ~t.have
      BY <2>6, <3>1 DEF PI!Loads
    <3>2. CASE t.have
      BY <2>5, <2>9, <3>2 DEF InventoryInv, InventoryFits
    <3> QED BY <3>1, <3>2
  <2>11. InventoryFits(q, PI!Rest(t) \union {u})
    BY <1>0, <2>5, <2>6, <2>8, <2>10 DEF InventoryFits
  <2> QED BY <2>7, <2>11, InventoryRendered
<1> QED BY <1>1, <1>2 DEF PI!ManifestArrives

LEMMA AgainAnswered ==
  ASSUME PI!ProjectInventoryAssumption, InventoryInv, NEW t \in tasks, PI!AgainArrives(t)
  PROVE  InventoryInv'
<1>0. opened \in Pages /\ t \in PI!Tasks /\ "wait" \in PI!Stages /\ t.at = "again"
  BY DEF InventoryInv, InventoryFits, TasksFit, PI!Stages, PI!AgainArrives
<1>1. PICK hit \in BOOLEAN, o \in {[PI!Show(opened, t, TRUE) EXCEPT !.syncing = FALSE], PI!Hidden(opened, TRUE)} :
        /\ o = IF hit THEN [PI!Show(opened, t, TRUE) EXCEPT !.syncing = FALSE] ELSE PI!Hidden(opened, TRUE)
        /\ PI!Render(o, PI!Rest(t) \union
                          (IF t.live THEN {[PI!At(t, "wait") EXCEPT !.have = hit]} ELSE {}))
  BY DEF PI!AgainArrives
<1>2. /\ o \in Pages /\ (o.syncing => opened.syncing) /\ ~o.loading /\ o.error = opened.error
      /\ opened.shown # NoProject => o.shown # NoProject
      /\ hit => o.shown # NoProject
  <2> DEFINE s == PI!Show(opened, t, TRUE)
  <2>1. s \in Pages /\ s.shown # NoProject /\ ~s.loading /\ s.error = opened.error
    BY <1>0, LoadEnds
  <2>2. CASE hit
    <3>1. o = [s EXCEPT !.syncing = FALSE]
      BY <1>1, <2>2
    <3> HIDE DEF s
    <3> QED BY <2>1, <3>1 DEF Pages
  <2>3. CASE ~hit
    BY <1>0, <1>1, <2>3, LoadEnds
  <2> QED BY <2>2, <2>3
<1>3. CASE t.live
  <2> DEFINE u == [PI!At(t, "wait") EXCEPT !.have = hit]
  <2>1. u \in PI!Tasks /\ u.at = "wait" /\ u.live = t.live /\ u.have = hit
    BY <1>0, TaskHas
  <2>2. PI!Render(o, PI!Rest(t) \union {u})
    BY <1>1, <1>3
  <2> HIDE DEF u
  <2>3. TasksFit(o, PI!Rest(t) \union {u})
    BY <1>2, <1>3, <2>1, RunGoesOn
  <2>4. InventoryFits(o, PI!Rest(t) \union {u})
    BY <1>2, <1>3, <2>1, <2>3 DEF InventoryFits
  <2> QED BY <2>2, <2>4, InventoryRendered
<1>4. CASE ~t.live
  <2>1. TasksFit(o, PI!Rest(t))
    BY <1>2, RunEnds
  <2>2. \A u \in tasks : u.live => u \in PI!Rest(t)
    BY <1>4 DEF PI!Rest
  <2>3. InventoryFits(o, PI!Rest(t))
    BY <1>2, <2>1, <2>2 DEF InventoryFits, InventoryInv
  <2>4. PI!Render(o, PI!Rest(t))
    <3>1. PI!Rest(t) \union {} = PI!Rest(t)
      OBVIOUS
    <3> QED BY <1>1, <1>4, <3>1
  <2> QED BY <2>3, <2>4, InventoryRendered
<1> QED BY <1>3, <1>4

LEMMA TimerFired ==
  ASSUME PI!ProjectInventoryAssumption, InventoryInv, NEW t \in tasks, PI!TimerFires(t)
  PROVE  InventoryInv'
<1>0. /\ opened \in Pages /\ t \in PI!Tasks /\ "status" \in PI!Stages /\ t.live
      /\ t.have => opened.shown # NoProject
  BY DEF InventoryInv, InventoryFits, TasksFit, PI!Stages, PI!TimerFires
<1> DEFINE u == PI!At(t, "status")
<1>1. u \in PI!Tasks /\ u.at = "status" /\ u.live = t.live /\ u.have = t.have
  BY <1>0, TaskAt
<1>2. PI!Render(opened, PI!Rest(t) \union {u})
  BY DEF PI!TimerFires
<1> HIDE DEF u
<1>3. TasksFit(opened, PI!Rest(t) \union {u})
  BY <1>0, <1>1, RunGoesOn
<1>4. \A v \in tasks : PI!Loads(v) => v \in PI!Rest(t)
  BY DEF PI!Rest, PI!Loads, PI!TimerFires
<1>5. InventoryFits(opened, PI!Rest(t) \union {u})
  BY <1>0, <1>1, <1>3, <1>4 DEF InventoryFits, InventoryInv
<1> QED BY <1>2, <1>5, InventoryRendered

LEMMA CacheAnswered ==
  ASSUME PI!ProjectInventoryAssumption, InventoryInv, NEW t \in tasks, PI!CacheArrives(t)
  PROVE  InventoryInv'
<1>0. /\ opened \in Pages /\ t \in PI!Tasks /\ "live" \in PI!Stages /\ t.at = "cache" /\ t.have \in BOOLEAN
      /\ t.have => opened.shown # NoProject
  BY DEF InventoryInv, InventoryFits, TasksFit, PI!Stages, PI!CacheArrives, PI!Tasks
<1>1. \A v \in tasks : v.at \notin {"cache", "live"} => v \in PI!Rest(t)
  BY <1>0 DEF PI!Rest
<1>2. CASE PI!Render(PI!Show(opened, t, ~t.have), PI!Rest(t))
  <2> DEFINE o == PI!Show(opened, t, ~t.have)
  <2>1. /\ o \in Pages /\ o.shown # NoProject /\ o.syncing = opened.syncing
        /\ (o.loading => opened.loading /\ t.have)
    <3>1. (~t.have) \in BOOLEAN
      OBVIOUS
    <3>2. /\ o \in Pages /\ o.shown # NoProject /\ o.syncing = opened.syncing
          /\ (o.loading => opened.loading /\ ~(~t.have))
      BY <1>0, <3>1, Showing
    <3> QED BY <1>0, <3>2
  <2> HIDE DEF o
  <2>2. TasksFit(o, PI!Rest(t))
    BY <2>1, RunEnds
  <2>3. o.loading => \E v \in PI!Rest(t) : PI!Loads(v)
    BY <1>0, <2>1 DEF PI!Rest, PI!Loads, InventoryInv, InventoryFits
  <2>4. InventoryFits(o, PI!Rest(t))
    BY <1>1, <2>1, <2>2, <2>3 DEF InventoryFits, InventoryInv
  <2> QED BY <1>2, <2>4, InventoryRendered DEF o
<1>3. CASE t.have /\ PI!Render(opened, PI!Rest(t))
  <2>1. TasksFit(opened, PI!Rest(t))
    BY RunEnds
  <2>2. \A v \in tasks : PI!Loads(v) => v \in PI!Rest(t)
    BY <1>0, <1>3 DEF PI!Rest, PI!Loads
  <2>3. InventoryFits(opened, PI!Rest(t))
    BY <1>0, <1>1, <1>3, <2>1, <2>2 DEF InventoryFits, InventoryInv
  <2> QED BY <1>3, <2>3, InventoryRendered
<1>4. CASE PI!Render(opened, PI!Rest(t) \union {PI!At(t, "live")})
  <2> DEFINE u == PI!At(t, "live")
  <2>1. u \in PI!Tasks /\ u.at = "live" /\ u.live = t.live /\ u.have = t.have
    BY <1>0, TaskAt
  <2> HIDE DEF u
  <2>2. TasksFit(opened, PI!Rest(t) \union {u})
    BY <1>0, <2>1, RunGoesOn
  <2>3. PI!Loads(u)
    BY <2>1 DEF PI!Loads
  <2>4. \A v \in tasks : v.live => v \in PI!Rest(t) \/ u.live
    BY <2>1 DEF PI!Rest
  <2>5. InventoryFits(opened, PI!Rest(t) \union {u})
    BY <1>0, <1>1, <2>1, <2>2, <2>3, <2>4 DEF InventoryFits, InventoryInv
  <2> QED BY <1>4, <2>5, InventoryRendered DEF u
<1> QED BY <1>2, <1>3, <1>4 DEF PI!CacheArrives

LEMMA LiveAnswered ==
  ASSUME PI!ProjectInventoryAssumption, InventoryInv, NEW t \in tasks, PI!LiveArrives(t)
  PROVE  InventoryInv'
<1>0. opened \in Pages /\ t \in PI!Tasks /\ t.at = "live"
  BY DEF InventoryInv, InventoryFits, TasksFit, PI!LiveArrives
<1>1. \A v \in tasks : v.at \notin {"cache", "live"} => v \in PI!Rest(t)
  BY <1>0 DEF PI!Rest
<1>2. PICK o \in {PI!Show(opened, t, TRUE), [PI!Hidden(opened, TRUE) EXCEPT !.error = TRUE]} :
        PI!Render(o, PI!Rest(t))
  BY DEF PI!LiveArrives
<1>3. /\ o \in Pages /\ ~o.loading /\ o.syncing = opened.syncing
      /\ opened.shown # NoProject => o.shown # NoProject
      /\ o.shown # NoProject \/ o.error
  <2> DEFINE h == PI!Hidden(opened, TRUE)
  <2>1. /\ h \in Pages /\ ~h.loading /\ h.syncing = opened.syncing
        /\ h.shown = opened.shown
    BY <1>0, LoadEnds
  <2>2. CASE o = PI!Show(opened, t, TRUE)
    BY <1>0, <2>2, LoadEnds
  <2>3. CASE o = [h EXCEPT !.error = TRUE]
    <3> HIDE DEF h
    <3> QED BY <2>1, <2>3 DEF Pages
  <2> QED BY <2>2, <2>3
<1>4. TasksFit(o, PI!Rest(t))
  BY <1>3, RunEnds
<1>5. InventoryFits(o, PI!Rest(t))
  BY <1>1, <1>3, <1>4 DEF InventoryFits, InventoryInv
<1> QED BY <1>2, <1>5, InventoryRendered

-----------------------------------------------------------------------------
(* The user. *)
LEMMA Moving ==
  ASSUME NEW o \in Pages
  PROVE  LET m == PI!Move(o)
         IN  /\ m \in Pages /\ m.shown = o.shown /\ m.loading = o.loading /\ m.syncing = o.syncing
             /\ m.error = o.error
BY DEF Pages, PI!Move

LEMMA InventoryClick ==
  ASSUME PI!ProjectInventoryAssumption, InventoryInv, PI!Navigate \/ PI!SyncNow \/ PI!PlanSubmitted
  PROVE  InventoryInv'
<1>0. opened \in Pages /\ TasksFit(opened, tasks)
  BY DEF InventoryInv, InventoryFits
<1>1. CASE PI!Navigate
  <2>1. PICK p \in Projects, r \in BOOLEAN, q \in BOOLEAN :
          PI!Render(PI!Move([opened EXCEPT !.project = p, !.resource = r, !.query = q]), tasks)
    BY <1>1 DEF PI!Navigate
  <2> DEFINE n == [opened EXCEPT !.project = p, !.resource = r, !.query = q]
             o == PI!Move(n)
  <2>2. /\ n \in Pages /\ n.shown = opened.shown /\ n.loading = opened.loading
        /\ n.syncing = opened.syncing /\ n.error = opened.error
    BY <1>0 DEF Pages
  <2> HIDE DEF n
  <2>3. /\ o \in Pages /\ o.shown = opened.shown /\ o.loading = opened.loading
        /\ o.syncing = opened.syncing /\ o.error = opened.error
    BY <2>2, Moving
  <2> HIDE DEF o
  <2>4. InventoryFits(o, tasks)
    BY <2>3 DEF InventoryInv, InventoryFits, TasksFit
  <2> QED BY <2>1, <2>4, InventoryRendered DEF o, n
<1>2. CASE PI!SyncNow
  <2> DEFINE o == PI!Move(opened)
  <2>1. o \in Pages /\ o.shown = opened.shown
    BY <1>0, Moving
  <2>2. PI!Effect(o, tasks)
    BY <1>2 DEF PI!SyncNow
  <2> HIDE DEF o
  <2>3. TasksFit(o, tasks)
    BY <1>0, <2>1 DEF TasksFit
  <2> QED BY <2>1, <2>2, <2>3, EffectFits
<1>3. CASE PI!PlanSubmitted
  <2> DEFINE b == PI!Begin(opened, TRUE)
             o == PI!Move(b)
             f == PI!Synchronize(opened)
             a == PI!At(f, "cache")
             u == [a EXCEPT !.live = FALSE]
  <2>1. b \in Pages /\ b.shown = opened.shown /\ b.syncing = opened.syncing
    BY <1>0, Beginning
  <2> HIDE DEF b
  <2>2. o \in Pages /\ o.shown = opened.shown /\ o.syncing = opened.syncing
    BY <2>1, Moving
  <2>3. f \in PI!Tasks /\ ~f.have
    BY <1>0, FreshRun
  <2>4. a \in PI!Tasks /\ a.at = "cache" /\ ~a.have
    <3>1. "cache" \in PI!Stages
      BY DEF PI!Stages
    <3> HIDE DEF f
    <3> QED BY <2>3, <3>1, TaskAt
  <2>5. PI!Render(o, tasks \union {u}) /\ opened.shown # NoProject
    BY <1>3 DEF PI!PlanSubmitted, b
  <2> HIDE DEF a, o
  <2>6. u \in PI!Tasks /\ u.at = "cache" /\ ~u.have /\ ~u.live
    BY <2>4 DEF PI!Tasks
  <2> HIDE DEF u
  <2>7. PI!Loads(u)
    BY <2>6 DEF PI!Loads
  <2>8. IsFiniteSet(tasks \union {u})
    BY <1>0, FS_AddElement DEF TasksFit
  <2>9. TasksFit(o, tasks \union {u})
    BY <1>0, <2>2, <2>6, <2>8 DEF TasksFit
  <2>10. InventoryFits(o, tasks \union {u})
    BY <2>2, <2>5, <2>7, <2>9 DEF InventoryFits, InventoryInv
  <2> QED BY <2>5, <2>10, InventoryRendered
<1> QED BY <1>1, <1>2, <1>3

LEMMA InventoryStep ==
  ASSUME PI!ProjectInventoryAssumption, InventoryInv, [PI!Next]_<<opened, tasks>>
  PROVE  InventoryInv'
<1>1. CASE UNCHANGED <<opened, tasks>>
  BY <1>1 DEF InventoryInv, InventoryFits, TasksFit, PI!Loads
<1>2. CASE PI!Next
  BY <1>2, FirstAnswered, ManifestAnswered, AgainAnswered, TimerFired, CacheAnswered, LiveAnswered,
     InventoryClick DEF PI!Next
<1> QED BY <1>1, <1>2

LEMMA InventoryAlways ==
  ASSUME PI!ProjectInventoryAssumption
  PROVE  PI!Spec => []InventoryInv
BY InventoryInit, InventoryStep, PTL DEF PI!Spec, PI!vars

\* Opening a project shows projects that there are, and has one live run of
\* synchronize at a time.
THEOREM InventoryTyped == PI!ProjectInventoryAssumption => (PI!Spec => []PI!TypeOK)
<1> SUFFICES ASSUME PI!ProjectInventoryAssumption PROVE PI!Spec => []PI!TypeOK
  OBVIOUS
<1>1. InventoryInv => PI!TypeOK
  <2> SUFFICES ASSUME InventoryInv PROVE PI!TypeOK
    OBVIOUS
  <2> DEFINE live == {t \in tasks : t.live}
  <2>1. Cardinality(live) <= 1
    <3>1. CASE live = {}
      BY <3>1, FS_EmptySet
    <3>2. CASE \E t \in tasks : t.live
      <4>1. PICK t \in tasks : t.live
        BY <3>2
      <4>2. live = {t}
        BY <4>1 DEF InventoryInv, InventoryFits, TasksFit
      <4> QED BY <4>2, FS_Singleton
    <3> QED BY <3>1, <3>2
  <2>2. opened \in Pages /\ tasks \subseteq PI!Tasks
    BY DEF InventoryInv, InventoryFits, TasksFit
  <2>3. opened.project \in Projects /\ opened.shown \in Projects \union {NoProject}
    BY <2>2 DEF Pages
  <2>4. PI!Cardinality(live) = Cardinality(live)
    BY DEF PI!Cardinality, Cardinality
  <2> QED BY <2>1, <2>2, <2>3, <2>4 DEF PI!TypeOK
<1> QED BY <1>1, InventoryAlways, PTL

\* The page says that it loads or synchronizes only while a run is under way
\* that will say otherwise, however often the project changes meanwhile.
THEOREM InventoryIsBacked == PI!ProjectInventoryAssumption => (PI!Spec => []PI!BusyIsBacked)
<1> SUFFICES ASSUME PI!ProjectInventoryAssumption PROVE PI!Spec => []PI!BusyIsBacked
  OBVIOUS
<1>1. InventoryInv => PI!BusyIsBacked
  BY DEF InventoryInv, InventoryFits, PI!BusyIsBacked
<1> QED BY <1>1, InventoryAlways, PTL

\* A project page with nothing under way is not blank: it shows an inventory or
\* an error with a retry.
THEOREM ProjectIsNeverBlank == PI!ProjectInventoryAssumption => (PI!Spec => []PI!SettledShows)
<1> SUFFICES ASSUME PI!ProjectInventoryAssumption PROVE PI!Spec => []PI!SettledShows
  OBVIOUS
<1>1. InventoryInv => PI!SettledShows
  BY DEF InventoryInv, InventoryFits, PI!SettledShows
<1> QED BY <1>1, InventoryAlways, PTL

-----------------------------------------------------------------------------
(***************************************************************************)
(* ResourceDetails: the detail panel.                                      *)
(***************************************************************************)
Details == [of : Cases, tail : Tails, tab : {"overview", "logs", "results"}, log : RD!LogKeys \union {NoContent},
            cache : SUBSET RD!LogKeys, logLoading : BOOLEAN, logError : BOOLEAN, preview : Cases \union {NoContent},
            acting : BOOLEAN, convergence : Cases \union {NoContent}, assessing : BOOLEAN, steps : Nat]
Readings == [op : {"log", "preview", "download", "convergence", "aborted"}, of : Cases, tail : Tails]

\* A panel d with the requests rs under way.
DetailsFit(d, rs) ==
    /\ d \in Details /\ rs \subseteq Readings
    /\ d.logLoading => \E r \in rs : r.op = "log"
    /\ d.acting => \E r \in rs : r.op \in {"preview", "download"}
    /\ d.assessing => \E r \in rs : r.op \in {"convergence", "aborted"}
LogFits(d) == d.tab = "logs" /\ d.log # NoContent => d.log = RD!LogKey(d)
DetailsInv == DetailsFit(details, reading) /\ LogFits(details)

LEMMA DetailsInit ==
  ASSUME RD!Init
  PROVE  DetailsInv
<1>1. PICK c \in Cases, n \in Tails :
        LET d == [of |-> c, tail |-> n, tab |-> "overview", log |-> NoContent, cache |-> {},
                  logLoading |-> FALSE, logError |-> FALSE, preview |-> NoContent, acting |-> FALSE,
                  convergence |-> NoContent, assessing |-> TRUE, steps |-> 0]
        IN  details = d /\ reading = {RD!Ask("convergence", d)}
  BY DEF RD!Init
<1> QED BY <1>1 DEF DetailsInv, DetailsFit, LogFits, Details, Readings, RD!Ask, RD!LogKeys

\* loadLogs: a panel without a log, whose log is asked for.
LEMMA LogRead ==
  ASSUME NEW d, NEW rs, DetailsFit(d, rs), RD!ReadLog(d, rs)
  PROVE  DetailsInv'
<1>1. /\ details' = [d EXCEPT !.logLoading = TRUE, !.logError = FALSE, !.log = NoContent]
      /\ reading' = rs \union {RD!LogRequest(d)}
  BY DEF RD!ReadLog
<1>2. d \in Details /\ RD!LogRequest(d) \in Readings /\ RD!LogRequest(d).op = "log"
  BY DEF DetailsFit, Details, Readings, RD!LogRequest
<1>3. /\ details' \in Details /\ details'.log = NoContent /\ details'.acting = d.acting
      /\ details'.assessing = d.assessing
  BY <1>1, <1>2 DEF Details
<1> QED BY <1>1, <1>2, <1>3 DEF DetailsInv, DetailsFit, LogFits

LEMMA LogsLoaded ==
  ASSUME NEW d, NEW rs, DetailsFit(d, rs), RD!LoadLogs(d, rs)
  PROVE  DetailsInv'
<1>1. CASE RD!LogKey(d) \in d.cache
  <2>1. details' = [d EXCEPT !.log = RD!LogKey(d), !.logError = FALSE] /\ reading' = rs
    BY <1>1 DEF RD!LoadLogs
  <2>2. d \in Details /\ RD!LogKey(d) \in RD!LogKeys
    BY DEF DetailsFit, Details, RD!LogKey, RD!LogKeys
  <2>3. /\ details' \in Details /\ details'.log = RD!LogKey(details') /\ details'.acting = d.acting
        /\ details'.assessing = d.assessing /\ details'.logLoading = d.logLoading
    BY <2>1, <2>2 DEF Details, RD!LogKey
  <2> QED BY <2>1, <2>3 DEF DetailsInv, DetailsFit, LogFits
<1>2. CASE RD!LogKey(d) \notin d.cache
  BY <1>2, LogRead DEF RD!LoadLogs
<1> QED BY <1>1, <1>2

\* A render keeps a log only where it is that of the panel.
LEMMA DetailsRendered ==
  ASSUME DetailsInv, NEW d, NEW rs, NEW cached \in BOOLEAN, DetailsFit(d, rs), RD!Render(d, rs, cached),
         ~cached => d.log \in {details.log, NoContent}
  PROVE  DetailsInv'
<1>1. CASE d.tab = "logs" /\ (cached \/ details.tab # "logs" \/ RD!LogKey(d) # RD!LogKey(details))
  BY <1>1, LogsLoaded DEF RD!Render
<1>2. CASE ~(d.tab = "logs" /\ (cached \/ details.tab # "logs" \/ RD!LogKey(d) # RD!LogKey(details)))
  <2>1. details' = d /\ reading' = rs
    BY <1>2 DEF RD!Render
  <2>2. LogFits(d)
    BY <1>2 DEF DetailsInv, LogFits
  <2> QED BY <2>1, <2>2 DEF DetailsInv
<1> QED BY <1>1, <1>2

LEMMA DetailsStepped ==
  ASSUME DetailsInv, NEW d, NEW rs, DetailsFit(d, rs), d.log \in {details.log, NoContent}, RD!Step(d, rs)
  PROVE  DetailsInv'
<1> DEFINE e == [d EXCEPT !.steps = @ + 1]
<1>1. DetailsFit(e, rs) /\ e.log = d.log
  BY DEF DetailsFit, Details
<1>2. RD!Render(e, rs, FALSE)
  BY DEF RD!Step
<1> HIDE DEF e
<1> QED BY <1>1, <1>2, DetailsRendered

\* An assessment that is aborted is still under way; nothing else changes.
LEMMA ReadingsAborted ==
  ASSUME reading \subseteq Readings
  PROVE  /\ RD!Aborted(reading) \subseteq Readings
         /\ (\E r \in reading : r.op = "log") => \E r \in RD!Aborted(reading) : r.op = "log"
         /\ (\E r \in reading : r.op \in {"preview", "download"}) =>
              \E r \in RD!Aborted(reading) : r.op \in {"preview", "download"}
<1> DEFINE f(r) == IF r.op = "convergence" THEN [r EXCEPT !.op = "aborted"] ELSE r
<1>1. \A r \in reading : f(r) \in Readings /\ (r.op # "convergence" => f(r) = r)
  BY DEF Readings
<1>2. RD!Aborted(reading) = {f(r) : r \in reading}
  BY DEF RD!Aborted
<1> HIDE DEF f
<1> QED BY <1>1, <1>2

LEMMA DetailsClick ==
  ASSUME DetailsInv, RD!OpenTab \/ RD!ChangeTail \/ RD!ReloadLog \/ RD!ResultAction \/ RD!Refetch
  PROVE  DetailsInv'
<1>0. details \in Details /\ reading \subseteq Readings
  BY DEF DetailsInv, DetailsFit
<1>1. CASE RD!OpenTab
  <2>1. PICK tab \in {"overview", "logs", "results"} : RD!Step([details EXCEPT !.tab = tab], reading)
    BY <1>1 DEF RD!OpenTab
  <2> DEFINE d == [details EXCEPT !.tab = tab]
  <2>2. DetailsFit(d, reading) /\ d.log = details.log
    BY <1>0 DEF DetailsInv, DetailsFit, Details
  <2> HIDE DEF d
  <2> QED BY <2>1, <2>2, DetailsStepped DEF d
<1>2. CASE RD!ChangeTail
  <2>1. PICK n \in Tails : RD!Step([details EXCEPT !.tail = n, !.log = NoContent], reading)
    BY <1>2 DEF RD!ChangeTail
  <2> DEFINE d == [details EXCEPT !.tail = n, !.log = NoContent]
  <2>2. DetailsFit(d, reading) /\ d.log = NoContent
    BY <1>0 DEF DetailsInv, DetailsFit, Details
  <2> HIDE DEF d
  <2> QED BY <2>1, <2>2, DetailsStepped DEF d
<1>3. CASE RD!ReloadLog
  <2> DEFINE d == [details EXCEPT !.steps = @ + 1]
  <2>1. DetailsFit(d, reading)
    BY <1>0 DEF DetailsInv, DetailsFit, Details
  <2>2. RD!ReadLog(d, reading)
    BY <1>3 DEF RD!ReloadLog
  <2> HIDE DEF d
  <2> QED BY <2>1, <2>2, LogRead
<1>4. CASE RD!ResultAction
  <2>1. PICK op \in {"preview", "download"} :
          RD!Step([details EXCEPT !.acting = TRUE], reading \union {RD!Ask(op, details)})
    BY <1>4 DEF RD!ResultAction
  <2> DEFINE d == [details EXCEPT !.acting = TRUE]
             rs == reading \union {RD!Ask(op, details)}
  <2>2. RD!Ask(op, details) \in Readings /\ RD!Ask(op, details).op = op
    BY <1>0 DEF RD!Ask, Details, Readings
  <2>3. /\ d \in Details /\ d.log = details.log /\ d.logLoading = details.logLoading
        /\ d.assessing = details.assessing
    BY <1>0 DEF Details
  <2>4. DetailsFit(d, rs)
    BY <1>0, <2>2, <2>3 DEF DetailsInv, DetailsFit
  <2> HIDE DEF d, rs
  <2> QED BY <2>1, <2>3, <2>4, DetailsStepped DEF d, rs
<1>5. CASE RD!Refetch
  <2> DEFINE d == [details EXCEPT !.assessing = TRUE]
             rs == RD!Aborted(reading) \union {RD!Ask("convergence", details)}
  <2>1. RD!Step(d, rs)
    BY <1>5 DEF RD!Refetch
  <2>2. RD!Ask("convergence", details) \in Readings /\ RD!Ask("convergence", details).op = "convergence"
    BY <1>0 DEF RD!Ask, Details, Readings
  <2>3. /\ d \in Details /\ d.log = details.log /\ d.logLoading = details.logLoading
        /\ d.acting = details.acting
    BY <1>0 DEF Details
  <2>4. DetailsFit(d, rs)
    BY <1>0, <2>2, <2>3, ReadingsAborted DEF DetailsInv, DetailsFit
  <2> HIDE DEF d, rs
  <2> QED BY <2>1, <2>3, <2>4, DetailsStepped
<1> QED BY <1>1, <1>2, <1>3, <1>4, <1>5

LEMMA DetailsChange ==
  ASSUME DetailsInv, RD!ChangeResource
  PROVE  DetailsInv'
<1>0. details \in Details /\ reading \subseteq Readings
  BY DEF DetailsInv, DetailsFit
<1>p. PICK c \in Cases \ {details.of} :
      LET d == [details EXCEPT !.of = c, !.log = NoContent, !.logError = FALSE,
                               !.preview = NoContent, !.acting = FALSE, !.assessing = TRUE,
                               !.steps = @ + 1]
          rs == RD!Aborted(reading) \union {RD!Ask("convergence", d)}
          closed == [d EXCEPT !.tab = "overview"]
      IN  IF details.tab # "logs" THEN details' = closed /\ reading' = rs
          ELSE IF RD!LogKey(d) \in d.cache
          THEN details' = [closed EXCEPT !.log = RD!LogKey(d)] /\ reading' = rs
          ELSE RD!ReadLog(closed, rs)
  BY DEF RD!ChangeResource
<1> DEFINE d == [details EXCEPT !.of = c, !.log = NoContent, !.logError = FALSE,
                                !.preview = NoContent, !.acting = FALSE, !.assessing = TRUE,
                                !.steps = @ + 1]
           rs == RD!Aborted(reading) \union {RD!Ask("convergence", d)}
           closed == [d EXCEPT !.tab = "overview"]
<1>c. c \in Cases
  BY <1>p
<1>d. d \in Details /\ d.acting = FALSE /\ d.logLoading = details.logLoading
  <2>1. d.acting = FALSE /\ d.logLoading = details.logLoading /\ d.of = c /\ d.assessing = TRUE
    BY <1>0, <1>c DEF Details
  <2>2. d \in Details
    <3> DEFINE a == [details EXCEPT !.of = c, !.log = NoContent, !.logError = FALSE]
               b == [a EXCEPT !.preview = NoContent, !.acting = FALSE]
    <3>1. a \in Details
      BY <1>0, <1>c DEF Details
    <3> HIDE DEF a
    <3>2. b \in Details
      BY <3>1 DEF Details
    <3> HIDE DEF b
    <3> DEFINE x == [b EXCEPT !.assessing = TRUE]
    <3>3. x \in Details
      BY <3>2 DEF Details
    <3> HIDE DEF x
    <3>4. [x EXCEPT !.steps = @ + 1] \in Details
      BY <3>3 DEF Details
    <3>5. d = [x EXCEPT !.steps = @ + 1]
      BY Zenon DEF a, b, x
    <3> QED BY <3>4, <3>5
  <2> QED BY <2>1, <2>2
<1> HIDE DEF d
<1>1. /\ d \in Details /\ closed \in Details /\ closed.tab = "overview" /\ closed.acting = FALSE
      /\ closed.logLoading = details.logLoading
  BY <1>d DEF Details
<1>2. RD!Ask("convergence", d) \in Readings /\ RD!Ask("convergence", d).op = "convergence"
  BY <1>1 DEF RD!Ask, Details, Readings
<1> HIDE DEF closed
<1>3. DetailsFit(closed, rs)
  BY <1>0, <1>1, <1>2, ReadingsAborted DEF DetailsInv, DetailsFit
<1> HIDE DEF rs
<1>4. CASE details' = closed /\ reading' = rs
  BY <1>1, <1>3, <1>4 DEF DetailsInv, LogFits
<1>5. CASE details' = [closed EXCEPT !.log = RD!LogKey(d)] /\ reading' = rs
  <2>1. RD!LogKey(d) \in RD!LogKeys
    BY <1>1 DEF Details, RD!LogKey, RD!LogKeys
  <2>2. /\ details' \in Details /\ details'.tab = "overview" /\ details'.acting = closed.acting
        /\ details'.logLoading = closed.logLoading /\ details'.assessing = closed.assessing
    BY <1>1, <1>5, <2>1 DEF Details
  <2> QED BY <1>3, <1>5, <2>2 DEF DetailsInv, DetailsFit, LogFits
<1>6. CASE RD!ReadLog(closed, rs)
  BY <1>3, <1>6, LogRead
<1> QED BY <1>p, <1>4, <1>5, <1>6 DEF closed, rs, d

LEMMA LogAnswered ==
  ASSUME DetailsInv, NEW r \in reading, RD!LogArrives(r)
  PROVE  DetailsInv'
<1>0. details \in Details /\ reading \subseteq Readings /\ r.op = "log" /\ r \in Readings
  BY DEF DetailsInv, DetailsFit, RD!LogArrives
<1> DEFINE key == [of |-> r.of, tail |-> r.tail]
           d == [details EXCEPT !.logLoading = FALSE]
           good == [d EXCEPT !.log = key, !.cache = @ \union {key}]
           bad == [d EXCEPT !.logError = TRUE]
<1>1. \/ RD!Render(good, reading \ {r}, TRUE)
      \/ RD!Render(bad, reading \ {r}, FALSE)
  BY DEF RD!LogArrives
<1>2. key \in RD!LogKeys
  BY <1>0 DEF Readings, RD!LogKeys
<1>3. /\ good \in Details /\ good.logLoading = FALSE /\ good.acting = details.acting
      /\ good.assessing = details.assessing
      /\ bad \in Details /\ bad.logLoading = FALSE /\ bad.acting = details.acting
      /\ bad.assessing = details.assessing /\ bad.log = details.log
  BY <1>0, <1>2 DEF Details
<1> HIDE DEF good, bad
<1>4. DetailsFit(good, reading \ {r}) /\ DetailsFit(bad, reading \ {r})
  BY <1>0, <1>3 DEF DetailsInv, DetailsFit
<1>5. CASE RD!Render(good, reading \ {r}, TRUE)
  BY <1>4, <1>5, DetailsRendered
<1>6. CASE RD!Render(bad, reading \ {r}, FALSE)
  BY <1>3, <1>4, <1>6, DetailsRendered
<1> QED BY <1>1, <1>5, <1>6

LEMMA ResultAnswered ==
  ASSUME DetailsInv, NEW r \in reading, RD!ResultArrives(r)
  PROVE  DetailsInv'
<1>0. /\ details \in Details /\ reading \subseteq Readings /\ r.op \in {"preview", "download"}
      /\ r \in Readings
  BY DEF DetailsInv, DetailsFit, RD!ResultArrives
<1> PICK ok \in BOOLEAN :
      RD!Render([details EXCEPT !.acting = FALSE,
                                !.preview = IF ok /\ r.op = "preview" THEN r.of ELSE @],
                reading \ {r}, FALSE)
  BY DEF RD!ResultArrives
<1> DEFINE d == [details EXCEPT !.acting = FALSE,
                                !.preview = IF ok /\ r.op = "preview" THEN r.of ELSE @]
<1>1. /\ d \in Details /\ d.acting = FALSE /\ d.logLoading = details.logLoading
      /\ d.assessing = details.assessing /\ d.log = details.log
  <2>1. PICK x \in Cases \union {NoContent} : x = d.preview
    BY <1>0 DEF Details, Readings
  <2>2. d = [details EXCEPT !.acting = FALSE, !.preview = x]
    BY <1>0, <2>1 DEF Details
  <2> HIDE DEF d
  <2> QED BY <1>0, <2>2 DEF Details
<1>2. RD!Render(d, reading \ {r}, FALSE)
  OBVIOUS
<1> HIDE DEF d
<1>3. DetailsFit(d, reading \ {r})
  BY <1>0, <1>1 DEF DetailsInv, DetailsFit
<1> QED BY <1>1, <1>2, <1>3, DetailsRendered

LEMMA ConvergenceAnswered ==
  ASSUME DetailsInv, NEW r \in reading, RD!ConvergenceArrives(r)
  PROVE  DetailsInv'
<1>0. /\ details \in Details /\ reading \subseteq Readings /\ r.op \in {"convergence", "aborted"}
      /\ r \in Readings
  BY DEF DetailsInv, DetailsFit, RD!ConvergenceArrives
<1> PICK ok \in BOOLEAN :
      RD!Render([details EXCEPT !.assessing = FALSE,
                                !.convergence = IF ok /\ r.op = "convergence" THEN r.of ELSE @],
                reading \ {r}, FALSE)
  BY DEF RD!ConvergenceArrives
<1> DEFINE d == [details EXCEPT !.assessing = FALSE,
                                !.convergence = IF ok /\ r.op = "convergence" THEN r.of ELSE @]
<1>1. /\ d \in Details /\ d.assessing = FALSE /\ d.logLoading = details.logLoading
      /\ d.acting = details.acting /\ d.log = details.log
  <2>1. PICK x \in Cases \union {NoContent} : x = d.convergence
    BY <1>0 DEF Details, Readings
  <2>2. d = [details EXCEPT !.assessing = FALSE, !.convergence = x]
    BY <1>0, <2>1 DEF Details
  <2> HIDE DEF d
  <2> QED BY <1>0, <2>2 DEF Details
<1>2. RD!Render(d, reading \ {r}, FALSE)
  OBVIOUS
<1> HIDE DEF d
<1>3. DetailsFit(d, reading \ {r})
  BY <1>0, <1>1 DEF DetailsInv, DetailsFit
<1> QED BY <1>1, <1>2, <1>3, DetailsRendered

LEMMA DetailsStep ==
  ASSUME DetailsInv, [RD!Next]_<<details, reading>>
  PROVE  DetailsInv'
<1>1. CASE UNCHANGED <<details, reading>>
  BY <1>1 DEF DetailsInv, DetailsFit, LogFits, Details, Readings, RD!LogKey, RD!LogKeys
<1>2. CASE RD!Next
  BY <1>2, DetailsClick, DetailsChange, LogAnswered, ResultAnswered, ConvergenceAnswered DEF RD!Next
<1> QED BY <1>1, <1>2

LEMMA DetailsAlways == RD!Spec => []DetailsInv
BY DetailsInit, DetailsStep, PTL DEF RD!Spec, RD!vars

\* The detail panel shows resources, logs and results that there are.
THEOREM DetailsTyped == RD!Spec => []RD!TypeOK
<1>1. DetailsInv => RD!TypeOK
  BY DEF DetailsInv, DetailsFit, Details, Readings, RD!TypeOK
<1> QED BY <1>1, DetailsAlways, PTL

\* A spinner of the detail panel turns only while something it stands for is
\* under way, though the panel stays mounted while the resource changes.
THEOREM DetailsSpinnersBacked == RD!Spec => []RD!BusyIsBacked
<1>1. DetailsInv => RD!BusyIsBacked
  BY DEF DetailsInv, DetailsFit, RD!BusyIsBacked
<1> QED BY <1>1, DetailsAlways, PTL

\* The log tab shows the log that was asked for last, in whatever order the
\* answers for other resources and lengths arrive.
THEOREM ShownLogsAreWanted == RD!Spec => []RD!LogIsWanted
<1>1. DetailsInv => RD!LogIsWanted
  BY DEF DetailsInv, LogFits, RD!LogIsWanted
<1> QED BY <1>1, DetailsAlways, PTL

-----------------------------------------------------------------------------
(***************************************************************************)
(* ProjectDrafts: the Drafts of a project.                                 *)
(***************************************************************************)
MaybeDraft == DraftIds \union {NoDraft}
ShelfRecords ==
    [drafts : Seq(DraftIds), listing : BOOLEAN, listError : BOOLEAN, url : MaybeDraft, active : MaybeDraft,
     detail : MaybeDraft, detailLoading : BOOLEAN, detailError : BOOLEAN, managing : BOOLEAN, naming : BOOLEAN,
     renaming : BOOLEAN, changes : Nat]
ErrandRecords ==
    [detail : MaybeDraft, op : {NoDraft, "create", "copy", "renameIn", "delete"}, draft : MaybeDraft,
     waits : BOOLEAN, for : MaybeDraft, active : MaybeDraft]
ListRecords == [for : MaybeDraft, read : BOOLEAN, got : Seq(DraftIds)]

\* Drafts in an order, each once; requests that were answered with such; a
\* page that lists its active Draft or says why it does not.
Ordered(drafts) == drafts \in Seq(DraftIds) /\ PD!IsInjective(drafts)
ListsFit(ls) == ls \subseteq ListRecords /\ \A l \in ls : PD!IsInjective(l.got)
ShelfFits(s) ==
    /\ s \in ShelfRecords /\ PD!IsInjective(s.drafts)
    /\ s.active # NoDraft /\ s.active \notin PD!ToSet(s.drafts) => s.listing \/ s.listError

\* The latest request for a detail is for the active Draft, and what it
\* answered is shown until another Draft is active.
ShelfInv ==
    /\ Ordered(held) /\ ShelfFits(shelf) /\ ListsFit(lists) /\ errands \in ErrandRecords
    /\ shelf.listing => lists # {}
    /\ shelf.detail # NoDraft => shelf.detail = shelf.active
    /\ errands.detail # NoDraft => errands.detail = shelf.active
    /\ shelf.active # NoDraft /\ shelf.detailLoading => errands.detail = shelf.active

-----------------------------------------------------------------------------
\* A page that asks for the detail of its active Draft.
LEMMA DetailAsked ==
  ASSUME NEW s, ShelfFits(s), NEW e \in ErrandRecords, PD!LoadDetail(s, e),
         Ordered(held'), ListsFit(lists'), s.listing => lists' # {}
  PROVE  ShelfInv'
<1> DEFINE q == [s EXCEPT !.detail = NoDraft, !.detailError = FALSE, !.detailLoading = @ \/ s.active # NoDraft]
           f == [e EXCEPT !.detail = s.active]
<1>1. shelf' = q /\ errands' = f
  BY DEF PD!LoadDetail
<1>2. /\ q \in ShelfRecords /\ q.detail = NoDraft /\ q.active = s.active /\ q.drafts = s.drafts
      /\ q.listing = s.listing /\ q.listError = s.listError
  BY DEF ShelfFits, ShelfRecords, MaybeDraft
<1>3. f \in ErrandRecords /\ f.detail = s.active
  BY DEF ErrandRecords, ShelfFits, ShelfRecords
<1> HIDE DEF q, f
<1>4. ShelfFits(q)
  BY <1>2 DEF ShelfFits
<1> QED BY <1>1, <1>2, <1>3, <1>4 DEF ShelfInv

\* A page that asks for the list.
LEMMA ListAsked ==
  ASSUME NEW s, ShelfFits(s)
  PROVE  LET p == PD!Listing(s)
         IN  /\ ShelfFits(p) /\ p.active = s.active /\ p.url = s.url /\ p.detail = s.detail
             /\ p.detailLoading = s.detailLoading /\ p.listing = TRUE
<1> DEFINE p == PD!Listing(s)
<1>1. /\ p \in ShelfRecords /\ p.listing = TRUE /\ p.active = s.active /\ p.drafts = s.drafts /\ p.url = s.url
      /\ p.detail = s.detail /\ p.detailLoading = s.detailLoading
  BY DEF ShelfFits, ShelfRecords, PD!Listing
<1> HIDE DEF p
<1>2. ShelfFits(p)
  BY <1>1 DEF ShelfFits
<1> QED BY <1>1, <1>2 DEF p

LEMMA RequestFits ==
  ASSUME NEW ls, ListsFit(ls), NEW d \in MaybeDraft
  PROVE  ListsFit(ls \union {PD!ListRequest(d)})
<1>1. <<>> \in Seq(DraftIds) /\ PD!IsInjective(<<>>)
  BY DEF PD!IsInjective
<1>2. PD!ListRequest(d) \in ListRecords /\ PD!ListRequest(d).got = <<>>
  BY <1>1 DEF PD!ListRequest, ListRecords
<1> QED BY <1>1, <1>2 DEF ListsFit

\* A render of the page s, which shows the detail that is shown.
SameDetail(s, e) == /\ s.detail = shelf.detail /\ s.detailLoading = shelf.detailLoading
                    /\ e.detail = errands.detail
LEMMA Rendered ==
  ASSUME ShelfInv, NEW s, ShelfFits(s), NEW e \in ErrandRecords, SameDetail(s, e), NEW ls, ListsFit(ls),
         s.listing => ls # {}, PD!Render(s, e, ls), Ordered(held')
  PROVE  ShelfInv'
<1> DEFINE moved == s.url # shelf.url
           n == IF s.active = shelf.active THEN s ELSE [s EXCEPT !.naming = FALSE]
           r == IF moved THEN PD!Listing(n) ELSE n
<1>1. /\ lists' = IF moved THEN ls \union {PD!ListRequest(s.url)} ELSE ls
      /\ IF s.active = shelf.active THEN shelf' = r /\ errands' = e ELSE PD!LoadDetail(r, e)
  BY DEF PD!Render
<1>2. /\ ShelfFits(n) /\ n.active = s.active /\ n.detail = s.detail /\ n.detailLoading = s.detailLoading
      /\ n.listing = s.listing
  <2>1. CASE s.active = shelf.active
    BY <2>1
  <2>2. CASE s.active # shelf.active
    <3> DEFINE m == [s EXCEPT !.naming = FALSE]
    <3>1. /\ m \in ShelfRecords /\ m.active = s.active /\ m.detail = s.detail /\ m.listing = s.listing
          /\ m.detailLoading = s.detailLoading /\ m.drafts = s.drafts /\ m.listError = s.listError
      BY DEF ShelfFits, ShelfRecords
    <3>2. n = m
      BY <2>2
    <3> HIDE DEF m, n
    <3> QED BY <3>1, <3>2 DEF ShelfFits
  <2> QED BY <2>1, <2>2
<1> HIDE DEF n
<1>3. /\ ShelfFits(r) /\ r.active = s.active /\ r.detail = s.detail /\ r.detailLoading = s.detailLoading
      /\ moved \/ r.listing = s.listing
  BY <1>2, ListAsked
<1>4. ListsFit(lists') /\ (moved \/ s.listing => lists' # {})
  <2>1. s.url \in MaybeDraft
    BY DEF ShelfFits, ShelfRecords
  <2> QED BY <1>1, <2>1, RequestFits
<1> HIDE DEF r, moved
<1>5. r.listing => lists' # {}
  BY <1>3, <1>4
<1>6. CASE s.active = shelf.active
  <2>1. shelf' = r /\ errands' = e
    BY <1>1, <1>6
  <2> QED BY <1>3, <1>4, <1>5, <1>6, <2>1 DEF ShelfInv, SameDetail
<1>7. CASE s.active # shelf.active
  <2>1. PD!LoadDetail(r, e)
    BY <1>1, <1>7
  <2> QED BY <1>3, <1>4, <1>5, <2>1, DetailAsked
<1> QED BY <1>6, <1>7

\* What the invariant says of the parts.
LEMMA Shelved ==
  ASSUME ShelfInv
  PROVE  /\ shelf \in ShelfRecords /\ errands \in ErrandRecords /\ ShelfFits(shelf) /\ SameDetail(shelf, errands)
         /\ ListsFit(lists) /\ (shelf.listing => lists # {}) /\ Ordered(held)
BY DEF ShelfInv, ShelfFits, SameDetail

-----------------------------------------------------------------------------
(* The answers. *)
\* An operation that waited for the list l goes on.
LEMMA WentOn ==
  ASSUME ShelfInv, NEW s, ShelfFits(s), SameDetail(s, errands), s.listing = FALSE, NEW l \in lists,
         PD!Onward(s, errands, l), held' = held
  PROVE  ShelfInv'
<1> DEFINE rest == lists \ {l}
           f == PD!Idle(errands)
<1>0. ListsFit(rest) /\ Ordered(held') /\ errands \in ErrandRecords
  BY Shelved DEF ListsFit
<1>1. f \in ErrandRecords /\ f.detail = errands.detail
  BY Shelved DEF PD!Idle, ErrandRecords, MaybeDraft
<1> HIDE DEF f
<1>2. \/ PD!Render(s, errands, rest) \/ PD!Render(s, f, rest)
      \/ PD!Render([s EXCEPT !.url = errands.draft, !.managing = FALSE], f, rest)
      \/ PD!Render([s EXCEPT !.active = NoDraft, !.url = NoDraft], f, rest)
  BY DEF PD!Onward, f
<1> HIDE DEF rest
<1>3. SameDetail(s, f)
  BY <1>1 DEF SameDetail
<1>4. CASE PD!Render(s, errands, rest) \/ PD!Render(s, f, rest)
  BY <1>0, <1>1, <1>3, <1>4, Rendered
<1>5. CASE PD!Render([s EXCEPT !.url = errands.draft, !.managing = FALSE], f, rest)
  <2> DEFINE p == [s EXCEPT !.url = errands.draft, !.managing = FALSE]
  <2>1. /\ p \in ShelfRecords /\ p.active = s.active /\ p.drafts = s.drafts /\ p.listing = s.listing
        /\ p.listError = s.listError /\ p.detail = s.detail /\ p.detailLoading = s.detailLoading
    BY <1>0 DEF ShelfFits, ShelfRecords, ErrandRecords
  <2>2. PD!Render(p, f, rest)
    BY <1>5
  <2> HIDE DEF p
  <2>3. ShelfFits(p) /\ SameDetail(p, f)
    BY <1>3, <2>1 DEF ShelfFits, SameDetail
  <2> QED BY <1>0, <1>1, <2>1, <2>2, <2>3, Rendered
<1>6. CASE PD!Render([s EXCEPT !.active = NoDraft, !.url = NoDraft], f, rest)
  <2> DEFINE p == [s EXCEPT !.active = NoDraft, !.url = NoDraft]
  <2>1. /\ p \in ShelfRecords /\ p.active = NoDraft /\ p.drafts = s.drafts /\ p.listing = s.listing
        /\ p.detail = s.detail /\ p.detailLoading = s.detailLoading
    BY DEF ShelfFits, ShelfRecords, MaybeDraft
  <2>2. PD!Render(p, f, rest)
    BY <1>6
  <2> HIDE DEF p
  <2>3. ShelfFits(p) /\ SameDetail(p, f)
    BY <1>3, <2>1 DEF ShelfFits, SameDetail
  <2> QED BY <1>0, <1>1, <2>1, <2>2, <2>3, Rendered
<1> QED BY <1>2, <1>4, <1>5, <1>6

LEMMA DraftsListed ==
  ASSUME ShelfInv, NEW l \in lists, PD!ListArrives(l)
  PROVE  ShelfInv'
<1> DEFINE s == [shelf EXCEPT !.listing = FALSE]
           chosen == PD!ResolveActiveDraftId(l.got, shelf.active, l.for)
           a == [s EXCEPT !.drafts = l.got, !.active = chosen]
           b == [s EXCEPT !.listError = TRUE]
<1>1. l \in ListRecords /\ PD!IsInjective(l.got)
  BY Shelved DEF ListsFit
<1>2. chosen \in MaybeDraft /\ (chosen # NoDraft => chosen \in PD!ToSet(l.got))
  <2>1. l.got \in Seq(DraftIds) /\ PD!ToSet(l.got) \subseteq DraftIds
    BY <1>1 DEF ListRecords, PD!ToSet
  <2>2. l.got # <<>> => Head(l.got) \in PD!ToSet(l.got)
    BY <2>1 DEF PD!ToSet
  <2> QED BY <2>1, <2>2 DEF PD!ResolveActiveDraftId, MaybeDraft
<1>3. held' = held /\ (PD!Onward(a, errands, l) \/ PD!Onward(b, errands, l))
  BY DEF PD!ListArrives
<1> HIDE DEF chosen
<1>4. /\ s \in ShelfRecords /\ s.listing = FALSE /\ s.active = shelf.active /\ s.drafts = shelf.drafts
      /\ s.detail = shelf.detail /\ s.detailLoading = shelf.detailLoading
  BY Shelved DEF ShelfRecords
<1> HIDE DEF s
<1>5. /\ a \in ShelfRecords /\ a.drafts = l.got /\ a.active = chosen /\ a.listing = FALSE
      /\ a.detail = s.detail /\ a.detailLoading = s.detailLoading
  BY <1>1, <1>2, <1>4 DEF ShelfRecords, ListRecords
<1>6. /\ b \in ShelfRecords /\ b.drafts = s.drafts /\ b.active = s.active /\ b.listing = FALSE /\ b.listError = TRUE
      /\ b.detail = s.detail /\ b.detailLoading = s.detailLoading
  BY <1>4 DEF ShelfRecords
<1> HIDE DEF a, b
<1>7. ShelfFits(a) /\ SameDetail(a, errands)
  BY <1>1, <1>2, <1>4, <1>5 DEF ShelfFits, SameDetail
<1>8. ShelfFits(b) /\ SameDetail(b, errands)
  BY <1>4, <1>6, Shelved DEF ShelfFits, SameDetail
<1> QED BY <1>3, <1>5, <1>6, <1>7, <1>8, WentOn

LEMMA ListServed ==
  ASSUME ShelfInv, PD!ServeList
  PROVE  ShelfInv'
<1> PICK l \in lists : lists' = (lists \ {l}) \union {[l EXCEPT !.read = TRUE, !.got = held]}
  BY DEF PD!ServeList
<1>1. held' = held /\ shelf' = shelf /\ errands' = errands
  BY DEF PD!ServeList
<1> DEFINE k == [l EXCEPT !.read = TRUE, !.got = held]
<1>2. l \in ListRecords /\ Ordered(held)
  BY Shelved DEF ListsFit
<1>3. k \in ListRecords /\ k.got = held
  BY <1>2 DEF ListRecords, Ordered
<1>4. lists' = (lists \ {l}) \union {k}
  OBVIOUS
<1> HIDE DEF k
<1>5. ListsFit(lists') /\ lists' # {}
  BY <1>2, <1>3, <1>4, Shelved DEF ListsFit, Ordered
<1> QED BY <1>1, <1>5 DEF ShelfInv

LEMMA DetailAnswered ==
  ASSUME ShelfInv, PD!DetailArrives
  PROVE  ShelfInv'
<1> PICK ok \in {FALSE, errands.detail \in PD!ToSet(held)} :
      shelf' = [shelf EXCEPT !.detailLoading = FALSE, !.detailError = ~ok,
                             !.detail = IF ok THEN errands.detail ELSE NoDraft]
  BY DEF PD!DetailArrives
<1>1. /\ errands.detail # NoDraft /\ errands' = [errands EXCEPT !.detail = NoDraft]
      /\ held' = held /\ lists' = lists
  BY DEF PD!DetailArrives
<1>2. errands.detail = shelf.active
  BY <1>1 DEF ShelfInv
<1> DEFINE d == IF ok THEN errands.detail ELSE NoDraft
           p == [shelf EXCEPT !.detailLoading = FALSE, !.detailError = ~ok, !.detail = d]
<1>3. d \in MaybeDraft /\ (d # NoDraft => d = shelf.active) /\ ok \in BOOLEAN
  <2>1. ok \in BOOLEAN
    <3> DEFINE there == errands.detail \in PD!ToSet(held)
    <3>1. there \in BOOLEAN
      OBVIOUS
    <3>2. ok \in {FALSE, there}
      OBVIOUS
    <3> HIDE DEF there
    <3> QED BY <3>1, <3>2
  <2>2. errands.detail \in MaybeDraft
    BY Shelved DEF ErrandRecords
  <2> QED BY <1>2, <2>1, <2>2 DEF MaybeDraft
<1>4. shelf' = p
  OBVIOUS
<1> HIDE DEF d
<1>5. /\ p \in ShelfRecords /\ p.detail = d /\ p.active = shelf.active /\ p.drafts = shelf.drafts
      /\ p.listing = shelf.listing /\ p.listError = shelf.listError /\ p.detailLoading = FALSE
  BY <1>3, Shelved DEF ShelfRecords
<1> HIDE DEF p
<1>6. errands' \in ErrandRecords /\ errands'.detail = NoDraft
  BY <1>1, Shelved DEF ErrandRecords, MaybeDraft
<1>7. ShelfFits(p)
  BY <1>5, Shelved DEF ShelfFits
<1> QED BY <1>1, <1>3, <1>4, <1>5, <1>6, <1>7 DEF ShelfInv

-----------------------------------------------------------------------------
(* The user. *)
LEMMA Counted ==
  ASSUME NEW s, ShelfFits(s)
  PROVE  LET p == PD!Did(s)
         IN  /\ ShelfFits(p) /\ p.active = s.active /\ p.url = s.url /\ p.detail = s.detail
             /\ p.detailLoading = s.detailLoading /\ p.listing = s.listing
<1> DEFINE p == PD!Did(s)
<1>1. /\ p \in ShelfRecords /\ p.listing = s.listing /\ p.active = s.active /\ p.drafts = s.drafts /\ p.url = s.url
      /\ p.detail = s.detail /\ p.detailLoading = s.detailLoading /\ p.listError = s.listError
  BY DEF ShelfFits, ShelfRecords, PD!Did
<1> HIDE DEF p
<1>2. ShelfFits(p)
  BY <1>1 DEF ShelfFits
<1> QED BY <1>1, <1>2 DEF p

\* A click that renders the page q, counted.
LEMMA Clicked ==
  ASSUME ShelfInv, NEW q, ShelfFits(q), q.detail = shelf.detail, q.detailLoading = shelf.detailLoading,
         q.listing = shelf.listing, PD!Render(PD!Did(q), errands, lists), held' = held
  PROVE  ShelfInv'
<1> DEFINE p == PD!Did(q)
<1>1. ShelfFits(p) /\ p.detail = shelf.detail /\ p.detailLoading = shelf.detailLoading /\ p.listing = shelf.listing
  BY Counted
<1>2. PD!Render(p, errands, lists)
  OBVIOUS
<1> HIDE DEF p
<1>3. SameDetail(p, errands) /\ Ordered(held')
  BY <1>1, Shelved DEF SameDetail
<1> QED BY <1>1, <1>2, <1>3, Shelved, Rendered

LEMMA Managed ==
  ASSUME ShelfInv, PD!Manage
  PROVE  ShelfInv'
<1> DEFINE q == [shelf EXCEPT !.managing = ~@]
<1>1. PD!Render(PD!Did(q), errands, lists) /\ held' = held
  BY DEF PD!Manage
<1>2. /\ q \in ShelfRecords /\ q.drafts = shelf.drafts /\ q.active = shelf.active /\ q.listing = shelf.listing
      /\ q.listError = shelf.listError /\ q.detail = shelf.detail /\ q.detailLoading = shelf.detailLoading
  BY Shelved DEF ShelfRecords
<1> HIDE DEF q
<1>3. ShelfFits(q)
  BY <1>2, Shelved DEF ShelfFits
<1> QED BY <1>1, <1>2, <1>3, Clicked

LEMMA DraftOpened ==
  ASSUME ShelfInv, PD!OpenDraft
  PROVE  ShelfInv'
<1> PICK d \in PD!ToSet(shelf.drafts) :
      PD!Render(PD!Did([shelf EXCEPT !.active = d, !.url = d, !.managing = FALSE]), errands, lists)
  BY DEF PD!OpenDraft
<1> DEFINE q == [shelf EXCEPT !.active = d, !.url = d, !.managing = FALSE]
<1>1. PD!Render(PD!Did(q), errands, lists) /\ held' = held
  BY DEF PD!OpenDraft
<1>2. d \in MaybeDraft
  <2>1. shelf.drafts \in Seq(DraftIds)
    BY Shelved DEF ShelfRecords
  <2> QED BY <2>1 DEF PD!ToSet, MaybeDraft
<1>3. /\ q \in ShelfRecords /\ q.drafts = shelf.drafts /\ q.active = d /\ q.listing = shelf.listing
      /\ q.detail = shelf.detail /\ q.detailLoading = shelf.detailLoading
  BY <1>2, Shelved DEF ShelfRecords
<1> HIDE DEF q
<1>4. ShelfFits(q)
  BY <1>3, Shelved DEF ShelfFits
<1> QED BY <1>1, <1>3, <1>4, Clicked

LEMMA WentBack ==
  ASSUME ShelfInv, PD!GoBack
  PROVE  ShelfInv'
<1> PICK d \in (DraftIds \union {NoDraft}) \ {shelf.url} :
      PD!Render(PD!Did([shelf EXCEPT !.url = d]), errands, lists)
  BY DEF PD!GoBack
<1> DEFINE q == [shelf EXCEPT !.url = d]
<1>1. PD!Render(PD!Did(q), errands, lists) /\ held' = held
  BY DEF PD!GoBack
<1>2. /\ q \in ShelfRecords /\ q.drafts = shelf.drafts /\ q.active = shelf.active /\ q.listing = shelf.listing
      /\ q.listError = shelf.listError /\ q.detail = shelf.detail /\ q.detailLoading = shelf.detailLoading
  BY Shelved DEF ShelfRecords, MaybeDraft
<1> HIDE DEF q
<1>3. ShelfFits(q)
  BY <1>2, Shelved DEF ShelfFits
<1> QED BY <1>1, <1>2, <1>3, Clicked

LEMMA Refreshed ==
  ASSUME ShelfInv, PD!Refresh
  PROVE  ShelfInv'
<1> DEFINE q == PD!Listing(shelf)
           p == PD!Did(q)
<1>1. PD!LoadDetail(p, errands) /\ lists' = lists \union {PD!ListRequest(shelf.url)} /\ held' = held
  BY DEF PD!Refresh
<1>2. ShelfFits(q)
  BY Shelved, ListAsked
<1> HIDE DEF q
<1>3. ShelfFits(p)
  BY <1>2, Counted
<1> HIDE DEF p
<1>4. ListsFit(lists') /\ lists' # {} /\ Ordered(held')
  BY <1>1, RequestFits, Shelved DEF ShelfRecords
<1> QED BY <1>1, <1>3, <1>4, Shelved, DetailAsked

\* Only what is being named changes.
LEMMA NamedOnly ==
  ASSUME ShelfInv, NEW q, ShelfFits(q), q.active = shelf.active, q.detail = shelf.detail,
         q.detailLoading = shelf.detailLoading, q.listing = shelf.listing,
         shelf' = q, held' = held, lists' = lists, errands' = errands
  PROVE  ShelfInv'
BY DEF ShelfInv

LEMMA NameGiven ==
  ASSUME ShelfInv, PD!Naming \/ PD!Renamed
  PROVE  ShelfInv'
<1> USE Shelved
<1>1. held' = held /\ lists' = lists /\ errands' = errands
  BY DEF PD!Naming, PD!Renamed
<1>2. PICK x \in BOOLEAN, y \in BOOLEAN :
        LET q == [shelf EXCEPT !.naming = x, !.renaming = y] IN shelf' = q \/ shelf' = PD!Did(q)
  <2>1. \/ shelf' = PD!Did([shelf EXCEPT !.naming = TRUE]) \/ shelf' = PD!Did([shelf EXCEPT !.naming = FALSE])
        \/ shelf' = PD!Did([shelf EXCEPT !.renaming = TRUE])
        \/ \E ok \in BOOLEAN : shelf' = [shelf EXCEPT !.renaming = FALSE, !.naming = @ /\ ~ok]
    BY DEF PD!Naming, PD!Renamed
  <2>2. /\ shelf.naming \in BOOLEAN /\ shelf.renaming \in BOOLEAN
        /\ \A x \in BOOLEAN : /\ [shelf EXCEPT !.naming = x] = [shelf EXCEPT !.naming = x, !.renaming = shelf.renaming]
                              /\ [shelf EXCEPT !.renaming = x] = [shelf EXCEPT !.naming = shelf.naming, !.renaming = x]
                              /\ [shelf EXCEPT !.renaming = FALSE, !.naming = x]
                                   = [shelf EXCEPT !.naming = x, !.renaming = FALSE]
    BY DEF ShelfRecords
  <2> QED BY <2>1, <2>2
<1> DEFINE q == [shelf EXCEPT !.naming = x, !.renaming = y]
<1>3. /\ q \in ShelfRecords /\ q.drafts = shelf.drafts /\ q.active = shelf.active /\ q.listing = shelf.listing
      /\ q.listError = shelf.listError /\ q.detail = shelf.detail /\ q.detailLoading = shelf.detailLoading
  BY DEF ShelfRecords
<1>4. shelf' = q \/ shelf' = PD!Did(q)
  BY <1>2
<1> HIDE DEF q
<1>5. ShelfFits(q)
  BY <1>3 DEF ShelfFits
<1>6. CASE shelf' = q
  BY <1>1, <1>3, <1>5, <1>6, NamedOnly
<1>7. CASE shelf' = PD!Did(q)
  <2> DEFINE p == PD!Did(q)
  <2>1. /\ ShelfFits(p) /\ p.active = shelf.active /\ p.detail = shelf.detail
        /\ p.detailLoading = shelf.detailLoading /\ p.listing = shelf.listing
    BY <1>3, <1>5, Counted
  <2>2. shelf' = p
    BY <1>7
  <2> HIDE DEF p
  <2> QED BY <1>1, <2>1, <2>2, NamedOnly
<1> QED BY <1>4, <1>6, <1>7

LEMMA OperationRun ==
  ASSUME ShelfInv, NEW op \in {"create", "copy", "renameIn", "delete"}, PD!RunOperation(op)
  PROVE  ShelfInv'
<1> PICK d \in IF op = "create" THEN {NoDraft} ELSE PD!ToSet(shelf.drafts) :
      errands' = [errands EXCEPT !.op = op, !.draft = d, !.for = shelf.url, !.active = shelf.active]
  BY DEF PD!RunOperation
<1>1. shelf' = PD!Did(shelf) /\ held' = held /\ lists' = lists
  BY DEF PD!RunOperation
<1>2. d \in MaybeDraft /\ shelf.url \in MaybeDraft /\ shelf.active \in MaybeDraft
  <2>1. shelf.drafts \in Seq(DraftIds) /\ shelf.url \in MaybeDraft /\ shelf.active \in MaybeDraft
    BY Shelved DEF ShelfRecords
  <2> QED BY <2>1 DEF PD!ToSet, MaybeDraft
<1>3. errands' \in ErrandRecords /\ errands'.detail = errands.detail
  BY <1>2, Shelved DEF ErrandRecords
<1> DEFINE p == PD!Did(shelf)
<1>4. /\ ShelfFits(p) /\ p.active = shelf.active /\ p.detail = shelf.detail
      /\ p.detailLoading = shelf.detailLoading /\ p.listing = shelf.listing
  BY Shelved, Counted
<1>5. shelf' = p
  BY <1>1
<1> HIDE DEF p
<1> QED BY <1>1, <1>3, <1>4, <1>5 DEF ShelfInv

\* The Drafts of Flow360 with one more, and with one less.
LEMMA Appended ==
  ASSUME NEW h, Ordered(h), NEW d \in DraftIds \ PD!ToSet(h)
  PROVE  Ordered(Append(h, d))
<1>1. h \in Seq(DraftIds) /\ \A i \in 1..Len(h) : h[i] # d
  BY DEF Ordered, PD!ToSet
<1>2. Append(h, d) \in Seq(DraftIds) /\ DOMAIN Append(h, d) = 1..(Len(h) + 1)
  BY <1>1
<1>3. \A i \in 1..(Len(h) + 1) : Append(h, d)[i] = IF i = Len(h) + 1 THEN d ELSE h[i]
  BY <1>1
<1>4. \A a, b \in 1..Len(h) : h[a] = h[b] => a = b
  BY <1>1 DEF Ordered, PD!IsInjective
<1>5. PD!IsInjective(Append(h, d))
  BY <1>1, <1>2, <1>3, <1>4 DEF PD!IsInjective
<1> QED BY <1>2, <1>5 DEF Ordered

LEMMA Taken ==
  ASSUME NEW h, Ordered(h), NEW k \in DOMAIN h
  PROVE  Ordered(PD!RemoveAt(h, k))
<1> DEFINE g == PD!RemoveAt(h, k)
<1>1. h \in Seq(DraftIds) /\ k \in 1..Len(h) /\ Len(h) \in Nat /\ k \in Nat
  BY DEF Ordered
<1> DEFINE u == SubSeq(h, 1, k-1)
           v == SubSeq(h, k+1, Len(h))
<1>2. u \in Seq(DraftIds) /\ Len(u) = k-1 /\ \A i \in 1..(k-1) : u[i] = h[i]
  BY <1>1
<1>3. v \in Seq(DraftIds) /\ Len(v) = Len(h) - k /\ \A i \in 1..(Len(h) - k) : v[i] = h[k+i]
  BY <1>1
<1>a. g = u \o v
  BY DEF PD!RemoveAt
<1> HIDE DEF u, v, g
<1>b. g \in Seq(DraftIds) /\ Len(g) = Len(h) - 1
  BY <1>1, <1>2, <1>3, <1>a
<1>c. \A i \in 1..(Len(h)-1) : g[i] = IF i < k THEN h[i] ELSE h[i+1]
  <2> TAKE i \in 1..(Len(h)-1)
  <2>1. CASE i < k
    BY <1>1, <1>2, <1>3, <1>a, <2>1
  <2>2. CASE i >= k
    <3>1. i - Len(u) \in 1..(Len(h) - k) /\ k + (i - Len(u)) = i + 1
      BY <1>1, <1>2, <2>2
    <3>2. g[i] = v[i - Len(u)]
      <4>1. Len(u) \in Nat /\ Len(v) \in Nat /\ i \in 1..(Len(u) + Len(v)) /\ i > Len(u)
        BY <1>1, <1>2, <1>3, <2>2
      <4>2. \A j \in 1..(Len(u) + Len(v)) : (u \o v)[j] = IF j <= Len(u) THEN u[j] ELSE v[j - Len(u)]
        BY <1>2, <1>3, ConcatProperties
      <4> QED BY <1>a, <4>1, <4>2
    <3>3. v[i - Len(u)] = h[k + (i - Len(u))]
      BY <1>3, <3>1
    <3> QED BY <1>1, <2>2, <3>1, <3>2, <3>3
  <2> QED BY <1>1, <2>1, <2>2
<1>4. DOMAIN g = 1..(Len(h)-1)
  BY <1>b
<1>5. \A a, b \in 1..Len(h) : h[a] = h[b] => a = b
  BY <1>1 DEF Ordered, PD!IsInjective
<1> HIDE DEF g
<1>6. PD!IsInjective(g)
  <2> SUFFICES ASSUME NEW a \in 1..(Len(h)-1), NEW b \in 1..(Len(h)-1), g[a] = g[b]
               PROVE  a = b
    BY <1>4 DEF PD!IsInjective
  <2> DEFINE place(i) == IF i < k THEN i ELSE i + 1
  <2>1. place(a) \in 1..Len(h) /\ place(b) \in 1..Len(h)
    BY <1>1
  <2>2. h[place(a)] = h[place(b)]
    BY <1>c
  <2>3. place(a) = place(b)
    BY <1>5, <2>1, <2>2
  <2> QED BY <1>1, <2>3
<1> QED BY <1>b, <1>6 DEF Ordered, g

LEMMA OperationAnswered ==
  ASSUME ShelfInv, PD!OperationArrives
  PROVE  ShelfInv'
<1> DEFINE ls == lists \union {PD!ListRequest(errands.for)}
<1>1. ListsFit(ls) /\ ls # {}
  BY RequestFits, Shelved DEF ErrandRecords
<1>2. CASE errands.op \in {"create", "copy"} /\
             \E d \in DraftIds \ PD!ToSet(held) :
               /\ held' = Append(held, d)
               /\ PD!Render(PD!Listing([shelf EXCEPT !.active = d]), [errands EXCEPT !.draft = d, !.waits = TRUE], ls)
  <2> PICK d \in DraftIds \ PD!ToSet(held) :
        /\ held' = Append(held, d)
        /\ PD!Render(PD!Listing([shelf EXCEPT !.active = d]), [errands EXCEPT !.draft = d, !.waits = TRUE], ls)
    BY <1>2
  <2> DEFINE q == [shelf EXCEPT !.active = d]
             p == PD!Listing(q)
             e == [errands EXCEPT !.draft = d, !.waits = TRUE]
  <2>1. Ordered(held')
    BY Appended, Shelved
  <2>2. /\ p \in ShelfRecords /\ p.listing = TRUE /\ p.drafts = shelf.drafts
        /\ p.detail = shelf.detail /\ p.detailLoading = shelf.detailLoading
    <3>1. /\ q \in ShelfRecords /\ q.drafts = shelf.drafts
          /\ q.detail = shelf.detail /\ q.detailLoading = shelf.detailLoading
      BY Shelved DEF ShelfRecords, MaybeDraft
    <3> HIDE DEF q
    <3> QED BY <3>1 DEF ShelfRecords, PD!Listing
  <2>3. e \in ErrandRecords /\ e.detail = errands.detail
    BY Shelved DEF ErrandRecords, MaybeDraft
  <2>4. PD!Render(p, e, ls)
    OBVIOUS
  <2> HIDE DEF ls, p, e
  <2>5. ShelfFits(p) /\ SameDetail(p, e)
    BY <2>2, <2>3, Shelved DEF ShelfFits, SameDetail
  <2> QED BY <1>1, <2>1, <2>3, <2>4, <2>5, Rendered
<1>3. CASE /\ \E k \in DOMAIN held : held[k] = errands.draft /\ held' = PD!RemoveAt(held, k)
           /\ PD!Render(PD!Listing(shelf), [errands EXCEPT !.waits = TRUE], ls)
  <2> DEFINE p == PD!Listing(shelf)
             e == [errands EXCEPT !.waits = TRUE]
  <2>1. Ordered(held')
    BY <1>3, Taken, Shelved
  <2>2. /\ ShelfFits(p) /\ p.detail = shelf.detail /\ p.detailLoading = shelf.detailLoading
    BY Shelved, ListAsked
  <2>3. e \in ErrandRecords /\ e.detail = errands.detail
    BY Shelved DEF ErrandRecords
  <2>4. PD!Render(p, e, ls)
    BY <1>3
  <2> HIDE DEF ls, p, e
  <2>5. SameDetail(p, e)
    BY <2>2, <2>3 DEF SameDetail
  <2> QED BY <1>1, <2>1, <2>2, <2>3, <2>4, <2>5, Rendered
<1>4. CASE PD!Render(shelf, PD!Idle(errands), lists) /\ held' = held
  <2> DEFINE e == PD!Idle(errands)
  <2>1. e \in ErrandRecords /\ e.detail = errands.detail
    BY Shelved DEF PD!Idle, ErrandRecords, MaybeDraft
  <2>2. PD!Render(shelf, e, lists) /\ Ordered(held')
    BY <1>4, Shelved
  <2> HIDE DEF e
  <2>3. SameDetail(shelf, e)
    BY <2>1 DEF SameDetail
  <2> QED BY <2>1, <2>2, <2>3, Shelved, Rendered
<1> QED BY <1>2, <1>3, <1>4 DEF PD!OperationArrives

-----------------------------------------------------------------------------
LEMMA ShelfInit == PD!ProjectDraftsAssumption /\ PD!Init => ShelfInv
<1> SUFFICES ASSUME PD!ProjectDraftsAssumption, PD!Init PROVE ShelfInv
  OBVIOUS
<1> PICK n \in 0..PD!Cardinality(DraftIds), d \in DraftIds \union {NoDraft} :
      /\ held \in {s \in [1..n -> DraftIds] : PD!IsInjective(s)}
      /\ shelf = [drafts |-> <<>>, listing |-> TRUE, listError |-> FALSE, url |-> d, active |-> NoDraft,
                  detail |-> NoDraft, detailLoading |-> FALSE, detailError |-> FALSE, managing |-> FALSE,
                  naming |-> FALSE, renaming |-> FALSE, changes |-> 0]
      /\ lists = {PD!ListRequest(d)}
  BY DEF PD!Init
<1>1. Ordered(held)
  <2>1. n \in Nat
    <3>1. PD!Cardinality(DraftIds) = Cardinality(DraftIds)
      BY DEF PD!Cardinality, Cardinality
    <3>2. Cardinality(DraftIds) \in Nat
      BY FS_CardinalityType DEF PD!ProjectDraftsAssumption, PD!IsFiniteSet, IsFiniteSet
    <3> QED BY <3>1, <3>2
  <2>2. held \in [1..n -> DraftIds] /\ PD!IsInjective(held)
    OBVIOUS
  <2> QED BY <2>1, <2>2 DEF Ordered
<1>2. <<>> \in Seq(DraftIds) /\ PD!IsInjective(<<>>)
  BY DEF PD!IsInjective
<1>3. ShelfFits(shelf) /\ shelf.active = NoDraft /\ shelf.detail = NoDraft
  BY <1>2 DEF ShelfFits, ShelfRecords, MaybeDraft
<1>4. ListsFit(lists) /\ lists # {}
  <2>1. ListsFit({})
    BY DEF ListsFit
  <2>2. {} \union {PD!ListRequest(d)} = lists
    OBVIOUS
  <2> QED BY <2>1, <2>2, RequestFits DEF MaybeDraft
<1>5. errands \in ErrandRecords /\ errands.detail = NoDraft
  BY DEF PD!Init, ErrandRecords, MaybeDraft
<1> QED BY <1>1, <1>3, <1>4, <1>5 DEF ShelfInv

LEMMA ShelfAlways == PD!ProjectDraftsAssumption => (PD!Spec => []ShelfInv)
<1> SUFFICES ASSUME PD!ProjectDraftsAssumption PROVE PD!Spec => []ShelfInv
  OBVIOUS
<1>1. PD!Init => ShelfInv
  BY ShelfInit
<1>2. ShelfInv /\ [PD!Next]_<<held, shelf, lists, errands>> => ShelfInv'
  <2> SUFFICES ASSUME ShelfInv, [PD!Next]_<<held, shelf, lists, errands>> PROVE ShelfInv'
    OBVIOUS
  <2>1. CASE UNCHANGED <<held, shelf, lists, errands>>
    BY <2>1 DEF ShelfInv
  <2>2. CASE PD!ServeList \/ (\E l \in lists : PD!ListArrives(l)) \/ PD!DetailArrives \/ PD!OperationArrives
    BY <2>2, ListServed, DraftsListed, DetailAnswered, OperationAnswered
  <2>3. CASE PD!Manage \/ PD!OpenDraft \/ PD!Refresh \/ PD!GoBack
    BY <2>3, Managed, DraftOpened, Refreshed, WentBack
  <2>4. CASE PD!Naming \/ PD!Renamed
    BY <2>4, NameGiven
  <2>5. CASE \E op \in {"create", "copy", "renameIn", "delete"} : PD!RunOperation(op)
    BY <2>5, OperationRun
  <2> QED BY <2>1, <2>2, <2>3, <2>4, <2>5 DEF PD!Next
<1> QED BY <1>1, <1>2, PTL DEF PD!Spec, PD!vars

\* The types of ProjectDrafts: no list, of the server or of the page, names a
\* Draft twice, and what is active, shown or asked for is a Draft.
THEOREM ShelfTyped == PD!ProjectDraftsAssumption => (PD!Spec => []PD!TypeOK)
<1> SUFFICES ASSUME PD!ProjectDraftsAssumption PROVE PD!Spec => []PD!TypeOK
  OBVIOUS
<1>1. ShelfInv => PD!TypeOK
  <2> SUFFICES ASSUME ShelfInv PROVE PD!TypeOK
    OBVIOUS
  <2>1. \A s \in Seq(DraftIds) : PD!ToSet(s) \subseteq DraftIds
    BY DEF PD!ToSet
  <2>2. held \in Seq(DraftIds) /\ PD!IsInjective(held)
    BY DEF ShelfInv, Ordered
  <2>3. /\ shelf.drafts \in Seq(DraftIds) /\ PD!IsInjective(shelf.drafts)
        /\ {shelf.url, shelf.active, shelf.detail} \subseteq MaybeDraft
    BY DEF ShelfInv, ShelfFits, ShelfRecords
  <2>4. \A l \in lists : l.for \in MaybeDraft /\ l.got \in Seq(DraftIds)
    BY DEF ShelfInv, ListsFit, ListRecords
  <2> QED BY <2>1, <2>2, <2>3, <2>4 DEF PD!TypeOK, MaybeDraft
<1> QED BY <1>1, ShelfAlways, PTL

\* loadDraftDetail: the parameters on screen are those of the active Draft,
\* although another one may be opened, made or deleted while they are read.
THEOREM DetailIsOfTheDraft == PD!ProjectDraftsAssumption => (PD!Spec => []PD!DetailIsOfActive)
<1> SUFFICES ASSUME PD!ProjectDraftsAssumption PROVE PD!Spec => []PD!DetailIsOfActive
  OBVIOUS
<1>1. ShelfInv => PD!DetailIsOfActive
  BY DEF ShelfInv, PD!DetailIsOfActive
<1> QED BY <1>1, ShelfAlways, PTL

\* resolveActiveDraftId: in whatever order lists and operations are answered,
\* the active Draft is one of those listed, or the list is under way or failed.
THEOREM ActiveDraftIsListed == PD!ProjectDraftsAssumption => (PD!Spec => []PD!ActiveIsListed)
<1> SUFFICES ASSUME PD!ProjectDraftsAssumption PROVE PD!Spec => []PD!ActiveIsListed
  OBVIOUS
<1>1. ShelfInv => PD!ActiveIsListed
  BY DEF ShelfInv, ShelfFits, PD!ActiveIsListed
<1> QED BY <1>1, ShelfAlways, PTL

\* draftsLoading and draftDetailLoading: the list is awaited only while one is
\* asked for, the detail only while that of the active Draft is.
THEOREM ShelfIsBacked == PD!ProjectDraftsAssumption => (PD!Spec => []PD!BusyIsBacked)
<1> SUFFICES ASSUME PD!ProjectDraftsAssumption PROVE PD!Spec => []PD!BusyIsBacked
  OBVIOUS
<1>1. ShelfInv => PD!BusyIsBacked
  BY DEF ShelfInv, PD!BusyIsBacked
<1> QED BY <1>1, ShelfAlways, PTL

===============================================================================
