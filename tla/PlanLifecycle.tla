--------------------------- MODULE PlanLifecycle ---------------------------
(***************************************************************************)
(* One simulation plan of the local server: the durable record kept by     *)
(* internal/plans/store.go and every goroutine of internal/server that     *)
(* reads it, waits for Flow360 and writes it back:                         *)
(*                                                                         *)
(*   - HTTP handlers: preflight, parameter edits, Draft review, approval,  *)
(*     run, and the execution poll of the browser;                         *)
(*   - background goroutines: the monitor started for each submission and  *)
(*     the reconciliation that runs once after a restart.                  *)
(*                                                                         *)
(* The store serialises each of its methods with a mutex, so a store call  *)
(* is one step; nothing is held while a goroutine waits for Flow360, so    *)
(* every remote call separates two steps.  Flow360 is external: it accepts *)
(* or refuses a submission, and an accepted run ends in its own time.      *)
(*                                                                         *)
(* Bounds: MaxRevision edits, MaxAttempts submissions, MaxCrashes process  *)
(* crashes; Procs bounds the requests and goroutines alive at one time.    *)
(***************************************************************************)
EXTENDS Integers, FiniteSets

CONSTANTS
  Procs,           \* slots for requests and background goroutines
  SourceType,      \* what the plan starts from: Geometry, SurfaceMesh, ...
  Target,          \* the stage it runs up to: surface-mesh, volume-mesh, case
  DraftBound,      \* the plan reviews an existing Flow360 Draft
  SourceStates,    \* remote states the source resource may be in
  InitialBases,    \* baselines a plan may be created with (0: none yet)
  Bases,           \* baselines the source may answer with
  ReplyShapes,     \* which ids an accepted submission's answer carries
  AmbiguousErrors, \* a call may fail although Flow360 accepted the run
  MonitorsTimeOut, \* a run may outlive the four hours it is monitored
  MaxRepairs,      \* automatic schema repairs of one preflight
  MaxRevision, MaxAttempts, MaxCrashes

validTarget ==
  [ Geometry    |-> {"surface-mesh", "volume-mesh", "case"},
    SurfaceMesh |-> {"volume-mesh", "case"},
    VolumeMesh  |-> {"case"},
    Case        |-> {"case"} ]

ASSUME PlanAssumption ==
  /\ SourceType \in DOMAIN validTarget
  /\ Target \in {"surface-mesh", "volume-mesh", "case"}
  /\ Target \in validTarget[SourceType]
  /\ DraftBound \in BOOLEAN
  /\ SourceStates \subseteq {"live", "completed", "failed"}
  /\ InitialBases \subseteq Nat
  /\ Bases \subseteq Nat \ {0}
  /\ ReplyShapes \subseteq SUBSET {"draft", "output"}
  /\ AmbiguousErrors \in BOOLEAN
  /\ MonitorsTimeOut \in BOOLEAN
  /\ MaxRepairs \in Nat
  /\ MaxRevision \in Nat \ {0}
  /\ MaxAttempts \in Nat
  /\ MaxCrashes \in Nat

VARIABLES
  plan,         \* the record on disk
  req,          \* what each request or goroutine is doing
  started,      \* number of submissions begun so far
  attempts,     \* what became of each submission, at Flow360 and here
  judged,       \* contents the Flow360 validator found valid
  sourceState,  \* remote state of the source resource
  up,           \* the server process runs
  crashes       \* crashes so far

vars == <<plan, req, started, attempts, judged, sourceState, up, crashes>>

(***************************************************************************)
(* Data.  A revision stands for the parameters it carries.  Ids: 0 is the  *)
(* absent id; resource 1 is the source and k + 1 the output of submission  *)
(* k; draft 1 is the Draft under review and k + 1 the one submission k     *)
(* makes.                                                                  *)
(***************************************************************************)
Status == {"draft", "approved", "running", "submitted", "failed",
           "reconciling", "completed"}

AttemptNo == 1 .. MaxAttempts
Id == 0 .. MaxAttempts + 1
SourceId == 1
BoundDraft == 1

RemoteIDs == [draft: Id, geometry: Id, mesh: Id, case: Id]
NoIds == [draft |-> 0, geometry |-> 0, mesh |-> 0, case |-> 0]

NoPreflight == [done |-> FALSE, valid |-> FALSE, rev |-> 0]
Preflight == [done: BOOLEAN, valid: BOOLEAN, rev: 0 .. MaxRevision]

Plan == [ status: Status, rev: 1 .. MaxRevision, base: InitialBases \cup Bases \cup {0},
          preflight: Preflight,
          approvedRev: 0 .. MaxRevision,   \* ApprovedAt, as the revision it was given to
          submission: 0 .. MaxAttempts, remote: RemoteIDs ]

NewPlan(b) == [ status |-> "draft", rev |-> 1, base |-> b, preflight |-> NoPreflight,
                approvedRev |-> 0, submission |-> 0, remote |-> NoIds ]

RemoteState == {"none", "live", "completed", "failed"}

Attempt == [ rev: 0 .. MaxRevision, base: InitialBases \cup Bases \cup {0},
             approved: BOOLEAN,      \* its revision had been approved
             draft: Id,              \* the Draft it ran in, once Flow360 has it
             state: RemoteState,     \* the run at Flow360
             reported: BOOLEAN ]     \* the plan was marked failed after it began

NoAttempt == [ rev |-> 0, base |-> 0, approved |-> FALSE, draft |-> 0,
               state |-> "none", reported |-> FALSE ]

Watch == [type: {"none", "resource", "draft"}, id: Id]
NoWatch == [type |-> "none", id |-> 0]

Request == [ pc: {"idle", "validate", "repair", "start", "submit", "reply",
                  "observe", "settle", "list", "lookup", "adopt"},
             kind: {"none", "preflight", "run", "poll", "monitor", "startup"},
             snap: Plan, repairs: 0 .. MaxRepairs, watch: Watch,
             answer: RemoteState \cup {"ok", "error"}, ids: RemoteIDs ]

Idle == [ pc |-> "idle", kind |-> "none", snap |-> NewPlan(0), repairs |-> 0,
          watch |-> NoWatch, answer |-> "none", ids |-> NoIds ]

Editable == {"draft", "approved", "failed"}
-----------------------------------------------------------------------------
(***************************************************************************)
(* The store's methods, as functions of the record they read and write.    *)
(***************************************************************************)
Keep(old, new) == IF old # 0 THEN old ELSE new

mergeRemoteIDs(old, new) ==
  [ draft    |-> Keep(old.draft, new.draft),
    geometry |-> Keep(old.geometry, new.geometry),
    mesh     |-> Keep(old.mesh, new.mesh),
    case     |-> Keep(old.case, new.case) ]

PreflightCurrent(p) ==
  /\ p.preflight.done
  /\ p.preflight.valid
  /\ p.preflight.rev = p.rev

SetBaselineLastWriter(p, b) == [p EXCEPT !.base = b]  \* mutant: the later answer wins
SetBaseline(p, b) == [p EXCEPT !.base = Keep(@, b)]

SetPreflightAnyRevision(p, rev) == TRUE               \* mutant: stale results accepted

\* Stale results are refused: the caller keeps the record it had.
SetPreflightAllowed(p, rev) == rev = p.rev
SetPreflight(p, valid) ==
  [p EXCEPT !.preflight = [done |-> TRUE, valid |-> valid, rev |-> p.rev]]

applyInputsAnyStatus(p, rev) == rev = p.rev           \* mutant: no status guard
applyInputsKeepsApproval(p) ==                        \* mutant: the approval survives
  [NewPlan(p.base) EXCEPT !.rev = p.rev + 1, !.approvedRev = p.approvedRev]

applyInputsAllowed(p, rev) == rev = p.rev /\ p.status \in Editable
\* An edit clears the preflight, the approval and every remote id, those of
\* a Draft under review included; of the old record the baseline is left.
applyInputs(p) == [NewPlan(p.base) EXCEPT !.rev = p.rev + 1]

SetRunningSubmittedToo(p) ==                          \* mutant: submitted is runnable
  p.status \in {"approved", "failed", "submitted"} /\ PreflightCurrent(p)
SetRunningOffByOne(p, n) == [p EXCEPT !.status = "running", !.submission = n + 1]  \* mutant

SetRunningAllowed(p) == p.status \in {"approved", "failed"} /\ PreflightCurrent(p)
SetRunning(p, n) == [p EXCEPT !.status = "running", !.submission = n]

MarkSubmitted(p, ids) ==
  [p EXCEPT !.status = "submitted", !.remote = mergeRemoteIDs(@, ids)]
MarkFailed(p) == [p EXCEPT !.status = "failed", !.submission = 0]
MarkComplete(p) == [p EXCEPT !.status = "completed"]
SetRemoteIDs(p, ids) == [p EXCEPT !.remote = mergeRemoteIDs(@, ids)]

recoverNothing(p) == p                                \* mutant: running survives a restart

recoverInterrupted(p) ==
  IF p.status = "running" THEN [p EXCEPT !.status = "reconciling"] ELSE p

\* The remote resource that is watched for the plan.
planMonitorTarget(p) ==
  LET ids == p.remote
      Resource(id) == [type |-> "resource", id |-> id]
  IN  IF ids.case # 0 THEN Resource(ids.case)
      ELSE IF ids.mesh # 0 /\ Target # "case" THEN Resource(ids.mesh)
      ELSE IF ids.geometry # 0 THEN Resource(ids.geometry)
      ELSE IF ids.draft # 0 THEN [type |-> "draft", id |-> ids.draft]
      ELSE NoWatch

\* The ids a Draft review binds: the Draft and, beside it, its source.
SourceIds ==
  [ draft    |-> BoundDraft,
    geometry |-> IF SourceType = "Geometry" THEN SourceId ELSE 0,
    mesh     |-> IF SourceType \in {"SurfaceMesh", "VolumeMesh"} THEN SourceId ELSE 0,
    case     |-> IF SourceType = "Case" THEN SourceId ELSE 0 ]

\* The ids in Flow360's answer to submission k that ran in draft d.
ReplyIds(k, d, shape) ==
  LET output == IF "output" \in shape THEN k + 1 ELSE 0
  IN  [ draft    |-> IF "draft" \in shape THEN d ELSE 0,
        geometry |-> 0,
        mesh     |-> IF Target = "case" THEN 0 ELSE output,
        case     |-> IF Target = "case" THEN output ELSE 0 ]

\* What Flow360 says of a resource, or of the last run made in a Draft.
RunsIn(d) == {k \in AttemptNo : k <= started /\ attempts[k].draft = d}
Last(S) == CHOOSE k \in S : \A i \in S : i <= k
ResourceState(w) ==
  IF w.type = "draft"
    THEN IF RunsIn(w.id) = {} THEN "none" ELSE attempts[Last(RunsIn(w.id))].state
    ELSE IF w.id = SourceId THEN sourceState ELSE attempts[w.id - 1].state

Terminal == {"completed", "failed"}

-----------------------------------------------------------------------------
Init ==
  /\ \E b \in InitialBases : plan = NewPlan(b)
  /\ req = [h \in Procs |-> Idle]
  /\ started = 0
  /\ attempts = [k \in AttemptNo |-> NoAttempt]
  /\ judged = {}
  /\ sourceState \in SourceStates
  /\ up = TRUE
  /\ crashes = 0

remoteVars == <<started, attempts, judged, sourceState>>
processVars == <<up, crashes>>

\* h leaves its slot, or goes on with the fields r.
Free(h) == up /\ req[h].pc = "idle"
At(h, pc) == up /\ req[h].pc = pc
Becomes(h, r) == req' = [req EXCEPT ![h] = r]
Leaves(h) == Becomes(h, Idle)

RecordFailureAsDraft ==                               \* mutant: the submission is not closed
  plan' = [plan EXCEPT !.status = "draft", !.submission = 0] /\ UNCHANGED attempts

\* Every failure the plan records also closes its latest submission.
RecordFailure ==
  /\ plan' = MarkFailed(plan)
  /\ attempts' = [k \in AttemptNo |->
                    IF k = started THEN [attempts[k] EXCEPT !.reported = TRUE] ELSE attempts[k]]

\* The record p was just marked submitted: watch what it names, if anything.
StartMonitor(h, p) ==
  IF planMonitorTarget(p) = NoWatch
    THEN Leaves(h)
    ELSE Becomes(h, [Idle EXCEPT !.pc = "observe", !.kind = "monitor",
                                 !.watch = planMonitorTarget(p)])

-----------------------------------------------------------------------------
(***************************************************************************)
(* Requests.  A preflight, and a run, start from the record they read; an  *)
(* edit and a Draft review first write it.  The edit is refused unless it  *)
(* names the current revision, so it is modelled from that revision only.  *)
(***************************************************************************)
Preflighting(kind, p) == [Idle EXCEPT !.pc = "validate", !.kind = kind, !.snap = p]

preflightPlan(h) ==
  /\ Free(h)
  /\ Becomes(h, Preflighting("preflight", plan))
  /\ UNCHANGED <<plan, remoteVars, processVars>>

updatePlanParameters(h) ==
  /\ Free(h)
  /\ applyInputsAllowed(plan, plan.rev)
  /\ plan.rev < MaxRevision
  /\ plan' = applyInputs(plan)
  /\ Becomes(h, Preflighting("preflight", plan'))
  /\ UNCHANGED <<remoteVars, processVars>>

\* The request carries an idempotency key, so reviewing a Draft again finds
\* the plan of the first review, whatever has become of it.
createPlan(h) ==
  /\ Free(h)
  /\ DraftBound
  /\ plan' = SetRemoteIDs(plan, SourceIds)
  /\ Becomes(h, Preflighting("preflight", plan'))
  /\ UNCHANGED <<remoteVars, processVars>>

\* A revision with static validation errors is not approved either; the
\* model leaves that to the user, who need not approve.
approvePlan ==
  /\ up
  /\ plan.status = "draft"
  /\ PreflightCurrent(plan)
  /\ plan' = [plan EXCEPT !.status = "approved", !.approvedRev = plan.rev]
  /\ UNCHANGED <<req, remoteVars, processVars>>

runPlan(h) ==
  /\ Free(h)
  /\ Becomes(h, Preflighting("run", plan))
  /\ UNCHANGED <<plan, remoteVars, processVars>>

planExecution(h) ==
  /\ Free(h)
  /\ planMonitorTarget(plan) # NoWatch
  /\ Becomes(h, [Idle EXCEPT !.pc = "observe", !.kind = "poll", !.snap = plan,
                             !.watch = planMonitorTarget(plan)])
  /\ UNCHANGED <<plan, remoteVars, processVars>>

-----------------------------------------------------------------------------
(***************************************************************************)
(* The preflight loop.  snap is the goroutine's own copy of the record.    *)
(***************************************************************************)
AfterPreflight(h, p) ==
  IF req[h].kind = "run" THEN Becomes(h, [req[h] EXCEPT !.pc = "start", !.snap = p])
                         ELSE Leaves(h)

FetchBaseline(h) ==
  /\ At(h, "validate")
  /\ req[h].snap.base = 0
  /\ \E b \in Bases : plan' = SetBaseline(plan, b)
  /\ Becomes(h, [req[h] EXCEPT !.snap = plan'])
  /\ UNCHANGED <<remoteVars, processVars>>

\* A verdict of FALSE is also what an unreachable validator leaves behind.
runPlanPreflightOnce(h) ==
  LET snap == req[h].snap
      Continue(p) ==
        \/ AfterPreflight(h, p)
        \/ /\ p.preflight.done
           /\ ~p.preflight.valid
           /\ req[h].repairs < MaxRepairs
           /\ p.rev < MaxRevision
           /\ Becomes(h, [req[h] EXCEPT !.pc = "repair", !.snap = p])
  IN  /\ At(h, "validate")
      /\ \E valid \in BOOLEAN :
           /\ valid => snap.base # 0
           /\ judged' = judged \cup (IF valid THEN {<<snap.base, snap.rev>>} ELSE {})
           /\ IF SetPreflightAllowed(plan, snap.rev)
                THEN plan' = SetPreflight(plan, valid) /\ Continue(plan')
                ELSE plan' = plan /\ Continue(snap)
      /\ UNCHANGED <<started, attempts, sourceState, processVars>>

RepairFromSchema(h) ==
  LET snap == req[h].snap IN
  /\ At(h, "repair")
  /\ IF applyInputsAllowed(plan, snap.rev)
       THEN /\ plan' = applyInputs(plan)
            /\ Becomes(h, [req[h] EXCEPT !.pc = "validate", !.snap = plan',
                                         !.repairs = @ + 1])
       ELSE plan' = plan /\ AfterPreflight(h, snap)
  /\ UNCHANGED <<remoteVars, processVars>>

-----------------------------------------------------------------------------
(***************************************************************************)
(* The rest of a run, after its preflight.                                 *)
(***************************************************************************)
RunAdmitted(h) ==
  LET snap == req[h].snap IN
  /\ PreflightCurrent(snap)
  /\ snap.submission = 0 \/ snap.status = "failed"
  /\ SetRunningAllowed(plan)
  /\ started < MaxAttempts

RefuseRun(h) ==
  /\ At(h, "start")
  /\ ~RunAdmitted(h)
  /\ Leaves(h)
  /\ UNCHANGED <<plan, remoteVars, processVars>>

StartRun(h) ==
  /\ At(h, "start")
  /\ RunAdmitted(h)
  /\ started' = started + 1
  /\ plan' = SetRunning(plan, started')
  /\ attempts' = [attempts EXCEPT ![started'] =
                    [NoAttempt EXCEPT !.rev = plan.rev, !.base = plan.base,
                                      !.approved = (plan.approvedRev = plan.rev)]]
  /\ Becomes(h, [req[h] EXCEPT !.pc = "submit", !.snap = plan'])
  /\ UNCHANGED <<judged, sourceState, processVars>>

\* Without a bound Draft the CLI makes one, and may fail after making it.
submitPlanToFlow360(h) ==
  LET snap == req[h].snap
      k == snap.submission
      bound == snap.remote.draft # 0
      d == IF bound THEN snap.remote.draft ELSE k + 1
      Accept == attempts' = [attempts EXCEPT ![k].state = "live", ![k].draft = d]
      Answer(a, ids) == Becomes(h, [req[h] EXCEPT !.pc = "reply", !.answer = a, !.ids = ids])
  IN  /\ At(h, "submit")
      /\ \/ \E shape \in ReplyShapes : Accept /\ Answer("ok", ReplyIds(k, d, shape))
         \/ AmbiguousErrors /\ Accept /\ Answer("error", NoIds)
         \/ /\ Answer("error", NoIds)
            /\ \/ UNCHANGED attempts
               \/ ~bound /\ attempts' = [attempts EXCEPT ![k].draft = d]
      /\ UNCHANGED <<plan, started, judged, sourceState, processVars>>

PersistRun(h) ==
  /\ At(h, "reply")
  /\ IF req[h].answer = "ok"
       THEN /\ plan' = MarkSubmitted(plan, req[h].ids)
            /\ StartMonitor(h, plan')
            /\ UNCHANGED attempts
       ELSE RecordFailure /\ Leaves(h)
  /\ UNCHANGED <<started, judged, sourceState, processVars>>

-----------------------------------------------------------------------------
(***************************************************************************)
(* Observing Flow360: the monitor of a submission waits for a terminal     *)
(* state, the poll looks once.  Both write what they saw in a later step,  *)
(* naming the plan but neither its submission nor its revision.            *)
(***************************************************************************)
ObservePoll(h) ==
  LET state == ResourceState(req[h].watch) IN
  /\ At(h, "observe") /\ req[h].kind = "poll"
  /\ IF state \in Terminal /\ req[h].snap.status \notin Terminal
       THEN Becomes(h, [req[h] EXCEPT !.pc = "settle", !.answer = state])
       ELSE Leaves(h)
  /\ UNCHANGED <<plan, remoteVars, processVars>>

ObserveMonitor(h) ==
  LET state == ResourceState(req[h].watch) IN
  /\ At(h, "observe") /\ req[h].kind = "monitor"
  /\ state \in Terminal
  /\ Becomes(h, [req[h] EXCEPT !.pc = "settle", !.answer = state])
  /\ UNCHANGED <<plan, remoteVars, processVars>>

\* Only the text of the error changes, and only while reconciling.
MarkReconcilePending(p) == p

handleMonitorTimeout(h) ==
  /\ MonitorsTimeOut
  /\ At(h, "observe") /\ req[h].kind = "monitor"
  /\ ResourceState(req[h].watch) \notin Terminal
  /\ plan' = MarkReconcilePending(plan)
  /\ Leaves(h)
  /\ UNCHANGED <<remoteVars, processVars>>

RecordOutcome(h) ==
  /\ At(h, "settle")
  /\ IF req[h].answer = "completed"
       THEN plan' = MarkComplete(plan) /\ UNCHANGED attempts
       ELSE RecordFailure
  /\ Leaves(h)
  /\ UNCHANGED <<started, judged, sourceState, processVars>>

-----------------------------------------------------------------------------
(***************************************************************************)
(* Crash, restart, and the goroutine that reconciles after it.             *)
(***************************************************************************)
Crash ==
  /\ up
  /\ crashes < MaxCrashes
  /\ up' = FALSE
  /\ crashes' = crashes + 1
  /\ req' = [h \in Procs |-> Idle]
  /\ UNCHANGED <<plan, remoteVars>>

Restart ==
  /\ ~up
  /\ up' = TRUE
  /\ plan' = recoverInterrupted(plan)
  /\ \E h \in Procs : Becomes(h, [Idle EXCEPT !.pc = "list", !.kind = "startup"])
  /\ UNCHANGED <<remoteVars, crashes>>

reconcileRunningOnly(h) ==                            \* mutant: submitted plans forgotten
  /\ At(h, "list")
  /\ IF plan.status = "reconciling" THEN Becomes(h, [req[h] EXCEPT !.pc = "lookup"])
                                    ELSE Leaves(h)
  /\ UNCHANGED <<plan, remoteVars, processVars>>

reconcileInterruptedPlans(h) ==
  /\ At(h, "list")
  /\ CASE plan.status = "submitted"   -> StartMonitor(h, plan)
       [] plan.status = "reconciling" -> Becomes(h, [req[h] EXCEPT !.pc = "lookup"])
       [] OTHER                       -> Leaves(h)
  /\ UNCHANGED <<plan, remoteVars, processVars>>

\* Drafts that carry the plan's name: every Draft a submission of the plan
\* made, and the bound Draft when the plan was named after it.
DraftsNamedLikePlan ==
  ({attempts[k].draft : k \in 1 .. started} \cup (IF DraftBound THEN {BoundDraft} ELSE {})) \ {0}

FindDraftByName(h) ==
  /\ At(h, "lookup")
  /\ \/ plan' = MarkReconcilePending(plan) /\ Leaves(h)
     \/ \E d \in DraftsNamedLikePlan :
          /\ plan' = plan
          /\ Becomes(h, [req[h] EXCEPT !.pc = "adopt", !.ids = [NoIds EXCEPT !.draft = d]])
  /\ UNCHANGED <<remoteVars, processVars>>

AdoptSubmission(h) ==
  /\ At(h, "adopt")
  /\ plan' = MarkSubmitted(plan, req[h].ids)
  /\ StartMonitor(h, plan')
  /\ UNCHANGED <<remoteVars, processVars>>

-----------------------------------------------------------------------------
\* Flow360 ends an accepted run.
RemoteEnds(k) ==
  /\ attempts[k].state = "live"
  /\ \E end \in Terminal : attempts' = [attempts EXCEPT ![k].state = end]
  /\ UNCHANGED <<plan, req, started, judged, sourceState, processVars>>

-----------------------------------------------------------------------------
UserRequest(h) ==
  \/ preflightPlan(h) \/ updatePlanParameters(h) \/ createPlan(h)
  \/ runPlan(h) \/ planExecution(h)

RequestStep(h) ==
  \/ FetchBaseline(h) \/ runPlanPreflightOnce(h) \/ RepairFromSchema(h)
  \/ RefuseRun(h) \/ StartRun(h) \/ submitPlanToFlow360(h) \/ PersistRun(h)
  \/ ObservePoll(h)

BackgroundStep(h) ==
  \/ ObserveMonitor(h) \/ handleMonitorTimeout(h) \/ RecordOutcome(h)
  \/ reconcileInterruptedPlans(h) \/ FindDraftByName(h) \/ AdoptSubmission(h)

Next ==
  \/ approvePlan \/ Crash \/ Restart
  \/ \E h \in Procs : UserRequest(h) \/ RequestStep(h) \/ BackgroundStep(h)
  \/ \E k \in AttemptNo : RemoteEnds(k)

Spec == Init /\ [][Next]_vars

(***************************************************************************)
(* Fairness.  A goroutine that can run does run, every remote call has a   *)
(* timeout and so returns, and the server is started again after a crash.  *)
(* Nothing makes a user act, and nothing makes a run at Flow360 end.       *)
(***************************************************************************)
Fairness ==
  /\ WF_vars(Restart)
  /\ \A h \in Procs : WF_vars(RequestStep(h)) /\ WF_vars(BackgroundStep(h))

FairSpec == Spec /\ Fairness

-----------------------------------------------------------------------------
TypeOK ==
  /\ plan \in Plan
  /\ req \in [Procs -> Request]
  /\ started \in 0 .. MaxAttempts
  /\ attempts \in [AttemptNo -> Attempt]
  /\ judged \subseteq (Bases \cup InitialBases) \X (1 .. MaxRevision)
  /\ sourceState \in RemoteState
  /\ up \in BOOLEAN
  /\ crashes \in 0 .. MaxCrashes

(***************************************************************************)
(* Safety.                                                                 *)
(***************************************************************************)

\* "Approving a plan freezes that revision": whatever repairs, edits and
\* late results arrive, a recorded approval is an approval of the revision
\* the plan now carries.
ApprovalIsOfThisRevision ==
  /\ plan.approvedRev \in {0, plan.rev}
  /\ plan.status = "approved" => plan.approvedRev = plan.rev

\* The parameters sent to Flow360 are parameters its validator found valid:
\* no stale preflight result, concurrent edit or second baseline slips
\* between the check and the submission.
SubmittedContentWasJudged ==
  \A k \in 1 .. started : <<attempts[k].base, attempts[k].rev>> \in judged

\* A plan is submitted again only after the user was told that each earlier
\* submission failed.
ResubmissionFollowsFailure ==
  \A k \in 1 .. started : k < started => attempts[k].reported

\* While a submission is open the plan is neither editable nor runnable,
\* across restarts as well.
OpenSubmission == started > 0 /\ ~attempts[started].reported
OpenSubmissionLocksPlan == OpenSubmission => plan.status \notin Editable

\* A plan shown as running has a goroutine that is submitting it: no crash
\* and no late writer leaves one running with nobody behind it.
RunningHasItsRunner ==
  up /\ plan.status = "running" =>
    \E h \in Procs : /\ req[h].pc \in {"submit", "reply"}
                     /\ req[h].snap.submission = plan.submission

\* Everything above about approvals and submissions, as one contract.
Contract == INSTANCE PlanContract WITH
  rev <- plan.rev, approved <- plan.approvedRev, count <- started, open <- OpenSubmission
ImplementsContract == Contract!ContractSpec

(***************************************************************************)
(* Liveness.                                                               *)
(***************************************************************************)

\* A run does not stay "running": the call returns, or the restart after a
\* crash moves the plan on.
RunSettles == (plan.status = "running") ~> (plan.status # "running")

\* A submitted plan whose watched resource has ended does not stay
\* "submitted", whatever crashes happen in between.
SubmissionSettles ==
  (/\ plan.status = "submitted"
   /\ planMonitorTarget(plan) # NoWatch
   /\ ResourceState(planMonitorTarget(plan)) \in Terminal)
    ~> (plan.status # "submitted")

(***************************************************************************)
(* What the repository says of the program and the program does not do.    *)
(***************************************************************************)

\* README: remote execution becomes available only after the user approves
\* the plan.  Each submission carries a revision that had been approved.
OnlyApprovedRuns == \A k \in 1 .. started : attempts[k].approved

\* "Execution remains locked to prevent duplicate Flow360 resources": no two
\* submissions of the plan are at work, or done, at Flow360.
NoDuplicateRun ==
  \A i, j \in 1 .. started :
    attempts[i].state \in {"live", "completed"} /\ attempts[j].state \in {"live", "completed"}
      => i = j
=============================================================================
