------------------------ MODULE PlanLifecycleProofs ------------------------
(***************************************************************************)
(* Proofs about PlanLifecycle for every value of its constants that        *)
(* satisfies PlanAssumption: type correctness, the safety invariants, and  *)
(* that it implements PlanContract.                                        *)
(*                                                                         *)
(* Then about a screen that is independent of it: of ViewerAssets, for any *)
(* manifests and any cache, that an asset is pinned as often as it is      *)
(* held, that the scene shows what was asked for and is alive, and that    *)
(* the cache stays small.                                                  *)
(***************************************************************************)
EXTENDS PlanLifecycle, Naturals, Integers, Sequences, FiniteSets, SequenceTheorems,
        FiniteSetTheorems, WellFoundedInduction, TLAPS

CONSTANTS Urls, Gltf, Wants, Loads, Capacity, Buffers, NoUrl   \* of ViewerAssets
VARIABLES owner, store, viewer
VA == INSTANCE ViewerAssets

-----------------------------------------------------------------------------
(***************************************************************************)
(* The store's methods keep records well-formed.                           *)
(***************************************************************************)

\* Keeping or merging ids yields ids (mergeRemoteID of the store).
LEMMA MergeType ==
  ASSUME NEW old \in RemoteIDs, NEW new \in RemoteIDs
  PROVE  mergeRemoteIDs(old, new) \in RemoteIDs
BY DEF mergeRemoteIDs, Keep, RemoteIDs

\* The ids the code itself makes up: none, those of the source, and those of
\* the CLI's answer.
LEMMA IdTypes ==
  /\ NoIds \in RemoteIDs
  /\ SourceIds \in RemoteIDs
  /\ NoWatch \in Watch
  /\ \A k \in 0 .. MaxAttempts, d \in Id : \A shape : ReplyIds(k, d, shape) \in RemoteIDs
<1> USE PlanAssumption DEF PlanAssumption
<1>1. 0 \in Id /\ 1 \in Id
  BY DEF Id
<1>2. NoIds \in RemoteIDs /\ SourceIds \in RemoteIDs /\ NoWatch \in Watch
  BY <1>1 DEF NoIds, SourceIds, NoWatch, Watch, RemoteIDs, SourceId, BoundDraft
<1>3. ASSUME NEW k \in 0 .. MaxAttempts, NEW d \in Id, NEW shape
      PROVE  ReplyIds(k, d, shape) \in RemoteIDs
  <2>1. k + 1 \in Id
    BY DEF Id
  <2> QED BY <1>1, <2>1 DEF ReplyIds, RemoteIDs
<1> QED BY <1>2, <1>3

\* Every store method returns a plan when it is given one.
LEMMA StoreTypes ==
  ASSUME NEW p \in Plan
  PROVE  /\ \A b \in Bases : SetBaseline(p, b) \in Plan
         /\ \A v \in BOOLEAN : SetPreflight(p, v) \in Plan
         /\ p.rev < MaxRevision => applyInputs(p) \in Plan
         /\ \A n \in AttemptNo : SetRunning(p, n) \in Plan
         /\ \A ids \in RemoteIDs : MarkSubmitted(p, ids) \in Plan /\ SetRemoteIDs(p, ids) \in Plan
         /\ MarkFailed(p) \in Plan
         /\ MarkComplete(p) \in Plan
         /\ recoverInterrupted(p) \in Plan
         /\ planMonitorTarget(p) \in Watch
<1> USE PlanAssumption DEF PlanAssumption
<1>1. \A b \in Bases : SetBaseline(p, b) \in Plan
  BY DEF SetBaseline, Keep, Plan
<1>2. ASSUME NEW v \in BOOLEAN PROVE SetPreflight(p, v) \in Plan
  <2>1. p.rev \in 0 .. MaxRevision
    BY DEF Plan
  <2>2. [done |-> TRUE, valid |-> v, rev |-> p.rev] \in Preflight
    BY <2>1 DEF Preflight
  <2> QED BY <2>2 DEF SetPreflight, Plan
<1>3. ASSUME p.rev < MaxRevision PROVE applyInputs(p) \in Plan
  <2>1. NoPreflight \in Preflight
    BY DEF NoPreflight, Preflight
  <2>2. p.rev + 1 \in 1 .. MaxRevision /\ 0 \in 0 .. MaxRevision /\ 0 \in 0 .. MaxAttempts
    BY <1>3 DEF Plan
  <2>3. NewPlan(p.base) \in Plan
    <3>1. p.base \in InitialBases \cup Bases \cup {0} /\ "draft" \in Status
      BY DEF Plan, Status
    <3> QED BY <2>1, <3>1, IdTypes DEF NewPlan, Plan
  <2> QED BY <2>2, <2>3 DEF applyInputs, Plan
<1>4. ASSUME NEW n \in AttemptNo PROVE SetRunning(p, n) \in Plan
  <2>1. "running" \in Status /\ n \in 0 .. MaxAttempts
    BY DEF Status, AttemptNo
  <2> QED BY <2>1 DEF SetRunning, Plan
<1>5. ASSUME NEW ids \in RemoteIDs
      PROVE  MarkSubmitted(p, ids) \in Plan /\ SetRemoteIDs(p, ids) \in Plan
  <2>1. mergeRemoteIDs(p.remote, ids) \in RemoteIDs
    BY MergeType DEF Plan
  <2>2. "submitted" \in Status
    BY DEF Status
  <2>3. MarkSubmitted(p, ids) \in Plan
    BY <2>1, <2>2 DEF MarkSubmitted, Plan
  <2>4. SetRemoteIDs(p, ids) \in Plan
    BY <2>1 DEF SetRemoteIDs, Plan
  <2> QED BY <2>3, <2>4
<1>6. MarkFailed(p) \in Plan /\ MarkComplete(p) \in Plan /\ recoverInterrupted(p) \in Plan
  <2> {"failed", "completed", "reconciling"} \subseteq Status /\ 0 \in 0 .. MaxAttempts
    BY DEF Status
  <2>1. MarkFailed(p) \in Plan
    BY DEF MarkFailed, Plan
  <2>2. MarkComplete(p) \in Plan
    BY DEF MarkComplete, Plan
  <2>3. recoverInterrupted(p) \in Plan
    BY DEF recoverInterrupted, Plan
  <2> QED BY <2>1, <2>2, <2>3
<1>7. planMonitorTarget(p) \in Watch
  BY IdTypes DEF planMonitorTarget, Watch, RemoteIDs, Plan
<1> QED BY <1>1, <1>2, <1>3, <1>4, <1>5, <1>6, <1>7

\* The record a slot holds when it is free, and the record of a new request.
LEMMA RequestTypes ==
  /\ \A b \in InitialBases \cup {0} : NewPlan(b) \in Plan
  /\ Idle \in Request
  /\ \A p \in Plan : Preflighting("preflight", p) \in Request /\ Preflighting("run", p) \in Request
<1> USE PlanAssumption DEF PlanAssumption
<1>1. NoPreflight \in Preflight
  BY DEF NoPreflight, Preflight
<1>2. \A b \in InitialBases \cup {0} : NewPlan(b) \in Plan
  BY <1>1, IdTypes DEF NewPlan, Plan, Status
<1>3. Idle \in Request
  BY <1>2, IdTypes DEF Idle, Request, RemoteState
<1>4. \A p \in Plan : Preflighting("preflight", p) \in Request /\ Preflighting("run", p) \in Request
  BY <1>3 DEF Preflighting, Idle, Request
<1> QED BY <1>2, <1>3, <1>4

-----------------------------------------------------------------------------
(***************************************************************************)
(* Type correctness.  A goroutine that repairs its plan was let in below   *)
(* both bounds; without that the repair could leave them.                  *)
(***************************************************************************)
RepairPending ==
  \A h \in Procs : req[h].pc = "repair" =>
    req[h].snap.rev < MaxRevision /\ req[h].repairs < MaxRepairs

TypeInv == TypeOK /\ RepairPending

\* A step that puts one well-formed request record in one slot.
LEMMA SlotType ==
  ASSUME TypeInv, NEW h \in Procs, NEW r \in Request, Becomes(h, r),
         r.pc = "repair" => r.snap.rev < MaxRevision /\ r.repairs < MaxRepairs
  PROVE  req' \in [Procs -> Request] /\ RepairPending'
<1>1. req' \in [Procs -> Request]
  BY DEF TypeInv, TypeOK, Becomes
<1>2. ASSUME NEW g \in Procs, req'[g].pc = "repair"
      PROVE  req'[g].snap.rev < MaxRevision /\ req'[g].repairs < MaxRepairs
  <2>1. CASE g = h
    BY <1>2, <2>1 DEF TypeInv, TypeOK, Becomes
  <2>2. CASE g # h
    BY <1>2, <2>2 DEF TypeInv, TypeOK, Becomes, RepairPending
  <2> QED BY <2>1, <2>2
<1> QED BY <1>1, <1>2 DEF RepairPending

\* The goroutine a submission leaves behind is a monitor or nothing.
LEMMA MonitorSlot ==
  ASSUME TypeInv, NEW h \in Procs, NEW p \in Plan, StartMonitor(h, p)
  PROVE  \E r \in Request : Becomes(h, r) /\ r.pc \in {"idle", "observe"}
<1>1. CASE planMonitorTarget(p) = NoWatch
  BY <1>1, RequestTypes DEF StartMonitor, Leaves, Idle
<1>2. CASE planMonitorTarget(p) # NoWatch
  <2> DEFINE r == [Idle EXCEPT !.pc = "observe", !.kind = "monitor",
                               !.watch = planMonitorTarget(p)]
  <2>1. r \in Request /\ r.pc = "observe"
    BY RequestTypes, StoreTypes DEF Request, Idle
  <2>2. Becomes(h, r)
    BY <1>2 DEF StartMonitor
  <2> QED BY <2>1, <2>2
<1> QED BY <1>1, <1>2

\* Recording a failure touches the status, and the latest submission's flag.
LEMMA FailureType ==
  ASSUME TypeInv, RecordFailure
  PROVE  plan' \in Plan /\ attempts' \in [AttemptNo -> Attempt]
<1>1. plan' \in Plan
  BY StoreTypes DEF RecordFailure, TypeInv, TypeOK
<1>2. \A k \in AttemptNo : [attempts[k] EXCEPT !.reported = TRUE] \in Attempt
  BY DEF TypeInv, TypeOK, Attempt
<1> QED BY <1>1, <1>2 DEF RecordFailure, TypeInv, TypeOK

LEMMA TypeInit == Init => TypeInv
<1> SUFFICES ASSUME Init PROVE TypeInv
  OBVIOUS
<1> USE PlanAssumption DEF PlanAssumption
<1>1. plan \in Plan
  BY RequestTypes DEF Init
<1>2. req \in [Procs -> Request]
  BY RequestTypes DEF Init
<1>3. attempts \in [AttemptNo -> Attempt]
  <2>1. NoAttempt \in Attempt
    BY DEF NoAttempt, Attempt, Id, RemoteState
  <2> QED BY <2>1 DEF Init
<1>4. RepairPending
  BY DEF Init, RepairPending, Idle
<1>5. /\ started \in 0 .. MaxAttempts
      /\ judged \subseteq (Bases \cup InitialBases) \X (1 .. MaxRevision)
      /\ sourceState \in RemoteState
      /\ up \in BOOLEAN
      /\ crashes \in 0 .. MaxCrashes
  BY DEF Init, RemoteState
<1> QED BY <1>1, <1>2, <1>3, <1>4, <1>5 DEF TypeInv, TypeOK

\* Requests and goroutines that only move on: the rest of the state is left.
LEMMA QuietType ==
  ASSUME TypeInv, NEW h \in Procs, NEW r \in Request, Becomes(h, r), r.pc # "repair",
         UNCHANGED <<plan, remoteVars, processVars>>
  PROVE  TypeInv'
BY SlotType DEF TypeInv, TypeOK, remoteVars, processVars

\* A user's request starts from the record it reads, or first writes it.
LEMMA UserRequestType ==
  ASSUME TypeInv, NEW h \in Procs, UserRequest(h)
  PROVE  TypeInv'
<1> USE DEF TypeInv
<1>0. plan \in Plan /\ Idle \in Request /\ Idle.pc = "idle"
  BY RequestTypes DEF TypeOK, Idle
<1>1. \A k, p : Preflighting(k, p).pc = "validate"
  BY DEF Preflighting, Idle
<1>2. CASE preflightPlan(h)
  BY <1>0, <1>1, <1>2, RequestTypes, QuietType DEF preflightPlan
<1>3. CASE updatePlanParameters(h)
  <2>1. plan' \in Plan
    BY <1>0, <1>3, StoreTypes DEF updatePlanParameters
  <2>2. req' \in [Procs -> Request] /\ RepairPending'
    BY <1>1, <1>3, <2>1, RequestTypes, SlotType DEF updatePlanParameters
  <2> QED BY <1>3, <2>1, <2>2 DEF updatePlanParameters, TypeOK, remoteVars, processVars
<1>4. CASE createPlan(h)
  <2>1. plan' \in Plan
    BY <1>0, <1>4, StoreTypes, IdTypes DEF createPlan
  <2>2. req' \in [Procs -> Request] /\ RepairPending'
    BY <1>1, <1>4, <2>1, RequestTypes, SlotType DEF createPlan
  <2> QED BY <1>4, <2>1, <2>2 DEF createPlan, TypeOK, remoteVars, processVars
<1>5. CASE runPlan(h)
  BY <1>0, <1>1, <1>5, RequestTypes, QuietType DEF runPlan
<1>6. CASE planExecution(h)
  <2> DEFINE r == [Idle EXCEPT !.pc = "observe", !.kind = "poll", !.snap = plan,
                               !.watch = planMonitorTarget(plan)]
  <2>1. r \in Request /\ r.pc = "observe"
    BY <1>0, StoreTypes DEF Request, Idle
  <2> QED BY <1>6, <2>1, QuietType DEF planExecution
<1> QED BY <1>2, <1>3, <1>4, <1>5, <1>6 DEF UserRequest

\* Where a preflight goes next when it does not repair the plan.
LEMMA AfterPreflightSlot ==
  ASSUME TypeInv, NEW h \in Procs, NEW p \in Plan, AfterPreflight(h, p)
  PROVE  \E r \in Request : Becomes(h, r) /\ r.pc \in {"idle", "start"}
<1>1. CASE req[h].kind = "run"
  <2> DEFINE r == [req[h] EXCEPT !.pc = "start", !.snap = p]
  <2>1. r \in Request /\ r.pc = "start"
    BY DEF TypeInv, TypeOK, Request
  <2> QED BY <1>1, <2>1 DEF AfterPreflight
<1>2. CASE req[h].kind # "run"
  BY <1>2, RequestTypes DEF AfterPreflight, Leaves, Idle
<1> QED BY <1>1, <1>2

LEMMA PreflightStepType ==
  ASSUME TypeInv, NEW h \in Procs,
         FetchBaseline(h) \/ runPlanPreflightOnce(h) \/ RepairFromSchema(h)
  PROVE  TypeInv'
<1> DEFINE snap == req[h].snap
<1>0. plan \in Plan /\ req[h] \in Request /\ snap \in Plan
  BY DEF TypeInv, TypeOK, Request
<1>1. CASE FetchBaseline(h)
  <2>1. plan' \in Plan
    BY <1>0, <1>1, StoreTypes DEF FetchBaseline
  <2> DEFINE r == [req[h] EXCEPT !.snap = plan']
  <2>2. r \in Request /\ r.pc = "validate"
    BY <1>0, <1>1, <2>1 DEF Request, FetchBaseline, At
  <2>3. req' \in [Procs -> Request] /\ RepairPending'
    BY <1>1, <2>2, SlotType DEF FetchBaseline
  <2> QED BY <1>1, <2>1, <2>3 DEF FetchBaseline, TypeInv, TypeOK, remoteVars, processVars
<1>2. CASE runPlanPreflightOnce(h)
  <2>1. PICK valid \in BOOLEAN :
          /\ valid => snap.base # 0
          /\ judged' = judged \cup (IF valid THEN {<<snap.base, snap.rev>>} ELSE {})
          /\ \/ plan' = SetPreflight(plan, valid)
             \/ plan' = plan
          /\ \E p \in {plan', snap} :
               \/ AfterPreflight(h, p)
               \/ /\ req[h].repairs < MaxRepairs
                  /\ p.rev < MaxRevision
                  /\ Becomes(h, [req[h] EXCEPT !.pc = "repair", !.snap = p])
    BY <1>2 DEF runPlanPreflightOnce
  <2>2. plan' \in Plan
    BY <1>0, <2>1, StoreTypes
  <2>3. judged' \subseteq (Bases \cup InitialBases) \X (1 .. MaxRevision)
    BY <1>0, <2>1 DEF TypeInv, TypeOK, Plan
  <2>4. PICK p \in Plan :
               \/ AfterPreflight(h, p)
               \/ /\ req[h].repairs < MaxRepairs
                  /\ p.rev < MaxRevision
                  /\ Becomes(h, [req[h] EXCEPT !.pc = "repair", !.snap = p])
    BY <1>0, <2>1, <2>2
  <2>5. req' \in [Procs -> Request] /\ RepairPending'
    <3>1. CASE AfterPreflight(h, p)
      BY <3>1, AfterPreflightSlot, SlotType
    <3>2. CASE /\ req[h].repairs < MaxRepairs
               /\ p.rev < MaxRevision
               /\ Becomes(h, [req[h] EXCEPT !.pc = "repair", !.snap = p])
      <4> DEFINE r == [req[h] EXCEPT !.pc = "repair", !.snap = p]
      <4>1. r \in Request /\ r.snap = p /\ r.repairs = req[h].repairs
        BY <1>0 DEF Request
      <4> QED BY <3>2, <4>1, SlotType
    <3> QED BY <2>4, <3>1, <3>2
  <2> QED BY <1>2, <2>2, <2>3, <2>5 DEF runPlanPreflightOnce, TypeInv, TypeOK, processVars
<1>3. CASE RepairFromSchema(h)
  <2>1. CASE applyInputsAllowed(plan, snap.rev)
    <3>1. snap.rev < MaxRevision /\ req[h].repairs < MaxRepairs /\ plan.rev = snap.rev
      BY <1>3, <2>1 DEF RepairFromSchema, At, TypeInv, RepairPending, applyInputsAllowed
    <3>2. plan' \in Plan
      BY <1>0, <1>3, <2>1, <3>1, StoreTypes DEF RepairFromSchema
    <3> DEFINE r == [req[h] EXCEPT !.pc = "validate", !.snap = plan', !.repairs = @ + 1]
    <3>3. req[h].repairs + 1 \in 0 .. MaxRepairs
      BY <1>0, <3>1, PlanAssumption DEF Request, PlanAssumption
    <3>4. r \in Request /\ r.pc = "validate"
      BY <1>0, <3>2, <3>3 DEF Request
    <3>5. req' \in [Procs -> Request] /\ RepairPending'
      BY <1>3, <2>1, <3>4, SlotType DEF RepairFromSchema
    <3> QED BY <1>3, <3>2, <3>5 DEF RepairFromSchema, TypeInv, TypeOK, remoteVars, processVars
  <2>2. CASE ~applyInputsAllowed(plan, snap.rev)
    BY <1>0, <1>3, <2>2, AfterPreflightSlot, QuietType DEF RepairFromSchema
  <2> QED BY <2>1, <2>2
<1> QED BY <1>1, <1>2, <1>3

LEMMA RunStepType ==
  ASSUME TypeInv, NEW h \in Procs,
         RefuseRun(h) \/ StartRun(h) \/ submitPlanToFlow360(h) \/ PersistRun(h)
  PROVE  TypeInv'
<1> USE PlanAssumption DEF PlanAssumption
<1> DEFINE snap == req[h].snap
<1>0. /\ plan \in Plan /\ req[h] \in Request /\ snap \in Plan
      /\ attempts \in [AttemptNo -> Attempt] /\ Idle \in Request /\ Idle.pc = "idle"
  BY RequestTypes DEF TypeInv, TypeOK, Request, Idle
<1>1. CASE RefuseRun(h)
  BY <1>0, <1>1, QuietType DEF RefuseRun, Leaves
<1>2. CASE StartRun(h)
  <2>1. started' \in AttemptNo
    BY <1>2 DEF StartRun, RunAdmitted, AttemptNo, TypeInv, TypeOK
  <2>2. plan' \in Plan
    BY <1>0, <1>2, <2>1, StoreTypes DEF StartRun
  <2>3. attempts' \in [AttemptNo -> Attempt]
    <3>1. NoAttempt \in Attempt
      BY DEF NoAttempt, Attempt, Id, RemoteState
    <3>2. \A approved \in BOOLEAN :
            [NoAttempt EXCEPT !.rev = plan.rev, !.base = plan.base,
                              !.approved = approved] \in Attempt
      <4>1. plan.rev \in 0 .. MaxRevision /\ plan.base \in InitialBases \cup Bases \cup {0}
        BY <1>0 DEF Plan
      <4> QED BY <3>1, <4>1 DEF Attempt
    <3> QED BY <1>0, <1>2, <3>2 DEF StartRun
  <2> DEFINE r == [req[h] EXCEPT !.pc = "submit", !.snap = plan']
  <2>4. r \in Request /\ r.pc = "submit"
    BY <1>0, <2>2 DEF Request
  <2>5. req' \in [Procs -> Request] /\ RepairPending'
    BY <1>2, <2>4, SlotType DEF StartRun
  <2>6. started' \in 0 .. MaxAttempts
    BY <2>1 DEF AttemptNo
  <2> QED BY <1>2, <2>2, <2>3, <2>5, <2>6 DEF StartRun, TypeInv, TypeOK, processVars
<1>3. CASE submitPlanToFlow360(h)
  <2> DEFINE k == snap.submission
             d == IF snap.remote.draft # 0 THEN snap.remote.draft ELSE k + 1
  <2>1. k \in 0 .. MaxAttempts /\ d \in Id
    BY <1>0 DEF Plan, RemoteIDs, Id
  <2>2. PICK a \in {"ok", "error"}, ids \in RemoteIDs :
          Becomes(h, [req[h] EXCEPT !.pc = "reply", !.answer = a, !.ids = ids])
    BY <1>3, <2>1, IdTypes DEF submitPlanToFlow360
  <2>3. attempts' \in [AttemptNo -> Attempt]
    <3>0. attempts \in [AttemptNo -> Attempt] /\ d \in Id
      BY <1>0, <2>1
    <3>1. \/ attempts' = [attempts EXCEPT ![k].state = "live", ![k].draft = d]
          \/ attempts' = [attempts EXCEPT ![k].draft = d]
          \/ attempts' = attempts
      BY <1>3 DEF submitPlanToFlow360
    <3>2. "live" \in RemoteState
      BY DEF RemoteState
    <3> HIDE DEF k, d
    <3>3. ASSUME NEW at \in Attempt, NEW x \in Id
          PROVE  [at EXCEPT !.draft = x] \in Attempt /\ [at EXCEPT !.state = "live"] \in Attempt
      BY <3>2 DEF Attempt
    <3>4. ASSUME NEW f \in [AttemptNo -> Attempt]
          PROVE  /\ [f EXCEPT ![k].draft = d] \in [AttemptNo -> Attempt]
                 /\ [f EXCEPT ![k].state = "live"] \in [AttemptNo -> Attempt]
      BY <3>0, <3>3
    <3>5. CASE attempts' = [attempts EXCEPT ![k].state = "live", ![k].draft = d]
      <4>1. PICK f : f = [attempts EXCEPT ![k].state = "live"]
        OBVIOUS
      <4>2. attempts' = [f EXCEPT ![k].draft = d]
        BY <3>5, <4>1
      <4>3. f \in [AttemptNo -> Attempt]
        BY <3>0, <3>4, <4>1
      <4> QED BY <3>4, <4>2, <4>3
    <3> QED BY <3>0, <3>1, <3>4, <3>5
  <2> DEFINE r == [req[h] EXCEPT !.pc = "reply", !.answer = a, !.ids = ids]
  <2>4. r \in Request /\ r.pc = "reply" /\ Becomes(h, r)
    BY <1>0, <2>2 DEF Request
  <2> HIDE DEF r
  <2>5. req' \in [Procs -> Request] /\ RepairPending'
    BY <2>4, SlotType
  <2> QED BY <1>3, <2>3, <2>5 DEF submitPlanToFlow360, TypeInv, TypeOK, processVars
<1>4. CASE PersistRun(h)
  <2>1. CASE req[h].answer = "ok"
    <3>1. plan' \in Plan
      BY <1>0, <1>4, <2>1, StoreTypes DEF PersistRun, Request
    <3>2. req' \in [Procs -> Request] /\ RepairPending'
      BY <1>4, <2>1, <3>1, MonitorSlot, SlotType DEF PersistRun
    <3> QED BY <1>4, <2>1, <3>1, <3>2 DEF PersistRun, TypeInv, TypeOK, processVars
  <2>2. CASE req[h].answer # "ok"
    <3>1. req' \in [Procs -> Request] /\ RepairPending'
      BY <1>0, <1>4, <2>2, SlotType DEF PersistRun, Leaves
    <3> QED BY <1>4, <2>2, <3>1, FailureType DEF PersistRun, TypeInv, TypeOK, processVars
  <2> QED BY <2>1, <2>2
<1> QED BY <1>1, <1>2, <1>3, <1>4

LEMMA ObserverStepType ==
  ASSUME TypeInv, NEW h \in Procs,
         ObservePoll(h) \/ ObserveMonitor(h) \/ handleMonitorTimeout(h) \/ RecordOutcome(h)
  PROVE  TypeInv'
<1>0. plan \in Plan /\ req[h] \in Request /\ Idle \in Request /\ Idle.pc = "idle"
  BY RequestTypes DEF TypeInv, TypeOK, Idle
<1>1. \A s \in Terminal : LET r == [req[h] EXCEPT !.pc = "settle", !.answer = s]
                          IN  r \in Request /\ r.pc = "settle"
  BY <1>0 DEF Terminal, Request, RemoteState
<1>2. CASE ObservePoll(h)
  BY <1>0, <1>1, <1>2, QuietType DEF ObservePoll, Leaves
<1>3. CASE ObserveMonitor(h)
  BY <1>0, <1>1, <1>3, QuietType DEF ObserveMonitor
<1>4. CASE handleMonitorTimeout(h)
  BY <1>0, <1>4, QuietType DEF handleMonitorTimeout, MarkReconcilePending, Leaves
<1>5. CASE RecordOutcome(h)
  <2>1. req' \in [Procs -> Request] /\ RepairPending'
    BY <1>0, <1>5, SlotType DEF RecordOutcome, Leaves
  <2>2. plan' \in Plan /\ attempts' \in [AttemptNo -> Attempt]
    BY <1>0, <1>5, StoreTypes, FailureType DEF RecordOutcome, TypeInv, TypeOK
  <2> QED BY <1>5, <2>1, <2>2 DEF RecordOutcome, TypeInv, TypeOK, processVars
<1> QED BY <1>2, <1>3, <1>4, <1>5

LEMMA RecoveryStepType ==
  ASSUME TypeInv, NEW h \in Procs,
         reconcileInterruptedPlans(h) \/ FindDraftByName(h) \/ AdoptSubmission(h)
  PROVE  TypeInv'
<1>0. plan \in Plan /\ req[h] \in Request /\ Idle \in Request /\ Idle.pc = "idle"
  BY RequestTypes DEF TypeInv, TypeOK, Idle
<1>1. CASE reconcileInterruptedPlans(h)
  <2>1. [req[h] EXCEPT !.pc = "lookup"] \in Request
    BY <1>0 DEF Request
  <2>2. [req[h] EXCEPT !.pc = "lookup"].pc = "lookup"
    BY <1>0 DEF Request
  <2>3. \E r \in Request : Becomes(h, r) /\ r.pc # "repair"
    BY <1>0, <1>1, <2>1, <2>2, MonitorSlot DEF reconcileInterruptedPlans, Leaves
  <2> QED BY <1>1, <2>3, QuietType DEF reconcileInterruptedPlans
<1>2. CASE FindDraftByName(h)
  <2>1. ASSUME NEW d \in DraftsNamedLikePlan
        PROVE  [NoIds EXCEPT !.draft = d] \in RemoteIDs
    <3>1. \A k \in AttemptNo : attempts[k].draft \in Id
      BY DEF TypeInv, TypeOK, Attempt
    <3>2. 1 .. started \subseteq AttemptNo
      BY PlanAssumption DEF TypeInv, TypeOK, AttemptNo, PlanAssumption
    <3>3. d \in Id
      BY <3>1, <3>2, PlanAssumption DEF DraftsNamedLikePlan, BoundDraft, Id, PlanAssumption
    <3> QED BY <3>3, IdTypes DEF RemoteIDs
  <2>2. ASSUME NEW ids \in RemoteIDs
        PROVE  LET r == [req[h] EXCEPT !.pc = "adopt", !.ids = ids]
               IN  r \in Request /\ r.pc = "adopt"
    BY <1>0 DEF Request
  <2>3. \E r \in Request : Becomes(h, r) /\ r.pc # "repair"
    BY <1>0, <1>2, <2>1, <2>2 DEF FindDraftByName, Leaves
  <2>4. plan' = plan
    BY <1>2 DEF FindDraftByName, MarkReconcilePending
  <2> QED BY <1>2, <2>3, <2>4, QuietType DEF FindDraftByName
<1>3. CASE AdoptSubmission(h)
  <2>1. plan' \in Plan
    BY <1>0, <1>3, StoreTypes DEF AdoptSubmission, Request
  <2>2. req' \in [Procs -> Request] /\ RepairPending'
    BY <1>3, <2>1, MonitorSlot, SlotType DEF AdoptSubmission
  <2> QED BY <1>3, <2>1, <2>2 DEF AdoptSubmission, TypeInv, TypeOK, remoteVars, processVars
<1> QED BY <1>1, <1>2, <1>3

LEMMA EnvironmentStepType ==
  ASSUME TypeInv,
         approvePlan \/ Crash \/ Restart \/ (\E k \in AttemptNo : RemoteEnds(k))
  PROVE  TypeInv'
<1>0. plan \in Plan /\ Idle \in Request /\ Idle.pc = "idle"
  BY RequestTypes DEF TypeInv, TypeOK, Idle
<1>1. CASE approvePlan
  <2>1. "approved" \in Status /\ plan.rev \in 0 .. MaxRevision
    BY <1>0, PlanAssumption DEF Status, Plan, PlanAssumption
  <2>2. plan' \in Plan
    BY <1>0, <1>1, <2>1 DEF approvePlan, Plan
  <2> QED BY <1>1, <2>2 DEF approvePlan, TypeInv, TypeOK, RepairPending, remoteVars, processVars
<1>2. CASE Crash
  <2>1. req' \in [Procs -> Request] /\ RepairPending'
    BY <1>0, <1>2 DEF Crash, RepairPending
  <2>2. crashes' \in 0 .. MaxCrashes
    BY <1>2, PlanAssumption DEF Crash, TypeInv, TypeOK, PlanAssumption
  <2> QED BY <1>2, <2>1, <2>2 DEF Crash, TypeInv, TypeOK, remoteVars
<1>3. CASE Restart
  <2>1. plan' \in Plan
    BY <1>0, <1>3, StoreTypes DEF Restart
  <2> DEFINE r == [Idle EXCEPT !.pc = "list", !.kind = "startup"]
  <2>2. r \in Request /\ r.pc = "list"
    BY <1>0 DEF Request
  <2>3. PICK h \in Procs : Becomes(h, r)
    BY <1>3 DEF Restart
  <2> HIDE DEF r
  <2>4. req' \in [Procs -> Request] /\ RepairPending'
    BY <2>2, <2>3, SlotType
  <2> QED BY <1>3, <2>1, <2>4 DEF Restart, TypeInv, TypeOK, remoteVars
<1>4. ASSUME NEW k \in AttemptNo, RemoteEnds(k) PROVE TypeInv'
  <2>1. Terminal \subseteq RemoteState
    BY DEF Terminal, RemoteState
  <2>2. attempts' \in [AttemptNo -> Attempt]
    BY <1>4, <2>1 DEF RemoteEnds, TypeInv, TypeOK, Attempt
  <2> QED BY <1>4, <2>2 DEF RemoteEnds, TypeInv, TypeOK, RepairPending, processVars
<1> QED BY <1>1, <1>2, <1>3, <1>4

LEMMA TypeStep == TypeInv /\ [Next]_vars => TypeInv'
<1> SUFFICES ASSUME TypeInv, [Next]_vars PROVE TypeInv'
  OBVIOUS
<1>1. CASE approvePlan \/ Crash \/ Restart \/ (\E k \in AttemptNo : RemoteEnds(k))
  BY <1>1, EnvironmentStepType
<1>2. ASSUME NEW h \in Procs, UserRequest(h) PROVE TypeInv'
  BY <1>2, UserRequestType
<1>3. ASSUME NEW h \in Procs, RequestStep(h) PROVE TypeInv'
  BY <1>3, PreflightStepType, RunStepType, ObserverStepType DEF RequestStep
<1>4. ASSUME NEW h \in Procs, BackgroundStep(h) PROVE TypeInv'
  BY <1>4, ObserverStepType, RecoveryStepType DEF BackgroundStep
<1>5. CASE UNCHANGED vars
  BY <1>5 DEF vars, TypeInv, TypeOK, RepairPending
<1> QED BY <1>1, <1>2, <1>3, <1>4, <1>5 DEF Next

\* The record on disk, the goroutines' copies of it and the ledger of
\* submissions stay well-formed and within their bounds, whatever the
\* requests, crashes and answers of Flow360.
THEOREM TypeCorrect == Spec => []TypeOK
<1>1. Spec => []TypeInv
  BY TypeInit, TypeStep, PTL DEF Spec
<1>2. TypeInv => TypeOK
  BY DEF TypeInv
<1> QED BY <1>1, <1>2, PTL

-----------------------------------------------------------------------------
(***************************************************************************)
(* Safety.  Two groups of facts are inductive beside the type invariant:   *)
(* what a revision's approval and an open submission forbid, and where a   *)
(* passed preflight's content comes from.                                  *)
(***************************************************************************)

\* Only an edit makes a draft, and it voids the approval.
DraftIsUnapproved == plan.status = "draft" => plan.approvedRev = 0

GateInv ==
  /\ TypeInv
  /\ ApprovalIsOfThisRevision
  /\ DraftIsUnapproved
  /\ OpenSubmissionLocksPlan
  /\ ResubmissionFollowsFailure

\* What a preflight that counts for this revision says was found valid.
PreflightWasJudged ==
  plan.preflight.valid /\ plan.preflight.rev = plan.rev =>
    plan.base # 0 /\ <<plan.base, plan.rev>> \in judged

\* The baseline is fixed once it is there, so no copy holds another one.
SnapshotsShareBaseline == \A h \in Procs : req[h].snap.base \in {0, plan.base}

ContentInv ==
  /\ TypeInv
  /\ PreflightWasJudged
  /\ SnapshotsShareBaseline
  /\ SubmittedContentWasJudged

-----------------------------------------------------------------------------
(***************************************************************************)
(* Every step is one of five as far as approvals and submissions go.       *)
(***************************************************************************)
OtherStep ==
  /\ started' = started
  /\ plan'.rev = plan.rev
  /\ plan'.approvedRev = plan.approvedRev
  /\ plan'.status \in Editable => plan'.status = plan.status
  /\ \A k \in AttemptNo : attempts'[k].reported = attempts[k].reported

EditStep ==
  /\ plan.status \in Editable
  /\ plan' = applyInputs(plan)
  /\ UNCHANGED <<started, attempts>>

ApproveStep == approvePlan
SubmitStep == \E h \in Procs : StartRun(h)
FailStep == RecordFailure /\ UNCHANGED started

\* What the store's methods that neither edit nor fail a plan leave alone.
LEMMA StoreFrame ==
  ASSUME TypeInv, UNCHANGED <<started, attempts>>,
         \/ plan' = plan
         \/ \E b \in Bases : plan' = SetBaseline(plan, b)
         \/ \E v \in BOOLEAN : plan' = SetPreflight(plan, v)
         \/ \E ids \in RemoteIDs : plan' = MarkSubmitted(plan, ids) \/ plan' = SetRemoteIDs(plan, ids)
         \/ plan' = MarkComplete(plan)
         \/ plan' = recoverInterrupted(plan)
  PROVE  OtherStep
<1>0. plan \in Plan
  BY DEF TypeInv, TypeOK
<1>1. CASE plan' = plan
  BY <1>1 DEF OtherStep
<1>2. ASSUME NEW b \in Bases, plan' = SetBaseline(plan, b) PROVE OtherStep
  BY <1>0, <1>2 DEF SetBaseline, Plan, OtherStep
<1>3. ASSUME NEW v \in BOOLEAN, plan' = SetPreflight(plan, v) PROVE OtherStep
  BY <1>0, <1>3 DEF SetPreflight, Plan, OtherStep
<1>4. ASSUME NEW ids \in RemoteIDs, plan' = MarkSubmitted(plan, ids) PROVE OtherStep
  BY <1>0, <1>4 DEF MarkSubmitted, Plan, OtherStep, Editable
<1>5. ASSUME NEW ids \in RemoteIDs, plan' = SetRemoteIDs(plan, ids) PROVE OtherStep
  BY <1>0, <1>5 DEF SetRemoteIDs, Plan, OtherStep
<1>6. CASE plan' = MarkComplete(plan)
  BY <1>0, <1>6 DEF MarkComplete, Plan, OtherStep, Editable
<1>7. CASE plan' = recoverInterrupted(plan)
  BY <1>0, <1>7 DEF recoverInterrupted, Plan, OtherStep, Editable
<1> QED BY <1>1, <1>2, <1>3, <1>4, <1>5, <1>6, <1>7

LEMMA StepKinds ==
  ASSUME TypeInv, [Next]_vars
  PROVE  OtherStep \/ EditStep \/ ApproveStep \/ SubmitStep \/ FailStep
<1> USE DEF remoteVars, processVars
<1>0. plan \in Plan /\ req \in [Procs -> Request] /\ attempts \in [AttemptNo -> Attempt]
  BY DEF TypeInv, TypeOK
<1>1. CASE approvePlan
  BY <1>1 DEF ApproveStep
<1>2. CASE Crash \/ Restart
  BY <1>2, StoreFrame DEF Crash, Restart
<1>3. ASSUME NEW k \in AttemptNo, RemoteEnds(k) PROVE OtherStep
  BY <1>0, <1>3 DEF RemoteEnds, OtherStep, Attempt
<1>4. ASSUME NEW h \in Procs, UserRequest(h) PROVE OtherStep \/ EditStep
  <2>1. CASE updatePlanParameters(h)
    BY <2>1 DEF updatePlanParameters, applyInputsAllowed, EditStep
  <2>2. CASE createPlan(h)
    BY <2>2, IdTypes, StoreFrame DEF createPlan
  <2>3. CASE preflightPlan(h) \/ runPlan(h) \/ planExecution(h)
    BY <2>3, StoreFrame DEF preflightPlan, runPlan, planExecution
  <2> QED BY <1>4, <2>1, <2>2, <2>3 DEF UserRequest
<1>5. ASSUME NEW h \in Procs, RequestStep(h)
      PROVE  OtherStep \/ EditStep \/ SubmitStep \/ FailStep
  <2>1. CASE FetchBaseline(h)
    BY <2>1, StoreFrame DEF FetchBaseline
  <2>2. CASE runPlanPreflightOnce(h)
    BY <2>2, StoreFrame DEF runPlanPreflightOnce
  <2>3. CASE RepairFromSchema(h)
    <3>1. CASE applyInputsAllowed(plan, req[h].snap.rev)
      BY <2>3, <3>1 DEF RepairFromSchema, EditStep, applyInputsAllowed
    <3>2. CASE ~applyInputsAllowed(plan, req[h].snap.rev)
      BY <2>3, <3>2, StoreFrame DEF RepairFromSchema
    <3> QED BY <3>1, <3>2
  <2>4. CASE RefuseRun(h) \/ ObservePoll(h)
    BY <2>4, StoreFrame DEF RefuseRun, ObservePoll
  <2>5. CASE StartRun(h)
    BY <2>5 DEF SubmitStep
  <2>6. CASE submitPlanToFlow360(h)
    <3> DEFINE k == req[h].snap.submission
    <3>1. PICK d : \/ attempts' = [attempts EXCEPT ![k].state = "live", ![k].draft = d]
                   \/ attempts' = [attempts EXCEPT ![k].draft = d]
                   \/ attempts' = attempts
      BY <2>6 DEF submitPlanToFlow360
    <3>2. \A i \in AttemptNo : attempts'[i].reported = attempts[i].reported
      BY <1>0, <3>1 DEF Attempt
    <3> QED BY <2>6, <3>2 DEF submitPlanToFlow360, OtherStep
  <2>7. CASE PersistRun(h)
    BY <1>0, <2>7, StoreFrame DEF PersistRun, FailStep, Request
  <2> QED BY <1>5, <2>1, <2>2, <2>3, <2>4, <2>5, <2>6, <2>7 DEF RequestStep
<1>6. ASSUME NEW h \in Procs, BackgroundStep(h) PROVE OtherStep \/ FailStep
  <2>1. CASE RecordOutcome(h)
    BY <2>1, StoreFrame DEF RecordOutcome, FailStep
  <2>2. CASE AdoptSubmission(h)
    BY <1>0, <2>2, StoreFrame DEF AdoptSubmission, Request
  <2>3. CASE ObserveMonitor(h) \/ handleMonitorTimeout(h) \/ reconcileInterruptedPlans(h)
               \/ FindDraftByName(h)
    BY <2>3, StoreFrame
    DEF ObserveMonitor, handleMonitorTimeout, reconcileInterruptedPlans, FindDraftByName,
        MarkReconcilePending
  <2> QED BY <1>6, <2>1, <2>2, <2>3 DEF BackgroundStep
<1>7. CASE UNCHANGED vars
  BY <1>7, StoreFrame DEF vars
<1> QED BY <1>1, <1>2, <1>3, <1>4, <1>5, <1>6, <1>7 DEF Next

LEMMA GateInit == Init => GateInv
<1> SUFFICES ASSUME Init PROVE GateInv
  OBVIOUS
<1>1. plan.status = "draft" /\ plan.approvedRev = 0 /\ started = 0
  BY DEF Init, NewPlan
<1>2. \A k \in 1 .. started : ~(k < started)
  BY <1>1
<1> QED BY <1>1, <1>2, TypeInit
        DEF GateInv, ApprovalIsOfThisRevision, DraftIsUnapproved, OpenSubmissionLocksPlan,
            OpenSubmission, ResubmissionFollowsFailure

\* Five properties of a step of each kind; TypeInv' is known by TypeStep.
LEMMA GateStep == GateInv /\ [Next]_vars => GateInv'
<1> SUFFICES ASSUME GateInv, [Next]_vars PROVE GateInv'
  OBVIOUS
<1> USE DEF GateInv
<1>0. /\ TypeInv' /\ plan \in Plan /\ attempts \in [AttemptNo -> Attempt]
      /\ started \in 0 .. MaxAttempts /\ 1 .. started \subseteq AttemptNo
      /\ MaxAttempts \in Nat
  BY TypeStep, PlanAssumption DEF TypeInv, TypeOK, AttemptNo, PlanAssumption
<1> USE DEF ApprovalIsOfThisRevision, DraftIsUnapproved, OpenSubmissionLocksPlan, OpenSubmission,
            ResubmissionFollowsFailure
<1>1. CASE OtherStep
  <2>1. ApprovalIsOfThisRevision' /\ DraftIsUnapproved'
    BY <1>1 DEF OtherStep, Editable
  <2>2. \A k \in 1 .. started : attempts'[k].reported = attempts[k].reported
    BY <1>0, <1>1 DEF OtherStep
  <2>3. OpenSubmissionLocksPlan'
    BY <1>0, <1>1, <2>2 DEF OtherStep
  <2>4. ResubmissionFollowsFailure'
    BY <1>1, <2>2 DEF OtherStep
  <2> QED BY <1>0, <2>1, <2>3, <2>4
<1>2. CASE EditStep
  <2>1. plan'.status = "draft" /\ plan'.approvedRev = 0
    BY <1>2 DEF EditStep, applyInputs, NewPlan
  <2> QED BY <1>0, <1>2, <2>1 DEF EditStep
<1>3. CASE ApproveStep
  <2>1. /\ plan.status = "draft" /\ plan'.status = "approved"
        /\ plan'.rev = plan.rev /\ plan'.approvedRev = plan.rev
        /\ UNCHANGED <<started, attempts>>
    BY <1>0, <1>3 DEF ApproveStep, approvePlan, Plan, remoteVars
  <2> QED BY <1>0, <2>1 DEF Editable
<1>4. CASE SubmitStep
  <2>1. /\ plan.status \in {"approved", "failed"}
        /\ plan'.status = "running" /\ plan'.rev = plan.rev /\ plan'.approvedRev = plan.approvedRev
        /\ started' = started + 1 /\ started' \in AttemptNo
        /\ \A k \in 1 .. started : attempts'[k] = attempts[k]
    BY <1>0, <1>4
    DEF SubmitStep, StartRun, RunAdmitted, SetRunningAllowed, SetRunning, Plan, AttemptNo
  <2>2. \A k \in 1 .. started : attempts[k].reported
    BY <1>0, <2>1 DEF Editable
  <2> QED BY <1>0, <2>1, <2>2 DEF Editable
<1>5. CASE FailStep
  <2>1. /\ plan'.status = "failed" /\ plan'.rev = plan.rev /\ plan'.approvedRev = plan.approvedRev
        /\ started' = started
    BY <1>0, <1>5 DEF FailStep, RecordFailure, MarkFailed, Plan
  <2>2. \A k \in 1 .. started :
          attempts'[k].reported = IF k = started THEN TRUE ELSE attempts[k].reported
    BY <1>0, <1>5 DEF FailStep, RecordFailure, Attempt
  <2>3. ~OpenSubmission'
    <3>1. started > 0 => started \in 1 .. started
      BY <1>0
    <3> QED BY <2>1, <2>2, <3>1
  <2>4. ResubmissionFollowsFailure'
    BY <1>0, <2>1, <2>2
  <2> QED BY <1>0, <2>1, <2>3, <2>4
<1> QED BY <1>1, <1>2, <1>3, <1>4, <1>5, StepKinds

LEMMA GateHolds == Spec => []GateInv
BY GateInit, GateStep, PTL DEF Spec

\* A recorded approval is always one of the revision the plan carries, for
\* any number of concurrent edits, repairs, retries and restarts.
THEOREM ApprovalSound == Spec => []ApprovalIsOfThisRevision
<1>1. GateInv => ApprovalIsOfThisRevision
  BY DEF GateInv
<1> QED BY <1>1, GateHolds, PTL

\* While a submission is open the plan is neither editable nor runnable.
THEOREM OpenSubmissionLocks == Spec => []OpenSubmissionLocksPlan
<1>1. GateInv => OpenSubmissionLocksPlan
  BY DEF GateInv
<1> QED BY <1>1, GateHolds, PTL

\* Each submission but the latest was reported as failed before the next one
\* was begun: the store admits one submission at a time.
THEOREM ResubmissionSound == Spec => []ResubmissionFollowsFailure
<1>1. GateInv => ResubmissionFollowsFailure
  BY DEF GateInv
<1> QED BY <1>1, GateHolds, PTL

-----------------------------------------------------------------------------
\* The server keeps the contract of PlanContract: seen through its revision,
\* approval, number of submissions and open submission, each of its steps is
\* an edit, an approval, the start of a submission, the report of a failure,
\* or nothing.
THEOREM ContractKept == Spec => ImplementsContract
<1>1. Init => Contract!ContractInit
  BY DEF Init, NewPlan, Contract!ContractInit, OpenSubmission
<1>2. GateInv /\ [Next]_vars => [Contract!ContractNext]_(Contract!contractVars)
  <2> SUFFICES ASSUME GateInv, [Next]_vars
               PROVE  Contract!ContractNext \/ UNCHANGED Contract!contractVars
    OBVIOUS
  <2>0. /\ plan \in Plan /\ attempts \in [AttemptNo -> Attempt]
        /\ started \in 0 .. MaxAttempts /\ MaxAttempts \in Nat
        /\ OpenSubmissionLocksPlan /\ DraftIsUnapproved
    BY PlanAssumption DEF GateInv, TypeInv, TypeOK, PlanAssumption
  <2> USE DEF Contract!ContractNext, Contract!contractVars, OpenSubmission
  <2>1. CASE OtherStep
    <3>1. OpenSubmission' = OpenSubmission
      BY <2>0, <2>1 DEF OtherStep, AttemptNo
    <3> QED BY <2>1, <3>1 DEF OtherStep
  <2>2. CASE EditStep
    BY <2>0, <2>2
    DEF EditStep, applyInputs, NewPlan, OpenSubmissionLocksPlan, Contract!Edit
  <2>3. CASE ApproveStep
    <3>1. /\ plan.status = "draft" /\ plan'.rev = plan.rev /\ plan'.approvedRev = plan.rev
          /\ UNCHANGED <<started, attempts>>
      BY <2>0, <2>3 DEF ApproveStep, approvePlan, Plan, remoteVars
    <3> QED BY <2>0, <3>1
            DEF OpenSubmissionLocksPlan, DraftIsUnapproved, Editable, Contract!Approve
  <2>4. CASE SubmitStep
    <3>1. /\ plan.status \in {"approved", "failed"}
          /\ plan'.rev = plan.rev /\ plan'.approvedRev = plan.approvedRev
          /\ started' = started + 1 /\ started' \in AttemptNo
          /\ ~attempts'[started'].reported
      BY <2>0, <2>4
      DEF SubmitStep, StartRun, RunAdmitted, SetRunningAllowed, SetRunning, Plan, AttemptNo, NoAttempt
    <3> QED BY <2>0, <3>1
            DEF OpenSubmissionLocksPlan, Editable, AttemptNo, Contract!BeginSubmission
  <2>5. CASE FailStep
    <3>1. plan'.rev = plan.rev /\ plan'.approvedRev = plan.approvedRev /\ started' = started
      BY <2>0, <2>5 DEF FailStep, RecordFailure, MarkFailed, Plan
    <3>2. started > 0 => attempts'[started].reported
      BY <2>0, <2>5 DEF FailStep, RecordFailure, Attempt, AttemptNo
    <3> QED BY <3>1, <3>2 DEF Contract!ReportFailure
  <2> QED BY <2>1, <2>2, <2>3, <2>4, <2>5, StepKinds DEF GateInv
<1> QED BY <1>1, <1>2, GateHolds, PTL DEF Spec, ImplementsContract, Contract!ContractSpec

-----------------------------------------------------------------------------
(***************************************************************************)
(* What is submitted was judged.                                           *)
(***************************************************************************)

\* A step that neither edits nor judges the plan.
SameContent ==
  /\ plan'.base = plan.base
  /\ plan'.rev = plan.rev
  /\ plan'.preflight = plan.preflight
  /\ judged' = judged

SameLedger ==
  /\ started' = started
  /\ \A k \in AttemptNo : attempts'[k].rev = attempts[k].rev /\ attempts'[k].base = attempts[k].base

LEMMA SameContentKept ==
  ASSUME ContentInv, TypeInv', SameContent, SameLedger, SnapshotsShareBaseline'
  PROVE  ContentInv'
<1>1. PreflightWasJudged'
  BY DEF ContentInv, PreflightWasJudged, SameContent
<1>2. 1 .. started \subseteq AttemptNo
  BY PlanAssumption DEF ContentInv, TypeInv, TypeOK, AttemptNo, PlanAssumption
<1>3. SubmittedContentWasJudged'
  BY <1>2 DEF ContentInv, SubmittedContentWasJudged, SameContent, SameLedger
<1> QED BY <1>1, <1>3 DEF ContentInv

\* The store's methods that neither edit nor judge a plan.
LEMMA ContentFrame ==
  ASSUME TypeInv, judged' = judged,
         \/ plan' = plan
         \/ \E ids \in RemoteIDs : plan' = MarkSubmitted(plan, ids) \/ plan' = SetRemoteIDs(plan, ids)
         \/ plan' = MarkComplete(plan)
         \/ plan' = MarkFailed(plan)
         \/ plan' = recoverInterrupted(plan)
  PROVE  SameContent
<1>0. plan \in Plan
  BY DEF TypeInv, TypeOK
<1> USE DEF SameContent
<1>1. CASE plan' = plan
  BY <1>1
<1>2. ASSUME NEW ids \in RemoteIDs,
             plan' = MarkSubmitted(plan, ids) \/ plan' = SetRemoteIDs(plan, ids)
      PROVE  SameContent
  BY <1>0, <1>2 DEF MarkSubmitted, SetRemoteIDs, Plan
<1>3. CASE plan' = MarkComplete(plan)
  BY <1>0, <1>3 DEF MarkComplete, Plan
<1>4. CASE plan' = MarkFailed(plan)
  BY <1>0, <1>4 DEF MarkFailed, Plan
<1>5. CASE plan' = recoverInterrupted(plan)
  BY <1>0, <1>5 DEF recoverInterrupted, Plan
<1> QED BY <1>1, <1>2, <1>3, <1>4, <1>5

\* A failure leaves the contents of every submission alone.
LEMMA FailureLedger ==
  ASSUME TypeInv, RecordFailure, UNCHANGED started
  PROVE  SameLedger
BY DEF RecordFailure, SameLedger, TypeInv, TypeOK, Attempt

LEMMA SlotBaseline ==
  ASSUME TypeInv, SnapshotsShareBaseline, NEW h \in Procs, NEW r, Becomes(h, r),
         r.snap.base \in {0, plan'.base}, plan.base \in {0, plan'.base}
  PROVE  SnapshotsShareBaseline'
<1>1. ASSUME NEW g \in Procs PROVE req'[g].snap.base \in {0, plan'.base}
  <2>1. CASE g = h
    BY <2>1 DEF Becomes, TypeInv, TypeOK
  <2>2. CASE g # h
    BY <2>2 DEF Becomes, TypeInv, TypeOK, SnapshotsShareBaseline
  <2> QED BY <2>1, <2>2
<1> QED BY <1>1 DEF SnapshotsShareBaseline

LEMMA IdleBaseline == Idle.snap.base = 0
BY DEF Idle, NewPlan

LEMMA MonitorBaseline ==
  ASSUME NEW h \in Procs, NEW p, StartMonitor(h, p)
  PROVE  \E r : Becomes(h, r) /\ r.snap.base = 0
<1>1. [Idle EXCEPT !.pc = "observe", !.kind = "monitor",
                   !.watch = planMonitorTarget(p)].snap.base = 0
  BY IdleBaseline DEF Idle
<1> QED BY <1>1, IdleBaseline DEF StartMonitor, Leaves

LEMMA ContentInit == Init => ContentInv
<1> SUFFICES ASSUME Init PROVE ContentInv
  OBVIOUS
<1>1. plan.preflight.valid = FALSE /\ started = 0 /\ \A h \in Procs : req[h].snap.base = 0
  BY IdleBaseline DEF Init, NewPlan, NoPreflight
<1>2. \A k \in 1 .. started : FALSE
  BY <1>1
<1> QED BY <1>1, <1>2, TypeInit
        DEF ContentInv, PreflightWasJudged, SnapshotsShareBaseline, SubmittedContentWasJudged

\* An edit keeps the baseline and drops the verdict.
LEMMA EditContent ==
  ASSUME ContentInv, TypeInv', plan' = applyInputs(plan), UNCHANGED remoteVars,
         SnapshotsShareBaseline'
  PROVE  ContentInv'
<1>1. plan'.preflight.valid = FALSE
  BY DEF applyInputs, NewPlan, NoPreflight
<1> QED BY <1>1
        DEF ContentInv, PreflightWasJudged, SubmittedContentWasJudged, remoteVars

LEMMA EditBaseline == applyInputs(plan).base = plan.base
BY DEF applyInputs, NewPlan

LEMMA UserRequestContent ==
  ASSUME ContentInv, TypeInv', NEW h \in Procs, UserRequest(h)
  PROVE  ContentInv'
<1> USE DEF remoteVars
<1>0. TypeInv /\ SnapshotsShareBaseline /\ plan \in Plan
  BY DEF ContentInv, TypeInv, TypeOK
<1>1. \A k, p : Preflighting(k, p).snap = p
  BY DEF Preflighting, Idle
<1>2. CASE updatePlanParameters(h)
  <2>1. plan' = applyInputs(plan) /\ plan'.base = plan.base
    BY <1>2, EditBaseline DEF updatePlanParameters
  <2>2. SnapshotsShareBaseline'
    BY <1>0, <1>1, <1>2, <2>1, SlotBaseline DEF updatePlanParameters
  <2> QED BY <1>2, <2>1, <2>2, EditContent DEF updatePlanParameters
<1>3. CASE preflightPlan(h) \/ runPlan(h) \/ createPlan(h)
  <2>1. SameContent /\ SameLedger
    BY <1>0, <1>3, IdTypes, ContentFrame DEF preflightPlan, runPlan, createPlan, SameLedger
  <2>2. PICK r : Becomes(h, r) /\ r.snap.base = plan'.base
    BY <1>1, <1>3 DEF preflightPlan, runPlan, createPlan
  <2>3. SnapshotsShareBaseline'
    BY <1>0, <2>1, <2>2, SlotBaseline DEF SameContent
  <2> QED BY <2>1, <2>3, SameContentKept
<1>4. CASE planExecution(h)
  <2>1. SameContent /\ SameLedger
    BY <1>0, <1>4, ContentFrame DEF planExecution, SameLedger
  <2>2. [Idle EXCEPT !.pc = "observe", !.kind = "poll", !.snap = plan,
                     !.watch = planMonitorTarget(plan)].snap = plan
    BY DEF Idle
  <2>3. SnapshotsShareBaseline'
    BY <1>0, <1>4, <2>1, <2>2, SlotBaseline DEF planExecution, SameContent
  <2> QED BY <2>1, <2>3, SameContentKept
<1> QED BY <1>2, <1>3, <1>4 DEF UserRequest

LEMMA AfterPreflightBaseline ==
  ASSUME TypeInv, NEW h \in Procs, NEW p, AfterPreflight(h, p)
  PROVE  \E r : Becomes(h, r) /\ r.snap.base \in {0, p.base}
<1>1. [req[h] EXCEPT !.pc = "start", !.snap = p].snap = p
  BY DEF TypeInv, TypeOK, Request
<1> QED BY <1>1, IdleBaseline DEF AfterPreflight, Leaves

LEMMA PreflightStepContent ==
  ASSUME ContentInv, TypeInv', NEW h \in Procs,
         FetchBaseline(h) \/ runPlanPreflightOnce(h) \/ RepairFromSchema(h)
  PROVE  ContentInv'
<1> DEFINE snap == req[h].snap
<1>0. /\ TypeInv /\ SnapshotsShareBaseline /\ plan \in Plan /\ req[h] \in Request
      /\ snap.base \in {0, plan.base}
  BY DEF ContentInv, TypeInv, TypeOK, SnapshotsShareBaseline
<1>1. CASE FetchBaseline(h)
  <2>1. PICK b \in Bases : plan' = SetBaseline(plan, b)
    BY <1>1 DEF FetchBaseline
  <2>2. /\ plan'.rev = plan.rev /\ plan'.preflight = plan.preflight
        /\ plan.base \in {0, plan'.base}
    BY <1>0, <2>1 DEF SetBaseline, Keep, Plan
  <2>3. [req[h] EXCEPT !.snap = plan'].snap = plan'
    BY <1>0 DEF Request
  <2>4. SnapshotsShareBaseline'
    BY <1>0, <1>1, <2>2, <2>3, SlotBaseline DEF FetchBaseline
  <2> QED BY <1>1, <2>2, <2>4
          DEF FetchBaseline, ContentInv, PreflightWasJudged, SubmittedContentWasJudged, remoteVars
<1>2. CASE runPlanPreflightOnce(h)
  <2>1. PICK valid \in BOOLEAN :
          /\ valid => snap.base # 0
          /\ judged' = judged \cup (IF valid THEN {<<snap.base, snap.rev>>} ELSE {})
          /\ \/ snap.rev = plan.rev /\ plan' = SetPreflight(plan, valid)
             \/ plan' = plan
          /\ \E p \in {plan', snap} :
               \/ AfterPreflight(h, p)
               \/ Becomes(h, [req[h] EXCEPT !.pc = "repair", !.snap = p])
    BY <1>2 DEF runPlanPreflightOnce, SetPreflightAllowed
  <2>2. plan'.base = plan.base /\ plan'.rev = plan.rev
    BY <1>0, <2>1 DEF SetPreflight, Plan
  <2>3. PreflightWasJudged'
    <3>1. CASE snap.rev = plan.rev /\ plan' = SetPreflight(plan, valid)
      <4>1. plan'.preflight.valid = valid
        BY <1>0, <3>1 DEF SetPreflight, Plan
      <4>2. valid => plan.base = snap.base /\ plan.base # 0
        BY <1>0, <2>1
      <4> QED BY <2>1, <2>2, <3>1, <4>1, <4>2 DEF PreflightWasJudged
    <3>2. CASE plan' = plan
      BY <2>1, <3>2 DEF PreflightWasJudged, ContentInv
    <3> QED BY <2>1, <3>1, <3>2
  <2>4. SubmittedContentWasJudged'
    BY <1>2, <2>1 DEF runPlanPreflightOnce, SubmittedContentWasJudged, ContentInv
  <2>5. SnapshotsShareBaseline'
    <3>1. \A p : [req[h] EXCEPT !.pc = "repair", !.snap = p].snap = p
      BY <1>0 DEF Request
    <3>2. PICK p \in {plan', snap} :
               \/ AfterPreflight(h, p)
               \/ Becomes(h, [req[h] EXCEPT !.pc = "repair", !.snap = p])
      BY <2>1
    <3>3. p.base \in {0, plan'.base}
      BY <1>0, <2>2
    <3>4. PICK r : Becomes(h, r) /\ r.snap.base \in {0, p.base}
      <4>1. CASE AfterPreflight(h, p)
        BY <1>0, <4>1, AfterPreflightBaseline
      <4>2. CASE Becomes(h, [req[h] EXCEPT !.pc = "repair", !.snap = p])
        BY <3>1, <4>2
      <4> QED BY <3>2, <4>1, <4>2
    <3> QED BY <1>0, <2>2, <3>3, <3>4, SlotBaseline
  <2> QED BY <2>3, <2>4, <2>5 DEF ContentInv
<1>3. CASE RepairFromSchema(h)
  <2>1. CASE applyInputsAllowed(plan, snap.rev)
    <3>1. plan' = applyInputs(plan) /\ plan'.base = plan.base
      BY <1>3, <2>1, EditBaseline DEF RepairFromSchema
    <3>2. [req[h] EXCEPT !.pc = "validate", !.snap = plan', !.repairs = @ + 1].snap = plan'
      BY <1>0 DEF Request
    <3>3. SnapshotsShareBaseline'
      BY <1>0, <1>3, <2>1, <3>1, <3>2, SlotBaseline DEF RepairFromSchema
    <3> QED BY <1>3, <3>1, <3>3, EditContent DEF RepairFromSchema
  <2>2. CASE ~applyInputsAllowed(plan, snap.rev)
    <3>1. SameContent /\ SameLedger
      BY <1>0, <1>3, <2>2, ContentFrame DEF RepairFromSchema, SameLedger, remoteVars
    <3>2. PICK r : Becomes(h, r) /\ r.snap.base \in {0, snap.base}
      BY <1>0, <1>3, <2>2, AfterPreflightBaseline DEF RepairFromSchema
    <3>3. SnapshotsShareBaseline'
      BY <1>0, <3>1, <3>2, SlotBaseline DEF SameContent
    <3> QED BY <3>1, <3>3, SameContentKept
  <2> QED BY <2>1, <2>2
<1> QED BY <1>1, <1>2, <1>3

LEMMA RunStepContent ==
  ASSUME ContentInv, TypeInv', NEW h \in Procs,
         RefuseRun(h) \/ StartRun(h) \/ submitPlanToFlow360(h) \/ PersistRun(h)
  PROVE  ContentInv'
<1> USE DEF remoteVars
<1> DEFINE snap == req[h].snap
<1>0. /\ TypeInv /\ SnapshotsShareBaseline /\ plan \in Plan /\ req[h] \in Request
      /\ attempts \in [AttemptNo -> Attempt] /\ snap.base \in {0, plan.base}
  BY DEF ContentInv, TypeInv, TypeOK, SnapshotsShareBaseline
<1>1. CASE RefuseRun(h)
  <2>1. SameContent /\ SameLedger
    BY <1>0, <1>1, ContentFrame DEF RefuseRun, SameLedger
  <2>2. SnapshotsShareBaseline'
    BY <1>0, <1>1, <2>1, IdleBaseline, SlotBaseline DEF RefuseRun, Leaves, SameContent
  <2> QED BY <2>1, <2>2, SameContentKept
<1>2. CASE StartRun(h)
  <2>1. /\ PreflightCurrent(plan) /\ started' = started + 1 /\ started' \in AttemptNo
        /\ judged' = judged
    BY <1>0, <1>2, PlanAssumption
    DEF StartRun, RunAdmitted, SetRunningAllowed, AttemptNo, TypeInv, TypeOK, PlanAssumption
  <2>2. /\ plan'.base = plan.base /\ plan'.rev = plan.rev
        /\ plan'.preflight = plan.preflight
    BY <1>0, <1>2 DEF StartRun, SetRunning, Plan
  <2>3. /\ attempts'[started'].rev = plan.rev /\ attempts'[started'].base = plan.base
        /\ \A k \in 1 .. started : attempts'[k] = attempts[k]
    BY <1>0, <1>2, <2>1, PlanAssumption
    DEF StartRun, NoAttempt, AttemptNo, TypeInv, TypeOK, PlanAssumption
  <2>4. <<plan.base, plan.rev>> \in judged
    BY <2>1 DEF PreflightCurrent, ContentInv, PreflightWasJudged
  <2>5. SubmittedContentWasJudged'
    <3>1. ASSUME NEW k \in 1 .. started'
          PROVE  <<attempts'[k].base, attempts'[k].rev>> \in judged
      <4>1. CASE k = started'
        BY <2>3, <2>4, <4>1
      <4>2. CASE k # started'
        <5>1. k \in 1 .. started
          BY <1>0, <2>1, <4>2 DEF TypeInv, TypeOK
        <5> QED BY <2>3, <5>1 DEF ContentInv, SubmittedContentWasJudged
      <4> QED BY <4>1, <4>2
    <3> QED BY <2>1, <3>1 DEF SubmittedContentWasJudged
  <2>6. [req[h] EXCEPT !.pc = "submit", !.snap = plan'].snap = plan'
    BY <1>0 DEF Request
  <2>7. SnapshotsShareBaseline'
    BY <1>0, <1>2, <2>2, <2>6, SlotBaseline DEF StartRun
  <2> QED BY <2>1, <2>2, <2>5, <2>7 DEF ContentInv, PreflightWasJudged
<1>3. CASE submitPlanToFlow360(h)
  <2> DEFINE k == snap.submission
  <2>1. PICK d : \/ attempts' = [attempts EXCEPT ![k].state = "live", ![k].draft = d]
                 \/ attempts' = [attempts EXCEPT ![k].draft = d]
                 \/ attempts' = attempts
    BY <1>3 DEF submitPlanToFlow360
  <2>2. \A i \in AttemptNo : attempts'[i].rev = attempts[i].rev /\ attempts'[i].base = attempts[i].base
    <3>1. CASE attempts' = [attempts EXCEPT ![k].state = "live", ![k].draft = d]
      BY <1>0, <3>1 DEF Attempt
    <3>2. CASE attempts' = [attempts EXCEPT ![k].draft = d]
      BY <1>0, <3>2 DEF Attempt
    <3> QED BY <2>1, <3>1, <3>2
  <2>3. SameContent /\ SameLedger
    BY <1>0, <1>3, <2>2, ContentFrame DEF submitPlanToFlow360, SameLedger
  <2>4. PICK a, ids : Becomes(h, [req[h] EXCEPT !.pc = "reply", !.answer = a, !.ids = ids])
    BY <1>3 DEF submitPlanToFlow360
  <2>5. PICK r : Becomes(h, r) /\ r.snap = snap
    <3>1. [req[h] EXCEPT !.pc = "reply", !.answer = a, !.ids = ids].snap = snap
      BY <1>0 DEF Request
    <3> QED BY <2>4, <3>1
  <2>6. SnapshotsShareBaseline'
    BY <1>0, <2>3, <2>5, SlotBaseline DEF SameContent
  <2> QED BY <2>3, <2>6, SameContentKept
<1>4. CASE PersistRun(h)
  <2>1. CASE req[h].answer = "ok"
    <3>1. SameContent /\ SameLedger
      BY <1>0, <1>4, <2>1, ContentFrame DEF PersistRun, SameLedger, Request
    <3>2. SnapshotsShareBaseline'
      BY <1>0, <1>4, <2>1, <3>1, MonitorBaseline, SlotBaseline DEF PersistRun, SameContent
    <3> QED BY <3>1, <3>2, SameContentKept
  <2>2. CASE req[h].answer # "ok"
    <3>1. SameContent /\ SameLedger
      BY <1>0, <1>4, <2>2, ContentFrame, FailureLedger DEF PersistRun, RecordFailure
    <3>2. SnapshotsShareBaseline'
      BY <1>0, <1>4, <2>2, <3>1, IdleBaseline, SlotBaseline DEF PersistRun, Leaves, SameContent
    <3> QED BY <3>1, <3>2, SameContentKept
  <2> QED BY <2>1, <2>2
<1> QED BY <1>1, <1>2, <1>3, <1>4

LEMMA BackgroundStepContent ==
  ASSUME ContentInv, TypeInv', NEW h \in Procs, ObservePoll(h) \/ BackgroundStep(h)
  PROVE  ContentInv'
<1> USE DEF remoteVars
<1> DEFINE snap == req[h].snap
<1>0. /\ TypeInv /\ SnapshotsShareBaseline /\ req[h] \in Request
      /\ snap.base \in {0, plan.base}
  BY DEF ContentInv, TypeInv, TypeOK, SnapshotsShareBaseline
<1>1. SameContent /\ SameLedger
  <2>1. CASE RecordOutcome(h)
    <3>1. SameContent
      BY <1>0, <2>1, ContentFrame DEF RecordOutcome, RecordFailure
    <3>2. SameLedger
      BY <1>0, <2>1, FailureLedger DEF RecordOutcome, SameLedger
    <3> QED BY <3>1, <3>2
  <2>2. CASE AdoptSubmission(h)
    BY <1>0, <2>2, ContentFrame DEF AdoptSubmission, SameLedger, Request
  <2>3. CASE ObservePoll(h) \/ ObserveMonitor(h) \/ handleMonitorTimeout(h)
               \/ reconcileInterruptedPlans(h) \/ FindDraftByName(h)
    BY <1>0, <2>3, ContentFrame
    DEF ObservePoll, ObserveMonitor, handleMonitorTimeout, reconcileInterruptedPlans,
        FindDraftByName, MarkReconcilePending, SameLedger
  <2> QED BY <2>1, <2>2, <2>3 DEF BackgroundStep
<1>2. \E r : Becomes(h, r) /\ r.snap.base \in {0, plan.base}
  <2>1. /\ \A a : [req[h] EXCEPT !.pc = "settle", !.answer = a].snap = snap
        /\ [req[h] EXCEPT !.pc = "lookup"].snap = snap
        /\ \A ids : [req[h] EXCEPT !.pc = "adopt", !.ids = ids].snap = snap
    BY <1>0 DEF Request
  <2>2. CASE ObservePoll(h) \/ ObserveMonitor(h) \/ handleMonitorTimeout(h) \/ RecordOutcome(h)
    BY <1>0, <2>1, <2>2, IdleBaseline
    DEF ObservePoll, ObserveMonitor, handleMonitorTimeout, RecordOutcome, Leaves
  <2>3. CASE reconcileInterruptedPlans(h)
    BY <1>0, <2>1, <2>3, IdleBaseline, MonitorBaseline DEF reconcileInterruptedPlans, Leaves
  <2>4. CASE FindDraftByName(h) \/ AdoptSubmission(h)
    BY <1>0, <2>1, <2>4, IdleBaseline, MonitorBaseline DEF FindDraftByName, AdoptSubmission, Leaves
  <2> QED BY <2>2, <2>3, <2>4 DEF BackgroundStep
<1>3. SnapshotsShareBaseline'
  BY <1>0, <1>1, <1>2, SlotBaseline DEF SameContent
<1> QED BY <1>1, <1>3, SameContentKept

LEMMA EnvironmentStepContent ==
  ASSUME ContentInv, TypeInv',
         approvePlan \/ Crash \/ Restart \/ (\E k \in AttemptNo : RemoteEnds(k))
  PROVE  ContentInv'
<1> USE DEF remoteVars
<1>0. TypeInv /\ SnapshotsShareBaseline /\ plan \in Plan
  BY DEF ContentInv, TypeInv, TypeOK
<1>1. CASE approvePlan
  <2>1. SameContent /\ SameLedger
    BY <1>0, <1>1 DEF approvePlan, SameContent, SameLedger, Plan
  <2>2. SnapshotsShareBaseline'
    BY <1>0, <1>1, <2>1 DEF approvePlan, SnapshotsShareBaseline, SameContent
  <2> QED BY <2>1, <2>2, SameContentKept
<1>2. CASE Crash
  <2>1. SameContent /\ SameLedger
    BY <1>0, <1>2, ContentFrame DEF Crash, SameLedger
  <2>2. SnapshotsShareBaseline'
    BY <1>2, IdleBaseline DEF Crash, SnapshotsShareBaseline
  <2> QED BY <2>1, <2>2, SameContentKept
<1>3. CASE Restart
  <2>1. SameContent /\ SameLedger
    BY <1>0, <1>3, ContentFrame DEF Restart, SameLedger
  <2>2. [Idle EXCEPT !.pc = "list", !.kind = "startup"].snap.base = 0
    BY IdleBaseline DEF Idle
  <2>3. SnapshotsShareBaseline'
    BY <1>0, <1>3, <2>1, <2>2, SlotBaseline DEF Restart, SameContent
  <2> QED BY <2>1, <2>3, SameContentKept
<1>4. ASSUME NEW k \in AttemptNo, RemoteEnds(k) PROVE ContentInv'
  <2>1. \A i \in AttemptNo : attempts'[i].rev = attempts[i].rev /\ attempts'[i].base = attempts[i].base
    BY <1>0, <1>4 DEF RemoteEnds, TypeInv, TypeOK, Attempt
  <2>2. SameContent /\ SameLedger
    BY <1>0, <1>4, <2>1, ContentFrame DEF RemoteEnds, SameLedger
  <2>3. SnapshotsShareBaseline'
    BY <1>0, <1>4 DEF RemoteEnds, SnapshotsShareBaseline
  <2> QED BY <2>2, <2>3, SameContentKept
<1> QED BY <1>1, <1>2, <1>3, <1>4

LEMMA ContentStep == ContentInv /\ [Next]_vars => ContentInv'
<1> SUFFICES ASSUME ContentInv, [Next]_vars PROVE ContentInv'
  OBVIOUS
<1>0. TypeInv'
  BY TypeStep DEF ContentInv
<1>1. CASE approvePlan \/ Crash \/ Restart \/ (\E k \in AttemptNo : RemoteEnds(k))
  BY <1>0, <1>1, EnvironmentStepContent
<1>2. ASSUME NEW h \in Procs, UserRequest(h) PROVE ContentInv'
  BY <1>0, <1>2, UserRequestContent
<1>3. ASSUME NEW h \in Procs, RequestStep(h) PROVE ContentInv'
  BY <1>0, <1>3, PreflightStepContent, RunStepContent, BackgroundStepContent DEF RequestStep
<1>4. ASSUME NEW h \in Procs, BackgroundStep(h) PROVE ContentInv'
  BY <1>0, <1>4, BackgroundStepContent
<1>5. CASE UNCHANGED vars
  BY <1>0, <1>5
  DEF vars, ContentInv, PreflightWasJudged, SnapshotsShareBaseline, SubmittedContentWasJudged
<1> QED BY <1>1, <1>2, <1>3, <1>4, <1>5 DEF Next

\* Every submission carries parameters, and a baseline, that the Flow360
\* validator found valid together.
THEOREM SubmissionSound == Spec => []SubmittedContentWasJudged
<1>1. Spec => []ContentInv
  BY ContentInit, ContentStep, PTL DEF Spec
<1>2. ContentInv => SubmittedContentWasJudged
  BY DEF ContentInv
<1> QED BY <1>1, <1>2, PTL
-----------------------------------------------------------------------------
(***************************************************************************)
(* A plan shown as running is being submitted.  Only StartRun makes it     *)
(* running, and its goroutine is the one that submits; that one gives up   *)
(* its slot only in the step that ends "running", or in a crash.           *)
(***************************************************************************)
Submitting == {"submit", "reply"}

\* The step does not make the plan running, nor changes what it is running for.
NotStarted ==
  plan'.status = "running" => plan.status = "running" /\ plan'.submission = plan.submission

\* Of the store's methods only SetRunning starts a plan.
LEMMA StoreStartsNothing ==
  ASSUME TypeInv,
         \/ plan' = plan
         \/ \E b \in Bases : plan' = SetBaseline(plan, b)
         \/ \E v \in BOOLEAN : plan' = SetPreflight(plan, v)
         \/ \E ids \in RemoteIDs : plan' = MarkSubmitted(plan, ids) \/ plan' = SetRemoteIDs(plan, ids)
         \/ plan' = MarkComplete(plan)
         \/ plan' = MarkFailed(plan)
         \/ plan' = applyInputs(plan)
  PROVE  NotStarted
<1>0. plan \in Plan
  BY DEF TypeInv, TypeOK
<1>1. ASSUME NEW b \in Bases, plan' = SetBaseline(plan, b) PROVE NotStarted
  BY <1>0, <1>1 DEF SetBaseline, Plan, NotStarted
<1>2. ASSUME NEW v \in BOOLEAN, plan' = SetPreflight(plan, v) PROVE NotStarted
  BY <1>0, <1>2 DEF SetPreflight, Plan, NotStarted
<1>3. ASSUME NEW ids \in RemoteIDs, plan' = MarkSubmitted(plan, ids) PROVE NotStarted
  BY <1>0, <1>3 DEF MarkSubmitted, Plan, NotStarted
<1>4. ASSUME NEW ids \in RemoteIDs, plan' = SetRemoteIDs(plan, ids) PROVE NotStarted
  BY <1>0, <1>4 DEF SetRemoteIDs, Plan, NotStarted
<1>5. CASE plan' = MarkComplete(plan) \/ plan' = MarkFailed(plan)
  BY <1>0, <1>5 DEF MarkComplete, MarkFailed, Plan, NotStarted
<1>6. CASE plan' = applyInputs(plan)
  BY <1>0, <1>6 DEF applyInputs, NewPlan, NotStarted
<1>7. CASE plan' = plan
  BY <1>7 DEF NotStarted
<1> QED BY <1>1, <1>2, <1>3, <1>4, <1>5, <1>6, <1>7

\* A goroutine that is not submitting may do what it likes with its slot.
LEMMA OthersKeepRunner ==
  ASSUME TypeInv, RunningHasItsRunner, NotStarted, up' = up,
         NEW h \in Procs, req[h].pc \notin Submitting, NEW r, Becomes(h, r)
  PROVE  RunningHasItsRunner'
<1>1. req \in [Procs -> Request]
  BY DEF TypeInv, TypeOK
<1>2. SUFFICES ASSUME up, plan.status = "running", plan'.submission = plan.submission
               PROVE  \E g \in Procs : req'[g].pc \in Submitting
                                       /\ req'[g].snap.submission = plan'.submission
  BY DEF NotStarted, RunningHasItsRunner, Submitting
<1>3. PICK g \in Procs : req[g].pc \in Submitting /\ req[g].snap.submission = plan.submission
  BY <1>2 DEF RunningHasItsRunner, Submitting
<1>4. req'[g] = req[g]
  BY <1>1, <1>3 DEF Becomes
<1> QED BY <1>2, <1>3, <1>4

LEMMA RunnerStep == TypeInv /\ RunningHasItsRunner /\ [Next]_vars => RunningHasItsRunner'
<1> SUFFICES ASSUME TypeInv, RunningHasItsRunner, [Next]_vars PROVE RunningHasItsRunner'
  OBVIOUS
<1> USE DEF processVars, remoteVars, Submitting
<1>0. plan \in Plan /\ req \in [Procs -> Request]
  BY DEF TypeInv, TypeOK
<1>1. CASE approvePlan
  BY <1>0, <1>1 DEF approvePlan, Plan, RunningHasItsRunner
<1>2. CASE Crash
  BY <1>2 DEF Crash, RunningHasItsRunner
<1>3. CASE Restart
  BY <1>0, <1>3 DEF Restart, recoverInterrupted, Plan, RunningHasItsRunner
<1>4. ASSUME NEW k \in AttemptNo, RemoteEnds(k) PROVE RunningHasItsRunner'
  BY <1>4 DEF RemoteEnds, RunningHasItsRunner
<1>5. ASSUME NEW h \in Procs, UserRequest(h) PROVE RunningHasItsRunner'
  <2>1. req[h].pc \notin Submitting /\ up' = up /\ \E r : Becomes(h, r)
    BY <1>5
    DEF UserRequest, preflightPlan, updatePlanParameters, createPlan, runPlan, planExecution, Free
  <2>2. NotStarted
    BY <1>5, IdTypes, StoreStartsNothing
    DEF UserRequest, preflightPlan, updatePlanParameters, createPlan, runPlan, planExecution
  <2> QED BY <2>1, <2>2, OthersKeepRunner
<1>6. ASSUME NEW h \in Procs, FetchBaseline(h) \/ runPlanPreflightOnce(h) \/ RepairFromSchema(h)
      PROVE  RunningHasItsRunner'
  <2>1. req[h].pc \notin Submitting /\ up' = up
    BY <1>6 DEF FetchBaseline, runPlanPreflightOnce, RepairFromSchema, At
  <2>2. \E r : Becomes(h, r)
    BY <1>6 DEF FetchBaseline, runPlanPreflightOnce, RepairFromSchema, AfterPreflight, Leaves
  <2>3. NotStarted
    BY <1>6, StoreStartsNothing DEF FetchBaseline, runPlanPreflightOnce, RepairFromSchema
  <2> QED BY <2>1, <2>2, <2>3, OthersKeepRunner
<1>7. ASSUME NEW h \in Procs, StartRun(h) PROVE RunningHasItsRunner'
  <2>1. /\ req' = [req EXCEPT ![h] = [req[h] EXCEPT !.pc = "submit", !.snap = plan']]
        /\ req[h] \in Request
    BY <1>0, <1>7 DEF StartRun, Becomes
  <2>2. req'[h].pc = "submit" /\ req'[h].snap.submission = plan'.submission
    BY <1>0, <2>1 DEF Request
  <2> QED BY <2>2 DEF RunningHasItsRunner
<1>8. ASSUME NEW h \in Procs, submitPlanToFlow360(h) PROVE RunningHasItsRunner'
  <2>1. PICK a, ids : req' = [req EXCEPT ![h] = [req[h] EXCEPT !.pc = "reply", !.answer = a, !.ids = ids]]
    BY <1>8 DEF submitPlanToFlow360, Becomes
  <2>2. req[h] \in Request /\ req'[h].pc = "reply" /\ req'[h].snap = req[h].snap
    BY <1>0, <2>1 DEF Request
  <2>3. \A g \in Procs : req[g].pc \in Submitting =>
          req'[g].pc \in Submitting /\ req'[g].snap = req[g].snap
    BY <1>0, <2>1, <2>2
  <2>4. plan' = plan /\ up' = up
    BY <1>8 DEF submitPlanToFlow360
  <2> QED BY <2>3, <2>4 DEF RunningHasItsRunner
<1>9. ASSUME NEW h \in Procs, PersistRun(h) PROVE RunningHasItsRunner'
  <2>1. plan'.status \in {"submitted", "failed"}
    BY <1>0, <1>9 DEF PersistRun, RecordFailure, MarkSubmitted, MarkFailed, Plan
  <2> QED BY <2>1 DEF RunningHasItsRunner
<1>10. ASSUME NEW h \in Procs, RefuseRun(h) \/ ObservePoll(h) \/ BackgroundStep(h)
       PROVE  RunningHasItsRunner'
  <2> USE DEF RefuseRun, ObservePoll, BackgroundStep, ObserveMonitor, handleMonitorTimeout,
              RecordOutcome, reconcileInterruptedPlans, FindDraftByName, AdoptSubmission
  <2>1. req[h].pc \notin Submitting /\ up' = up
    BY <1>10 DEF At
  <2>2. \E r : Becomes(h, r)
    BY <1>10 DEF Leaves, StartMonitor
  <2>3. NotStarted
    BY <1>0, <1>10, StoreStartsNothing DEF MarkReconcilePending, RecordFailure, Request
  <2> QED BY <2>1, <2>2, <2>3, OthersKeepRunner
<1>11. CASE UNCHANGED vars
  BY <1>11 DEF vars, RunningHasItsRunner
<1> QED BY <1>1, <1>2, <1>3, <1>4, <1>5, <1>6, <1>7, <1>8, <1>9, <1>10, <1>11
        DEF Next, RequestStep

\* A plan on disk never says "running" with nobody submitting it, except
\* between a crash and the restart that repairs it.
THEOREM RunsHaveRunners == Spec => []RunningHasItsRunner
<1>1. Init => RunningHasItsRunner
  BY DEF Init, NewPlan, RunningHasItsRunner
<1>2. Init => TypeInv
  BY TypeInit
<1>3. TypeInv /\ RunningHasItsRunner /\ [Next]_vars => (TypeInv /\ RunningHasItsRunner)'
  BY TypeStep, RunnerStep
<1> QED BY <1>1, <1>2, <1>3, PTL DEF Spec
-----------------------------------------------------------------------------
(***************************************************************************)
(* ViewerAssets.  What the loads and the cache are made of, and what holds *)
(* of them at every moment of a task.                                      *)
(***************************************************************************)
Managed == Urls \ Gltf      \* the manifests whose assets the cache keeps
LoadRecords == [st : {"free", "manifest", "buffers", "failed"}, url : Urls \union {NoUrl}, level : VA!Levels,
                left : 0 .. Buffers, aborted : BOOLEAN, reports : BOOLEAN]
EntryRecords == [st : {"none", "loading", "ready"}, load : Loads \union {0}, refs : Nat, prefetched : BOOLEAN]
Stores == [loads : [Loads -> LoadRecords], entries : [Urls -> EntryRecords], recent : Seq(Urls), gone : SUBSET Urls]

\* A load that fetches buffers has some left; only GLTFLoader goes on when it is aborted.
LoadFits(d) == (d.st \in {"buffers", "failed"} => d.left > 0) /\ (d.aborted => d.url \in Gltf)
\* An entry that loads has a load of its own; one that was disposed is not
\* there, unless it is loaded anew.
EntryFits(s, u) ==
    /\ s.entries[u].st = "none" => s.entries[u] = VA!NoEntry
    /\ s.entries[u].st = "ready" => s.entries[u].load = 0
    /\ s.entries[u].st = "loading" =>
         /\ s.entries[u].load \in Loads
         /\ s.loads[s.entries[u].load].url = u /\ s.loads[s.entries[u].load].st \in {"manifest", "buffers"}
    /\ u \in Gltf => s.entries[u].st = "none"
    /\ u \in s.gone => u \in Managed /\ s.entries[u].st # "ready"
Listed(s) == {u \in Urls : s.entries[u].st # "none"}
StoreFits(s) ==
    /\ s \in Stores /\ \A l \in Loads : LoadFits(s.loads[l])
    /\ \A u \in Urls : EntryFits(s, u)
    /\ VA!IsInjective(s.recent) /\ VA!ToSet(s.recent) = Listed(s)

\* Assets that are ready and too many are all in use.
Loaded(s) == {u \in Urls : s.entries[u].st = "ready"}
Bounded(s) == Cardinality(Loaded(s)) > Capacity => \A u \in Listed(s) : ~VA!Evictable(s, u)

\* What is left of the loads when the cache has dropped some of its own.
LoadsLeft(s, t) ==
    \A l \in Loads : t.loads[l] = s.loads[l] \/ (t.loads[l] = VA!FreeLoad /\ s.loads[l].url \notin Gltf)
\* Holds were given back, and what is still held is there as before.
Fewer(s, t) ==
    \A u \in Urls : /\ t.entries[u].refs <= s.entries[u].refs
                    /\ t.entries[u].refs > 0 => t.entries[u].st = s.entries[u].st
\* A store from which only entries that nobody holds were dropped.
Kept(s, t) == StoreFits(t) /\ LoadsLeft(s, t) /\ Fewer(s, t)

\* How often a manifest is among the first n of a list.
Upto(u, q, n) == Cardinality({i \in 1 .. n : q[i] = u})

\* The layers that are shown, and those of the request.
Viewers == [mounted : BOOLEAN, want : Wants, level : VA!Levels, missing : SUBSET VA!Levels, status : VA!Statuses,
            request : [on : BOOLEAN, urls : Seq(Urls), got : Nat, load : Loads \union {0}, level : VA!Levels],
            shown : [urls : Seq(Urls), level : VA!Levels, alive : BOOLEAN], loaded : Seq(Urls)]
\* The viewer asks for what is wanted, and says it is ready only when it shows that.
AsksAndShowsWanted(v) ==
    /\ v.request.on \/ v.request = VA!NoRequest
    /\ v.request.on => /\ v.request.urls = v.want /\ v.request.level = v.level /\ v.status = "loading"
                       /\ v.request.got < Len(v.request.urls)
    /\ v.status = "ready" => ~v.request.on /\ v.shown.urls = v.want /\ v.shown.level = v.level
Had(s, q, n) == \A i \in 1 .. n : q[i] \in Managed => s.entries[q[i]].st = "ready"
WaitsFor(s, urls, got, load) ==
    /\ Had(s, urls, got)
    /\ urls[got + 1] \in Managed => s.entries[urls[got + 1]].st = "loading" /\ load = 0
    /\ urls[got + 1] \in Gltf =>
         /\ load \in Loads /\ s.loads[load].url \in Gltf
         /\ s.loads[load].st \in {"manifest", "buffers"} /\ ~s.loads[load].aborted
RequestFits(s, r) == WaitsFor(s, r.urls, r.got, r.load)
Held(v, u) == Upto(u, v.shown.urls, Len(v.shown.urls))
              + (IF v.request.on THEN Upto(u, v.request.urls, v.request.got + 1) ELSE 0)
ViewerFits(s, v) ==
    /\ Had(s, v.shown.urls, Len(v.shown.urls)) /\ (v.request.on => RequestFits(s, v.request))
    /\ \A u \in Managed : s.entries[u].refs = Held(v, u)
    /\ v.level = "default"
TaskFits(s, v) ==
    /\ StoreFits(s) /\ Bounded(s) /\ v \in Viewers /\ AsksAndShowsWanted(v) /\ v.shown.alive
    /\ owner.cached => ViewerFits(s, v)
    /\ ~owner.cached => Listed(s) = {}
    /\ v.mounted \/ (~v.request.on /\ v.shown.urls = <<>> /\ Listed(s) = {})
CacheInv == owner \in VA!Owners /\ TaskFits(store, viewer) /\ store.gone = {}

-----------------------------------------------------------------------------
(***************************************************************************)
(* Induction over the steps of a loop, and lists.                          *)
(***************************************************************************)
\* A set of naturals has a least element.
LEMMA LeastNumber ==
  ASSUME NEW T, T \subseteq Nat, T # {}
  PROVE  \E x \in T : \A y \in T : x <= y
<1>1. PICK x \in T : \A y \in T : ~ (<<y, x>> \in OpToRel(<, Nat))
  BY NatLessThanWellFounded, WFMin
<1>2. \A y \in T : ~ (y < x)
  BY <1>1 DEF OpToRel
<1> QED BY <1>2

\* A set that has zero, and with a number the next one, has all up to n.
LEMMA StepByStep ==
  ASSUME NEW n \in Nat, NEW T, 0 \in T, \A i \in 1 .. n : i - 1 \in T => i \in T
  PROVE  \A i \in 0 .. n : i \in T
<1> SUFFICES ASSUME \E i \in 0 .. n : i \notin T PROVE FALSE
  OBVIOUS
<1> DEFINE S == {i \in 0 .. n : i \notin T}
<1>1. PICK x \in S : \A y \in S : x <= y
  <2>1. S \subseteq Nat /\ S # {}
    OBVIOUS
  <2> HIDE DEF S
  <2> QED BY <2>1, LeastNumber
<1>2. x \in 1 .. n
  BY <1>1
<1>3. x - 1 \in T
  BY <1>1, <1>2
<1> QED BY <1>1, <1>2, <1>3

\* A list without one of its members.
LEMMA WithoutIs ==
  ASSUME NEW q \in Seq(Urls), VA!IsInjective(q), NEW u
  PROVE  /\ VA!Without(q, u) \in Seq(Urls) /\ VA!IsInjective(VA!Without(q, u))
         /\ VA!ToSet(VA!Without(q, u)) = VA!ToSet(q) \ {u}
<1>1. CASE u \notin VA!ToSet(q)
  BY <1>1 DEF VA!Without
<1>2. CASE u \in VA!ToSet(q)
  <2> DEFINE p == CHOOSE i \in DOMAIN q : q[i] = u
             w == VA!RemoveAt(q, p)
  <2>1. p \in 1 .. Len(q) /\ q[p] = u /\ Len(q) \in Nat
    BY <1>2 DEF VA!ToSet
  <2>2. \A i \in 1 .. Len(q) : q[i] = u => i = p
    BY <2>1 DEF VA!IsInjective
  <2> HIDE DEF p
  <2>3. w = SubSeq(q, 1, p - 1) \o SubSeq(q, p + 1, Len(q))
    BY DEF VA!RemoveAt
  <2>4. /\ w \in Seq(Urls) /\ Len(w) = Len(q) - 1
        /\ \A i \in 1 .. Len(q) - 1 : w[i] = IF i < p THEN q[i] ELSE q[i + 1]
    <3> DEFINE a == SubSeq(q, 1, p - 1)
               b == SubSeq(q, p + 1, Len(q))
    <3>1. a \in Seq(Urls) /\ Len(a) = p - 1 /\ \A i \in 1 .. p - 1 : a[i] = q[i]
      BY <2>1
    <3>2. b \in Seq(Urls) /\ Len(b) = Len(q) - p /\ \A i \in 1 .. Len(q) - p : b[i] = q[p + i]
      BY <2>1
    <3>3. w = a \o b
      BY <2>3
    <3> HIDE DEF a, b, w
    <3>4. w \in Seq(Urls) /\ Len(w) = Len(a) + Len(b)
      BY <3>1, <3>2, <3>3, ConcatProperties
    <3>5. ASSUME NEW i \in 1 .. Len(q) - 1 PROVE w[i] = IF i < p THEN q[i] ELSE q[i + 1]
      <4>0. w[i] = IF i <= Len(a) THEN a[i] ELSE b[i - Len(a)]
        BY <2>1, <3>1, <3>2, <3>3, ConcatProperties
      <4>1. CASE i < p
        BY <2>1, <3>1, <4>0, <4>1
      <4>2. CASE i >= p
        <5>1. i - Len(a) \in 1 .. Len(q) - p /\ p + (i - Len(a)) = i + 1 /\ ~ (i <= Len(a)) /\ ~ (i < p)
          BY <2>1, <3>1, <4>2
        <5>2. b[i - Len(a)] = q[p + (i - Len(a))]
          BY <3>2, <5>1
        <5> QED BY <4>0, <5>1, <5>2
      <4> QED BY <2>1, <4>1, <4>2
    <3> QED BY <2>1, <3>1, <3>2, <3>4, <3>5
  <2> HIDE DEF w
  <2>5. VA!IsInjective(w)
    <3>1. DOMAIN w = 1 .. Len(q) - 1
      BY <2>4
    <3>2. \A i, j \in 1 .. Len(q) : q[i] = q[j] => i = j
      BY DEF VA!IsInjective
    <3>3. ASSUME NEW i \in 1 .. Len(q) - 1, NEW j \in 1 .. Len(q) - 1, w[i] = w[j] PROVE i = j
      <4> DEFINE k(n) == IF n < p THEN n ELSE n + 1
      <4>1. w[i] = q[k(i)] /\ w[j] = q[k(j)]
        BY <2>4
      <4>2. k(i) \in 1 .. Len(q) /\ k(j) \in 1 .. Len(q)
        BY <2>1
      <4>3. k(i) = k(j)
        BY <3>2, <3>3, <4>1, <4>2
      <4> QED BY <2>1, <4>3
    <3> QED BY <3>1, <3>3 DEF VA!IsInjective
  <2>6. VA!ToSet(w) = VA!ToSet(q) \ {u}
    <3>1. ASSUME NEW i \in 1 .. Len(w) PROVE w[i] \in VA!ToSet(q) \ {u}
      <4>1. CASE i < p
        BY <2>1, <2>2, <2>4, <3>1, <4>1 DEF VA!ToSet
      <4>2. CASE i >= p
        <5>1. i + 1 \in 1 .. Len(q) /\ i + 1 # p
          BY <2>1, <2>4, <3>1, <4>2
        <5> QED BY <2>1, <2>2, <2>4, <3>1, <4>2, <5>1 DEF VA!ToSet
      <4> QED BY <2>1, <4>1, <4>2
    <3>2. ASSUME NEW i \in 1 .. Len(q), q[i] # u PROVE \E j \in 1 .. Len(w) : w[j] = q[i]
      <4>1. i # p
        BY <2>1, <3>2
      <4>2. CASE i < p
        BY <2>1, <2>4, <4>2
      <4>3. CASE i > p
        <5>1. i - 1 \in 1 .. Len(w) /\ ~ (i - 1 < p)
          BY <2>1, <2>4, <4>3
        <5>2. w[i - 1] = q[i]
          BY <2>1, <2>4, <5>1
        <5> QED BY <5>1, <5>2
      <4> QED BY <2>1, <4>1, <4>2, <4>3
    <3>3. VA!ToSet(w) = {w[i] : i \in 1 .. Len(w)} /\ VA!ToSet(q) = {q[i] : i \in 1 .. Len(q)}
      BY <2>4 DEF VA!ToSet
    <3>4. ASSUME NEW x \in VA!ToSet(w) PROVE x \in VA!ToSet(q) \ {u}
      BY <3>1, <3>3
    <3>5. ASSUME NEW x \in VA!ToSet(q) \ {u} PROVE x \in VA!ToSet(w)
      <4>1. PICK i \in 1 .. Len(q) : q[i] = x
        BY <3>3
      <4>2. PICK j \in 1 .. Len(w) : w[j] = x
        BY <3>2, <4>1
      <4> QED BY <3>3, <4>2
    <3> QED BY <3>4, <3>5
  <2>7. VA!Without(q, u) = w
    BY <1>2 DEF VA!Without, w, p
  <2> QED BY <2>4, <2>5, <2>6, <2>7
<1> QED BY <1>1, <1>2

\* A list with one member more, at its end.
LEMMA MovedToEnd ==
  ASSUME NEW q \in Seq(Urls), VA!IsInjective(q), NEW u \in Urls
  PROVE  LET w == Append(VA!Without(q, u), u)
         IN  w \in Seq(Urls) /\ VA!IsInjective(w) /\ VA!ToSet(w) = VA!ToSet(q) \union {u}
<1> DEFINE v == VA!Without(q, u)
           w == Append(v, u)
<1>1. v \in Seq(Urls) /\ VA!IsInjective(v) /\ VA!ToSet(v) = VA!ToSet(q) \ {u}
  BY WithoutIs
<1> HIDE DEF v
<1>2. /\ w \in Seq(Urls) /\ Len(w) = Len(v) + 1 /\ w[Len(v) + 1] = u
      /\ \A i \in 1 .. Len(v) : w[i] = v[i]
  BY <1>1
<1>3. \A i \in 1 .. Len(v) : v[i] # u
  <2>1. DOMAIN v = 1 .. Len(v)
    BY <1>1
  <2> QED BY <1>1, <2>1 DEF VA!ToSet
<1>4. DOMAIN w = 1 .. Len(v) + 1 /\ DOMAIN v = 1 .. Len(v) /\ Len(v) \in Nat
  BY <1>1, <1>2
<1> HIDE DEF w
<1>5. VA!IsInjective(w)
  BY <1>1, <1>2, <1>3, <1>4 DEF VA!IsInjective
<1>6. VA!ToSet(w) = VA!ToSet(v) \union {u}
  BY <1>2, <1>4 DEF VA!ToSet
<1> QED BY <1>1, <1>2, <1>5, <1>6 DEF w, v

\* How often a manifest is among the first of a list.
LEMMA UptoIs ==
  ASSUME NEW u, NEW q, NEW n \in Nat
  PROVE  /\ Upto(u, q, n) \in Nat /\ Upto(u, q, 0) = 0
         /\ n > 0 => Upto(u, q, n) = Upto(u, q, n - 1) + (IF q[n] = u THEN 1 ELSE 0)
         /\ Upto(u, q, n) = 0 <=> \A i \in 1 .. n : q[i] # u
<1> DEFINE Places(m) == {i \in 1 .. m : q[i] = u}
<1>1. \A m \in Nat : IsFiniteSet(Places(m)) /\ Cardinality(Places(m)) \in Nat /\ (Cardinality(Places(m)) = 0 <=> Places(m) = {})
  <2> SUFFICES ASSUME NEW m \in Nat
               PROVE  IsFiniteSet(Places(m)) /\ Cardinality(Places(m)) \in Nat /\ (Cardinality(Places(m)) = 0 <=> Places(m) = {})
    OBVIOUS
  <2>1. IsFiniteSet(1 .. m)
    BY FS_Interval
  <2>2. IsFiniteSet(Places(m))
    BY <2>1, FS_Subset
  <2> HIDE DEF At
  <2> QED BY <2>2, FS_CardinalityType, FS_EmptySet
<1>2. Places(0) = {}
  OBVIOUS
<1>3. n > 0 => Cardinality(Places(n)) = Cardinality(Places(n - 1)) + (IF q[n] = u THEN 1 ELSE 0)
  <2> SUFFICES ASSUME n > 0 PROVE Cardinality(Places(n)) = Cardinality(Places(n - 1)) + (IF q[n] = u THEN 1 ELSE 0)
    OBVIOUS
  <2>1. CASE q[n] = u
    <3>1. Places(n) = Places(n - 1) \union {n} /\ n \notin Places(n - 1) /\ n - 1 \in Nat
      BY <2>1
    <3>2. IsFiniteSet(Places(n - 1))
      BY <1>1, <3>1
    <3> HIDE DEF At
    <3>3. Cardinality(Places(n - 1) \union {n}) = Cardinality(Places(n - 1)) + 1
      BY <3>1, <3>2, FS_AddElement
    <3> QED BY <2>1, <3>1, <3>3
  <2>2. CASE q[n] # u
    <3>1. Places(n) = Places(n - 1) /\ n - 1 \in Nat
      BY <2>2
    <3>2. Cardinality(Places(n - 1)) \in Nat
      BY <1>1, <3>1
    <3> HIDE DEF At
    <3> QED BY <2>2, <3>1, <3>2
  <2> QED BY <2>1, <2>2
<1>4. Places(n) = {} <=> \A i \in 1 .. n : q[i] # u
  OBVIOUS
<1>5. \A m : Upto(u, q, m) = Cardinality(Places(m))
  BY DEF Upto
<1> HIDE DEF At
<1> QED BY <1>1, <1>2, <1>3, <1>4, <1>5

\* The number of elements the module speaks of is that of the library.
LEMMA SameCount == \A S : VA!Cardinality(S) = Cardinality(S)
BY DEF VA!Cardinality, Cardinality

\* The count of the module is this one.
LEMMA CountIs ==
  ASSUME NEW u, NEW q \in Seq(Urls), NEW n \in 0 .. Len(q)
  PROVE  VA!Count(u, q) = Upto(u, q, Len(q)) /\ VA!Count(u, SubSeq(q, 1, n)) = Upto(u, q, n)
<1> DEFINE w == SubSeq(q, 1, n)
<1>1. w \in Seq(Urls) /\ Len(w) = n /\ \A i \in 1 .. n : w[i] = q[i]
  OBVIOUS
<1>2. DOMAIN w = 1 .. n /\ DOMAIN q = 1 .. Len(q)
  BY <1>1
<1> HIDE DEF w
<1> DEFINE Places == {i \in DOMAIN w : w[i] = u}
           All == {i \in DOMAIN q : q[i] = u}
<1>3. Places = {i \in 1 .. n : q[i] = u} /\ All = {i \in 1 .. Len(q) : q[i] = u}
  BY <1>1, <1>2
<1>4. Cardinality(Places) = Upto(u, q, n) /\ Cardinality(All) = Upto(u, q, Len(q))
  BY <1>3 DEF Upto
<1>5. VA!Count(u, w) = VA!Cardinality(Places) /\ VA!Count(u, q) = VA!Cardinality(All)
  BY DEF VA!Count
<1> HIDE DEF Places, All
<1> QED BY <1>4, <1>5, SameCount DEF w

-----------------------------------------------------------------------------
(***************************************************************************)
(* The operations of the store, one at a time.                             *)
(***************************************************************************)
\* An aborted load is free, or goes on as an aborted one.
LEMMA AbortIs ==
  ASSUME VA!ViewerAssetsAssumption, NEW s \in Stores, \A k \in Loads : LoadFits(s.loads[k]), NEW l \in Loads \union {0}
  PROVE  LET t == VA!AbortLoad(s, l)
         IN  /\ t \in Stores /\ t.entries = s.entries /\ t.recent = s.recent /\ t.gone = s.gone
             /\ \A k \in Loads : LoadFits(t.loads[k]) /\ (k # l => t.loads[k] = s.loads[k])
             /\ l \in Loads => IF s.loads[l].url \in Gltf /\ s.loads[l].st # "free"
                               THEN /\ t.loads[l].url = s.loads[l].url /\ t.loads[l].st = s.loads[l].st
                               ELSE t.loads[l] = VA!FreeLoad
<1> DEFINE t == VA!AbortLoad(s, l)
           d == IF s.loads[l].url \in Gltf /\ s.loads[l].st # "free"
                THEN [s.loads[l] EXCEPT !.aborted = TRUE] ELSE VA!FreeLoad
<1>1. CASE l = 0
  BY <1>1 DEF VA!ViewerAssetsAssumption, VA!AbortLoad
<1>2. CASE l # 0
  <2>1. t = [s EXCEPT !.loads = [s.loads EXCEPT ![l] = d]]
    BY <1>2 DEF VA!AbortLoad
  <2>2. l \in Loads /\ s.loads[l] \in LoadRecords /\ LoadFits(s.loads[l])
    BY <1>2 DEF Stores
  <2>3. d \in LoadRecords /\ LoadFits(d)
    <3>1. VA!FreeLoad \in LoadRecords /\ LoadFits(VA!FreeLoad)
      BY DEF VA!ViewerAssetsAssumption, VA!FreeLoad, LoadRecords, LoadFits, VA!Levels
    <3>2. CASE s.loads[l].url \in Gltf /\ s.loads[l].st # "free"
      BY <2>2, <3>2 DEF LoadRecords, LoadFits
    <3> QED BY <3>1, <3>2
  <2>4. /\ s.loads[l].url \in Gltf /\ s.loads[l].st # "free" => d.url = s.loads[l].url /\ d.st = s.loads[l].st
        /\ ~ (s.loads[l].url \in Gltf /\ s.loads[l].st # "free") => d = VA!FreeLoad
    BY <2>2 DEF LoadRecords
  <2>5. s.loads \in [Loads -> LoadRecords]
    BY DEF Stores
  <2> HIDE DEF d, t
  <2>6. t.loads = [s.loads EXCEPT ![l] = d] /\ t.entries = s.entries /\ t.recent = s.recent /\ t.gone = s.gone
    BY <2>1 DEF Stores
  <2>7. t \in Stores
    BY <2>1, <2>2, <2>3, <2>5 DEF Stores
  <2> QED BY <2>2, <2>3, <2>4, <2>5, <2>6, <2>7 DEF t
<1> QED BY <1>1, <1>2

\* What touching an entry changes: the order of the keys.
LEMMA TouchIs ==
  ASSUME NEW s \in Stores, VA!IsInjective(s.recent), NEW u \in Urls
  PROVE  LET t == VA!Touch(s, u)
         IN  /\ t \in Stores /\ t.loads = s.loads /\ t.entries = s.entries /\ t.gone = s.gone
             /\ VA!IsInjective(t.recent) /\ VA!ToSet(t.recent) = VA!ToSet(s.recent) \union {u}
<1> DEFINE t == VA!Touch(s, u)
           w == Append(VA!Without(s.recent, u), u)
<1>1. t = [s EXCEPT !.recent = w]
  BY DEF VA!Touch
<1>2. w \in Seq(Urls) /\ VA!IsInjective(w) /\ VA!ToSet(w) = VA!ToSet(s.recent) \union {u}
  BY MovedToEnd DEF Stores
<1> HIDE DEF w
<1>3. t.recent = w /\ t.loads = s.loads /\ t.entries = s.entries /\ t.gone = s.gone /\ t \in Stores
  BY <1>1, <1>2 DEF Stores
<1> QED BY <1>2, <1>3

\* An entry that is there may be touched.
LEMMA TouchFits ==
  ASSUME NEW s, StoreFits(s), NEW u \in Listed(s)
  PROVE  LET t == VA!Touch(s, u)
         IN  StoreFits(t) /\ t.loads = s.loads /\ t.entries = s.entries /\ t.gone = s.gone
<1> DEFINE t == VA!Touch(s, u)
<1>1. /\ t \in Stores /\ t.loads = s.loads /\ t.entries = s.entries /\ t.gone = s.gone
      /\ VA!IsInjective(t.recent) /\ VA!ToSet(t.recent) = VA!ToSet(s.recent) \union {u}
  BY TouchIs DEF StoreFits, Listed
<1> HIDE DEF t
<1>2. Listed(t) = Listed(s)
  BY <1>1 DEF Listed
<1> QED BY <1>1, <1>2 DEF StoreFits, EntryFits, t

\* What dropping an entry changes.
LEMMA DropFits ==
  ASSUME VA!ViewerAssetsAssumption, NEW s, StoreFits(s), NEW u \in Urls
  PROVE  LET t == VA!Drop(s, u)
         IN  /\ StoreFits(t) /\ LoadsLeft(s, t)
             /\ t.entries = [s.entries EXCEPT ![u] = VA!NoEntry]
<1> DEFINE l == s.entries[u].load
           a == VA!AbortLoad(s, l)
           t == VA!Drop(s, u)
           g == IF s.entries[u].st = "ready" THEN s.gone \union {u} ELSE s.gone
           w == VA!Without(s.recent, u)
<1>1. s \in Stores /\ s.entries[u] \in EntryRecords /\ l \in Loads \union {0} /\ EntryFits(s, u)
  BY DEF StoreFits, Stores, EntryRecords
<1>2. /\ a \in Stores /\ a.entries = s.entries /\ a.recent = s.recent /\ a.gone = s.gone
      /\ \A k \in Loads : LoadFits(a.loads[k]) /\ (k # l => a.loads[k] = s.loads[k])
      /\ l \in Loads => IF s.loads[l].url \in Gltf /\ s.loads[l].st # "free"
                        THEN /\ a.loads[l].url = s.loads[l].url /\ a.loads[l].st = s.loads[l].st
                        ELSE a.loads[l] = VA!FreeLoad
  BY <1>1, AbortIs DEF StoreFits
<1>3. l \in Loads => s.loads[l].url = u /\ u \notin Gltf
  BY <1>1 DEF EntryFits, VA!NoEntry, VA!ViewerAssetsAssumption, EntryRecords
<1>4. t = [a EXCEPT !.entries = [a.entries EXCEPT ![u] = VA!NoEntry], !.recent = VA!Without(a.recent, u),
                    !.gone = IF s.entries[u].st = "ready" THEN a.gone \union {u} ELSE a.gone]
  BY DEF VA!Drop
<1>5. w \in Seq(Urls) /\ VA!IsInjective(w) /\ VA!ToSet(w) = VA!ToSet(s.recent) \ {u}
  BY WithoutIs DEF StoreFits, Stores
<1>6. VA!NoEntry \in EntryRecords
  BY DEF VA!NoEntry, EntryRecords
<1>7. g \subseteq Urls
  BY <1>1 DEF Stores
<1> HIDE DEF l, a, t, w, g
<1>8. /\ t.loads = a.loads /\ t.entries = [s.entries EXCEPT ![u] = VA!NoEntry] /\ t.recent = w /\ t.gone = g
  BY <1>2, <1>4 DEF Stores, w, g
<1>9. t \in Stores
  <2>1. t.entries \in [Urls -> EntryRecords]
    BY <1>1, <1>6, <1>8 DEF Stores
  <2> QED BY <1>2, <1>4, <1>5, <1>7, <1>8, <2>1 DEF Stores
<1>10. LoadsLeft(s, t)
  BY <1>2, <1>3, <1>8 DEF LoadsLeft
<1>11. \A x \in Urls : EntryFits(t, x)
  <2> SUFFICES ASSUME NEW x \in Urls PROVE EntryFits(t, x)
    OBVIOUS
  <2>1. s.entries \in [Urls -> EntryRecords] /\ EntryFits(s, x)
    BY <1>1 DEF StoreFits, Stores
  <2>2. CASE x = u
    <3>1. t.entries[x] = VA!NoEntry
      BY <1>8, <2>1, <2>2
    <3>2. x \in t.gone => x \in Managed
      BY <1>1, <1>8, <2>2 DEF g, EntryFits, Managed
    <3> QED BY <3>1, <3>2 DEF EntryFits, VA!NoEntry
  <2>3. CASE x # u
    <3>1. t.entries[x] = s.entries[x] /\ (x \in t.gone => x \in s.gone)
      BY <1>8, <2>1, <2>3 DEF g
    <3>2. s.entries[x].st = "loading" => t.loads[s.entries[x].load] = s.loads[s.entries[x].load]
      <4>1. s.entries[x].st = "loading" => s.entries[x].load \in Loads /\ s.entries[x].load # l
        BY <1>3, <2>1, <2>3 DEF EntryFits
      <4> QED BY <1>2, <1>8, <4>1
    <3> QED BY <2>1, <3>1, <3>2 DEF EntryFits
  <2> QED BY <2>2, <2>3
<1>12. VA!ToSet(t.recent) = Listed(t)
  <2>1. Listed(t) = Listed(s) \ {u}
    BY <1>1, <1>8 DEF Listed, VA!NoEntry, Stores
  <2> QED BY <1>5, <1>8, <2>1 DEF StoreFits
<1>13. StoreFits(t)
  BY <1>2, <1>5, <1>8, <1>9, <1>11, <1>12 DEF StoreFits
<1> QED BY <1>8, <1>10, <1>13 DEF t

-----------------------------------------------------------------------------
(***************************************************************************)
(* The loops of the module are functions that are defined by recursion:    *)
(* each has the values that its definition says, since a function with     *)
(* those values can be built step by step.                                 *)
(***************************************************************************)
\* The sweep is its steps, one entry after the other.
LEMMA SweptIs ==
  ASSUME NEW s, NEW why, Len(s.recent) \in Nat
  PROVE  \A n \in 0 .. Len(s.recent) : VA!Swept(s, why)[n] = IF n = 0 THEN s
                       ELSE IF VA!Goes(why, VA!Swept(s, why)[n - 1], s.recent[n])
                       THEN VA!Drop(VA!Swept(s, why)[n - 1], s.recent[n])
                       ELSE VA!Swept(s, why)[n - 1]
<1> DEFINE N == Len(s.recent)
           F(h, n) == IF n = 0 THEN s
                       ELSE IF VA!Goes(why, h[n - 1], s.recent[n]) THEN VA!Drop(h[n - 1], s.recent[n])
                       ELSE h[n - 1]
           W(f, m) == DOMAIN f = 0 .. m /\ \A n \in 0 .. m : f[n] = F(f, n)
           T == {m \in 0 .. N : \E f : W(f, m)}
<1>0. N \in Nat
  OBVIOUS
<1>1. 0 \in T
  <2>1. W([i \in 0 .. 0 |-> F(<<>>, 0)], 0)
    OBVIOUS
  <2> HIDE DEF W
  <2> QED BY <1>0, <2>1
<1>2. ASSUME NEW m \in 1 .. N, m - 1 \in T PROVE m \in T
  <2>1. PICK f : W(f, m - 1)
    BY <1>2
  <2> DEFINE g == [i \in 0 .. m |-> IF i = m THEN F(f, m) ELSE f[i]]
  <2>2. W(g, m)
    BY <2>1
  <2> HIDE DEF W, g
  <2> QED BY <2>2
<1>3. PICK f : W(f, N)
  <2>1. \A i \in 1 .. N : i - 1 \in T => i \in T
    BY <1>2
  <2>2. N \in 0 .. N
    BY <1>0
  <2> HIDE DEF T, N
  <2>3. N \in T
    BY <1>0, <1>1, <2>1, <2>2, StepByStep
  <2> QED BY <2>3 DEF T
<1> DEFINE E(h) == [n \in 0 .. N |-> F(h, n)]
<1>4. [i \in 0 .. N |-> f[i]] = E([i \in 0 .. N |-> f[i]])
  BY <1>3
<1>5. VA!Swept(s, why) = CHOOSE h : h = E(h)
  BY DEF VA!Swept
<1>6. VA!Swept(s, why) = E(VA!Swept(s, why))
  BY <1>4, <1>5
<1> QED BY <1>6

\* Layers are given back one after the other.
LEMMA GivenIs ==
  ASSUME NEW s, NEW urls \in Seq(Urls)
  PROVE  \A n \in 0 .. Len(urls) : VA!Given(s, urls)[n] = IF n = 0 THEN s
                       ELSE IF urls[n] \in Gltf THEN VA!Given(s, urls)[n - 1] ELSE VA!Release(VA!Given(s, urls)[n - 1], urls[n])
<1> DEFINE N == Len(urls)
           F(h, n) == IF n = 0 THEN s
                       ELSE IF urls[n] \in Gltf THEN h[n - 1] ELSE VA!Release(h[n - 1], urls[n])
           W(f, m) == DOMAIN f = 0 .. m /\ \A n \in 0 .. m : f[n] = F(f, n)
           T == {m \in 0 .. N : \E f : W(f, m)}
<1>0. N \in Nat
  OBVIOUS
<1>1. 0 \in T
  <2>1. W([i \in 0 .. 0 |-> F(<<>>, 0)], 0)
    OBVIOUS
  <2> HIDE DEF W
  <2> QED BY <1>0, <2>1
<1>2. ASSUME NEW m \in 1 .. N, m - 1 \in T PROVE m \in T
  <2>1. PICK f : W(f, m - 1)
    BY <1>2
  <2> DEFINE g == [i \in 0 .. m |-> IF i = m THEN F(f, m) ELSE f[i]]
  <2>2. W(g, m)
    BY <2>1
  <2> HIDE DEF W, g
  <2> QED BY <2>2
<1>3. PICK f : W(f, N)
  <2>1. \A i \in 1 .. N : i - 1 \in T => i \in T
    BY <1>2
  <2>2. N \in 0 .. N
    BY <1>0
  <2> HIDE DEF T, N
  <2>3. N \in T
    BY <1>0, <1>1, <2>1, <2>2, StepByStep
  <2> QED BY <2>3 DEF T
<1> DEFINE E(h) == [n \in 0 .. N |-> F(h, n)]
<1>4. [i \in 0 .. N |-> f[i]] = E([i \in 0 .. N |-> f[i]])
  BY <1>3
<1>5. VA!Given(s, urls) = CHOOSE h : h = E(h)
  BY DEF VA!Given
<1>6. VA!Given(s, urls) = E(VA!Given(s, urls))
  BY <1>4, <1>5
<1> QED BY <1>6

\* Entries are prefetched one after the other.
LEMMA PrefetchedIs ==
  ASSUME NEW s, NEW targets \in Seq(Urls)
  PROVE  \A n \in 0 .. Len(targets) : VA!Prefetched(s, targets)[n] = IF n = 0 THEN s
                       ELSE VA!PrefetchOne(VA!Prefetched(s, targets)[n - 1], targets[n])
<1> DEFINE N == Len(targets)
           F(h, n) == IF n = 0 THEN s ELSE VA!PrefetchOne(h[n - 1], targets[n])
           W(f, m) == DOMAIN f = 0 .. m /\ \A n \in 0 .. m : f[n] = F(f, n)
           T == {m \in 0 .. N : \E f : W(f, m)}
<1>0. N \in Nat
  OBVIOUS
<1>1. 0 \in T
  <2>1. W([i \in 0 .. 0 |-> F(<<>>, 0)], 0)
    OBVIOUS
  <2> HIDE DEF W
  <2> QED BY <1>0, <2>1
<1>2. ASSUME NEW m \in 1 .. N, m - 1 \in T PROVE m \in T
  <2>1. PICK f : W(f, m - 1)
    BY <1>2
  <2> DEFINE g == [i \in 0 .. m |-> IF i = m THEN F(f, m) ELSE f[i]]
  <2>2. W(g, m)
    BY <2>1
  <2> HIDE DEF W, g
  <2> QED BY <2>2
<1>3. PICK f : W(f, N)
  <2>1. \A i \in 1 .. N : i - 1 \in T => i \in T
    BY <1>2
  <2>2. N \in 0 .. N
    BY <1>0
  <2> HIDE DEF T, N
  <2>3. N \in T
    BY <1>0, <1>1, <2>1, <2>2, StepByStep
  <2> QED BY <2>3 DEF T
<1> DEFINE E(h) == [n \in 0 .. N |-> F(h, n)]
<1>4. [i \in 0 .. N |-> f[i]] = E([i \in 0 .. N |-> f[i]])
  BY <1>3
<1>5. VA!Prefetched(s, targets) = CHOOSE h : h = E(h)
  BY DEF VA!Prefetched
<1>6. VA!Prefetched(s, targets) = E(VA!Prefetched(s, targets))
  BY <1>4, <1>5
<1> QED BY <1>6

\* Layers are asked for one after the other.
LEMMA AskedIs ==
  ASSUME NEW s, NEW r, r.urls \in Seq(Urls), r.got \in Nat
  PROVE  \A n \in 0 .. Len(r.urls) : VA!Asked(s, r)[n] =
                       IF n <= r.got THEN [s |-> s, waits |-> FALSE, got |-> r.got, load |-> 0, level |-> r.level]
                       ELSE VA!AskLayer(VA!Asked(s, r)[n - 1], r.urls[n])
<1> DEFINE before == [s |-> s, waits |-> FALSE, got |-> r.got, load |-> 0, level |-> r.level]
           N == Len(r.urls)
           b == r.got
           F(h, n) == IF n <= b THEN before
                       ELSE VA!AskLayer(h[n - 1], r.urls[n])
           W(f, m) == DOMAIN f = 0 .. m /\ \A n \in 0 .. m : f[n] = F(f, n)
           T == {m \in 0 .. N : \E f : W(f, m)}
<1>0. N \in Nat /\ b \in Nat
  OBVIOUS
<1> HIDE DEF before, b
<1>1. 0 \in T
  <2>1. W([i \in 0 .. 0 |-> F(<<>>, 0)], 0)
    BY <1>0
  <2> HIDE DEF W
  <2> QED BY <1>0, <2>1
<1>2. ASSUME NEW m \in 1 .. N, m - 1 \in T PROVE m \in T
  <2>1. PICK f : W(f, m - 1)
    BY <1>2
  <2> DEFINE g == [i \in 0 .. m |-> IF i = m THEN F(f, m) ELSE f[i]]
  <2>2. W(g, m)
    BY <1>0, <2>1
  <2> HIDE DEF W, g
  <2> QED BY <2>2
<1>3. PICK f : W(f, N)
  <2>1. \A i \in 1 .. N : i - 1 \in T => i \in T
    BY <1>2
  <2>2. N \in 0 .. N
    BY <1>0
  <2> HIDE DEF T, N
  <2>3. N \in T
    BY <1>0, <1>1, <2>1, <2>2, StepByStep
  <2> QED BY <2>3 DEF T
<1> DEFINE E(h) == [n \in 0 .. N |-> F(h, n)]
<1>4. [i \in 0 .. N |-> f[i]] = E([i \in 0 .. N |-> f[i]])
  BY <1>0, <1>3
<1>5. VA!Asked(s, r) = CHOOSE h : h = E(h)
  BY DEF VA!Asked, before, b
<1>6. VA!Asked(s, r) = E(VA!Asked(s, r))
  BY <1>4, <1>5
<1> QED BY <1>6 DEF before, b

\* A sweep drops entries, and of these that are pinned only when all must go.
LEMMA SweepFits ==
  ASSUME VA!ViewerAssetsAssumption, NEW s, StoreFits(s), NEW why \in {"full", "unwanted", "dispose"}
  PROVE  LET t == VA!Sweep(s, why)
         IN  /\ Kept(s, t)
             /\ why # "dispose" => \A u \in Urls : t.entries[u].refs = s.entries[u].refs
             /\ why = "full" /\ VA!Size(t) > Capacity => \A u \in Listed(t) : ~VA!Evictable(t, u)
             /\ why = "dispose" => Listed(t) = {}
<1> DEFINE q == s.recent
           N == Len(q)
           at(n) == VA!Swept(s, why)[n]
           Q(t, n) == /\ StoreFits(t) /\ LoadsLeft(s, t)
                      /\ \A u \in Urls : t.entries[u] = s.entries[u] \/ t.entries[u] = VA!NoEntry
                      /\ why # "dispose" => \A u \in Urls : t.entries[u].refs = s.entries[u].refs
                      /\ why = "full" /\ VA!Size(t) > Capacity =>
                           \A i \in 1 .. n : q[i] \in Listed(t) => ~VA!Evictable(t, q[i])
                      /\ why = "dispose" => \A i \in 1 .. n : q[i] \notin Listed(t)
           T == {n \in 0 .. N : Q(at(n), n)}
<1>1. q \in Seq(Urls) /\ N \in Nat /\ VA!ToSet(q) = Listed(s) /\ DOMAIN q = 1 .. N
  BY DEF StoreFits, Stores
<1>2. at(0) = s /\ \A n \in 1 .. N : at(n) = IF VA!Goes(why, at(n - 1), q[n]) THEN VA!Drop(at(n - 1), q[n]) ELSE at(n - 1)
  BY <1>1, SweptIs
<1> HIDE DEF at
<1>3. 0 \in T
  <2>1. LoadsLeft(s, s)
    BY DEF LoadsLeft
  <2> QED BY <1>1, <1>2, <2>1
<1>4. ASSUME NEW n \in 1 .. N, n - 1 \in T PROVE n \in T
  <2> DEFINE x == at(n - 1)
             d == VA!Drop(x, q[n])
  <2>1. Q(x, n - 1) /\ q[n] \in Urls
    BY <1>1, <1>4
  <2>2. CASE ~VA!Goes(why, x, q[n])
    <3>1. at(n) = x
      BY <1>2, <2>2
    <3>2. why # "dispose" /\ (why = "full" /\ VA!Size(x) > Capacity => ~VA!Evictable(x, q[n]))
      BY <2>2 DEF VA!Goes
    <3> HIDE DEF x
    <3>3. \A i \in 1 .. n : i \in 1 .. n - 1 \/ i = n
      BY <1>1
    <3>4. Q(x, n)
      BY <2>1, <3>2, <3>3
    <3> QED BY <3>1, <3>4
  <2>3. CASE VA!Goes(why, x, q[n])
    <3>1. at(n) = d
      BY <1>2, <2>3
    <3> HIDE DEF x
    <3>2. StoreFits(d) /\ LoadsLeft(x, d) /\ d.entries = [x.entries EXCEPT ![q[n]] = VA!NoEntry]
      BY <2>1, DropFits
    <3> HIDE DEF d, Q
    <3>3. StoreFits(x) /\ x.entries \in [Urls -> EntryRecords]
      BY <2>1 DEF Q, StoreFits, Stores
    <3>4. d.entries[q[n]] = VA!NoEntry /\ \A u \in Urls : u # q[n] => d.entries[u] = x.entries[u]
      BY <2>1, <3>2, <3>3
    <3>5. LoadsLeft(s, d)
      BY <2>1, <3>2 DEF Q, LoadsLeft
    <3>6. \A u \in Urls : d.entries[u] = s.entries[u] \/ d.entries[u] = VA!NoEntry
      BY <2>1, <3>4 DEF Q
    <3>7. why # "dispose" => \A u \in Urls : d.entries[u].refs = s.entries[u].refs
      <4>1. why # "dispose" => x.entries[q[n]].refs = 0
        BY <2>3 DEF VA!Goes, VA!Unwanted, VA!Evictable
      <4> QED BY <2>1, <3>4, <4>1 DEF Q, VA!NoEntry
    <3>8. why = "full" => \A i \in 1 .. n : q[i] \in Listed(d) => ~VA!Evictable(d, q[i])
      <4> SUFFICES ASSUME why = "full", NEW i \in 1 .. n, q[i] \in Listed(d) PROVE ~VA!Evictable(d, q[i])
        OBVIOUS
      <4>1. q[i] # q[n] /\ q[i] \in Urls
        BY <3>4 DEF Listed, VA!NoEntry
      <4>2. i \in 1 .. n - 1 /\ q[i] \in Listed(x) /\ x.entries[q[i]] = d.entries[q[i]]
        BY <3>4, <4>1 DEF Listed
      <4>3. VA!Size(x) > Capacity
        BY <2>3 DEF VA!Goes
      <4> QED BY <2>1, <4>2, <4>3 DEF Q, VA!Evictable
    <3>9. why = "dispose" => \A i \in 1 .. n : q[i] \notin Listed(d)
      <4> SUFFICES ASSUME why = "dispose", NEW i \in 1 .. n, q[i] \in Listed(d) PROVE FALSE
        OBVIOUS
      <4>1. q[i] # q[n] /\ q[i] \in Urls
        BY <3>4 DEF Listed, VA!NoEntry
      <4>2. i \in 1 .. n - 1 /\ q[i] \in Listed(x)
        BY <3>4, <4>1 DEF Listed
      <4> QED BY <2>1, <4>2 DEF Q
    <3>10. Q(d, n)
      BY <3>2, <3>5, <3>6, <3>7, <3>8, <3>9 DEF Q
    <3> QED BY <3>1, <3>10
  <2> QED BY <2>2, <2>3
<1>5. Q(at(N), N)
  <2>1. \A n \in 1 .. N : n - 1 \in T => n \in T
    BY <1>4
  <2>2. N \in 0 .. N
    BY <1>1
  <2> HIDE DEF T, N
  <2>3. N \in T
    BY <1>1, <1>3, <2>1, <2>2, StepByStep
  <2> QED BY <2>3 DEF T
<1> DEFINE t == at(N)
<1>6. VA!Sweep(s, why) = t
  BY DEF VA!Sweep, at
<1> HIDE DEF t
<1>7. /\ StoreFits(t) /\ LoadsLeft(s, t)
      /\ \A u \in Urls : t.entries[u] = s.entries[u] \/ t.entries[u] = VA!NoEntry
      /\ why # "dispose" => \A u \in Urls : t.entries[u].refs = s.entries[u].refs
  BY <1>5 DEF t
<1>8. \A u \in Listed(t) : \E i \in 1 .. N : q[i] = u
  <2>1. Listed(t) \subseteq Listed(s)
    BY <1>7 DEF Listed, VA!NoEntry
  <2> QED BY <1>1, <2>1 DEF VA!ToSet
<1>9. Kept(s, t)
  <2>1. \A u \in Urls : s.entries[u] \in EntryRecords
    BY DEF StoreFits, Stores
  <2> QED BY <1>7, <2>1 DEF Kept, Fewer, VA!NoEntry, EntryRecords
<1>10. why = "full" /\ VA!Size(t) > Capacity => \A u \in Listed(t) : ~VA!Evictable(t, u)
  BY <1>5, <1>8 DEF t
<1>11. why = "dispose" => Listed(t) = {}
  BY <1>5, <1>8 DEF t
<1> QED BY <1>6, <1>7, <1>9, <1>10, <1>11

\* What is listed is finite, and so is what is loaded.
LEMMA ListedIsFinite ==
  ASSUME NEW s, StoreFits(s)
  PROVE  /\ IsFiniteSet(Listed(s)) /\ VA!Size(s) = Cardinality(Listed(s))
         /\ Cardinality(Loaded(s)) \in Nat /\ Cardinality(Listed(s)) \in Nat
         /\ Cardinality(Loaded(s)) <= Cardinality(Listed(s))
<1> DEFINE q == s.recent
<1>1. q \in Seq(Urls) /\ VA!ToSet(q) = Listed(s) /\ DOMAIN q = 1 .. Len(q) /\ Len(q) \in Nat
  BY DEF StoreFits, Stores
<1>2. Listed(s) = {q[i] : i \in 1 .. Len(q)}
  BY <1>1 DEF VA!ToSet
<1>3. IsFiniteSet(1 .. Len(q))
  BY <1>1, FS_Interval
<1> DEFINE Dom == 1 .. Len(q)
           f == [i \in Dom |-> q[i]]
<1>4. f \in Surjection(Dom, Listed(s))
  BY <1>2 DEF Surjection
<1> HIDE DEF f, Dom
<1>5. IsFiniteSet(Listed(s))
  BY <1>3, <1>4, FS_Surjection DEF Dom
<1>6. Loaded(s) \subseteq Listed(s)
  BY DEF Loaded, Listed
<1>7. VA!Size(s) = VA!Cardinality(Listed(s))
  BY DEF VA!Size, Listed
<1> QED BY <1>5, <1>6, <1>7, SameCount, FS_Subset, FS_CardinalityType

\* What a trim leaves is bounded, and nobody loses what he holds.
LEMMA TrimFits ==
  ASSUME VA!ViewerAssetsAssumption, NEW s, StoreFits(s)
  PROVE  LET t == VA!Trim(s)
         IN  Kept(s, t) /\ Bounded(t) /\ \A u \in Urls : t.entries[u].refs = s.entries[u].refs
<1> DEFINE t == VA!Trim(s)
<1>1. /\ Kept(s, t) /\ \A u \in Urls : t.entries[u].refs = s.entries[u].refs
      /\ VA!Size(t) > Capacity => \A u \in Listed(t) : ~VA!Evictable(t, u)
  BY SweepFits DEF VA!Trim
<1> HIDE DEF t
<1>2. /\ VA!Size(t) = Cardinality(Listed(t)) /\ Cardinality(Loaded(t)) <= Cardinality(Listed(t))
      /\ Cardinality(Loaded(t)) \in Nat /\ Cardinality(Listed(t)) \in Nat
  BY <1>1, ListedIsFinite DEF Kept, Fewer
<1>3. Bounded(t)
  <2>1. Capacity \in Nat
    BY DEF VA!ViewerAssetsAssumption
  <2> QED BY <1>1, <1>2, <2>1 DEF Bounded
<1> QED BY <1>1, <1>3 DEF t

\* What two calls keep one after the other is kept by both together.
LEMMA KeptIsKept ==
  ASSUME NEW s, NEW t, NEW w, StoreFits(s)
  PROVE  Kept(s, s) /\ (Kept(s, t) /\ Kept(t, w) => Kept(s, w))
<1>1. \A u \in Urls : s.entries[u].refs \in Nat
  BY DEF StoreFits, Stores, EntryRecords
<1>2. Kept(s, s)
  BY <1>1 DEF Kept, Fewer, LoadsLeft
<1>3. ASSUME Kept(s, t), Kept(t, w) PROVE Kept(s, w)
  <2>1. LoadsLeft(s, w)
    BY <1>3 DEF Kept, Fewer, LoadsLeft
  <2>2. \A u \in Urls : t.entries[u].refs \in Nat /\ w.entries[u].refs \in Nat
    BY <1>3 DEF Kept, Fewer, StoreFits, Stores, EntryRecords
  <2> QED BY <1>1, <1>3, <2>1, <2>2 DEF Kept, Fewer
<1> QED BY <1>2, <1>3

\* A store with another record for an entry that is listed before and after.
LEMMA EntryChanged ==
  ASSUME NEW s, StoreFits(s), NEW u \in Listed(s), NEW e \in EntryRecords,
         e.st = s.entries[u].st, e.load = s.entries[u].load
  PROVE  LET t == [s EXCEPT !.entries[u] = e]
         IN  /\ StoreFits(t) /\ t.loads = s.loads /\ t.gone = s.gone
             /\ t.entries = [s.entries EXCEPT ![u] = e] /\ Listed(t) = Listed(s) /\ Loaded(t) = Loaded(s)
<1> DEFINE t == [s EXCEPT !.entries[u] = e]
<1>1. s \in Stores /\ s.entries \in [Urls -> EntryRecords] /\ u \in Urls /\ s.entries[u].st # "none"
  BY DEF StoreFits, Stores, Listed
<1>2. /\ t.loads = s.loads /\ t.gone = s.gone /\ t.recent = s.recent /\ t.entries = [s.entries EXCEPT ![u] = e]
      /\ t \in Stores
  BY <1>1 DEF Stores
<1> HIDE DEF t
<1>3. t.entries[u] = e /\ \A x \in Urls : x # u => t.entries[x] = s.entries[x]
  BY <1>1, <1>2
<1>4. Listed(t) = Listed(s) /\ Loaded(t) = Loaded(s)
  BY <1>3 DEF Listed, Loaded
<1>5. ASSUME NEW x \in Urls PROVE EntryFits(t, x)
  <2>1. EntryFits(s, x)
    BY DEF StoreFits
  <2>2. CASE x = u
    BY <1>1, <1>2, <1>3, <2>1, <2>2 DEF EntryFits
  <2>3. CASE x # u
    BY <1>2, <1>3, <2>1, <2>3 DEF EntryFits
  <2> QED BY <2>2, <2>3
<1>6. StoreFits(t)
  BY <1>2, <1>4, <1>5 DEF StoreFits
<1> QED BY <1>2, <1>4, <1>6 DEF t

\* A release gives back one hold, and no other one.
LEMMA ReleaseFits ==
  ASSUME VA!ViewerAssetsAssumption, NEW s, StoreFits(s), Bounded(s), NEW u \in Urls
  PROVE  LET t == VA!Release(s, u)
         IN  /\ Kept(s, t) /\ Bounded(t)
             /\ \A x \in Urls : t.entries[x].refs = IF x = u /\ s.entries[x].refs > 0 THEN s.entries[x].refs - 1
                                                    ELSE s.entries[x].refs
<1> DEFINE t == VA!Release(s, u)
<1>1. s.entries \in [Urls -> EntryRecords] /\ EntryFits(s, u)
  BY DEF StoreFits, Stores
<1>2. CASE s.entries[u].st = "none"
  <2>1. t = s
    BY <1>2 DEF VA!Release
  <2>2. s.entries[u].refs = 0
    BY <1>1, <1>2 DEF EntryFits, VA!NoEntry
  <2> QED BY <2>1, <2>2, KeptIsKept
<1>3. CASE s.entries[u].st # "none"
  <2> DEFINE n == IF s.entries[u].refs = 0 THEN 0 ELSE s.entries[u].refs - 1
             e == [s.entries[u] EXCEPT !.refs = n]
             m == [s EXCEPT !.entries[u] = e]
             r == VA!Touch(m, u)
             d == IF VA!Unwanted(r, u) THEN VA!Drop(r, u) ELSE r
  <2>1. s.entries[u].refs \in Nat /\ n \in Nat /\ n <= s.entries[u].refs
    BY <1>1 DEF EntryRecords
  <2>2. m = [s EXCEPT !.entries[u].refs = IF @ = 0 THEN 0 ELSE @ - 1]
    OBVIOUS
  <2>3. t = VA!Trim(d)
    BY <1>3, <2>2 DEF VA!Release
  <2> HIDE DEF n
  <2>4. e \in EntryRecords /\ e.st = s.entries[u].st /\ e.load = s.entries[u].load /\ e.refs = n
    BY <1>1, <2>1 DEF EntryRecords
  <2> HIDE DEF e
  <2>5. /\ StoreFits(m) /\ m.loads = s.loads /\ m.gone = s.gone
        /\ m.entries = [s.entries EXCEPT ![u] = e] /\ Listed(m) = Listed(s)
    BY <1>3, <2>4, EntryChanged DEF Listed
  <2> HIDE DEF m
  <2>6. StoreFits(r) /\ r.loads = m.loads /\ r.entries = m.entries
    <3>1. u \in Listed(m)
      BY <1>3, <2>5 DEF Listed
    <3> QED BY <2>5, <3>1, TouchFits
  <2> HIDE DEF r
  <2>7. \A x \in Urls : r.entries[x] = IF x = u THEN e ELSE s.entries[x]
    BY <1>1, <2>5, <2>6
  <2>8. \A x \in Urls : s.entries[x].refs \in Nat
    BY <1>1 DEF EntryRecords
  <2>9. Kept(s, r)
    <3>1. LoadsLeft(s, r)
      BY <2>5, <2>6 DEF LoadsLeft
    <3> QED BY <2>1, <2>4, <2>6, <2>7, <2>8, <3>1 DEF Kept, Fewer
  <2>10. Kept(r, d) /\ \A x \in Urls : d.entries[x].refs = r.entries[x].refs
    <3>1. CASE ~VA!Unwanted(r, u)
      BY <2>6, <3>1, KeptIsKept
    <3>2. CASE VA!Unwanted(r, u)
      <4>1. StoreFits(d) /\ LoadsLeft(r, d) /\ d.entries = [r.entries EXCEPT ![u] = VA!NoEntry]
        BY <2>6, <3>2, DropFits
      <4> HIDE DEF d
      <4>2. r.entries[u].refs = 0
        BY <3>2 DEF VA!Unwanted, VA!Evictable
      <4>3. r.entries \in [Urls -> EntryRecords] /\ VA!NoEntry.refs = 0
        BY <2>6 DEF StoreFits, Stores, VA!NoEntry
      <4>4. \A x \in Urls : d.entries[x] = IF x = u THEN VA!NoEntry ELSE r.entries[x]
        BY <4>1, <4>3
      <4>5. \A x \in Urls : r.entries[x].refs \in Nat
        BY <4>3 DEF EntryRecords
      <4>6. \A x \in Urls : d.entries[x].refs = r.entries[x].refs /\ (d.entries[x].refs > 0 => d.entries[x].st = r.entries[x].st)
        BY <4>2, <4>3, <4>4
      <4> QED BY <4>1, <4>5, <4>6 DEF Kept, Fewer
    <3> QED BY <3>1, <3>2
  <2> HIDE DEF d
  <2>11. /\ Kept(d, t) /\ Bounded(t) /\ \A x \in Urls : t.entries[x].refs = d.entries[x].refs
    BY <2>3, <2>10, TrimFits DEF Kept, Fewer
  <2>12. Kept(s, t)
    <3>1. Kept(s, d)
      BY <2>9, <2>10, KeptIsKept
    <3> QED BY <2>11, <3>1, KeptIsKept
  <2>13. \A x \in Urls : t.entries[x].refs = IF x = u THEN n ELSE s.entries[x].refs
    BY <2>4, <2>7, <2>10, <2>11
  <2> HIDE DEF t
  <2> QED BY <2>8, <2>11, <2>12, <2>13 DEF t, n
<1> QED BY <1>2, <1>3

\* How many holds are left when some of the layers are given back.
Rest(a, b) == IF a > b THEN a - b ELSE 0
\* Layers that are given back: every managed one once for each time it is there.
LEMMA GivenFits ==
  ASSUME VA!ViewerAssetsAssumption, NEW s, StoreFits(s), Bounded(s), NEW urls \in Seq(Urls)
  PROVE  LET t == VA!Given(s, urls)[Len(urls)]
         IN  /\ Kept(s, t) /\ Bounded(t)
             /\ \A x \in Managed : t.entries[x].refs = Rest(s.entries[x].refs, Upto(x, urls, Len(urls)))
<1> DEFINE at(n) == VA!Given(s, urls)[n]
           N == Len(urls)
           Q(t, n) == /\ Kept(s, t) /\ Bounded(t)
                      /\ \A x \in Managed : t.entries[x].refs = Rest(s.entries[x].refs, Upto(x, urls, n))
           T == {n \in 0 .. N : Q(at(n), n)}
<1>0. N \in Nat /\ \A n \in 1 .. N : urls[n] \in Urls
  OBVIOUS
<1>1. at(0) = s /\ \A n \in 1 .. N : at(n) = IF urls[n] \in Gltf THEN at(n - 1) ELSE VA!Release(at(n - 1), urls[n])
  BY GivenIs
<1> HIDE DEF at
<1>2. \A x \in Urls : s.entries[x].refs \in Nat
  BY DEF StoreFits, Stores, EntryRecords
<1>3. 0 \in T
  <2>1. \A x \in Managed : s.entries[x].refs = Rest(s.entries[x].refs, Upto(x, urls, 0))
    BY <1>2, UptoIs DEF Rest, Managed
  <2> QED BY <1>0, <1>1, <2>1, KeptIsKept
<1>4. ASSUME NEW n \in 1 .. N, n - 1 \in T PROVE n \in T
  <2> DEFINE w == at(n - 1)
             u == urls[n]
  <2>1. Q(w, n - 1) /\ u \in Urls
    BY <1>0, <1>4
  <2>2. \A x \in Managed : /\ Upto(x, urls, n - 1) \in Nat /\ x \in Urls
                           /\ Upto(x, urls, n) = Upto(x, urls, n - 1) + (IF u = x THEN 1 ELSE 0)
    <3>1. n \in Nat /\ n > 0 /\ n - 1 \in Nat
      BY <1>0
    <3> QED BY <3>1, UptoIs DEF Managed
  <2>3. CASE u \in Gltf
    <3>1. at(n) = w
      BY <1>1, <2>3
    <3>2. \A x \in Managed : Upto(x, urls, n) = Upto(x, urls, n - 1)
      BY <2>2, <2>3 DEF Managed
    <3> HIDE DEF w
    <3> QED BY <2>1, <3>1, <3>2
  <2>4. CASE u \notin Gltf
    <3>1. at(n) = VA!Release(w, u)
      BY <1>1, <2>4
    <3> DEFINE z == at(n)
    <3> HIDE DEF w
    <3>2. /\ Kept(w, z) /\ Bounded(z)
          /\ \A x \in Urls : z.entries[x].refs = IF x = u /\ w.entries[x].refs > 0 THEN w.entries[x].refs - 1
                                                  ELSE w.entries[x].refs
      BY <2>1, <3>1, ReleaseFits DEF Kept, Fewer
    <3> HIDE DEF z
    <3>3. Kept(s, z)
      BY <2>1, <3>2, KeptIsKept
    <3>4. ASSUME NEW x \in Managed PROVE z.entries[x].refs = Rest(s.entries[x].refs, Upto(x, urls, n))
      <4>1. /\ x \in Urls /\ Upto(x, urls, n - 1) \in Nat
            /\ Upto(x, urls, n) = Upto(x, urls, n - 1) + (IF u = x THEN 1 ELSE 0)
        BY <2>2
      <4>2. s.entries[x].refs \in Nat /\ w.entries[x].refs = Rest(s.entries[x].refs, Upto(x, urls, n - 1))
        BY <1>2, <2>1, <4>1
      <4>3. z.entries[x].refs = IF x = u /\ w.entries[x].refs > 0 THEN w.entries[x].refs - 1 ELSE w.entries[x].refs
        BY <3>2, <4>1
      <4> QED BY <4>1, <4>2, <4>3 DEF Rest
    <3> QED BY <3>2, <3>3, <3>4 DEF z
  <2> QED BY <2>3, <2>4
<1>5. Q(at(N), N)
  <2>1. \A n \in 1 .. N : n - 1 \in T => n \in T
    BY <1>4
  <2>2. N \in 0 .. N
    BY <1>0
  <2> HIDE DEF T, N
  <2>3. N \in T
    BY <1>0, <1>3, <2>1, <2>2, StepByStep
  <2> QED BY <2>3 DEF T
<1> QED BY <1>5 DEF at

-----------------------------------------------------------------------------
(***************************************************************************)
(* What the viewer gives back.                                             *)
(***************************************************************************)
\* How often a manifest is in the first part of a list.
LEMMA UptoPart ==
  ASSUME NEW q \in Seq(Urls), NEW n \in 0 .. Len(q), NEW u
  PROVE  LET w == SubSeq(q, 1, n) IN w \in Seq(Urls) /\ Upto(u, w, Len(w)) = Upto(u, q, n)
<1> DEFINE w == SubSeq(q, 1, n)
<1>1. w \in Seq(Urls) /\ Len(w) = n /\ \A i \in 1 .. n : w[i] = q[i]
  OBVIOUS
<1> HIDE DEF w
<1>2. {i \in 1 .. n : w[i] = u} = {i \in 1 .. n : q[i] = u}
  BY <1>1
<1> QED BY <1>1, <1>2 DEF Upto, w

\* With the same entries, the same is listed and it is as much.
LEMMA SameEntries ==
  ASSUME NEW s, NEW t, t.entries = s.entries
  PROVE  Listed(t) = Listed(s) /\ Loaded(t) = Loaded(s) /\ (Bounded(s) => Bounded(t))
BY DEF Listed, Loaded, Bounded, VA!Evictable

\* Layers that the viewer gives back.
LEMMA GiveBackFits ==
  ASSUME VA!ViewerAssetsAssumption, NEW s, StoreFits(s), Bounded(s), NEW urls \in Seq(Urls)
  PROVE  LET t == VA!GiveBack(s, urls)
         IN  /\ Kept(s, t) /\ Bounded(t) /\ (~owner.cached => t = s)
             /\ owner.cached =>
                  \A x \in Managed : t.entries[x].refs = Rest(s.entries[x].refs, Upto(x, urls, Len(urls)))
<1>1. CASE owner.cached
  BY <1>1, GivenFits DEF VA!GiveBack
<1>2. CASE ~owner.cached
  BY <1>2, KeptIsKept DEF VA!GiveBack
<1> QED BY <1>1, <1>2

\* A load that no entry waits for is aborted.
LEMMA AbortFits ==
  ASSUME VA!ViewerAssetsAssumption, NEW s, StoreFits(s), NEW l \in Loads \union {0},
         \A u \in Urls : s.entries[u].st = "loading" => s.entries[u].load # l
  PROVE  LET t == VA!AbortLoad(s, l)
         IN  /\ StoreFits(t) /\ t.entries = s.entries
             /\ \A k \in Loads : /\ k # l => t.loads[k] = s.loads[k]
                                 /\ s.loads[k].st = "free" => t.loads[k].st = "free"
<1> DEFINE t == VA!AbortLoad(s, l)
<1>1. /\ t \in Stores /\ t.entries = s.entries /\ t.recent = s.recent /\ t.gone = s.gone
      /\ \A k \in Loads : LoadFits(t.loads[k]) /\ (k # l => t.loads[k] = s.loads[k])
      /\ l \in Loads => IF s.loads[l].url \in Gltf /\ s.loads[l].st # "free"
                        THEN /\ t.loads[l].url = s.loads[l].url /\ t.loads[l].st = s.loads[l].st
                        ELSE t.loads[l] = VA!FreeLoad
  BY AbortIs DEF StoreFits
<1> HIDE DEF t
<1>2. Listed(t) = Listed(s)
  BY <1>1 DEF Listed
<1>3. \A u \in Urls : EntryFits(t, u)
  BY <1>1 DEF StoreFits, EntryFits
<1>4. StoreFits(t)
  BY <1>1, <1>2, <1>3 DEF StoreFits
<1>5. ASSUME NEW k \in Loads, s.loads[k].st = "free" PROVE t.loads[k].st = "free"
  BY <1>1, <1>5 DEF VA!FreeLoad
<1> QED BY <1>1, <1>4, <1>5 DEF t

\* A request as the loading effect keeps it.
RequestIs(s, r) ==
    /\ r.urls \in Seq(Urls) /\ r.got \in Nat /\ r.load \in Loads \union {0}
    /\ r.on => r.got < Len(r.urls)
    /\ r.on /\ owner.cached /\ VA!Awaited(r) \in Gltf => r.load \in Loads /\ s.loads[r.load].url \in Gltf
\* How often a request holds a manifest.
Asks(r, x) == IF r.on THEN Upto(x, r.urls, r.got + 1) ELSE 0

\* A request that is abandoned gives back what it had and what it waited for.
LEMMA AbandonFits ==
  ASSUME VA!ViewerAssetsAssumption, NEW s, StoreFits(s), Bounded(s), NEW r, RequestIs(s, r),
         ~owner.cached => Listed(s) = {}
  PROVE  LET t == VA!Abandon(s, r)
         IN  /\ StoreFits(t) /\ Bounded(t) /\ Fewer(s, t)
             /\ \A l \in Loads : /\ s.loads[l].st = "free" => t.loads[l].st = "free"
                                 /\ s.loads[l].url \in Gltf /\ l # r.load => t.loads[l] = s.loads[l]
             /\ ~owner.cached => Listed(t) = {}
             /\ owner.cached => \A x \in Managed : t.entries[x].refs = Rest(s.entries[x].refs, Asks(r, x))
<1> DEFINE t == VA!Abandon(s, r)
           w == SubSeq(r.urls, 1, r.got)
           u == VA!Awaited(r)
<1>0. \A x \in Urls : s.entries[x].refs \in Nat
  BY DEF StoreFits, Stores, EntryRecords
<1>1. CASE ~r.on
  <2>1. t = s
    BY <1>1 DEF VA!Abandon
  <2>2. \A x \in Managed : s.entries[x].refs = Rest(s.entries[x].refs, Asks(r, x))
    BY <1>0, <1>1 DEF Asks, Rest, Managed
  <2> QED BY <2>1, <2>2, KeptIsKept DEF Kept
<1>2. CASE r.on
  <2>0. r.urls \in Seq(Urls) /\ r.got \in Nat /\ r.got \in 0 .. Len(r.urls) /\ u \in Urls /\ u = r.urls[r.got + 1]
    BY <1>2 DEF RequestIs, VA!Awaited
  <2>1. w \in Seq(Urls) /\ \A x : Upto(x, w, Len(w)) = Upto(x, r.urls, r.got)
    BY <2>0, UptoPart
  <2>2. \A x : /\ Upto(x, r.urls, r.got) \in Nat
               /\ Asks(r, x) = Upto(x, r.urls, r.got) + (IF u = x THEN 1 ELSE 0)
    <3>1. r.got + 1 \in Nat /\ r.got + 1 > 0 /\ (r.got + 1) - 1 = r.got
      BY <2>0
    <3> QED BY <1>2, <2>0, <3>1, UptoIs DEF Asks
  <2>3. CASE owner.cached /\ u \notin Gltf
    <3> DEFINE y == VA!Release(s, u)
    <3>1. /\ Kept(s, y) /\ Bounded(y)
          /\ \A x \in Urls : y.entries[x].refs = IF x = u /\ s.entries[x].refs > 0 THEN s.entries[x].refs - 1
                                                  ELSE s.entries[x].refs
      BY <2>0, ReleaseFits
    <3>2. t = VA!GiveBack(y, w)
      BY <1>2, <2>3 DEF VA!Abandon
    <3> HIDE DEF y, t, w, u
    <3>3. /\ Kept(y, t) /\ Bounded(t)
          /\ \A x \in Managed : t.entries[x].refs = Rest(y.entries[x].refs, Upto(x, w, Len(w)))
      BY <2>1, <2>3, <3>1, <3>2, GiveBackFits DEF Kept
    <3>4. Kept(s, t)
      BY <3>1, <3>3, KeptIsKept
    <3>5. \A l \in Loads : /\ s.loads[l].st = "free" => t.loads[l].st = "free"
                           /\ s.loads[l].url \in Gltf => t.loads[l] = s.loads[l]
      BY <3>4 DEF Kept, LoadsLeft, VA!FreeLoad
    <3>6. ASSUME NEW x \in Managed PROVE t.entries[x].refs = Rest(s.entries[x].refs, Asks(r, x))
      <4>1. x \in Urls
        BY DEF Managed
      <4>2. t.entries[x].refs = Rest(y.entries[x].refs, Upto(x, r.urls, r.got))
        BY <2>1, <3>3
      <4> QED BY <1>0, <2>2, <3>1, <4>1, <4>2 DEF Rest
    <3> QED BY <2>3, <3>3, <3>4, <3>5, <3>6 DEF Kept, t
  <2>4. CASE ~ (owner.cached /\ u \notin Gltf)
    <3> DEFINE y == VA!AbortLoad(s, r.load)
    <3>1. \A x \in Urls : s.entries[x].st = "loading" => s.entries[x].load # r.load
      <4> SUFFICES ASSUME NEW x \in Urls, s.entries[x].st = "loading", s.entries[x].load = r.load PROVE FALSE
        OBVIOUS
      <4>1. EntryFits(s, x) /\ x \in Listed(s)
        BY DEF StoreFits, Listed
      <4>2. owner.cached /\ u \in Gltf
        BY <2>4, <4>1
      <4> QED BY <1>2, <4>1, <4>2 DEF EntryFits, RequestIs
    <3>2. /\ StoreFits(y) /\ y.entries = s.entries
          /\ \A k \in Loads : /\ k # r.load => y.loads[k] = s.loads[k]
                              /\ s.loads[k].st = "free" => y.loads[k].st = "free"
      BY <3>1, AbortFits DEF RequestIs
    <3>3. t = VA!GiveBack(y, w)
      BY <1>2, <2>4 DEF VA!Abandon
    <3> HIDE DEF y, t, w, u
    <3>4. Listed(y) = Listed(s) /\ Bounded(y)
      BY <3>2, SameEntries
    <3>5. /\ Kept(y, t) /\ Bounded(t) /\ (~owner.cached => t = y)
          /\ owner.cached => \A x \in Managed : t.entries[x].refs = Rest(y.entries[x].refs, Upto(x, w, Len(w)))
      BY <2>1, <3>2, <3>3, <3>4, GiveBackFits
    <3>6. ASSUME NEW l \in Loads
          PROVE  /\ s.loads[l].st = "free" => t.loads[l].st = "free"
                 /\ s.loads[l].url \in Gltf /\ l # r.load => t.loads[l] = s.loads[l]
      BY <3>2, <3>5 DEF Kept, LoadsLeft, VA!FreeLoad
    <3>7. ASSUME NEW x \in Managed, owner.cached PROVE t.entries[x].refs = Rest(s.entries[x].refs, Asks(r, x))
      <4>1. Asks(r, x) = Upto(x, r.urls, r.got)
        BY <2>2, <2>4, <3>7 DEF Managed
      <4> QED BY <2>1, <3>2, <3>5, <3>7, <4>1
    <3>8. Fewer(s, t)
      BY <3>2, <3>5 DEF Kept, Fewer
    <3> QED BY <3>4, <3>5, <3>6, <3>7, <3>8 DEF Kept, t
  <2> QED BY <2>3, <2>4
<1> QED BY <1>1, <1>2

-----------------------------------------------------------------------------
(***************************************************************************)
(* What the viewer asks for.                                               *)
(***************************************************************************)
\* A load that starts takes an idle one, which nobody waits for.
LEMMA StartFits ==
  ASSUME VA!ViewerAssetsAssumption, NEW s, StoreFits(s), VA!Idle(s) # {}, NEW u \in Urls, NEW level \in VA!Levels,
         NEW reports \in BOOLEAN
  PROVE  LET t == VA!StartLoad(s, u, level, reports)
             l == VA!NextLoad(s)
         IN  /\ StoreFits(t) /\ l \in Loads /\ s.loads[l].st = "free"
             /\ t.entries = s.entries /\ t.recent = s.recent /\ t.gone = s.gone
             /\ t.loads[l].st = "manifest" /\ t.loads[l].url = u /\ ~t.loads[l].aborted
             /\ \A k \in Loads : k # l => t.loads[k] = s.loads[k]
<1> DEFINE l == VA!NextLoad(s)
           d == [st |-> "manifest", url |-> u, level |-> level, left |-> 0, aborted |-> FALSE, reports |-> reports]
           t == VA!StartLoad(s, u, level, reports)
<1>1. l \in Loads /\ s.loads[l].st = "free"
  BY DEF VA!NextLoad, VA!Idle
<1>2. d \in LoadRecords /\ LoadFits(d) /\ d.st = "manifest" /\ d.url = u /\ ~d.aborted
  BY DEF LoadRecords, LoadFits, VA!ViewerAssetsAssumption
<1>3. t = [s EXCEPT !.loads = [s.loads EXCEPT ![l] = d]]
  BY DEF VA!StartLoad
<1>4. s \in Stores /\ s.loads \in [Loads -> LoadRecords]
  BY DEF StoreFits, Stores
<1> HIDE DEF l, d, t
<1>5. /\ t.loads = [s.loads EXCEPT ![l] = d] /\ t.entries = s.entries /\ t.recent = s.recent /\ t.gone = s.gone
      /\ t \in Stores
  BY <1>1, <1>2, <1>3, <1>4 DEF Stores
<1>6. t.loads[l] = d /\ \A k \in Loads : k # l => t.loads[k] = s.loads[k]
  BY <1>1, <1>4, <1>5
<1>7. \A k \in Loads : LoadFits(t.loads[k])
  BY <1>2, <1>6 DEF StoreFits
<1>8. ASSUME NEW x \in Urls PROVE EntryFits(t, x)
  <2>1. EntryFits(s, x)
    BY DEF StoreFits
  <2>2. s.entries[x].st = "loading" => s.entries[x].load # l
    BY <1>1, <2>1 DEF EntryFits
  <2> QED BY <1>5, <1>6, <2>1, <2>2 DEF EntryFits
<1>9. Listed(t) = Listed(s)
  BY <1>5 DEF Listed
<1>10. StoreFits(t)
  BY <1>5, <1>7, <1>8, <1>9 DEF StoreFits
<1> QED BY <1>1, <1>2, <1>5, <1>6, <1>10 DEF l, t

\* The entry there is, or a new one that loads and that nobody holds yet.
LEMMA EnsureFits ==
  ASSUME VA!ViewerAssetsAssumption, NEW s, StoreFits(s), NEW u \in Managed, u \in Listed(s) \/ VA!Idle(s) # {},
         NEW reports \in BOOLEAN
  PROVE  LET t == VA!Ensure(s, u, reports)
         IN  /\ StoreFits(t) /\ u \in Listed(t) /\ (u \in Listed(s) => t = s)
             /\ \A x \in Urls : x # u => t.entries[x] = s.entries[x]
             /\ u \notin Listed(s) => t.entries[u].st = "loading" /\ t.entries[u].refs = 0
             /\ \A k \in Loads : s.loads[k].st # "free" => t.loads[k] = s.loads[k]
<1> DEFINE t == VA!Ensure(s, u, reports)
<1>0. u \in Urls /\ u \notin Gltf
  BY DEF Managed
<1>1. CASE u \in Listed(s)
  <2>1. t = s
    BY <1>1 DEF VA!Ensure, Listed
  <2> QED BY <1>1, <2>1
<1>2. CASE u \notin Listed(s)
  <2> DEFINE b == VA!StartLoad(s, u, "default", reports)
             l == VA!NextLoad(s)
             e == [st |-> "loading", load |-> l, refs |-> 0, prefetched |-> FALSE]
             m == [b EXCEPT !.entries = [b.entries EXCEPT ![u] = e]]
  <2>1. /\ StoreFits(b) /\ l \in Loads /\ s.loads[l].st = "free"
        /\ b.entries = s.entries /\ b.recent = s.recent /\ b.gone = s.gone
        /\ b.loads[l].st = "manifest" /\ b.loads[l].url = u
        /\ \A k \in Loads : k # l => b.loads[k] = s.loads[k]
    BY <1>0, <1>2, StartFits DEF VA!Levels
  <2>2. t = VA!Touch(m, u)
    BY <1>0, <1>2 DEF VA!Ensure, Listed
  <2>3. e \in EntryRecords /\ e.st = "loading" /\ e.load = l /\ e.refs = 0
    BY <2>1 DEF EntryRecords
  <2> HIDE DEF b, l, e
  <2>4. /\ m.entries = [s.entries EXCEPT ![u] = e] /\ m.loads = b.loads /\ m.recent = s.recent /\ m.gone = s.gone
        /\ m \in Stores
    BY <1>0, <2>1, <2>3 DEF StoreFits, Stores
  <2> HIDE DEF m, t
  <2>5. /\ t \in Stores /\ t.loads = m.loads /\ t.entries = m.entries /\ t.gone = m.gone
        /\ VA!IsInjective(t.recent) /\ VA!ToSet(t.recent) = VA!ToSet(m.recent) \union {u}
    BY <1>0, <2>2, <2>4, TouchIs DEF StoreFits
  <2>6. s.entries \in [Urls -> EntryRecords]
    BY DEF StoreFits, Stores
  <2>7. t.entries[u] = e /\ \A x \in Urls : x # u => t.entries[x] = s.entries[x]
    BY <1>0, <2>4, <2>5, <2>6
  <2>8. ASSUME NEW x \in Urls PROVE EntryFits(t, x)
    <3>1. EntryFits(s, x) /\ EntryFits(b, x)
      BY <2>1 DEF StoreFits
    <3>2. CASE x = u
      <4>1. x \in t.gone => x \in Managed
        BY <2>4, <2>5, <3>1 DEF EntryFits
      <4> QED BY <1>0, <2>1, <2>3, <2>4, <2>5, <2>7, <3>2, <4>1 DEF EntryFits
    <3>3. CASE x # u
      BY <2>1, <2>4, <2>5, <2>7, <3>1, <3>3 DEF EntryFits
    <3> QED BY <3>2, <3>3
  <2>9. Listed(t) = Listed(s) \union {u}
    BY <1>0, <2>3, <2>7 DEF Listed
  <2>10. StoreFits(t)
    <3>1. VA!ToSet(t.recent) = Listed(t)
      BY <2>4, <2>5, <2>9 DEF StoreFits
    <3>2. \A k \in Loads : LoadFits(t.loads[k])
      BY <2>1, <2>4, <2>5 DEF StoreFits
    <3> QED BY <2>5, <2>8, <3>1, <3>2 DEF StoreFits
  <2>11. \A k \in Loads : s.loads[k].st # "free" => t.loads[k] = s.loads[k]
    BY <2>1, <2>4, <2>5
  <2> QED BY <1>2, <2>3, <2>7, <2>9, <2>10, <2>11 DEF t
<1> QED BY <1>1, <1>2

\* An acquired entry is held once more.
LEMMA AcquireFits ==
  ASSUME VA!ViewerAssetsAssumption, NEW s, StoreFits(s), Bounded(s), NEW u \in Managed, u \in Listed(s) \/ VA!Idle(s) # {}
  PROVE  LET t == VA!Acquire(s, u)
         IN  /\ StoreFits(t) /\ Bounded(t)
             /\ \A x \in Urls : /\ t.entries[x].refs = s.entries[x].refs + (IF x = u THEN 1 ELSE 0)
                                /\ t.entries[x].st = IF x = u /\ x \notin Listed(s) THEN "loading" ELSE s.entries[x].st
             /\ \A k \in Loads : s.loads[k].st # "free" => t.loads[k] = s.loads[k]
             /\ u \in Listed(s) => t.loads = s.loads
<1> DEFINE b == VA!Ensure(s, u, TRUE)
           e == [b.entries[u] EXCEPT !.refs = b.entries[u].refs + 1]
           m == [b EXCEPT !.entries[u] = e]
           t == VA!Acquire(s, u)
<1>0. u \in Urls
  BY DEF Managed
<1>1. /\ StoreFits(b) /\ u \in Listed(b) /\ (u \in Listed(s) => b = s)
      /\ \A x \in Urls : x # u => b.entries[x] = s.entries[x]
      /\ u \notin Listed(s) => b.entries[u].st = "loading" /\ b.entries[u].refs = 0
      /\ \A k \in Loads : s.loads[k].st # "free" => b.loads[k] = s.loads[k]
  <2>1. PICK yes \in BOOLEAN : yes = TRUE
    OBVIOUS
  <2>2. b = VA!Ensure(s, u, yes)
    BY <2>1
  <2> HIDE DEF b
  <2> QED BY <2>2, EnsureFits
<1>2. t = VA!Touch(m, u)
  BY DEF VA!Acquire
<1> HIDE DEF b
<1>3. b.entries[u] \in EntryRecords /\ s.entries \in [Urls -> EntryRecords] /\ b.entries \in [Urls -> EntryRecords]
  BY <1>0, <1>1 DEF StoreFits, Stores
<1>4. e \in EntryRecords /\ e.st = b.entries[u].st /\ e.load = b.entries[u].load /\ e.refs = b.entries[u].refs + 1
  BY <1>3 DEF EntryRecords
<1> HIDE DEF e
<1>5. /\ StoreFits(m) /\ m.loads = b.loads
      /\ m.entries = [b.entries EXCEPT ![u] = e] /\ Listed(m) = Listed(b) /\ Loaded(m) = Loaded(b)
  BY <1>1, <1>4, EntryChanged
<1> HIDE DEF m, t
<1>6. StoreFits(t) /\ t.loads = m.loads /\ t.entries = m.entries
  BY <1>1, <1>2, <1>5, TouchFits
<1>7. \A x \in Urls : t.entries[x] = IF x = u THEN e ELSE b.entries[x]
  BY <1>3, <1>5, <1>6
<1>8. \A x \in Urls : s.entries[x].refs \in Nat /\ b.entries[x].refs \in Nat
  BY <1>3 DEF EntryRecords
<1>9. ASSUME NEW x \in Urls
      PROVE  /\ t.entries[x].refs = s.entries[x].refs + (IF x = u THEN 1 ELSE 0)
             /\ t.entries[x].st = IF x = u /\ x \notin Listed(s) THEN "loading" ELSE s.entries[x].st
  <2>1. CASE x # u
    BY <1>1, <1>7, <1>8, <2>1
  <2>2. CASE x = u /\ u \in Listed(s)
    BY <1>1, <1>4, <1>7, <1>8, <2>2
  <2>3. CASE x = u /\ u \notin Listed(s)
    <3>1. s.entries[u].refs = 0
      BY <1>0, <2>3 DEF Listed, StoreFits, EntryFits, VA!NoEntry
    <3> QED BY <1>1, <1>4, <1>7, <1>8, <2>3, <3>1
  <2> QED BY <2>1, <2>2, <2>3
<1>10. Bounded(t)
  <2>1. Loaded(t) = Loaded(s)
    BY <1>9 DEF Loaded, Listed
  <2>2. \A x \in Listed(t) : x = u \/ (x \in Listed(s) /\ t.entries[x] = s.entries[x])
    BY <1>1, <1>7 DEF Listed
  <2>3. ~VA!Evictable(t, u)
    BY <1>0, <1>8, <1>9 DEF VA!Evictable
  <2> QED BY <2>1, <2>2, <2>3 DEF Bounded, VA!Evictable
<1> QED BY <1>1, <1>5, <1>6, <1>9, <1>10 DEF t

\* How far the loop over the layers has come, and what it has asked for.
Accs == [s : Stores, waits : BOOLEAN, got : Nat, load : Loads \union {0}, level : VA!Levels]
Requests == [on : BOOLEAN, urls : Seq(Urls), got : Nat, load : Loads \union {0}, level : VA!Levels]
AskFits(s, r, a, n) ==
    /\ a \in Accs /\ a.level = r.level /\ StoreFits(a.s) /\ Bounded(a.s) /\ r.got <= a.got
    /\ ~a.waits => a.got = n /\ a.load = 0 /\ a.s.loads = s.loads
    /\ a.waits => a.got < n
    /\ a.load # 0 => s.loads[a.load].st = "free"
    /\ \A k \in Loads : s.loads[k].st # "free" => a.s.loads[k] = s.loads[k]
    /\ \A x \in Listed(s) : a.s.entries[x].st = s.entries[x].st
    /\ ~owner.cached => a.s.entries = s.entries /\ (r.got < n => a.waits)
    /\ owner.cached =>
         /\ \A x \in Managed : a.s.entries[x].refs + Upto(x, r.urls, r.got)
                               = s.entries[x].refs + Upto(x, r.urls, IF a.waits THEN a.got + 1 ELSE a.got)
         /\ Had(a.s, r.urls, a.got) /\ (a.waits => WaitsFor(a.s, r.urls, a.got, a.load))
AskBegin(s, r) == [s |-> s, waits |-> FALSE, got |-> r.got, load |-> 0, level |-> r.level]

\* Before it has asked for anything.
LEMMA AskBegins ==
  ASSUME NEW s, StoreFits(s), Bounded(s), NEW r \in Requests, owner.cached => Had(s, r.urls, r.got)
  PROVE  AskFits(s, r, AskBegin(s, r), r.got)
<1> DEFINE a == AskBegin(s, r)
<1>1. a \in Accs /\ a.s = s /\ ~a.waits /\ a.got = r.got /\ a.load = 0 /\ a.level = r.level
  BY DEF StoreFits, AskBegin, Accs, Requests
<1>2. r.got \in Nat
  BY DEF Requests
<1> HIDE DEF a
<1>3. AskFits(s, r, a, r.got)
  BY <1>1, <1>2 DEF AskFits
<1> QED BY <1>3 DEF a

\* One step of the loop.
LEMMA AskLayerFits ==
  ASSUME VA!ViewerAssetsAssumption, NEW s, StoreFits(s), VA!Idle(s) # {}, NEW r \in Requests,
         NEW n \in 1 .. Len(r.urls), r.got < n, NEW a, AskFits(s, r, a, n - 1)
  PROVE  AskFits(s, r, VA!AskLayer(a, r.urls[n]), n)
<1> DEFINE u == r.urls[n]
           z == VA!AskLayer(a, u)
<1>1. r.urls \in Seq(Urls) /\ u \in Urls /\ n \in Nat /\ n > 0 /\ n - 1 \in Nat /\ r.got \in Nat /\ (n - 1) + 1 = n
  BY DEF Requests
<1>2. \A x \in Managed : /\ x \in Urls /\ Upto(x, r.urls, n - 1) \in Nat /\ Upto(x, r.urls, r.got) \in Nat
                         /\ Upto(x, r.urls, n) = Upto(x, r.urls, n - 1) + (IF u = x THEN 1 ELSE 0)
  BY <1>1, UptoIs DEF Managed
<1>3. a \in Accs /\ StoreFits(a.s) /\ Bounded(a.s) /\ a.level = r.level /\ r.got <= a.got /\ a.got \in Nat
  BY DEF AskFits, Accs
<1>4. \A x \in Urls : a.s.entries[x].refs \in Nat /\ s.entries[x].refs \in Nat
                      /\ a.s.entries[x].st \in {"none", "loading", "ready"} /\ s.entries[x].st \in {"none", "loading", "ready"}
  BY <1>3 DEF StoreFits, Stores, EntryRecords
<1> HIDE DEF u
<1>5. CASE a.waits
  <2>1. z = a
    BY <1>5 DEF VA!AskLayer
  <2>2. a.got < n - 1
    BY <1>5 DEF AskFits
  <2>3. a.got < n
    BY <1>1, <1>3, <2>2
  <2> HIDE DEF z
  <2> QED BY <1>5, <2>1, <2>3 DEF AskFits, u, z
<1>6. CASE ~a.waits
  <2>0. a.got = n - 1 /\ a.load = 0 /\ a.s.loads = s.loads
    BY <1>6 DEF AskFits
  <2>00. VA!Idle(a.s) # {}
    BY <2>0 DEF VA!Idle
  <2>1. CASE owner.cached /\ u \notin Gltf
    <3> DEFINE t == VA!Acquire(a.s, u)
    <3>1. u \in Managed
      BY <1>1, <2>1 DEF Managed
    <3>2. /\ StoreFits(t) /\ Bounded(t)
          /\ \A x \in Urls : /\ t.entries[x].refs = a.s.entries[x].refs + (IF x = u THEN 1 ELSE 0)
                             /\ t.entries[x].st = IF x = u /\ x \notin Listed(a.s) THEN "loading" ELSE a.s.entries[x].st
          /\ \A k \in Loads : a.s.loads[k].st # "free" => t.loads[k] = a.s.loads[k]
          /\ u \in Listed(a.s) => t.loads = a.s.loads
      BY <1>3, <2>00, <3>1, AcquireFits
    <3>3. z = [a EXCEPT !.s = t, !.waits = ~ (t.entries[u].st = "ready"),
                        !.got = IF t.entries[u].st = "ready" THEN a.got + 1 ELSE a.got]
      BY <1>6, <2>1 DEF VA!AskLayer
    <3> HIDE DEF t
    <3>4. /\ z \in Accs /\ z.s = t /\ z.load = 0 /\ z.level = r.level
          /\ z.waits <=> t.entries[u].st # "ready"
          /\ z.got = IF t.entries[u].st = "ready" THEN n ELSE n - 1
      <4>0. t \in Stores /\ a \in Accs
        BY <1>3, <3>2 DEF StoreFits
      <4>1. CASE t.entries[u].st = "ready"
        <5>1. z = [a EXCEPT !.s = t, !.waits = FALSE, !.got = n]
          BY <1>1, <2>0, <3>3, <4>1
        <5> HIDE DEF z
        <5>2. z \in Accs /\ z.s = t /\ z.load = 0 /\ z.level = r.level /\ ~z.waits /\ z.got = n
          BY <1>1, <1>3, <2>0, <4>0, <5>1 DEF Accs
        <5> QED BY <4>1, <5>2
      <4>2. CASE t.entries[u].st # "ready"
        <5>1. z = [a EXCEPT !.s = t, !.waits = TRUE, !.got = n - 1]
          BY <1>1, <2>0, <3>3, <4>2
        <5> HIDE DEF z
        <5>2. z \in Accs /\ z.s = t /\ z.load = 0 /\ z.level = r.level /\ z.waits /\ z.got = n - 1
          BY <1>1, <1>3, <2>0, <4>0, <5>1 DEF Accs
        <5> QED BY <4>2, <5>2
      <4> QED BY <4>1, <4>2
    <3> HIDE DEF z
    <3>5. \A x \in Listed(s) : t.entries[x].st = s.entries[x].st
      <4>1. \A x \in Listed(s) : x \in Urls /\ x \in Listed(a.s) /\ a.s.entries[x].st = s.entries[x].st
        BY DEF AskFits, Listed
      <4> QED BY <3>2, <4>1
    <3>6. \A k \in Loads : s.loads[k].st # "free" => t.loads[k] = s.loads[k]
      BY <2>0, <3>2
    <3>7. \A x \in Managed : t.entries[x].refs + Upto(x, r.urls, r.got)
                             = s.entries[x].refs + Upto(x, r.urls, IF z.waits THEN z.got + 1 ELSE z.got)
      <4>1. (IF z.waits THEN z.got + 1 ELSE z.got) = n
        BY <1>1, <3>4
      <4>2. \A x \in Managed : a.s.entries[x].refs + Upto(x, r.urls, r.got) = s.entries[x].refs + Upto(x, r.urls, n - 1)
        BY <1>6, <2>0, <2>1 DEF AskFits
      <4>3. ASSUME NEW x \in Managed
            PROVE  t.entries[x].refs + Upto(x, r.urls, r.got) = s.entries[x].refs + Upto(x, r.urls, n)
        <5>1. /\ Upto(x, r.urls, n - 1) \in Nat /\ Upto(x, r.urls, r.got) \in Nat
              /\ Upto(x, r.urls, n) = Upto(x, r.urls, n - 1) + (IF u = x THEN 1 ELSE 0)
          BY <1>2
        <5>2. x \in Urls /\ a.s.entries[x].refs \in Nat /\ s.entries[x].refs \in Nat
          BY <1>2, <1>4
        <5>3. t.entries[x].refs = a.s.entries[x].refs + (IF x = u THEN 1 ELSE 0)
          BY <3>2, <5>2
        <5> QED BY <4>2, <5>1, <5>2, <5>3
      <4> QED BY <4>1, <4>3
    <3>8. Had(t, r.urls, n - 1)
      <4>1. Had(a.s, r.urls, n - 1)
        BY <2>0, <2>1 DEF AskFits
      <4>2. \A x \in Managed : a.s.entries[x].st = "ready" => t.entries[x].st = "ready"
        BY <1>2, <3>2 DEF Listed
      <4> QED BY <4>1, <4>2 DEF Had
    <3>9. Had(t, r.urls, z.got)
      <4>1. CASE t.entries[u].st = "ready"
        <5>1. \A i \in 1 .. n : i \in 1 .. n - 1 \/ i = n
          BY <1>1
        <5> QED BY <3>4, <3>8, <4>1, <5>1 DEF Had, u
      <4> QED BY <3>4, <3>8, <4>1
    <3>10. ASSUME z.waits PROVE WaitsFor(t, r.urls, z.got, z.load) /\ z.got < n
      <4>1. z.got = n - 1 /\ r.urls[z.got + 1] = u
        BY <1>1, <3>4, <3>10 DEF u
      <4>2. t.entries[u].st = "loading"
        BY <1>1, <1>4, <3>2, <3>4, <3>10 DEF Listed
      <4> QED BY <1>1, <2>1, <3>4, <3>9, <4>1, <4>2 DEF WaitsFor
    <3>11. ASSUME ~z.waits PROVE z.got = n /\ z.load = 0 /\ t.loads = s.loads
      <4>1. u \in Listed(a.s)
        BY <1>1, <3>2, <3>4, <3>11
      <4> QED BY <2>0, <3>2, <3>4, <3>11, <4>1
    <3>12. r.got <= z.got
      BY <1>1, <3>4
    <3>13. AskFits(s, r, z, n)
      BY <2>1, <3>2, <3>4, <3>5, <3>6, <3>7, <3>9, <3>10, <3>11, <3>12 DEF AskFits
    <3> QED BY <3>13 DEF z, u
  <2>2. CASE ~ (owner.cached /\ u \notin Gltf)
    <3> DEFINE l == VA!NextLoad(a.s)
               t == VA!StartLoad(a.s, u, a.level, u \notin Gltf)
    <3>1. PICK yes \in BOOLEAN : yes = (u \notin Gltf)
      OBVIOUS
    <3>2. t = VA!StartLoad(a.s, u, a.level, yes)
      BY <3>1
    <3>3. z = [a EXCEPT !.s = t, !.load = l, !.waits = TRUE]
      BY <1>6, <2>2 DEF VA!AskLayer
    <3> HIDE DEF t
    <3>4. /\ StoreFits(t) /\ l \in Loads /\ t.entries = a.s.entries
          /\ t.loads[l].st = "manifest" /\ t.loads[l].url = u /\ ~t.loads[l].aborted
          /\ a.s.loads[l].st = "free" /\ s.loads[l].st = "free" /\ \A k \in Loads : k # l => t.loads[k] = a.s.loads[k]
      <4>1. a.level \in VA!Levels
        BY <1>3 DEF Accs
      <4> QED BY <1>1, <1>3, <2>0, <2>00, <3>2, <4>1, StartFits
    <3> HIDE DEF l
    <3>5. z \in Accs /\ z.s = t /\ z.load = l /\ z.level = r.level /\ z.waits /\ z.got = n - 1
      BY <1>1, <1>3, <2>0, <3>3, <3>4 DEF Accs, StoreFits
    <3> HIDE DEF z
    <3>6. Bounded(t) /\ Listed(t) = Listed(a.s)
      BY <1>3, <3>4, SameEntries
    <3>7. \A k \in Loads : s.loads[k].st # "free" => t.loads[k] = s.loads[k]
      BY <2>0, <3>4
    <3>8. ASSUME owner.cached
          PROVE  /\ \A x \in Managed : t.entries[x].refs + Upto(x, r.urls, r.got) = s.entries[x].refs + Upto(x, r.urls, z.got + 1)
                 /\ Had(t, r.urls, z.got) /\ WaitsFor(t, r.urls, z.got, z.load)
      <4>1. u \in Gltf /\ z.got + 1 = n /\ r.urls[z.got + 1] = u
        BY <1>1, <2>2, <3>5, <3>8 DEF u
      <4>2. \A x \in Managed : a.s.entries[x].refs + Upto(x, r.urls, r.got) = s.entries[x].refs + Upto(x, r.urls, n - 1)
        BY <1>6, <2>0, <3>8 DEF AskFits
      <4>3. \A x \in Managed : Upto(x, r.urls, n) = Upto(x, r.urls, n - 1)
        BY <1>2, <4>1 DEF Managed
      <4>4. Had(a.s, r.urls, n - 1)
        BY <2>0, <3>8 DEF AskFits
      <4>5. Had(t, r.urls, z.got)
        BY <3>4, <3>5, <4>4 DEF Had
      <4>6. WaitsFor(t, r.urls, z.got, z.load)
        BY <3>4, <3>5, <4>1, <4>5 DEF WaitsFor, Managed
      <4> QED BY <3>4, <4>1, <4>2, <4>3, <4>5, <4>6
    <3>9. z.got < n /\ r.got <= z.got
      BY <1>1, <3>5
    <3>10. AskFits(s, r, z, n)
      BY <3>4, <3>5, <3>6, <3>7, <3>8, <3>9 DEF AskFits
    <3> QED BY <3>10 DEF z, u
  <2> QED BY <2>1, <2>2
<1> QED BY <1>5, <1>6

\* The whole loop.
LEMMA AskLayersFit ==
  ASSUME VA!ViewerAssetsAssumption, NEW s, StoreFits(s), Bounded(s), NEW r \in Requests, r.got <= Len(r.urls),
         r.got < Len(r.urls) => VA!Idle(s) # {}, owner.cached => Had(s, r.urls, r.got)
  PROVE  AskFits(s, r, VA!AskLayers(s, r), Len(r.urls))
<1> DEFINE N == Len(r.urls)
           at(n) == VA!Asked(s, r)[n]
           T == {n \in 0 .. N : n >= r.got => AskFits(s, r, at(n), n)}
<1>1. r.urls \in Seq(Urls) /\ N \in Nat /\ r.got \in Nat /\ r.got <= N
  BY DEF Requests
<1>2. \A n \in 0 .. N : at(n) = IF n <= r.got THEN AskBegin(s, r) ELSE VA!AskLayer(at(n - 1), r.urls[n])
  BY <1>1, AskedIs DEF AskBegin
<1>3. AskFits(s, r, AskBegin(s, r), r.got)
  BY AskBegins
<1> HIDE DEF at
<1>4. 0 \in T
  <2> SUFFICES ASSUME 0 >= r.got PROVE AskFits(s, r, at(0), 0)
    BY <1>1
  <2>1. r.got = 0 /\ 0 \in 0 .. N
    BY <1>1
  <2> QED BY <1>2, <1>3, <2>1
<1>5. ASSUME NEW n \in 1 .. N, n - 1 \in T PROVE n \in T
  <2> SUFFICES ASSUME n >= r.got PROVE AskFits(s, r, at(n), n)
    BY <1>1
  <2>0. n \in 0 .. N /\ n \in Nat
    BY <1>1
  <2>1. CASE n = r.got
    BY <1>2, <1>3, <2>0, <2>1
  <2>2. CASE n > r.got
    <3>1. n - 1 >= r.got /\ ~ (n <= r.got) /\ r.got < N
      BY <1>1, <2>0, <2>2
    <3>2. at(n) = VA!AskLayer(at(n - 1), r.urls[n]) /\ AskFits(s, r, at(n - 1), n - 1)
      BY <1>2, <1>5, <2>0, <3>1
    <3> QED BY <2>2, <3>1, <3>2, AskLayerFits
  <2> QED BY <1>1, <2>0, <2>1, <2>2
<1>6. AskFits(s, r, at(N), N)
  <2>1. \A n \in 1 .. N : n - 1 \in T => n \in T
    BY <1>5
  <2>2. N \in 0 .. N /\ N >= r.got
    BY <1>1
  <2> HIDE DEF T, N
  <2>3. N \in T
    BY <1>1, <1>4, <2>1, <2>2, StepByStep
  <2> QED BY <2>2, <2>3 DEF T
<1> QED BY <1>6 DEF at, VA!AskLayers

-----------------------------------------------------------------------------
(***************************************************************************)
(* What the viewer holds, when a task ends.                                *)
(***************************************************************************)
\* A manifest that is among the first of a list is held.
LEMMA InIsUpto ==
  ASSUME NEW q, NEW n \in Nat, NEW i \in 1 .. n
  PROVE  Upto(q[i], q, n) \in Nat /\ Upto(q[i], q, n) > 0
<1>1. Upto(q[i], q, n) \in Nat /\ Upto(q[i], q, n) # 0
  BY UptoIs
<1> QED BY <1>1

\* Layers that are held stay ready.
LEMMA HadStays ==
  ASSUME NEW s, NEW t, NEW q, NEW n \in Nat, Had(s, q, n),
         \A x \in Managed : Upto(x, q, n) > 0 => t.entries[x].st \in {s.entries[x].st, "ready"}
  PROVE  Had(t, q, n)
<1> SUFFICES ASSUME NEW i \in 1 .. n, q[i] \in Managed PROVE t.entries[q[i]].st = "ready"
  BY DEF Had
<1>1. s.entries[q[i]].st = "ready"
  BY DEF Had
<1>2. Upto(q[i], q, n) > 0
  BY InIsUpto
<1> QED BY <1>1, <1>2

\* What the parts of a viewer are.
LEMMA ViewerParts ==
  ASSUME NEW v \in Viewers
  PROVE  /\ v.shown.urls \in Seq(Urls) /\ Len(v.shown.urls) \in Nat /\ v.want \in Wants /\ v.level \in VA!Levels
         /\ v.request \in Requests /\ v.request.urls \in Seq(Urls) /\ v.request.got \in Nat /\ v.request.got + 1 \in Nat
         /\ v.request.load \in Loads \union {0} /\ v.request.level \in VA!Levels /\ v.request.on \in BOOLEAN
         /\ Len(v.request.urls) \in Nat /\ v.mounted \in BOOLEAN
BY DEF Viewers, Requests

\* What is held, in numbers.
LEMMA HeldIs ==
  ASSUME NEW v \in Viewers, NEW x
  PROVE  /\ Held(v, x) \in Nat
         /\ Upto(x, v.shown.urls, Len(v.shown.urls)) \in Nat /\ Upto(x, v.shown.urls, Len(v.shown.urls)) <= Held(v, x)
         /\ v.request.on =>
              /\ Upto(x, v.request.urls, v.request.got) \in Nat
              /\ Held(v, x) = Upto(x, v.shown.urls, Len(v.shown.urls)) + Upto(x, v.request.urls, v.request.got)
                              + (IF VA!Awaited(v.request) = x THEN 1 ELSE 0)
<1>1. Len(v.shown.urls) \in Nat /\ v.request.got \in Nat /\ v.request.got + 1 \in Nat /\ v.request.got + 1 > 0
      /\ (v.request.got + 1) - 1 = v.request.got
  BY ViewerParts
<1>2. Upto(x, v.shown.urls, Len(v.shown.urls)) \in Nat /\ Upto(x, v.request.urls, v.request.got) \in Nat
  BY <1>1, UptoIs
<1>3. Upto(x, v.request.urls, v.request.got + 1)
      = Upto(x, v.request.urls, v.request.got) + (IF VA!Awaited(v.request) = x THEN 1 ELSE 0)
  BY <1>1, UptoIs DEF VA!Awaited
<1> QED BY <1>2, <1>3 DEF Held

\* The viewer fits a store in which what it holds is as it was, or is ready
\* and it does not wait for it.
LEMMA StaysFit ==
  ASSUME NEW s, NEW t, NEW v \in Viewers, ViewerFits(s, v),
         \A x \in Managed :
            /\ t.entries[x].refs = s.entries[x].refs
            /\ s.entries[x].refs > 0 =>
                 \/ t.entries[x].st = s.entries[x].st
                 \/ t.entries[x].st = "ready" /\ ~ (v.request.on /\ VA!Awaited(v.request) = x),
         v.request.on /\ VA!Awaited(v.request) \in Gltf => t.loads[v.request.load] = s.loads[v.request.load]
  PROVE  ViewerFits(t, v)
<1> DEFINE r == v.request
<1>1. \A x \in Managed : s.entries[x].refs = Held(v, x)
  BY DEF ViewerFits
<1>2. \A x \in Managed : Held(v, x) > 0 => t.entries[x].st \in {s.entries[x].st, "ready"}
  BY <1>1
<1>3. Had(t, v.shown.urls, Len(v.shown.urls))
  <2>1. \A x \in Managed : Upto(x, v.shown.urls, Len(v.shown.urls)) > 0 => Held(v, x) > 0
    BY HeldIs
  <2>2. Had(s, v.shown.urls, Len(v.shown.urls)) /\ Len(v.shown.urls) \in Nat
    BY ViewerParts DEF ViewerFits
  <2> QED BY <1>2, <2>1, <2>2, HadStays
<1>4. ASSUME r.on PROVE RequestFits(t, r)
  <2>1. RequestFits(s, r)
    BY <1>4 DEF ViewerFits
  <2>2. Had(t, r.urls, r.got)
    <3>1. \A x \in Managed : Upto(x, r.urls, r.got) > 0 => Held(v, x) > 0
      BY <1>4, HeldIs
    <3>2. Had(s, r.urls, r.got) /\ r.got \in Nat
      BY <2>1, ViewerParts DEF RequestFits, WaitsFor
    <3> QED BY <1>2, <3>1, <3>2, HadStays
  <2> DEFINE u == VA!Awaited(r)
  <2>3. u = r.urls[r.got + 1]
    BY DEF VA!Awaited
  <2>4. u \in Managed => t.entries[u].st = s.entries[u].st
    <3> SUFFICES ASSUME u \in Managed PROVE t.entries[u].st = s.entries[u].st
      OBVIOUS
    <3>1. Held(v, u) > 0
      BY <1>4, HeldIs
    <3> QED BY <1>1, <1>4, <3>1
  <2> QED BY <1>4, <2>1, <2>2, <2>3, <2>4 DEF RequestFits, WaitsFor
<1>5. \A x \in Managed : t.entries[x].refs = Held(v, x)
  BY <1>1
<1> QED BY <1>3, <1>4, <1>5 DEF ViewerFits

\* The list of what was disposed in a task is emptied when it ends.
LEMMA GoneFits ==
  ASSUME NEW s, StoreFits(s)
  PROVE  LET t == [s EXCEPT !.gone = {}]
         IN  StoreFits(t) /\ t.entries = s.entries /\ t.loads = s.loads /\ t.gone = {}
<1> DEFINE t == [s EXCEPT !.gone = {}]
<1>1. t \in Stores /\ t.entries = s.entries /\ t.loads = s.loads /\ t.recent = s.recent /\ t.gone = {}
  BY DEF StoreFits, Stores
<1> HIDE DEF t
<1>2. Listed(t) = Listed(s)
  BY <1>1 DEF Listed
<1>3. StoreFits(t)
  BY <1>1, <1>2 DEF StoreFits, EntryFits
<1> QED BY <1>1, <1>3 DEF t

\* A store of the same entries and loads fits the viewer as well.
LEMMA SameFits ==
  ASSUME NEW s, NEW t, NEW v, TaskFits(s, v), StoreFits(t), t.entries = s.entries, t.loads = s.loads
  PROVE  TaskFits(t, v)
<1>1. Listed(t) = Listed(s) /\ Bounded(t)
  BY SameEntries DEF TaskFits
<1>2. ViewerFits(s, v) => ViewerFits(t, v)
  BY DEF ViewerFits, RequestFits, WaitsFor, Had
<1> QED BY <1>1, <1>2 DEF TaskFits

\* A task that ends with a store and a viewer that fit has disposed nothing
\* that is on the screen.
LEMMA SettleFits ==
  ASSUME NEW s, NEW v, TaskFits(s, v), VA!Settle(s, v), owner \in VA!Owners, owner' = owner
  PROVE  CacheInv'
<1> DEFINE t == [s EXCEPT !.gone = {}]
<1>1. StoreFits(t) /\ t.entries = s.entries /\ t.loads = s.loads /\ t.gone = {}
  BY GoneFits DEF TaskFits
<1>2. store' = t
  BY DEF VA!Settle
<1> HIDE DEF t
<1>3. viewer' = v
  <2>1. CASE ~owner.cached
    BY <2>1 DEF VA!Settle
  <2>2. CASE owner.cached
    <3>1. s.gone \intersect VA!ToSet(v.shown.urls) = {}
      <4> SUFFICES ASSUME NEW u \in s.gone, u \in VA!ToSet(v.shown.urls) PROVE FALSE
        OBVIOUS
      <4>1. v.shown.urls \in Seq(Urls) /\ DOMAIN v.shown.urls = 1 .. Len(v.shown.urls)
        BY ViewerParts DEF TaskFits
      <4>2. PICK i \in 1 .. Len(v.shown.urls) : v.shown.urls[i] = u
        BY <4>1 DEF VA!ToSet
      <4>3. u \in Urls /\ u \in Managed /\ s.entries[u].st # "ready"
        BY <4>1, <4>2 DEF TaskFits, StoreFits, EntryFits
      <4>4. Had(s, v.shown.urls, Len(v.shown.urls))
        BY <2>2 DEF TaskFits, ViewerFits
      <4> QED BY <4>2, <4>3, <4>4 DEF Had
    <3> QED BY <3>1 DEF VA!Settle
  <2> QED BY <2>1, <2>2
<1>4. TaskFits(store', viewer')
  BY <1>1, <1>2, <1>3, SameFits
<1>5. TaskFits(store, viewer)'
  BY <1>4, owner' = owner DEF TaskFits
<1> QED BY <1>1, <1>2, <1>5 DEF CacheInv

\* The picture and the first n layers of a list are what the viewer holds.
Holding(s, v, q, n) ==
    /\ Had(s, v.shown.urls, Len(v.shown.urls)) /\ Had(s, q, n) /\ v.level = "default"
    /\ \A x \in Managed : s.entries[x].refs = Upto(x, v.shown.urls, Len(v.shown.urls)) + Upto(x, q, n)
\* A moment of a task at which the first n layers of q are held, and no more.
Moment(s, v, q, n) ==
    /\ StoreFits(s) /\ Bounded(s) /\ v \in Viewers /\ v.mounted
    /\ owner.cached => Holding(s, v, q, n)
    /\ ~owner.cached => Listed(s) = {}

\* The last layer is there: the new picture takes the place of the old one.
LEMMA FinishFits ==
  ASSUME VA!ViewerAssetsAssumption, NEW s, NEW v, NEW r \in Requests, Moment(s, v, r.urls, Len(r.urls)),
         r.urls = v.want, r.level = v.level, VA!Finish(s, v, r), owner \in VA!Owners, owner' = owner
  PROVE  CacheInv'
<1> DEFINE t == VA!GiveBack(s, v.shown.urls)
           p == [urls |-> r.urls, level |-> r.level, alive |-> TRUE]
           w == [v EXCEPT !.request = VA!NoRequest, !.status = "ready", !.loaded = r.urls, !.shown = p]
           N == Len(r.urls)
           old == v.shown.urls
<1>1. VA!Settle(t, w)
  BY DEF VA!Finish
<1>2. r.urls \in Seq(Urls) /\ N \in Nat /\ r.level \in VA!Levels /\ old \in Seq(Urls) /\ Len(old) \in Nat /\ v.mounted
  BY ViewerParts DEF Requests, Moment
<1>3. /\ Kept(s, t) /\ Bounded(t) /\ (~owner.cached => t = s)
      /\ owner.cached => \A x \in Managed : t.entries[x].refs = Rest(s.entries[x].refs, Upto(x, old, Len(old)))
  BY <1>2, GiveBackFits DEF Moment
<1> HIDE DEF t
<1>4. /\ w \in Viewers /\ w.request = VA!NoRequest /\ w.shown = p /\ w.want = v.want /\ w.level = v.level /\ w.mounted
  <2>1. VA!NoRequest \in Requests
    BY DEF VA!NoRequest, Requests, VA!Levels
  <2>2. p \in [urls : Seq(Urls), level : VA!Levels, alive : BOOLEAN]
    BY <1>2
  <2>3. "ready" \in VA!Statuses
    BY DEF VA!Statuses
  <2> HIDE DEF p
  <2> QED BY <1>2, <2>1, <2>2, <2>3 DEF Moment, Viewers, Requests
<1>5. w.shown.urls = r.urls /\ w.shown.level = r.level /\ w.shown.alive /\ ~w.request.on
  BY <1>4 DEF VA!NoRequest
<1> HIDE DEF w, p
<1>6. AsksAndShowsWanted(w)
  BY <1>4, <1>5 DEF AsksAndShowsWanted
<1>7. ASSUME owner.cached PROVE ViewerFits(t, w)
  <2>1. Holding(s, v, r.urls, N)
    BY <1>7 DEF Moment
  <2>2. \A x \in Managed : /\ Upto(x, old, Len(old)) \in Nat /\ Upto(x, r.urls, N) \in Nat /\ x \in Urls
                           /\ s.entries[x].refs = Upto(x, old, Len(old)) + Upto(x, r.urls, N)
    BY <1>2, <2>1, UptoIs DEF Holding, Managed
  <2>3. \A x \in Managed : t.entries[x].refs = Upto(x, r.urls, N)
    BY <1>3, <1>7, <2>2 DEF Rest
  <2>4. \A x \in Managed : t.entries[x].refs > 0 => t.entries[x].st = s.entries[x].st
    BY <1>3, <2>2 DEF Kept, Fewer
  <2>5. Had(t, r.urls, N)
    BY <1>2, <2>1, <2>3, <2>4, HadStays DEF Holding
  <2>6. \A x \in Managed : Held(w, x) = Upto(x, r.urls, N)
    BY <1>5, <2>2 DEF Held
  <2> QED BY <1>4, <1>5, <2>1, <2>3, <2>5, <2>6 DEF ViewerFits, Holding
<1>8. TaskFits(t, w)
  BY <1>3, <1>4, <1>5, <1>6, <1>7 DEF TaskFits, Kept, Moment
<1> QED BY <1>1, <1>8, SettleFits

\* A request that goes on, waiting for the layer after those it has.
LEMMA WaitingFits ==
  ASSUME NEW s, NEW v \in Viewers, NEW r \in Requests, NEW a, NEW w,
         Moment(s, v, r.urls, r.got), AskFits(s, r, a, Len(r.urls)), a.waits, r.on, v.shown.alive,
         w \in Viewers, w.mounted, w.shown = v.shown, w.level = r.level, w.want = r.urls, w.status = "loading",
         w.request = [r EXCEPT !.got = a.got, !.load = a.load], owner.cached => w.level = "default"
  PROVE  TaskFits(a.s, w)
<1> DEFINE t == a.s
           z == w.request
<1>1. a.got \in Nat /\ a.got < Len(r.urls) /\ StoreFits(t) /\ Bounded(t) /\ r.got \in Nat /\ a.got + 1 \in Nat
  BY DEF AskFits, Accs, Requests
<1>2. z.on /\ z.urls = r.urls /\ z.got = a.got /\ z.load = a.load /\ z.level = r.level
  BY DEF Requests
<1>3. AsksAndShowsWanted(w)
  BY <1>1, <1>2 DEF AsksAndShowsWanted
<1>4. ASSUME owner.cached PROVE ViewerFits(t, w)
  <2>1. Holding(s, v, r.urls, r.got)
    BY <1>4 DEF Moment
  <2>2. WaitsFor(t, r.urls, a.got, a.load)
    BY <1>4 DEF AskFits
  <2>3. \A x \in Managed : t.entries[x].refs + Upto(x, r.urls, r.got) = s.entries[x].refs + Upto(x, r.urls, a.got + 1)
    BY <1>4 DEF AskFits
  <2>4. ASSUME NEW x \in Managed PROVE t.entries[x].refs = Held(w, x)
    <3>1. /\ Upto(x, r.urls, r.got) \in Nat /\ Upto(x, r.urls, a.got + 1) \in Nat
          /\ Upto(x, v.shown.urls, Len(v.shown.urls)) \in Nat
      BY <1>1, ViewerParts, UptoIs
    <3>2. t.entries[x].refs \in Nat
      BY <1>1 DEF StoreFits, Stores, EntryRecords, Managed
    <3>3. s.entries[x].refs = Upto(x, v.shown.urls, Len(v.shown.urls)) + Upto(x, r.urls, r.got)
      BY <2>1 DEF Holding
    <3>4. Held(w, x) = Upto(x, v.shown.urls, Len(v.shown.urls)) + Upto(x, r.urls, a.got + 1)
      BY <1>2 DEF Held
    <3> QED BY <2>3, <3>1, <3>2, <3>3, <3>4
  <2>5. Had(t, v.shown.urls, Len(v.shown.urls))
    <3>1. \A i \in 1 .. Len(v.shown.urls) : v.shown.urls[i] \in Managed => t.entries[v.shown.urls[i]].st = "ready"
      <4> SUFFICES ASSUME NEW i \in 1 .. Len(v.shown.urls), v.shown.urls[i] \in Managed
                   PROVE  t.entries[v.shown.urls[i]].st = "ready"
        OBVIOUS
      <4>1. s.entries[v.shown.urls[i]].st = "ready"
        BY <2>1 DEF Holding, Had
      <4>2. v.shown.urls[i] \in Listed(s)
        BY <4>1 DEF Listed, Managed
      <4> QED BY <4>1, <4>2 DEF AskFits
    <3> QED BY <3>1 DEF Had
  <2> QED BY <1>2, <1>4, <2>2, <2>4, <2>5 DEF ViewerFits, RequestFits
<1>5. ~owner.cached => Listed(t) = {}
  <2>1. ~owner.cached => t.entries = s.entries /\ Listed(s) = {}
    BY DEF AskFits, Moment
  <2> QED BY <2>1, SameEntries
<1> QED BY <1>1, <1>3, <1>4, <1>5 DEF TaskFits

\* The layers are asked for and the request waits, or the picture is complete.
LEMMA GoesOn ==
  ASSUME VA!ViewerAssetsAssumption, NEW s, NEW v, NEW r \in Requests, Moment(s, v, r.urls, r.got),
         r.on, r.got <= Len(r.urls), r.got < Len(r.urls) => VA!Idle(s) # {},
         r.urls = v.want, r.level = v.level, v.status = "loading", v.shown.alive,
         LET a == VA!AskLayers(s, r)
         IN  IF a.waits THEN VA!Settle(a.s, [v EXCEPT !.request = [r EXCEPT !.got = a.got, !.load = a.load]])
             ELSE VA!Finish(a.s, v, r),
         owner \in VA!Owners, owner' = owner
  PROVE  CacheInv'
<1> DEFINE a == VA!AskLayers(s, r)
           N == Len(r.urls)
           z == [r EXCEPT !.got = a.got, !.load = a.load]
           w == [v EXCEPT !.request = z]
<1>0. v \in Viewers /\ StoreFits(s) /\ Bounded(s) /\ v.mounted /\ (owner.cached => Holding(s, v, r.urls, r.got))
  BY DEF Moment
<1>1. AskFits(s, r, a, N)
  BY <1>0, AskLayersFit DEF Holding
<1> HIDE DEF a
<1>2. CASE a.waits
  <2>1. VA!Settle(a.s, w)
    BY <1>2 DEF a
  <2>2. z \in Requests
    BY <1>1 DEF AskFits, Accs, Requests
  <2> HIDE DEF z
  <2>3. /\ w \in Viewers /\ w.mounted /\ w.shown = v.shown /\ w.level = v.level /\ w.want = v.want
        /\ w.status = v.status /\ w.request = z
    BY <1>0, <2>2 DEF Viewers, Requests
  <2> HIDE DEF w
  <2>4. TaskFits(a.s, w)
    BY <1>0, <1>1, <1>2, <2>3, WaitingFits DEF z, Holding
  <2> QED BY <2>1, <2>4, SettleFits
<1>3. CASE ~a.waits
  <2>1. VA!Finish(a.s, v, r)
    BY <1>3 DEF a
  <2>2. Moment(a.s, v, r.urls, N)
    <3>1. a.got = N /\ StoreFits(a.s) /\ Bounded(a.s)
      BY <1>1, <1>3 DEF AskFits
    <3>2. ASSUME owner.cached PROVE Holding(a.s, v, r.urls, N)
      <4>1. /\ Had(a.s, r.urls, N)
            /\ \A x \in Managed : a.s.entries[x].refs + Upto(x, r.urls, r.got) = s.entries[x].refs + Upto(x, r.urls, N)
        BY <1>1, <1>3, <3>1, <3>2 DEF AskFits
      <4>2. Holding(s, v, r.urls, r.got)
        BY <1>0, <3>2
      <4>3. ASSUME NEW x \in Managed
            PROVE  a.s.entries[x].refs = Upto(x, v.shown.urls, Len(v.shown.urls)) + Upto(x, r.urls, N)
        <5>1. /\ Upto(x, r.urls, r.got) \in Nat /\ Upto(x, r.urls, N) \in Nat
              /\ Upto(x, v.shown.urls, Len(v.shown.urls)) \in Nat
          <6>1. r.got \in Nat /\ N \in Nat
            BY DEF Requests
          <6> QED BY <1>0, <6>1, ViewerParts, UptoIs
        <5>2. a.s.entries[x].refs \in Nat
          BY <3>1 DEF StoreFits, Stores, EntryRecords, Managed
        <5>3. s.entries[x].refs = Upto(x, v.shown.urls, Len(v.shown.urls)) + Upto(x, r.urls, r.got)
          BY <4>2 DEF Holding
        <5> QED BY <4>1, <5>1, <5>2, <5>3
      <4>4. Had(a.s, v.shown.urls, Len(v.shown.urls))
        <5> SUFFICES ASSUME NEW i \in 1 .. Len(v.shown.urls), v.shown.urls[i] \in Managed
                     PROVE  a.s.entries[v.shown.urls[i]].st = "ready"
          BY DEF Had
        <5>1. s.entries[v.shown.urls[i]].st = "ready"
          BY <4>2 DEF Holding, Had
        <5>2. v.shown.urls[i] \in Listed(s)
          BY <5>1 DEF Listed, Managed
        <5> QED BY <1>1, <5>1, <5>2 DEF AskFits
      <4> QED BY <4>1, <4>2, <4>3, <4>4 DEF Holding
    <3>3. ~owner.cached => Listed(a.s) = {}
      <4>1. ~owner.cached => a.s.entries = s.entries /\ Listed(s) = {}
        BY <1>1 DEF AskFits, Moment
      <4> QED BY <4>1, SameEntries
    <3> QED BY <1>0, <3>1, <3>2, <3>3 DEF Moment
  <2> QED BY <2>1, <2>2, FinishFits
<1> QED BY <1>2, <1>3

\* A layer cannot be had: the request gives back what it has, and ends or
\* asks again at the manifest's own precision.
LEMMA FailFits ==
  ASSUME VA!ViewerAssetsAssumption, NEW s, NEW v, Moment(s, v, v.request.urls, v.request.got), v.request.on,
         AsksAndShowsWanted(v), v.shown.alive, VA!Fail(s, v, v.request), owner.cached => v.level = "default",
         owner \in VA!Owners, owner' = owner
  PROVE  CacheInv'
<1> DEFINE r == v.request
           part == SubSeq(r.urls, 1, r.got)
           b == VA!GiveBack(s, part)
           old == v.shown.urls
<1>1. /\ v \in Viewers /\ StoreFits(s) /\ Bounded(s) /\ v.mounted /\ r \in Requests /\ r.urls \in Seq(Urls) /\ r.got \in Nat
      /\ old \in Seq(Urls) /\ Len(old) \in Nat
  BY ViewerParts DEF Moment
<1>2. r.got < Len(r.urls) /\ Len(r.urls) \in Nat /\ r.urls = v.want /\ r.level = v.level /\ v.status = "loading"
  BY <1>1 DEF AsksAndShowsWanted
<1>3. part \in Seq(Urls) /\ \A x : Upto(x, part, Len(part)) = Upto(x, r.urls, r.got)
  <2>1. r.got \in 0 .. Len(r.urls)
    BY <1>1, <1>2
  <2> QED BY <1>1, <2>1, UptoPart
<1> HIDE DEF part
<1>4. /\ Kept(s, b) /\ Bounded(b) /\ (~owner.cached => b = s)
      /\ owner.cached => \A x \in Managed : b.entries[x].refs = Rest(s.entries[x].refs, Upto(x, part, Len(part)))
  BY <1>1, <1>3, GiveBackFits
<1> HIDE DEF b
<1>5. CASE r.level = "default"
  <2> DEFINE w == [v EXCEPT !.request = VA!NoRequest, !.status = "error"]
  <2>1. VA!Settle(b, w)
    BY <1>5 DEF VA!Fail, b, part
  <2>2. /\ w \in Viewers /\ w.request = VA!NoRequest /\ w.status = "error" /\ w.shown = v.shown /\ w.level = v.level
        /\ w.mounted /\ w.want = v.want
    <3>1. VA!NoRequest \in Requests
      BY DEF VA!NoRequest, Requests, VA!Levels
    <3>2. "error" \in VA!Statuses
      BY DEF VA!Statuses
    <3> QED BY <1>1, <3>1, <3>2 DEF Viewers, Requests
  <2>3. ~w.request.on
    BY <2>2 DEF VA!NoRequest
  <2> HIDE DEF w
  <2>4. AsksAndShowsWanted(w)
    BY <2>2, <2>3 DEF AsksAndShowsWanted
  <2>5. ASSUME owner.cached PROVE ViewerFits(b, w)
    <3>1. Holding(s, v, r.urls, r.got)
      BY <2>5 DEF Moment
    <3>2. \A x \in Managed : /\ Upto(x, old, Len(old)) \in Nat /\ Upto(x, r.urls, r.got) \in Nat /\ x \in Urls
                             /\ s.entries[x].refs = Upto(x, old, Len(old)) + Upto(x, r.urls, r.got)
      BY <1>1, <3>1, UptoIs DEF Holding, Managed
    <3>3. \A x \in Managed : b.entries[x].refs = Upto(x, old, Len(old))
      BY <1>3, <1>4, <2>5, <3>2 DEF Rest
    <3>4. \A x \in Managed : b.entries[x].refs > 0 => b.entries[x].st = s.entries[x].st
      BY <1>4, <3>2 DEF Kept, Fewer
    <3>5. Had(b, old, Len(old))
      BY <1>1, <3>1, <3>3, <3>4, HadStays DEF Holding
    <3>6. \A x \in Managed : Held(w, x) = Upto(x, old, Len(old))
      BY <2>2, <2>3, <3>2 DEF Held
    <3> QED BY <2>2, <2>3, <3>1, <3>3, <3>5, <3>6 DEF ViewerFits, Holding
  <2>6. TaskFits(b, w)
    BY <1>4, <2>2, <2>3, <2>4, <2>5 DEF TaskFits, Kept, Moment
  <2> QED BY <2>1, <2>6, SettleFits
<1>6. CASE r.level # "default"
  <2> DEFINE again == [r EXCEPT !.level = "default", !.got = 0, !.load = 0]
             a == VA!AskLayers(b, again)
             z == [again EXCEPT !.got = a.got, !.load = a.load]
             w == [v EXCEPT !.level = "default", !.missing = @ \union {r.level}, !.status = "loading", !.request = z]
  <2>0. ~owner.cached /\ b = s
    BY <1>2, <1>4, <1>6
  <2>1. VA!Idle(b) # {} /\ VA!Settle(a.s, w)
    BY <1>6 DEF VA!Fail, b, part
  <2>2. /\ again \in Requests /\ again.urls = r.urls /\ again.got = 0 /\ again.on /\ again.level = "default"
    BY <1>1 DEF Requests, VA!Levels
  <2> HIDE DEF again
  <2>3. AskFits(b, again, a, Len(again.urls))
    BY <1>1, <1>2, <2>0, <2>1, <2>2, AskLayersFit
  <2> HIDE DEF a
  <2>4. a.waits
    BY <1>1, <1>2, <2>0, <2>2, <2>3 DEF AskFits
  <2>5. z \in Requests
    BY <2>2, <2>3 DEF AskFits, Accs, Requests
  <2> HIDE DEF z
  <2>6. /\ w \in Viewers /\ w.mounted /\ w.shown = v.shown /\ w.level = "default" /\ w.want = v.want
        /\ w.status = "loading" /\ w.request = z
    <3>1. "loading" \in VA!Statuses /\ "default" \in VA!Levels /\ r.level \in VA!Levels
      BY <1>1 DEF VA!Statuses, VA!Levels, Requests
    <3> QED BY <1>1, <2>5, <3>1 DEF Viewers, Requests
  <2> HIDE DEF w
  <2>7. Moment(b, v, again.urls, again.got)
    BY <2>0 DEF Moment
  <2>8. TaskFits(a.s, w)
    BY <1>1, <1>2, <2>2, <2>3, <2>4, <2>6, <2>7, WaitingFits DEF z
  <2> QED BY <2>1, <2>8, SettleFits
<1> QED BY <1>5, <1>6

\* The request has the layer it waited for.
LEMMA ContinueFits ==
  ASSUME VA!ViewerAssetsAssumption, NEW s, NEW v, Moment(s, v, v.request.urls, v.request.got + 1), v.request.on,
         AsksAndShowsWanted(v), v.shown.alive, VA!Continue(s, v),
         owner \in VA!Owners, owner' = owner
  PROVE  CacheInv'
<1> DEFINE r == [v.request EXCEPT !.got = v.request.got + 1]
<1>1. v \in Viewers /\ v.request \in Requests /\ v.request.got \in Nat
  BY ViewerParts DEF Moment
<1>2. r \in Requests /\ r.on /\ r.urls = v.request.urls /\ r.got = v.request.got + 1 /\ r.level = v.request.level
  BY <1>1 DEF Requests
<1>3. /\ r.got < Len(r.urls) => VA!Idle(s) # {}
      /\ LET a == VA!AskLayers(s, r)
         IN  IF a.waits THEN VA!Settle(a.s, [v EXCEPT !.request = [r EXCEPT !.got = a.got, !.load = a.load]])
             ELSE VA!Finish(a.s, v, r)
  BY DEF VA!Continue
<1> HIDE DEF r
<1>4. r.urls = v.want /\ r.level = v.level /\ v.status = "loading" /\ r.got <= Len(r.urls)
  <2>1. v.request.got < Len(v.request.urls) /\ Len(v.request.urls) \in Nat
    BY <1>1, ViewerParts DEF AsksAndShowsWanted
  <2> QED BY <1>1, <1>2, <2>1 DEF AsksAndShowsWanted
<1>5. Moment(s, v, r.urls, r.got)
  BY <1>2
<1> QED BY <1>2, <1>3, <1>4, <1>5, GoesOn

-----------------------------------------------------------------------------
(***************************************************************************)
(* Answers from the server.                                                *)
(***************************************************************************)
\* A load goes on or ends, while no entry minds.
LEMMA LoadChanged ==
  ASSUME NEW s, StoreFits(s), NEW l \in Loads, NEW d \in LoadRecords, LoadFits(d),
         \A u \in Urls : s.entries[u].st = "loading" /\ s.entries[u].load = l => d.url = u /\ d.st \in {"manifest", "buffers"}
  PROVE  LET t == [s EXCEPT !.loads[l] = d]
         IN  /\ StoreFits(t) /\ t.entries = s.entries /\ t.loads[l] = d
             /\ \A k \in Loads : k # l => t.loads[k] = s.loads[k]
<1> DEFINE t == [s EXCEPT !.loads[l] = d]
<1>1. s \in Stores /\ s.loads \in [Loads -> LoadRecords]
  BY DEF StoreFits, Stores
<1>2. /\ t.loads = [s.loads EXCEPT ![l] = d] /\ t.entries = s.entries /\ t.recent = s.recent /\ t.gone = s.gone
      /\ t \in Stores
  BY <1>1 DEF Stores
<1> HIDE DEF t
<1>3. t.loads[l] = d /\ \A k \in Loads : k # l => t.loads[k] = s.loads[k]
  BY <1>1, <1>2
<1>4. \A k \in Loads : LoadFits(t.loads[k])
  BY <1>3 DEF StoreFits
<1>5. ASSUME NEW x \in Urls PROVE EntryFits(t, x)
  <2>1. EntryFits(s, x)
    BY DEF StoreFits
  <2>2. CASE s.entries[x].st = "loading" /\ s.entries[x].load = l
    BY <1>2, <1>3, <2>1, <2>2 DEF EntryFits
  <2>3. CASE ~ (s.entries[x].st = "loading" /\ s.entries[x].load = l)
    BY <1>2, <1>3, <2>1, <2>3 DEF EntryFits
  <2> QED BY <2>2, <2>3
<1>6. Listed(t) = Listed(s)
  BY <1>2 DEF Listed
<1>7. StoreFits(t)
  BY <1>2, <1>4, <1>5, <1>6 DEF StoreFits
<1> QED BY <1>2, <1>3, <1>7 DEF t

\* A load ends and its entry with it, or its entry is ready.
EntryEnds(s, t, l, d, u, e) ==
    /\ t \in Stores /\ t.loads = [s.loads EXCEPT ![l] = d] /\ t.entries = [s.entries EXCEPT ![u] = e] /\ t.gone = s.gone
    /\ VA!IsInjective(t.recent) /\ d \in LoadRecords /\ LoadFits(d)
    /\ u \in Managed /\ s.entries[u].st = "loading" /\ s.entries[u].load = l
    /\ e \in EntryRecords /\ e.st # "loading"
    /\ e.st = "none" => e = VA!NoEntry /\ VA!ToSet(t.recent) = Listed(s) \ {u}
    /\ e.st = "ready" => e.load = 0 /\ VA!ToSet(t.recent) = Listed(s) /\ u \notin s.gone

\* When the load of an entry ends, the store fits again.
LEMMA EndsFit ==
  ASSUME NEW s, StoreFits(s), NEW t, NEW l \in Loads, NEW d, NEW u, NEW e, EntryEnds(s, t, l, d, u, e)
  PROVE  /\ StoreFits(t) /\ t.loads[l] = d /\ \A k \in Loads : k # l => t.loads[k] = s.loads[k]
         /\ t.entries[u] = e /\ \A x \in Urls : x # u => t.entries[x] = s.entries[x]
<1> USE DEF EntryEnds
<1>1. s \in Stores /\ s.loads \in [Loads -> LoadRecords] /\ s.entries \in [Urls -> EntryRecords] /\ u \in Urls /\ u \notin Gltf
  BY DEF StoreFits, Stores, Managed
<1>2. /\ t.loads[l] = d /\ \A k \in Loads : k # l => t.loads[k] = s.loads[k]
      /\ t.entries[u] = e /\ \A x \in Urls : x # u => t.entries[x] = s.entries[x]
  BY <1>1
<1>3. t.gone = s.gone
  OBVIOUS
<1>4. \A k \in Loads : LoadFits(t.loads[k])
  BY <1>2, <1>3 DEF StoreFits
<1>5. ASSUME NEW x \in Urls PROVE EntryFits(t, x)
  <2>1. EntryFits(s, x) /\ EntryFits(s, u)
    BY <1>1 DEF StoreFits
  <2>2. CASE x = u
    <3>1. e.st \in {"none", "ready"}
      BY DEF EntryRecords
    <3> QED BY <1>1, <1>2, <1>3, <2>1, <2>2, <3>1 DEF EntryFits
  <2>3. CASE x # u
    <3>1. s.entries[x].st = "loading" => s.entries[x].load # l
      BY <2>1, <2>3 DEF EntryFits
    <3> QED BY <1>2, <1>3, <2>1, <2>3, <3>1 DEF EntryFits
  <2> QED BY <2>2, <2>3
<1>6. VA!ToSet(t.recent) = Listed(t)
  <2>1. u \in Listed(s)
    BY <1>1 DEF Listed
  <2>2. CASE e.st = "none"
    <3>1. Listed(t) = Listed(s) \ {u}
      BY <1>1, <1>2, <1>3, <2>2 DEF Listed
    <3> QED BY <2>2, <3>1
  <2>3. CASE e.st = "ready"
    <3>1. Listed(t) = Listed(s)
      BY <1>1, <1>2, <1>3, <2>1, <2>3 DEF Listed
    <3> QED BY <2>3, <3>1
  <2> QED BY <2>2, <2>3 DEF EntryRecords
<1>7. StoreFits(t)
  BY <1>3, <1>4, <1>5, <1>6 DEF StoreFits
<1> QED BY <1>2, <1>7

\* An entry that still loads is held by the request that waits for it, if any.
LEMMA LoadingIsAwaited ==
  ASSUME NEW s, NEW v \in Viewers, ViewerFits(s, v), NEW u \in Managed, s.entries[u].st = "loading"
  PROVE  /\ Upto(u, v.shown.urls, Len(v.shown.urls)) = 0
         /\ v.request.on => Upto(u, v.request.urls, v.request.got) = 0
         /\ s.entries[u].refs = IF v.request.on /\ VA!Awaited(v.request) = u THEN 1 ELSE 0
<1>1. ASSUME NEW q, NEW n \in Nat, Had(s, q, n) PROVE Upto(u, q, n) = 0
  <2>1. \A i \in 1 .. n : q[i] # u
    BY <1>1 DEF Had
  <2> QED BY <2>1, UptoIs
<1>2. Upto(u, v.shown.urls, Len(v.shown.urls)) = 0
  BY <1>1, ViewerParts DEF ViewerFits
<1>3. v.request.on => Upto(u, v.request.urls, v.request.got) = 0
  BY <1>1, ViewerParts DEF ViewerFits, RequestFits, WaitsFor
<1>4. s.entries[u].refs = Held(v, u)
  BY DEF ViewerFits
<1>5. CASE v.request.on
  <2>1. Held(v, u) = Upto(u, v.shown.urls, Len(v.shown.urls)) + Upto(u, v.request.urls, v.request.got)
                     + (IF VA!Awaited(v.request) = u THEN 1 ELSE 0)
    BY <1>5, HeldIs
  <2>2. Held(v, u) = IF VA!Awaited(v.request) = u THEN 1 ELSE 0
    BY <1>2, <1>3, <1>5, <2>1
  <2> QED BY <1>2, <1>3, <1>4, <1>5, <2>2
<1>6. CASE ~v.request.on
  BY <1>2, <1>3, <1>4, <1>6 DEF Held
<1> QED BY <1>2, <1>3, <1>5, <1>6

\* Who waits for a load.
LEMMA WhoWaits ==
  ASSUME VA!ViewerAssetsAssumption, CacheInv, NEW l \in Loads, ~store.loads[l].aborted
  PROVE  LET u == store.loads[l].url
         IN  /\ VA!ForEntry(l) # {} =>
                  /\ u \in Managed /\ VA!ForEntry(l) = {u} /\ owner.cached /\ store.entries[u].st = "loading"
                  /\ store.entries[u].load = l
             /\ VA!ForEntry(l) = {} => \A x \in Urls : ~ (store.entries[x].st = "loading" /\ store.entries[x].load = l)
             /\ viewer.request.on => VA!Awaited(viewer.request) \in Urls /\ viewer.mounted
             /\ VA!ForViewer(l) <=> /\ viewer.request.on
                                    /\ IF VA!ForEntry(l) # {} THEN VA!Awaited(viewer.request) = u
                                       ELSE viewer.request.load = l
             /\ owner.cached /\ VA!ForEntry(l) = {} /\ VA!ForViewer(l) => VA!Awaited(viewer.request) \in Gltf
<1> DEFINE u == store.loads[l].url
<1>1. StoreFits(store) /\ viewer \in Viewers /\ AsksAndShowsWanted(viewer)
  BY DEF CacheInv, TaskFits
<1>2. \A x \in VA!ForEntry(l) : x = u /\ x \in Managed /\ store.entries[x].st = "loading" /\ store.entries[x].load = l
  BY <1>1 DEF VA!ForEntry, StoreFits, EntryFits, Managed
<1>3. VA!ForEntry(l) # {} => owner.cached
  BY <1>2 DEF CacheInv, TaskFits, Listed, Managed
<1>4. VA!ForEntry(l) = {} => \A x \in Urls : ~ (store.entries[x].st = "loading" /\ store.entries[x].load = l)
  BY DEF VA!ForEntry
<1>5. viewer.request.on => VA!Awaited(viewer.request) \in Urls /\ viewer.mounted
  <2> SUFFICES ASSUME viewer.request.on PROVE VA!Awaited(viewer.request) \in Urls /\ viewer.mounted
    OBVIOUS
  <2>1. viewer.request.urls \in Seq(Urls) /\ viewer.request.got + 1 \in 1 .. Len(viewer.request.urls)
    BY <1>1, ViewerParts DEF AsksAndShowsWanted
  <2> QED BY <2>1 DEF VA!Awaited, CacheInv, TaskFits
<1>6. VA!ForViewer(l) <=> /\ viewer.request.on
                          /\ IF VA!ForEntry(l) # {} THEN VA!Awaited(viewer.request) = u
                             ELSE viewer.request.load = l
  BY <1>2 DEF VA!ForViewer
<1>7. owner.cached /\ VA!ForEntry(l) = {} /\ VA!ForViewer(l) => VA!Awaited(viewer.request) \in Gltf
  <2> SUFFICES ASSUME owner.cached, VA!ForEntry(l) = {}, VA!ForViewer(l), VA!Awaited(viewer.request) \notin Gltf
               PROVE  FALSE
    OBVIOUS
  <2>1. VA!Awaited(viewer.request) \in Managed
    BY <1>5, <1>6 DEF Managed
  <2>2. viewer.request.load = 0
    BY <1>6, <2>1 DEF CacheInv, TaskFits, ViewerFits, RequestFits, WaitsFor, VA!Awaited
  <2> QED BY <1>6, <2>2 DEF VA!ViewerAssetsAssumption
<1> QED BY <1>2, <1>3, <1>4, <1>5, <1>6, <1>7

\* The viewer fits a store that has lost or gained nothing it holds.
LEMMA TaskStays ==
  ASSUME NEW s, NEW t, NEW v, TaskFits(s, v), StoreFits(t), Bounded(t), Listed(s) = {} => Listed(t) = {},
         owner.cached =>
           /\ \A x \in Managed :
                /\ t.entries[x].refs = s.entries[x].refs
                /\ s.entries[x].refs > 0 =>
                     \/ t.entries[x].st = s.entries[x].st
                     \/ t.entries[x].st = "ready" /\ ~ (v.request.on /\ VA!Awaited(v.request) = x)
           /\ v.request.on /\ VA!Awaited(v.request) \in Gltf => t.loads[v.request.load] = s.loads[v.request.load]
  PROVE  TaskFits(t, v)
<1>1. ASSUME owner.cached PROVE ViewerFits(t, v)
  BY <1>1, StaysFit DEF TaskFits
<1> QED BY <1>1 DEF TaskFits

\* What holds when the layer a request waits for is about to be counted or given up.
LEMMA RequestHolds ==
  ASSUME NEW s, NEW v, TaskFits(s, v), owner.cached, v.request.on
  PROVE  /\ Had(s, v.shown.urls, Len(v.shown.urls)) /\ Had(s, v.request.urls, v.request.got) /\ v.level = "default"
         /\ \A x \in Managed :
              /\ Upto(x, v.shown.urls, Len(v.shown.urls)) \in Nat /\ Upto(x, v.request.urls, v.request.got) \in Nat
              /\ Upto(x, v.request.urls, v.request.got + 1) \in Nat
              /\ s.entries[x].refs = Upto(x, v.shown.urls, Len(v.shown.urls)) + Upto(x, v.request.urls, v.request.got + 1)
              /\ Upto(x, v.request.urls, v.request.got + 1)
                 = Upto(x, v.request.urls, v.request.got) + (IF VA!Awaited(v.request) = x THEN 1 ELSE 0)
<1>1. v \in Viewers /\ ViewerFits(s, v)
  BY DEF TaskFits
<1>2. v.request.got + 1 \in Nat /\ v.request.got \in Nat /\ (v.request.got + 1) - 1 = v.request.got /\ v.request.got + 1 > 0
      /\ Len(v.shown.urls) \in Nat
  BY <1>1, ViewerParts
<1>3. \A x : /\ Upto(x, v.shown.urls, Len(v.shown.urls)) \in Nat /\ Upto(x, v.request.urls, v.request.got) \in Nat
             /\ Upto(x, v.request.urls, v.request.got + 1) \in Nat
             /\ Upto(x, v.request.urls, v.request.got + 1)
                 = Upto(x, v.request.urls, v.request.got) + (IF VA!Awaited(v.request) = x THEN 1 ELSE 0)
  BY <1>2, UptoIs DEF VA!Awaited
<1>4. Had(s, v.shown.urls, Len(v.shown.urls)) /\ Had(s, v.request.urls, v.request.got) /\ v.level = "default"
  BY <1>1 DEF ViewerFits, RequestFits, WaitsFor
<1>5. \A x \in Managed : s.entries[x].refs = Upto(x, v.shown.urls, Len(v.shown.urls)) + Upto(x, v.request.urls, v.request.got + 1)
  BY <1>1 DEF ViewerFits, Held
<1> QED BY <1>3, <1>4, <1>5

\* A load is rejected: its entry is gone, and a request that waits for it fails.
LEMMA RejectFits ==
  ASSUME VA!ViewerAssetsAssumption, CacheInv, NEW l \in Loads, ~store.loads[l].aborted,
         store.loads[l].st \in {"manifest", "buffers"}, NEW left \in 0 .. Buffers, VA!Reject(l, left), owner' = owner
  PROVE  CacheInv'
<1> DEFINE u == store.loads[l].url
           d == IF left = 0 THEN VA!FreeLoad ELSE [store.loads[l] EXCEPT !.st = "failed", !.left = left]
           ended == [store EXCEPT !.loads[l] = d]
           lost == [ended EXCEPT !.entries[u] = VA!NoEntry, !.recent = VA!Without(@, u)]
           s == IF VA!ForEntry(l) = {} THEN ended ELSE lost
           r == viewer.request
<1>1. /\ StoreFits(store) /\ Bounded(store) /\ viewer \in Viewers /\ TaskFits(store, viewer) /\ owner \in VA!Owners
      /\ AsksAndShowsWanted(viewer) /\ viewer.shown.alive /\ store \in Stores
  BY DEF CacheInv, TaskFits, StoreFits
<1>2. IF VA!ForViewer(l) THEN VA!Fail(s, viewer, r) ELSE VA!Settle(s, viewer)
  BY DEF VA!Reject
<1>3. d \in LoadRecords /\ LoadFits(d)
  <2>1. store.loads[l] \in LoadRecords /\ LoadFits(store.loads[l])
    BY <1>1 DEF StoreFits, Stores
  <2>2. CASE left = 0
    BY <2>2 DEF VA!ViewerAssetsAssumption, VA!FreeLoad, LoadRecords, LoadFits, VA!Levels
  <2>3. CASE left # 0
    <3>1. left > 0
      BY <2>3 DEF VA!ViewerAssetsAssumption
    <3> QED BY <2>1, <2>3, <3>1 DEF LoadRecords, LoadFits
  <2> QED BY <2>2, <2>3
<1> HIDE DEF d
<1>4. /\ VA!ForEntry(l) # {} =>
           /\ u \in Managed /\ VA!ForEntry(l) = {u} /\ owner.cached /\ store.entries[u].st = "loading"
           /\ store.entries[u].load = l
      /\ VA!ForEntry(l) = {} => \A x \in Urls : ~ (store.entries[x].st = "loading" /\ store.entries[x].load = l)
      /\ r.on => VA!Awaited(r) \in Urls /\ viewer.mounted
      /\ VA!ForViewer(l) <=> r.on /\ IF VA!ForEntry(l) # {} THEN VA!Awaited(r) = u ELSE r.load = l
      /\ owner.cached /\ VA!ForEntry(l) = {} /\ VA!ForViewer(l) => VA!Awaited(r) \in Gltf
  BY WhoWaits
<1> HIDE DEF u
<1>5. /\ StoreFits(s) /\ \A k \in Loads : k # l => s.loads[k] = store.loads[k]
      /\ VA!ForEntry(l) = {} => s.entries = store.entries
      /\ VA!ForEntry(l) # {} => s.entries[u] = VA!NoEntry /\ \A x \in Urls : x # u => s.entries[x] = store.entries[x]
  <2>1. CASE VA!ForEntry(l) = {}
    BY <1>1, <1>3, <1>4, <2>1, LoadChanged
  <2>2. CASE VA!ForEntry(l) # {}
    <3> DEFINE q == VA!Without(store.recent, u)
    <3>1. q \in Seq(Urls) /\ VA!IsInjective(q) /\ VA!ToSet(q) = Listed(store) \ {u}
      BY <1>1, WithoutIs DEF StoreFits, Stores
    <3> DEFINE e == VA!NoEntry
    <3>2. e \in EntryRecords /\ e.st = "none" /\ e = VA!NoEntry
      BY DEF VA!NoEntry, EntryRecords
    <3>3. lost = [store EXCEPT !.loads = [store.loads EXCEPT ![l] = d], !.entries = [store.entries EXCEPT ![u] = VA!NoEntry],
                               !.recent = q]
      BY <1>1 DEF Stores
    <3>4. s = lost
      BY <2>2
    <3> HIDE DEF q, lost, s, e
    <3>5. lost = [store EXCEPT !.loads = [store.loads EXCEPT ![l] = d], !.entries = [store.entries EXCEPT ![u] = e],
                               !.recent = q]
      BY <3>2, <3>3
    <3>7. /\ lost \in Stores /\ lost.loads = [store.loads EXCEPT ![l] = d] /\ lost.entries = [store.entries EXCEPT ![u] = e]
          /\ lost.recent = q /\ lost.gone = store.gone
      <4>1. u \in Urls
        BY <1>4, <2>2 DEF Managed
      <4> QED BY <1>1, <1>3, <3>1, <3>2, <3>5, <4>1 DEF Stores
    <3>8. EntryEnds(store, lost, l, d, u, e)
      BY <1>1, <1>3, <1>4, <2>2, <3>1, <3>2, <3>7 DEF EntryEnds
    <3>6. /\ StoreFits(lost) /\ lost.loads[l] = d /\ \A k \in Loads : k # l => lost.loads[k] = store.loads[k]
          /\ lost.entries[u] = e /\ \A x \in Urls : x # u => lost.entries[x] = store.entries[x]
      BY <1>1, <3>8, EndsFit
    <3> QED BY <2>2, <3>2, <3>4, <3>6
  <2> QED BY <2>1, <2>2
<1> HIDE DEF s
<1>6. /\ Listed(s) \subseteq Listed(store) /\ Loaded(s) = Loaded(store) /\ Bounded(s)
      /\ \A x \in Urls : (VA!ForEntry(l) = {} \/ x # u) => s.entries[x] = store.entries[x]
  <2>1. \A x \in Urls : (VA!ForEntry(l) = {} \/ x # u) => s.entries[x] = store.entries[x]
    BY <1>5
  <2>2. VA!ForEntry(l) # {} => u \in Urls /\ s.entries[u].st = "none" /\ store.entries[u].st = "loading"
    BY <1>4, <1>5 DEF VA!NoEntry, Managed
  <2>3. Listed(s) \subseteq Listed(store) /\ Loaded(s) = Loaded(store)
    BY <2>1, <2>2 DEF Listed, Loaded
  <2>4. \A x \in Listed(s) : s.entries[x] = store.entries[x]
    BY <2>1, <2>2 DEF Listed
  <2> QED BY <1>1, <2>1, <2>3, <2>4 DEF Bounded, VA!Evictable
<1>7. CASE ~VA!ForViewer(l)
  <2>1. ASSUME owner.cached
        PROVE  /\ \A x \in Managed : /\ s.entries[x].refs = store.entries[x].refs
                                     /\ store.entries[x].refs > 0 => s.entries[x].st = store.entries[x].st
               /\ r.on /\ VA!Awaited(r) \in Gltf => s.loads[r.load] = store.loads[r.load]
    <3>1. ASSUME NEW x \in Managed, x = u, VA!ForEntry(l) # {} PROVE store.entries[x].refs = 0
      BY <1>1, <1>4, <1>7, <2>1, <3>1, LoadingIsAwaited DEF TaskFits
    <3>2. \A x \in Managed : /\ s.entries[x].refs = store.entries[x].refs
                             /\ store.entries[x].refs > 0 => s.entries[x].st = store.entries[x].st
      BY <1>5, <1>6, <3>1 DEF VA!NoEntry, Managed
    <3>3. r.on /\ VA!Awaited(r) \in Gltf => r.load \in Loads /\ r.load # l
      <4> SUFFICES ASSUME r.on, VA!Awaited(r) \in Gltf PROVE r.load \in Loads /\ r.load # l
        OBVIOUS
      <4>1. r.load \in Loads /\ store.loads[r.load].url \in Gltf
        BY <1>1, <2>1 DEF TaskFits, ViewerFits, RequestFits, WaitsFor, VA!Awaited
      <4> QED BY <1>4, <1>7, <4>1 DEF u, Managed
    <3> QED BY <1>5, <3>2, <3>3
  <2>2. TaskFits(s, viewer)
    BY <1>1, <1>5, <1>6, <2>1, TaskStays
  <2> QED BY <1>1, <1>2, <1>7, <2>2, SettleFits
<1>8. CASE VA!ForViewer(l)
  <2>1. r.on /\ viewer.mounted
    BY <1>4, <1>8
  <2>2. ASSUME owner.cached PROVE Holding(s, viewer, r.urls, r.got)
    <3>1. /\ Had(store, viewer.shown.urls, Len(viewer.shown.urls)) /\ Had(store, r.urls, r.got) /\ viewer.level = "default"
          /\ \A x \in Managed :
               /\ Upto(x, viewer.shown.urls, Len(viewer.shown.urls)) \in Nat /\ Upto(x, r.urls, r.got) \in Nat
               /\ Upto(x, r.urls, r.got + 1) \in Nat
               /\ store.entries[x].refs = Upto(x, viewer.shown.urls, Len(viewer.shown.urls)) + Upto(x, r.urls, r.got + 1)
               /\ Upto(x, r.urls, r.got + 1) = Upto(x, r.urls, r.got) + (IF VA!Awaited(r) = x THEN 1 ELSE 0)
      BY <1>1, <2>1, <2>2, RequestHolds
    <3>2. ASSUME NEW q, NEW n, Had(store, q, n) PROVE Had(s, q, n)
      <4> SUFFICES ASSUME NEW i \in 1 .. n, q[i] \in Managed PROVE s.entries[q[i]].st = "ready"
        BY DEF Had
      <4>1. store.entries[q[i]].st = "ready"
        BY <3>2 DEF Had
      <4>2. VA!ForEntry(l) = {} \/ q[i] # u
        BY <1>4, <4>1
      <4> QED BY <1>6, <4>1, <4>2 DEF Managed
    <3>3. ASSUME NEW x \in Managed
          PROVE  s.entries[x].refs = Upto(x, viewer.shown.urls, Len(viewer.shown.urls)) + Upto(x, r.urls, r.got)
      <4>1. CASE VA!ForEntry(l) # {} /\ x = u
        <5>1. Upto(u, viewer.shown.urls, Len(viewer.shown.urls)) = 0 /\ Upto(u, r.urls, r.got) = 0
          BY <1>1, <1>4, <2>1, <2>2, <4>1, LoadingIsAwaited DEF TaskFits
        <5> QED BY <1>5, <4>1, <5>1 DEF VA!NoEntry
      <4>2. CASE VA!ForEntry(l) = {} \/ x # u
        <5>1. VA!Awaited(r) # x
          BY <1>4, <1>8, <2>2, <4>2 DEF Managed
        <5> QED BY <1>6, <3>1, <4>2, <5>1 DEF Managed
      <4> QED BY <4>1, <4>2
    <3> QED BY <3>1, <3>2, <3>3 DEF Holding
  <2>3. ~owner.cached => Listed(s) = {}
    BY <1>1, <1>6 DEF TaskFits
  <2>4. Moment(s, viewer, r.urls, r.got)
    BY <1>1, <1>5, <1>6, <2>1, <2>2, <2>3 DEF Moment
  <2>5. owner.cached => viewer.level = "default"
    BY <1>1 DEF TaskFits, ViewerFits
  <2> QED BY <1>1, <1>2, <1>8, <2>1, <2>4, <2>5, FailFits
<1> QED BY <1>7, <1>8

\* An asset is built: its entry keeps it, and a request that waits for it goes on.
LEMMA ResolveFits ==
  ASSUME VA!ViewerAssetsAssumption, CacheInv, NEW l \in Loads, ~store.loads[l].aborted,
         store.loads[l].st \in {"manifest", "buffers"}, VA!Resolve(l), owner' = owner
  PROVE  CacheInv'
<1> DEFINE u == store.loads[l].url
           d == VA!FreeLoad
           freed == [store EXCEPT !.loads[l] = d]
           m == [freed EXCEPT !.entries[u].st = "ready", !.entries[u].load = 0]
           x0 == VA!Touch(m, u)
           s == IF VA!ForEntry(l) = {} THEN freed ELSE VA!Trim(x0)
           r == viewer.request
           v == [viewer EXCEPT !.status = IF store.loads[l].reports THEN "loading" ELSE @]
<1>1. /\ StoreFits(store) /\ Bounded(store) /\ viewer \in Viewers /\ TaskFits(store, viewer) /\ owner \in VA!Owners
      /\ AsksAndShowsWanted(viewer) /\ viewer.shown.alive /\ store \in Stores /\ store.gone = {}
  BY DEF CacheInv, TaskFits, StoreFits
<1>2. IF VA!ForViewer(l) THEN VA!Continue(s, v) ELSE VA!Settle(s, viewer)
  BY DEF VA!Resolve
<1>3. d \in LoadRecords /\ LoadFits(d)
  BY DEF VA!ViewerAssetsAssumption, VA!FreeLoad, LoadRecords, LoadFits, VA!Levels
<1> HIDE DEF d
<1>4. /\ VA!ForEntry(l) # {} =>
           /\ u \in Managed /\ VA!ForEntry(l) = {u} /\ owner.cached /\ store.entries[u].st = "loading"
           /\ store.entries[u].load = l
      /\ VA!ForEntry(l) = {} => \A x \in Urls : ~ (store.entries[x].st = "loading" /\ store.entries[x].load = l)
      /\ r.on => VA!Awaited(r) \in Urls /\ viewer.mounted
      /\ VA!ForViewer(l) <=> r.on /\ IF VA!ForEntry(l) # {} THEN VA!Awaited(r) = u ELSE r.load = l
      /\ owner.cached /\ VA!ForEntry(l) = {} /\ VA!ForViewer(l) => VA!Awaited(r) \in Gltf
  BY WhoWaits
<1>u. u = store.loads[l].url
  OBVIOUS
<1> HIDE DEF u
<1>5. /\ StoreFits(s) /\ Bounded(s) /\ (Listed(store) = {} => Listed(s) = {})
      /\ \A k \in Loads : k # l /\ store.loads[k].url \in Gltf => s.loads[k] = store.loads[k]
      /\ \A x \in Urls : s.entries[x].refs = store.entries[x].refs
      /\ \A x \in Urls : (s.entries[x].refs > 0 \/ VA!ForEntry(l) = {}) =>
                            s.entries[x].st = IF VA!ForEntry(l) # {} /\ x = u THEN "ready" ELSE store.entries[x].st
  <2>1. CASE VA!ForEntry(l) = {}
    <3>1. s = freed
      BY <2>1
    <3>2. /\ StoreFits(freed) /\ freed.entries = store.entries
          /\ \A k \in Loads : k # l => freed.loads[k] = store.loads[k]
      BY <1>1, <1>3, <1>4, <2>1, LoadChanged
    <3> HIDE DEF freed, s
    <3>3. Bounded(s) /\ Listed(s) = Listed(store)
      BY <1>1, <3>1, <3>2, SameEntries
    <3> QED BY <2>1, <3>1, <3>2, <3>3
  <2>2. CASE VA!ForEntry(l) # {}
    <3> DEFINE e == [store.entries[u] EXCEPT !.st = "ready", !.load = 0]
    <3>0. u \in Urls /\ u \in Managed /\ store.entries[u].st = "loading" /\ store.entries[u].load = l
      BY <1>4, <2>2 DEF Managed
    <3>1. store.entries[u] \in EntryRecords
      BY <1>1, <3>0 DEF Stores
    <3>2. e \in EntryRecords /\ e.st = "ready" /\ e.load = 0 /\ e.refs = store.entries[u].refs
      BY <3>1 DEF EntryRecords
    <3>3. m = [store EXCEPT !.loads = [store.loads EXCEPT ![l] = d], !.entries = [store.entries EXCEPT ![u] = e]]
      BY <1>1, <3>0 DEF Stores
    <3> HIDE DEF e, m
    <3>4. /\ m \in Stores /\ m.loads = [store.loads EXCEPT ![l] = d] /\ m.entries = [store.entries EXCEPT ![u] = e]
          /\ m.recent = store.recent /\ m.gone = store.gone
      BY <1>1, <1>3, <3>0, <3>2, <3>3 DEF Stores
    <3>5. EntryEnds(store, m, l, d, u, e)
      BY <1>1, <1>3, <3>0, <3>2, <3>4 DEF EntryEnds, StoreFits
    <3> HIDE DEF freed, x0, v
    <3>6. /\ StoreFits(m) /\ \A k \in Loads : k # l => m.loads[k] = store.loads[k]
          /\ m.entries[u] = e /\ \A x \in Urls : x # u => m.entries[x] = store.entries[x]
      <4>1. StoreFits(store)
        BY <1>1
      <4>2. StoreFits(m)
        BY <3>5, <4>1, EndsFit
      <4>3. \A k \in Loads : k # l => m.loads[k] = store.loads[k]
        BY <1>1, <3>4 DEF Stores
      <4>4. m.entries[u] = e
        BY <3>5, <4>1, EndsFit
      <4>5. \A x \in Urls : x # u => m.entries[x] = store.entries[x]
        BY <1>1, <3>0, <3>4 DEF Stores
      <4> QED BY <4>2, <4>3, <4>4, <4>5
    <3> USE DEF x0
    <3>7. StoreFits(x0) /\ x0.loads = m.loads /\ x0.entries = m.entries
      <4>1. u \in Listed(m)
        BY <3>0, <3>2, <3>6 DEF Listed
      <4> QED BY <3>6, <4>1, TouchFits
    <3> HIDE DEF x0
    <3>8. s = VA!Trim(x0)
      BY <2>2 DEF s
    <3> HIDE DEF s
    <3>9. Kept(x0, s) /\ Bounded(s) /\ \A x \in Urls : s.entries[x].refs = x0.entries[x].refs
      BY <3>7, <3>8, TrimFits
    <3>10. \A x \in Urls : s.entries[x].refs = store.entries[x].refs
      BY <3>2, <3>6, <3>7, <3>9
    <3>11. ASSUME NEW k \in Loads, k # l, store.loads[k].url \in Gltf PROVE s.loads[k] = store.loads[k]
      BY <3>6, <3>7, <3>9, <3>11 DEF Kept, LoadsLeft
    <3>12. ASSUME NEW x \in Urls, s.entries[x].refs > 0
           PROVE  s.entries[x].st = IF x = u THEN "ready" ELSE store.entries[x].st
      BY <3>2, <3>6, <3>7, <3>9, <3>12 DEF Kept, Fewer
    <3>13. Listed(store) # {}
      BY <3>0 DEF Listed
    <3> QED BY <2>2, <3>9, <3>10, <3>11, <3>12, <3>13 DEF Kept
  <2> QED BY <2>1, <2>2
<1> HIDE DEF s
<1>6. CASE ~VA!ForViewer(l)
  <2>1. ASSUME owner.cached
        PROVE  /\ \A x \in Managed :
                    /\ s.entries[x].refs = store.entries[x].refs
                    /\ store.entries[x].refs > 0 =>
                         \/ s.entries[x].st = store.entries[x].st
                         \/ s.entries[x].st = "ready" /\ ~ (r.on /\ VA!Awaited(r) = x)
               /\ r.on /\ VA!Awaited(r) \in Gltf => s.loads[r.load] = store.loads[r.load]
    <3>1. \A x \in Managed : x \in Urls
      BY DEF Managed
    <3>2. r.on /\ VA!Awaited(r) \in Gltf => r.load \in Loads /\ r.load # l /\ store.loads[r.load].url \in Gltf
      <4> SUFFICES ASSUME r.on, VA!Awaited(r) \in Gltf
                   PROVE  r.load \in Loads /\ r.load # l /\ store.loads[r.load].url \in Gltf
        OBVIOUS
      <4>1. r.load \in Loads /\ store.loads[r.load].url \in Gltf
        BY <1>1, <2>1 DEF TaskFits, ViewerFits, RequestFits, WaitsFor, VA!Awaited
      <4>2. VA!ForEntry(l) # {} => u \notin Gltf
        BY <1>4 DEF Managed
      <4> QED BY <1>4, <1>6, <1>u, <4>1, <4>2
    <3> QED BY <1>4, <1>5, <1>6, <3>1, <3>2
  <2>2. TaskFits(s, viewer)
    BY <1>1, <1>5, <2>1, TaskStays
  <2> QED BY <1>1, <1>2, <1>6, <2>2, SettleFits
<1>7. CASE VA!ForViewer(l)
  <2>1. r.on /\ viewer.mounted /\ viewer.status = "loading"
    BY <1>1, <1>4, <1>7 DEF AsksAndShowsWanted
  <2>2. v = viewer
    BY <1>1, <2>1 DEF Viewers
  <2> HIDE DEF v
  <2>3. ASSUME owner.cached PROVE Holding(s, viewer, r.urls, r.got + 1)
    <3> DEFINE old == viewer.shown.urls
    <3>1. /\ Had(store, old, Len(old)) /\ Had(store, r.urls, r.got) /\ viewer.level = "default"
          /\ \A x \in Managed :
               /\ Upto(x, old, Len(old)) \in Nat /\ Upto(x, r.urls, r.got) \in Nat
               /\ Upto(x, r.urls, r.got + 1) \in Nat
               /\ store.entries[x].refs = Upto(x, old, Len(old)) + Upto(x, r.urls, r.got + 1)
               /\ Upto(x, r.urls, r.got + 1) = Upto(x, r.urls, r.got) + (IF VA!Awaited(r) = x THEN 1 ELSE 0)
      BY <1>1, <2>1, <2>3, RequestHolds
    <3>2. Len(old) \in Nat /\ r.got \in Nat /\ r.got + 1 \in Nat
      BY <1>1, ViewerParts
    <3>3. \A x \in Managed : store.entries[x].refs > 0 => s.entries[x].st \in {store.entries[x].st, "ready"}
      BY <1>5 DEF Managed
    <3>4. \A x \in Managed : (Upto(x, old, Len(old)) > 0 \/ Upto(x, r.urls, r.got) > 0) => store.entries[x].refs > 0
      BY <3>1
    <3>5. Had(s, old, Len(old)) /\ Had(s, r.urls, r.got)
      BY <3>1, <3>2, <3>3, <3>4, HadStays
    <3>6. Had(s, r.urls, r.got + 1)
      <4>1. VA!Awaited(r) \in Managed => s.entries[VA!Awaited(r)].st = "ready"
        <5> SUFFICES ASSUME VA!Awaited(r) \in Managed PROVE s.entries[VA!Awaited(r)].st = "ready"
          OBVIOUS
        <5>1. VA!ForEntry(l) # {} /\ VA!Awaited(r) = u /\ u \in Urls
          BY <1>4, <1>7, <2>3 DEF Managed
        <5>2. store.entries[u].refs > 0
          BY <3>1, <5>1
        <5> QED BY <1>5, <5>1, <5>2
      <4>2. \A i \in 1 .. r.got + 1 : i \in 1 .. r.got \/ i = r.got + 1
        BY <3>2
      <4> QED BY <3>5, <4>1, <4>2 DEF Had, VA!Awaited
    <3>7. \A x \in Managed : s.entries[x].refs = Upto(x, old, Len(old)) + Upto(x, r.urls, r.got + 1)
      BY <1>5, <3>1 DEF Managed
    <3> QED BY <3>1, <3>5, <3>6, <3>7 DEF Holding
  <2>4. ~owner.cached => Listed(s) = {}
    BY <1>1, <1>5 DEF TaskFits
  <2>5. Moment(s, viewer, r.urls, r.got + 1)
    BY <1>1, <1>5, <2>1, <2>3, <2>4 DEF Moment
  <2>6. VA!Continue(s, viewer)
    BY <1>2, <1>7, <2>2
  <2> QED BY <1>1, <2>1, <2>5, <2>6, ContinueFits
<1> QED BY <1>6, <1>7

\* A load goes on, or one that nobody waits for ends.
LEMMA LoadGoesOn ==
  ASSUME VA!ViewerAssetsAssumption, CacheInv, NEW l \in Loads, NEW d \in LoadRecords, LoadFits(d),
         store.loads[l].st \in {"manifest", "buffers"} /\ ~store.loads[l].aborted =>
           d.url = store.loads[l].url /\ d.st \in {"manifest", "buffers"} /\ ~d.aborted,
         store' = [store EXCEPT !.loads[l] = d], viewer' \in {viewer, [viewer EXCEPT !.status = "loading"]}, owner' = owner
  PROVE  CacheInv'
<1> DEFINE t == [store EXCEPT !.loads[l] = d]
           r == viewer.request
<1>1. /\ StoreFits(store) /\ Bounded(store) /\ viewer \in Viewers /\ TaskFits(store, viewer) /\ owner \in VA!Owners
      /\ AsksAndShowsWanted(viewer) /\ viewer.shown.alive /\ store \in Stores /\ store.gone = {}
  BY DEF CacheInv, TaskFits, StoreFits
<1>2. ASSUME NEW x \in Urls, store.entries[x].st = "loading", store.entries[x].load = l
      PROVE  d.url = x /\ d.st \in {"manifest", "buffers"}
  <2>1. EntryFits(store, x) /\ LoadFits(store.loads[l])
    BY <1>1 DEF StoreFits
  <2> QED BY <1>2, <2>1 DEF EntryFits, LoadFits
<1>3. /\ StoreFits(t) /\ t.entries = store.entries /\ t.loads[l] = d
      /\ \A k \in Loads : k # l => t.loads[k] = store.loads[k]
  BY <1>1, <1>2, LoadChanged
<1>4. t.gone = {}
  BY <1>1 DEF Stores
<1> HIDE DEF t
<1>5. Listed(t) = Listed(store) /\ Bounded(t)
  BY <1>1, <1>3, SameEntries
<1>6. ASSUME owner.cached PROVE ViewerFits(t, viewer)
  <2>1. ViewerFits(store, viewer)
    BY <1>1, <1>6 DEF TaskFits
  <2>2. ASSUME r.on PROVE RequestFits(t, r)
    <3>1. RequestFits(store, r)
      BY <2>1, <2>2 DEF ViewerFits
    <3>2. CASE r.load = l
      BY <1>3, <3>1, <3>2 DEF RequestFits, WaitsFor, Had
    <3>3. CASE r.load # l
      BY <1>3, <3>1, <3>3 DEF RequestFits, WaitsFor, Had
    <3> QED BY <3>2, <3>3
  <2> QED BY <1>3, <2>1, <2>2 DEF ViewerFits, Had
<1>7. TaskFits(t, viewer)
  BY <1>1, <1>3, <1>5, <1>6 DEF TaskFits
<1>8. TaskFits(t, viewer')
  <2>1. CASE viewer' = viewer
    BY <1>7, <2>1
  <2>2. CASE viewer' = [viewer EXCEPT !.status = "loading"]
    <3> DEFINE w == [viewer EXCEPT !.status = "loading"]
    <3>1. /\ w \in Viewers /\ w.request = viewer.request /\ w.shown = viewer.shown /\ w.level = viewer.level
          /\ w.want = viewer.want /\ w.mounted = viewer.mounted /\ w.status = "loading"
      <4>1. "loading" \in VA!Statuses
        BY DEF VA!Statuses
      <4> QED BY <1>1, <4>1 DEF Viewers
    <3> HIDE DEF w
    <3>2. AsksAndShowsWanted(w)
      BY <1>1, <3>1 DEF AsksAndShowsWanted
    <3>3. owner.cached => ViewerFits(t, w)
      BY <1>6, <3>1 DEF ViewerFits, Held
    <3>4. TaskFits(t, w)
      BY <1>7, <3>1, <3>2, <3>3 DEF TaskFits
    <3> QED BY <2>2, <3>4 DEF w
  <2> QED BY <2>1, <2>2
<1>9. TaskFits(store', viewer') /\ store'.gone = {}
  BY <1>4, <1>8 DEF t
<1>10. TaskFits(store, viewer)'
  BY <1>9, owner' = owner DEF TaskFits
<1> QED BY <1>1, <1>9, <1>10 DEF CacheInv

\* Each answer of the server.
LEMMA LoaderFits ==
  ASSUME VA!ViewerAssetsAssumption, CacheInv, VA!Loader
  PROVE  CacheInv'
<1> PICK l \in Loads : VA!ManifestArrives(l) \/ VA!BufferArrives(l) \/ VA!BufferFails(l) \/ VA!AbortedEnds(l)
  BY DEF VA!Loader
<1>1. store.loads[l] \in LoadRecords /\ LoadFits(store.loads[l]) /\ store \in Stores /\ store.loads \in [Loads -> LoadRecords]
  BY DEF CacheInv, TaskFits, StoreFits, Stores
<1>0. /\ Buffers \in Nat \ {0} /\ VA!FreeLoad \in LoadRecords /\ LoadFits(VA!FreeLoad)
  BY DEF VA!ViewerAssetsAssumption, VA!FreeLoad, LoadRecords, LoadFits, VA!Levels
<1>2. CASE VA!ManifestArrives(l)
  <2>1. store.loads[l].st = "manifest" /\ ~store.loads[l].aborted /\ owner' = owner
    BY <1>2 DEF VA!ManifestArrives
  <2>2. CASE VA!Resolve(l)
    BY <2>1, <2>2, ResolveFits
  <2>3. CASE VA!Reject(l, 0)
    <3>1. 0 \in 0 .. Buffers
      BY <1>0
    <3> QED BY <2>1, <2>3, <3>1, RejectFits
  <2>4. ASSUME NEW n \in 1 .. Buffers,
               store' = [store EXCEPT !.loads[l].st = "buffers", !.loads[l].left = n], viewer' = viewer
        PROVE  CacheInv'
    <3> DEFINE d == [store.loads[l] EXCEPT !.st = "buffers", !.left = n]
    <3>1. /\ d \in LoadRecords /\ LoadFits(d) /\ d.url = store.loads[l].url /\ d.st \in {"manifest", "buffers"}
          /\ d.aborted = store.loads[l].aborted
      <4>1. n \in 0 .. Buffers /\ n > 0 /\ store.loads[l] \in LoadRecords
        BY <1>0, <1>1
      <4>2. /\ d \in LoadRecords /\ d.url = store.loads[l].url /\ d.st = "buffers" /\ d.left = n
            /\ d.aborted = store.loads[l].aborted
        BY <4>1 DEF LoadRecords
      <4> HIDE DEF d
      <4> QED BY <1>1, <4>1, <4>2 DEF LoadFits
    <3>2. store' = [store EXCEPT !.loads[l] = d]
      BY <1>1, <2>4 DEF Stores
    <3> HIDE DEF d
    <3> QED BY <2>1, <2>4, <3>1, <3>2, LoadGoesOn
  <2> QED BY <1>2, <2>2, <2>3, <2>4 DEF VA!ManifestArrives
<1>3. CASE VA!BufferArrives(l)
  <2> DEFINE n == store.loads[l].left - 1
             d == IF n = 0 THEN VA!FreeLoad ELSE [store.loads[l] EXCEPT !.left = n]
  <2>1. store.loads[l].st \in {"buffers", "failed"} /\ ~store.loads[l].aborted /\ owner' = owner
    BY <1>3 DEF VA!BufferArrives
  <2>2. CASE n = 0 /\ store.loads[l].st = "buffers"
    <3>1. VA!Resolve(l)
      BY <1>3, <2>2 DEF VA!BufferArrives
    <3> QED BY <2>1, <2>2, <3>1, ResolveFits
  <2>3. CASE ~ (n = 0 /\ store.loads[l].st = "buffers")
    <3>1. store' = [store EXCEPT !.loads[l] = d] /\ viewer' \in {viewer, [viewer EXCEPT !.status = "loading"]}
      BY <1>3, <2>3 DEF VA!BufferArrives
    <3>2. n \in 0 .. Buffers
      BY <1>0, <1>1, <2>1 DEF LoadRecords, LoadFits
    <3>3. d \in LoadRecords /\ LoadFits(d)
      BY <1>0, <1>1, <3>2 DEF LoadRecords, LoadFits
    <3>4. store.loads[l].st = "buffers" => d.url = store.loads[l].url /\ d.st = "buffers" /\ ~d.aborted
      BY <1>1, <2>1, <2>3 DEF LoadRecords
    <3> HIDE DEF d
    <3> QED BY <2>1, <3>1, <3>3, <3>4, LoadGoesOn
  <2> QED BY <2>2, <2>3
<1>4. CASE VA!BufferFails(l)
  <2>1. store.loads[l].st = "buffers" /\ ~store.loads[l].aborted /\ owner' = owner
        /\ VA!Reject(l, store.loads[l].left - 1)
    BY <1>4 DEF VA!BufferFails
  <2>2. store.loads[l].left - 1 \in 0 .. Buffers
    BY <1>0, <1>1, <2>1 DEF LoadRecords, LoadFits
  <2> QED BY <2>1, <2>2, RejectFits
<1>5. CASE VA!AbortedEnds(l)
  BY <1>0, <1>5, LoadGoesOn DEF VA!AbortedEnds
<1> QED BY <1>2, <1>3, <1>4, <1>5

-----------------------------------------------------------------------------
(***************************************************************************)
(* The actions of the page.                                                *)
(***************************************************************************)
\* The request of a task that begins, as it is abandoned later on.
LEMMA OldRequest ==
  ASSUME CacheInv, NEW s,
         \A l \in Loads : store.loads[l].st # "free" /\ store.loads[l].url \in Gltf => s.loads[l] = store.loads[l]
  PROVE  /\ RequestIs(s, viewer.request)
         /\ owner.cached => /\ viewer.request.load # 0 => store.loads[viewer.request.load].st # "free"
                            /\ \A x \in Managed :
                                 /\ Asks(viewer.request, x) \in Nat
                                 /\ Upto(x, viewer.shown.urls, Len(viewer.shown.urls)) \in Nat
                                 /\ store.entries[x].refs = Upto(x, viewer.shown.urls, Len(viewer.shown.urls))
                                                            + Asks(viewer.request, x)
<1> DEFINE r == viewer.request
<1>1. viewer \in Viewers /\ AsksAndShowsWanted(viewer) /\ (owner.cached => ViewerFits(store, viewer))
  BY DEF CacheInv, TaskFits
<1>2. r.urls \in Seq(Urls) /\ r.got \in Nat /\ r.got + 1 \in Nat /\ r.load \in Loads \union {0} /\ Len(viewer.shown.urls) \in Nat
  BY <1>1, ViewerParts
<1>3. r.on => r.got < Len(r.urls) /\ VA!Awaited(r) \in Urls
  <2> SUFFICES ASSUME r.on PROVE r.got < Len(r.urls) /\ VA!Awaited(r) \in Urls
    OBVIOUS
  <2>1. r.got < Len(r.urls) /\ r.got + 1 \in 1 .. Len(r.urls)
    BY <1>1, <1>2 DEF AsksAndShowsWanted
  <2> QED BY <1>2, <2>1 DEF VA!Awaited
<1>4. ASSUME owner.cached, r.on, VA!Awaited(r) \in Gltf
      PROVE  r.load \in Loads /\ store.loads[r.load].url \in Gltf /\ store.loads[r.load].st # "free"
  BY <1>1, <1>4 DEF ViewerFits, RequestFits, WaitsFor, VA!Awaited
<1>5. RequestIs(s, r)
  BY <1>2, <1>3, <1>4 DEF RequestIs
<1>6. ASSUME owner.cached, r.load # 0 PROVE store.loads[r.load].st # "free"
  <2>1. r.on
    BY <1>1, <1>6 DEF AsksAndShowsWanted, VA!NoRequest
  <2>2. CASE VA!Awaited(r) \in Gltf
    BY <1>4, <1>6, <2>1, <2>2
  <2>3. CASE VA!Awaited(r) \notin Gltf
    <3>1. VA!Awaited(r) \in Managed
      BY <1>3, <2>1, <2>3 DEF Managed
    <3> QED BY <1>1, <1>6, <2>1, <3>1 DEF ViewerFits, RequestFits, WaitsFor, VA!Awaited
  <2> QED BY <2>2, <2>3
<1>7. ASSUME owner.cached, NEW x \in Managed
      PROVE  /\ Asks(r, x) \in Nat /\ Upto(x, viewer.shown.urls, Len(viewer.shown.urls)) \in Nat
             /\ store.entries[x].refs = Upto(x, viewer.shown.urls, Len(viewer.shown.urls)) + Asks(r, x)
  <2>1. Upto(x, r.urls, r.got + 1) \in Nat /\ Upto(x, viewer.shown.urls, Len(viewer.shown.urls)) \in Nat
    BY <1>2, UptoIs
  <2>2. store.entries[x].refs = Held(viewer, x)
    BY <1>1, <1>7 DEF ViewerFits
  <2> QED BY <2>1, <2>2 DEF Held, Asks
<1> QED BY <1>5, <1>6, <1>7

\* What has come of asking for the first layer of a request.
FirstIs(s, r, a) ==
    /\ StoreFits(a.s) /\ Bounded(a.s) /\ a \in Accs /\ a.got = IF a.waits THEN 0 ELSE 1
    /\ \A l \in Loads : s.loads[l].st # "free" => a.s.loads[l] = s.loads[l]
    /\ ~owner.cached => a.s.entries = s.entries /\ a.waits
    /\ ~a.waits => a.s.loads = s.loads /\ a.load = 0
    /\ a.load # 0 => s.loads[a.load].st = "free"
    /\ \A x \in Listed(s) : a.s.entries[x].st = s.entries[x].st
    /\ owner.cached =>
         /\ \A x \in Managed : a.s.entries[x].refs = s.entries[x].refs + Upto(x, r.urls, 1)
         /\ IF a.waits THEN WaitsFor(a.s, r.urls, 0, a.load) ELSE Had(a.s, r.urls, 1)

\* Asking for the first layer does what it should.
LEMMA FirstIsAsked ==
  ASSUME VA!ViewerAssetsAssumption, NEW s, StoreFits(s), Bounded(s), VA!Idle(s) # {}, NEW r \in Requests, r.got = 0,
         Len(r.urls) > 0
  PROVE  FirstIs(s, r, VA!AskLayer(AskBegin(s, r), r.urls[1]))
<1> DEFINE a == VA!AskLayer(AskBegin(s, r), r.urls[1])
<1>1. r.urls \in Seq(Urls) /\ Len(r.urls) \in Nat
  BY DEF Requests
<1>2. 1 \in 1 .. Len(r.urls) /\ 1 - 1 = 0 /\ r.got < 1
  BY <1>1
<1>3. Had(s, r.urls, r.got)
  BY DEF Had
<1>4. AskFits(s, r, AskBegin(s, r), 1 - 1)
  BY <1>2, <1>3, AskBegins
<1>5. AskFits(s, r, a, 1)
  BY <1>2, <1>4, AskLayerFits
<1> HIDE DEF a
<1>6. a \in Accs /\ a.got \in Nat /\ a.waits \in BOOLEAN
  BY <1>5 DEF AskFits, Accs
<1>7. a.waits => a.got = 0
  BY <1>5, <1>6 DEF AskFits
<1>8. ~a.waits => a.got = 1
  BY <1>5 DEF AskFits
<1>9. a.got = IF a.waits THEN 0 ELSE 1
  BY <1>6, <1>7, <1>8
<1>10. /\ StoreFits(a.s) /\ Bounded(a.s)
       /\ \A l \in Loads : s.loads[l].st # "free" => a.s.loads[l] = s.loads[l]
       /\ ~owner.cached => a.s.entries = s.entries /\ a.waits
       /\ ~a.waits => a.s.loads = s.loads /\ a.load = 0
       /\ a.load # 0 => s.loads[a.load].st = "free"
       /\ \A x \in Listed(s) : a.s.entries[x].st = s.entries[x].st
  BY <1>2, <1>5 DEF AskFits
<1>11. ASSUME owner.cached, NEW x \in Managed PROVE a.s.entries[x].refs = s.entries[x].refs + Upto(x, r.urls, 1)
  <2>1. a.s.entries[x].refs + Upto(x, r.urls, r.got)
          = s.entries[x].refs + Upto(x, r.urls, IF a.waits THEN a.got + 1 ELSE a.got)
    BY <1>5, <1>11 DEF AskFits
  <2>2. (IF a.waits THEN a.got + 1 ELSE a.got) = 1
    BY <1>7, <1>8
  <2>3. Upto(x, r.urls, 0) = 0
    BY UptoIs
  <2>4. a.s.entries[x].refs \in Nat
    BY <1>10 DEF StoreFits, Stores, EntryRecords, Managed
  <2> QED BY <2>1, <2>2, <2>3, <2>4
<1>12. ASSUME owner.cached PROVE IF a.waits THEN WaitsFor(a.s, r.urls, 0, a.load) ELSE Had(a.s, r.urls, 1)
  <2>1. Had(a.s, r.urls, a.got) /\ (a.waits => WaitsFor(a.s, r.urls, a.got, a.load))
    BY <1>5, <1>12 DEF AskFits
  <2> QED BY <1>7, <1>8, <2>1
<1>13. FirstIs(s, r, a)
  BY <1>6, <1>9, <1>10, <1>11, <1>12 DEF FirstIs
<1> QED BY <1>13 DEF a

\* A store in which the layers of q are there and held once each, and so are
\* those of an older request.
HoldsOld(s, q, old) ==
    /\ StoreFits(s) /\ Bounded(s) /\ q \in Seq(Urls)
    /\ ~owner.cached => Listed(s) = {}
    /\ owner.cached =>
         /\ Had(s, q, Len(q)) /\ (old.load # 0 => s.loads[old.load].st # "free")
         /\ \A x \in Managed : /\ Asks(old, x) \in Nat /\ Upto(x, q, Len(q)) \in Nat
                               /\ s.entries[x].refs = Upto(x, q, Len(q)) + Asks(old, x)

\* The layers that stay are the ones on the screen, or none.
LEMMA ClearedFits ==
  ASSUME VA!ViewerAssetsAssumption, CacheInv, NEW pic \in {viewer.shown.urls, <<>>}
  PROVE  LET s == IF pic = viewer.shown.urls THEN store ELSE VA!GiveBack(store, viewer.shown.urls)
         IN  /\ HoldsOld(s, pic, viewer.request) /\ (VA!Idle(store) # {} => VA!Idle(s) # {})
             /\ \A l \in Loads : store.loads[l].st # "free" /\ store.loads[l].url \in Gltf => s.loads[l] = store.loads[l]
<1> DEFINE s == IF pic = viewer.shown.urls THEN store ELSE VA!GiveBack(store, viewer.shown.urls)
           old == viewer.request
           shown == viewer.shown.urls
<1>1. /\ StoreFits(store) /\ Bounded(store) /\ viewer \in Viewers /\ (owner.cached => ViewerFits(store, viewer))
      /\ ~owner.cached => Listed(store) = {}
  BY DEF CacheInv, TaskFits
<1>2. shown \in Seq(Urls) /\ Len(shown) \in Nat
  BY <1>1, ViewerParts
<1>3. pic \in Seq(Urls) /\ Len(pic) \in Nat
  <2>1. <<>> \in Seq(Urls) /\ Len(<<>>) = 0
    BY EmptySeq
  <2>2. pic = shown \/ pic = <<>>
    OBVIOUS
  <2> HIDE DEF s, shown, old
  <2> QED BY <1>2, <2>1, <2>2
<1>4. owner.cached =>
        /\ old.load # 0 => store.loads[old.load].st # "free" /\ old.load \in Loads
        /\ \A x \in Managed : /\ Asks(old, x) \in Nat /\ Upto(x, shown, Len(shown)) \in Nat
                              /\ store.entries[x].refs = Upto(x, shown, Len(shown)) + Asks(old, x)
  <2>1. old.load \in Loads \union {0}
    BY <1>1, ViewerParts
  <2> QED BY <2>1, OldRequest
<1>5. owner.cached => /\ Had(store, shown, Len(shown))
                      /\ old.load # 0 => store.loads[old.load].url \in Gltf
  <2>1. ASSUME owner.cached PROVE Had(store, shown, Len(shown))
    BY <1>1, <2>1 DEF ViewerFits
  <2>2. ASSUME owner.cached, old.load # 0 PROVE store.loads[old.load].url \in Gltf
    <3>1. old.on /\ old.got < Len(old.urls)
      BY <1>1, <2>2 DEF CacheInv, TaskFits, AsksAndShowsWanted, VA!NoRequest
    <3>2. old.urls \in Seq(Urls) /\ old.got \in Nat /\ Len(old.urls) \in Nat
      BY <1>1, ViewerParts
    <3>3. old.got + 1 \in 1 .. Len(old.urls)
      BY <3>1, <3>2
    <3>4. old.urls[old.got + 1] \in Urls
      BY <3>2, <3>3
    <3>5. WaitsFor(store, old.urls, old.got, old.load)
      BY <1>1, <2>2, <3>1 DEF ViewerFits, RequestFits
    <3> QED BY <2>2, <3>4, <3>5 DEF WaitsFor, Managed
  <2> QED BY <2>1, <2>2
<1>6. CASE pic = shown
  <2>1. s = store
    BY <1>6
  <2> QED BY <1>1, <1>3, <1>4, <1>5, <1>6, <2>1 DEF HoldsOld
<1>7. CASE pic # shown
  <2>1. pic = <<>> /\ s = VA!GiveBack(store, shown)
    BY <1>7
  <2> HIDE DEF s, shown, old
  <2>2. /\ Kept(store, s) /\ Bounded(s) /\ (~owner.cached => s = store)
        /\ owner.cached => \A x \in Managed : s.entries[x].refs = Rest(store.entries[x].refs, Upto(x, shown, Len(shown)))
    BY <1>1, <1>2, <2>1, GiveBackFits
  <2>3. \A l \in Loads : store.loads[l].url \in Gltf => s.loads[l] = store.loads[l]
    BY <2>2 DEF Kept, LoadsLeft
  <2>4. VA!Idle(store) # {} => VA!Idle(s) # {}
    BY <2>2 DEF Kept, LoadsLeft, VA!Idle, VA!FreeLoad
  <2>5. Len(pic) = 0 /\ Had(s, pic, Len(pic))
    BY <2>1 DEF Had
  <2>6. ASSUME owner.cached, NEW x \in Managed
        PROVE  /\ Asks(old, x) \in Nat /\ Upto(x, pic, Len(pic)) \in Nat
               /\ s.entries[x].refs = Upto(x, pic, Len(pic)) + Asks(old, x)
    <3>1. Upto(x, pic, Len(pic)) = 0
      BY <2>5, UptoIs
    <3>2. Asks(old, x) \in Nat /\ Upto(x, shown, Len(shown)) \in Nat
          /\ store.entries[x].refs = Upto(x, shown, Len(shown)) + Asks(old, x)
      BY <1>4, <2>6
    <3>3. s.entries[x].refs = Rest(store.entries[x].refs, Upto(x, shown, Len(shown)))
      BY <2>2, <2>6
    <3> QED BY <3>1, <3>2, <3>3 DEF Rest
  <2>7. owner.cached => (old.load # 0 => s.loads[old.load].st # "free")
    BY <1>4, <1>5, <2>3
  <2>8. HoldsOld(s, pic, old)
    BY <1>1, <1>3, <2>2, <2>5, <2>6, <2>7 DEF HoldsOld, Kept
  <2> QED BY <2>3, <2>4, <2>8 DEF s, shown, old
<1> QED BY <1>6, <1>7
\* A layer was asked for before the older request was given up.
LEMMA OldIsDropped ==
  ASSUME VA!ViewerAssetsAssumption, NEW s, NEW q, NEW old, HoldsOld(s, q, old), VA!Idle(s) # {},
         NEW r \in Requests, Len(r.urls) > 0, NEW a, FirstIs(s, r, a), RequestIs(a.s, old),
         owner.cached => (old.load # 0 => s.loads[old.load].st # "free")
  PROVE  LET t == VA!Abandon(a.s, old)
         IN  /\ StoreFits(t) /\ Bounded(t)
             /\ ~owner.cached => Listed(t) = {}
             /\ ~a.waits => VA!Idle(t) # {}
             /\ owner.cached =>
                  /\ \A x \in Managed : t.entries[x].refs = Upto(x, q, Len(q)) + Upto(x, r.urls, 1)
                  /\ Had(t, q, Len(q))
                  /\ IF a.waits THEN WaitsFor(t, r.urls, 0, a.load) ELSE Had(t, r.urls, 1)
<1> DEFINE f == a.s
           t == VA!Abandon(f, old)
<1>1. /\ StoreFits(f) /\ Bounded(f) /\ (~owner.cached => f.entries = s.entries)
      /\ \A l \in Loads : s.loads[l].st # "free" => f.loads[l] = s.loads[l]
      /\ ~a.waits => f.loads = s.loads
      /\ a.load # 0 => s.loads[a.load].st = "free"
      /\ \A x \in Listed(s) : f.entries[x].st = s.entries[x].st
  BY DEF FirstIs
<1>2. /\ StoreFits(s) /\ Bounded(s) /\ q \in Seq(Urls) /\ Len(q) \in Nat
      /\ ~owner.cached => Listed(s) = {}
  BY DEF HoldsOld
<1>3. RequestIs(f, old)
  OBVIOUS
<1>4. r.urls \in Seq(Urls) /\ 1 \in 1 .. Len(r.urls) /\ 1 \in 1 .. 1 /\ 1 \in Nat /\ 0 \in Nat
  BY DEF Requests
<1> HIDE DEF f
<1>5. ~owner.cached => Listed(f) = {}
  BY <1>1, <1>2, SameEntries
<1>6. /\ StoreFits(t) /\ Bounded(t) /\ Fewer(f, t)
      /\ \A l \in Loads : /\ f.loads[l].st = "free" => t.loads[l].st = "free"
                          /\ f.loads[l].url \in Gltf /\ l # old.load => t.loads[l] = f.loads[l]
      /\ ~owner.cached => Listed(t) = {}
      /\ owner.cached => \A x \in Managed : t.entries[x].refs = Rest(f.entries[x].refs, Asks(old, x))
  BY <1>1, <1>3, <1>5, AbandonFits
<1> HIDE DEF t
<1>7. ASSUME ~a.waits PROVE VA!Idle(t) # {}
  BY <1>1, <1>6, <1>7 DEF VA!Idle
<1>8. ASSUME owner.cached, NEW x \in Managed
      PROVE  /\ t.entries[x].refs = Upto(x, q, Len(q)) + Upto(x, r.urls, 1)
             /\ Upto(x, q, Len(q)) \in Nat /\ Upto(x, r.urls, 1) \in Nat
             /\ s.entries[x].refs \in Nat /\ s.entries[x].refs >= Upto(x, q, Len(q))
  <2>1. Asks(old, x) \in Nat /\ Upto(x, q, Len(q)) \in Nat /\ s.entries[x].refs = Upto(x, q, Len(q)) + Asks(old, x)
    BY <1>8 DEF HoldsOld
  <2>2. f.entries[x].refs = s.entries[x].refs + Upto(x, r.urls, 1)
    BY <1>8 DEF FirstIs, f
  <2>3. t.entries[x].refs = Rest(f.entries[x].refs, Asks(old, x))
    BY <1>6, <1>8
  <2>4. Upto(x, r.urls, 1) \in Nat
    BY <1>4, UptoIs
  <2>5. t.entries[x].refs = Upto(x, q, Len(q)) + Upto(x, r.urls, 1)
    <3>1. f.entries[x].refs = Upto(x, q, Len(q)) + Upto(x, r.urls, 1) + Asks(old, x)
      BY <2>1, <2>2, <2>4
    <3> QED BY <2>1, <2>3, <2>4, <3>1 DEF Rest
  <2> QED BY <2>1, <2>4, <2>5
<1>9. ASSUME owner.cached, NEW x \in Managed, t.entries[x].refs > 0 PROVE t.entries[x].st = f.entries[x].st
  BY <1>6, <1>9 DEF Fewer, Managed
<1>10. ASSUME owner.cached PROVE Had(t, q, Len(q))
  <2>1. Had(s, q, Len(q))
    BY <1>10 DEF HoldsOld
  <2>2. ASSUME NEW x \in Managed, Upto(x, q, Len(q)) > 0 PROVE t.entries[x].st \in {s.entries[x].st, "ready"}
    <3>1. t.entries[x].refs > 0 /\ s.entries[x].refs > 0
      BY <1>8, <1>10, <2>2
    <3>2. t.entries[x].st = f.entries[x].st
      BY <1>9, <1>10, <3>1
    <3>3. x \in Listed(s)
      BY <1>2, <3>1 DEF StoreFits, EntryFits, VA!NoEntry, Listed, Managed
    <3> QED BY <1>1, <3>2, <3>3
  <2> QED BY <1>2, <2>1, <2>2, HadStays
<1>11. ASSUME owner.cached, ~a.waits PROVE Had(t, r.urls, 1)
  <2>1. Had(f, r.urls, 1)
    BY <1>11 DEF FirstIs, f
  <2>2. ASSUME NEW x \in Managed, Upto(x, r.urls, 1) > 0 PROVE t.entries[x].st \in {f.entries[x].st, "ready"}
    <3>1. t.entries[x].refs > 0
      BY <1>8, <1>11, <2>2
    <3> QED BY <1>9, <1>11, <3>1
  <2> QED BY <1>4, <2>1, <2>2, HadStays
<1>12. ASSUME owner.cached, a.waits PROVE WaitsFor(t, r.urls, 0, a.load)
  <2> DEFINE u == r.urls[1]
  <2>1. WaitsFor(f, r.urls, 0, a.load) /\ 0 + 1 = 1
    BY <1>12 DEF FirstIs, f
  <2>2. Had(t, r.urls, 0)
    BY DEF Had
  <2>3. ASSUME u \in Managed PROVE t.entries[u].st = "loading" /\ a.load = 0
    <3>1. f.entries[u].st = "loading" /\ a.load = 0
      BY <2>1, <2>3 DEF WaitsFor
    <3>2. Upto(u, r.urls, 1) > 0
      BY <1>4, InIsUpto
    <3>3. t.entries[u].refs > 0
      BY <1>8, <1>12, <2>3, <3>2
    <3> QED BY <1>9, <1>12, <2>3, <3>1, <3>3
  <2>4. ASSUME u \in Gltf
        PROVE  /\ a.load \in Loads /\ t.loads[a.load].url \in Gltf
               /\ t.loads[a.load].st \in {"manifest", "buffers"} /\ ~t.loads[a.load].aborted
    <3>1. /\ a.load \in Loads /\ f.loads[a.load].url \in Gltf
          /\ f.loads[a.load].st \in {"manifest", "buffers"} /\ ~f.loads[a.load].aborted
      BY <2>1, <2>4 DEF WaitsFor
    <3>2. a.load # 0
      BY <3>1 DEF VA!ViewerAssetsAssumption
    <3>3. a.load # old.load
      BY <1>1, <1>12, <3>2
    <3>4. t.loads[a.load] = f.loads[a.load]
      BY <1>6, <3>1, <3>3
    <3> QED BY <3>1, <3>4
  <2> QED BY <2>1, <2>2, <2>3, <2>4 DEF WaitsFor
<1>13. /\ StoreFits(t) /\ Bounded(t)
       /\ ~owner.cached => Listed(t) = {}
       /\ ~a.waits => VA!Idle(t) # {}
       /\ owner.cached =>
            /\ \A x \in Managed : t.entries[x].refs = Upto(x, q, Len(q)) + Upto(x, r.urls, 1)
            /\ Had(t, q, Len(q))
            /\ IF a.waits THEN WaitsFor(t, r.urls, 0, a.load) ELSE Had(t, r.urls, 1)
  BY <1>6, <1>7, <1>8, <1>10, <1>11, <1>12
<1> QED BY <1>13 DEF t, f
\* Nothing is wanted: the request is given up, and what is shown stays.
LEMMA NothingIsAsked ==
  ASSUME VA!ViewerAssetsAssumption, CacheInv, viewer.mounted, NEW level \in VA!Levels,
         owner.cached => level = "default", NEW status \in {"idle", "loading", "error"}
  PROVE  TaskFits(VA!Abandon(store, viewer.request),
                  [[viewer EXCEPT !.want = <<>>, !.level = level, !.request = VA!NoRequest] EXCEPT !.status = status])
<1> DEFINE old == viewer.request
           q == viewer.shown.urls
           t == VA!Abandon(store, old)
           w == [[viewer EXCEPT !.want = <<>>, !.level = level, !.request = VA!NoRequest] EXCEPT !.status = status]
<1>1. /\ StoreFits(store) /\ Bounded(store) /\ viewer \in Viewers /\ viewer.shown.alive
      /\ ~owner.cached => Listed(store) = {}
  BY DEF CacheInv, TaskFits
<1>2. HoldsOld(store, q, old)
  BY ClearedFits
<1>3. RequestIs(store, old)
  BY OldRequest
<1>4. q \in Seq(Urls) /\ Len(q) \in Nat
  BY <1>1, ViewerParts
<1>5. /\ w \in Viewers /\ w.mounted /\ w.shown = viewer.shown /\ w.level = level /\ w.status = status
      /\ w.request = VA!NoRequest /\ ~w.request.on
  <2>1. /\ <<>> \in Wants /\ <<>> \in Seq(Urls) /\ 0 \in Nat /\ "default" \in VA!Levels /\ status \in VA!Statuses
        /\ FALSE \in BOOLEAN
    BY EmptySeq DEF VA!ViewerAssetsAssumption, VA!Levels, VA!Statuses
  <2>2. VA!NoRequest \in Requests /\ ~VA!NoRequest.on
    BY <2>1 DEF VA!NoRequest, Requests
  <2> QED BY <1>1, <2>1, <2>2 DEF Viewers, Requests
<1> HIDE DEF old, w, q
<1>6. /\ StoreFits(t) /\ Bounded(t) /\ Fewer(store, t)
      /\ ~owner.cached => Listed(t) = {}
      /\ owner.cached => \A x \in Managed : t.entries[x].refs = Rest(store.entries[x].refs, Asks(old, x))
  BY <1>1, <1>3, AbandonFits
<1> HIDE DEF t
<1>7. ASSUME owner.cached, NEW x \in Managed
      PROVE  t.entries[x].refs = Upto(x, q, Len(q)) /\ Upto(x, q, Len(q)) \in Nat
  <2>1. Asks(old, x) \in Nat /\ Upto(x, q, Len(q)) \in Nat /\ store.entries[x].refs = Upto(x, q, Len(q)) + Asks(old, x)
    BY <1>2, <1>7 DEF HoldsOld
  <2>2. t.entries[x].refs = Rest(store.entries[x].refs, Asks(old, x))
    BY <1>6, <1>7
  <2> QED BY <2>1, <2>2 DEF Rest
<1>8. ASSUME owner.cached PROVE ViewerFits(t, w)
  <2>1. Had(store, q, Len(q))
    BY <1>2, <1>8 DEF HoldsOld
  <2>2. ASSUME NEW x \in Managed, Upto(x, q, Len(q)) > 0 PROVE t.entries[x].st \in {store.entries[x].st, "ready"}
    <3>1. t.entries[x].refs > 0 /\ x \in Urls
      BY <1>7, <1>8, <2>2 DEF Managed
    <3> QED BY <1>6, <3>1 DEF Fewer
  <2>3. Had(t, q, Len(q))
    BY <1>4, <2>1, <2>2, HadStays
  <2>4. ASSUME NEW x \in Managed PROVE t.entries[x].refs = Held(w, x)
    <3>1. t.entries[x].refs = Upto(x, q, Len(q)) /\ Upto(x, q, Len(q)) \in Nat
      BY <1>7, <1>8
    <3> QED BY <1>5, <3>1 DEF Held, q
  <2>5. w.shown.urls = q
    BY <1>5 DEF q
  <2> QED BY <1>5, <1>8, <2>3, <2>4, <2>5 DEF ViewerFits
<1>9. AsksAndShowsWanted(w)
  BY <1>5 DEF AsksAndShowsWanted
<1>10. TaskFits(t, w)
  BY <1>1, <1>5, <1>6, <1>8, <1>9 DEF TaskFits
<1> QED BY <1>10 DEF t, w, old

\* The request of a run of the effect, and the viewer while it runs.
Asker(want, level) == [VA!NoRequest EXCEPT !.on = TRUE, !.urls = want, !.level = level]
Asking(want, level, pic) ==
    [[viewer EXCEPT !.want = want, !.level = level, !.request = VA!NoRequest] EXCEPT !.status = "loading", !.shown = pic]
Cleared(pic) == IF pic.urls = viewer.shown.urls THEN store ELSE VA!GiveBack(store, viewer.shown.urls)

\* The parts of the request and of the viewer while the effect runs.
LEMMA AskingIs ==
  ASSUME VA!ViewerAssetsAssumption, CacheInv, viewer.mounted, NEW want \in Wants, want # <<>>, NEW level \in VA!Levels,
         NEW pic \in {viewer.shown, VA!NoPicture}
  PROVE  LET r == Asker(want, level)
             w == Asking(want, level, pic)
         IN  /\ r \in Requests /\ r.on /\ r.urls = want /\ r.got = 0 /\ r.load = 0 /\ r.level = level
             /\ want \in Seq(Urls) /\ Len(want) \in Nat /\ Len(want) > 0 /\ Head(want) = want[1]
             /\ pic.urls \in {viewer.shown.urls, <<>>} /\ pic.urls \in Seq(Urls) /\ Len(pic.urls) \in Nat /\ pic.alive
             /\ w \in Viewers /\ w.mounted /\ w.shown = pic /\ w.level = level /\ w.want = want /\ w.status = "loading"
             /\ w.request = VA!NoRequest
<1> DEFINE r == Asker(want, level)
           w == Asking(want, level, pic)
<1>1. viewer \in Viewers /\ viewer.shown.alive
  BY DEF CacheInv, TaskFits
<1>2. /\ <<>> \in Seq(Urls) /\ Len(<<>>) = 0 /\ 0 \in Nat /\ "default" \in VA!Levels /\ "loading" \in VA!Statuses
      /\ FALSE \in BOOLEAN /\ TRUE \in BOOLEAN /\ want \in Seq(Urls)
  BY EmptySeq DEF VA!ViewerAssetsAssumption, VA!Levels, VA!Statuses
<1>3. Len(want) \in Nat /\ Len(want) > 0 /\ Head(want) = want[1]
  BY <1>2
<1>4. r \in Requests /\ r.on /\ r.urls = want /\ r.got = 0 /\ r.load = 0 /\ r.level = level
  BY <1>2 DEF Asker, VA!NoRequest, Requests
<1>5. VA!NoRequest \in Requests
  BY <1>2 DEF VA!NoRequest, Requests
<1>6. pic \in [urls : Seq(Urls), level : VA!Levels, alive : BOOLEAN] /\ pic.urls \in {viewer.shown.urls, <<>>} /\ pic.alive
  <2>1. CASE pic = viewer.shown
    BY <1>1, <2>1 DEF Viewers
  <2>2. CASE pic = VA!NoPicture
    BY <1>2, <2>2 DEF VA!NoPicture
  <2> QED BY <2>1, <2>2
<1>7. pic.urls \in Seq(Urls) /\ Len(pic.urls) \in Nat
  BY <1>6
<1>8. /\ w \in Viewers /\ w.mounted /\ w.shown = pic /\ w.level = level /\ w.want = want /\ w.status = "loading"
      /\ w.request = VA!NoRequest
  BY <1>1, <1>2, <1>5, <1>6 DEF Asking, Viewers, Requests
<1> QED BY <1>2, <1>3, <1>4, <1>6, <1>7, <1>8
\* The first layer was asked for, and then the older request was given up.
FirstOf(want, level, pic) == VA!AskLayer(AskBegin(Cleared(pic), Asker(want, level)), want[1])

\* Either the request waits for its first layer, or it holds that layer and goes on.
LEMMA FirstFits ==
  ASSUME VA!ViewerAssetsAssumption, CacheInv, viewer.mounted, NEW want \in Wants, want # <<>>, NEW level \in VA!Levels,
         owner.cached => level = "default", NEW pic \in {viewer.shown, VA!NoPicture}, VA!Idle(store) # {}
  PROVE  LET r == Asker(want, level)
             w == Asking(want, level, pic)
             a == FirstOf(want, level, pic)
             t == VA!Abandon(a.s, viewer.request)
         IN  /\ a \in Accs
             /\ a.waits => TaskFits(t, [w EXCEPT !.request = [r EXCEPT !.got = a.got, !.load = a.load]])
             /\ ~a.waits => Moment(t, w, want, 1) /\ VA!Idle(t) # {}
<1> DEFINE r == Asker(want, level)
           w == Asking(want, level, pic)
           s == Cleared(pic)
           a == FirstOf(want, level, pic)
           old == viewer.request
           t == VA!Abandon(a.s, old)
           q == pic.urls
<1>1. /\ r \in Requests /\ r.on /\ r.urls = want /\ r.got = 0 /\ r.load = 0 /\ r.level = level
      /\ want \in Seq(Urls) /\ Len(want) \in Nat /\ Len(want) > 0 /\ Head(want) = want[1]
      /\ q \in {viewer.shown.urls, <<>>} /\ q \in Seq(Urls) /\ Len(q) \in Nat /\ pic.alive
      /\ w \in Viewers /\ w.mounted /\ w.shown = pic /\ w.level = level /\ w.want = want /\ w.status = "loading"
      /\ w.request = VA!NoRequest
  BY AskingIs
<1>2. s = IF q = viewer.shown.urls THEN store ELSE VA!GiveBack(store, viewer.shown.urls)
  BY DEF Cleared
<1>3. a = VA!AskLayer(AskBegin(s, r), r.urls[1])
  BY <1>1 DEF FirstOf
<1> HIDE DEF r, w, s, a, q
<1>4. /\ HoldsOld(s, q, old) /\ VA!Idle(s) # {}
      /\ \A l \in Loads : store.loads[l].st # "free" /\ store.loads[l].url \in Gltf => s.loads[l] = store.loads[l]
  BY <1>1, <1>2, ClearedFits
<1>5. FirstIs(s, r, a)
  <2>1. StoreFits(s) /\ Bounded(s)
    BY <1>4 DEF HoldsOld
  <2> QED BY <1>1, <1>3, <1>4, <2>1, FirstIsAsked
<1>6. RequestIs(a.s, old)
  <2>1. ASSUME NEW l \in Loads, store.loads[l].st # "free", store.loads[l].url \in Gltf
        PROVE  a.s.loads[l] = store.loads[l]
    <3>1. s.loads[l] = store.loads[l]
      BY <1>4, <2>1
    <3> QED BY <1>5, <2>1, <3>1 DEF FirstIs
  <2> QED BY <2>1, OldRequest
<1>7. owner.cached => (old.load # 0 => s.loads[old.load].st # "free")
  BY <1>4 DEF HoldsOld
<1>8. /\ StoreFits(t) /\ Bounded(t)
      /\ ~owner.cached => Listed(t) = {}
      /\ ~a.waits => VA!Idle(t) # {}
      /\ owner.cached =>
           /\ \A x \in Managed : t.entries[x].refs = Upto(x, q, Len(q)) + Upto(x, r.urls, 1)
           /\ Had(t, q, Len(q))
           /\ IF a.waits THEN WaitsFor(t, r.urls, 0, a.load) ELSE Had(t, r.urls, 1)
  BY <1>1, <1>4, <1>5, <1>6, <1>7, OldIsDropped
<1> HIDE DEF t, old
<1>9. a \in Accs /\ a.load \in Loads \union {0} /\ (a.waits => a.got = 0) /\ a.waits \in BOOLEAN
  BY <1>5 DEF FirstIs, Accs
<1>10. ASSUME a.waits PROVE TaskFits(t, [w EXCEPT !.request = [r EXCEPT !.got = a.got, !.load = a.load]])
  <2> DEFINE x1 == [r EXCEPT !.got = a.got, !.load = a.load]
             w1 == [w EXCEPT !.request = x1]
  <2>1. x1 \in Requests /\ x1.on /\ x1.urls = want /\ x1.got = 0 /\ x1.load = a.load /\ x1.level = level
    BY <1>1, <1>9, <1>10 DEF Requests
  <2> HIDE DEF x1
  <2>2. /\ w1 \in Viewers /\ w1.mounted /\ w1.shown = pic /\ w1.level = level /\ w1.want = want /\ w1.status = "loading"
        /\ w1.request = x1
    BY <1>1, <2>1 DEF Viewers, Requests
  <2> HIDE DEF w1
  <2>3. AsksAndShowsWanted(w1)
    BY <1>1, <2>1, <2>2 DEF AsksAndShowsWanted
  <2>4. ASSUME owner.cached PROVE ViewerFits(t, w1)
    <3>1. Had(t, q, Len(q)) /\ WaitsFor(t, want, 0, a.load)
      BY <1>1, <1>8, <1>10, <2>4
    <3>2. w1.shown.urls = q
      BY <2>2 DEF q
    <3>3. RequestFits(t, w1.request)
      BY <2>1, <2>2, <3>1 DEF RequestFits
    <3>4. ASSUME NEW x \in Managed PROVE t.entries[x].refs = Held(w1, x)
      <4>1. t.entries[x].refs = Upto(x, q, Len(q)) + Upto(x, want, 1)
        BY <1>1, <1>8, <2>4, <3>4
      <4>2. 0 + 1 = 1
        OBVIOUS
      <4> QED BY <2>1, <2>2, <3>2, <4>1, <4>2 DEF Held
    <3> QED BY <2>2, <2>4, <3>1, <3>2, <3>3, <3>4 DEF ViewerFits
  <2>5. TaskFits(t, w1)
    BY <1>1, <1>8, <2>2, <2>3, <2>4 DEF TaskFits
  <2> QED BY <2>5 DEF w1, x1
<1>11. ASSUME ~a.waits PROVE Moment(t, w, want, 1)
  <2>1. ASSUME owner.cached PROVE Holding(t, w, want, 1)
    <3>1. w.shown.urls = q
      BY <1>1 DEF q
    <3> QED BY <1>1, <1>8, <1>11, <2>1, <3>1 DEF Holding
  <2> QED BY <1>1, <1>8, <2>1 DEF Moment
<1>12. /\ a \in Accs
       /\ a.waits => TaskFits(t, [w EXCEPT !.request = [r EXCEPT !.got = a.got, !.load = a.load]])
       /\ ~a.waits => Moment(t, w, want, 1) /\ VA!Idle(t) # {}
  BY <1>8, <1>9, <1>10, <1>11
<1> QED BY <1>12 DEF t, a, w, r, old

\* The effect runs again.
LEMMA ReloadFits ==
  ASSUME VA!ViewerAssetsAssumption, CacheInv, viewer.mounted, NEW want \in Wants, NEW level \in VA!Levels,
         owner.cached => level = "default", NEW status \in {"idle", "loading", "error"}, VA!Reload(want, level, status),
         owner' = owner
  PROVE  CacheInv'
<1> DEFINE old == viewer.request
           v == [viewer EXCEPT !.want = want, !.level = level, !.request = VA!NoRequest]
           keeps == viewer.shown.urls # <<>> /\ (viewer.loaded = want \/ owner.preserve)
           pic == IF keeps THEN viewer.shown ELSE VA!NoPicture
           w == Asking(want, level, pic)
           r == Asker(want, level)
           cleared == IF keeps THEN store ELSE VA!GiveBack(store, viewer.shown.urls)
           first == VA!AskLayer([s |-> cleared, waits |-> FALSE, got |-> 0, load |-> 0, level |-> level], Head(want))
           dropped == VA!Abandon(first.s, old)
           rest == IF first.waits THEN [first EXCEPT !.s = dropped] ELSE VA!AskLayers(dropped, [r EXCEPT !.got = 1])
<1>1. owner \in VA!Owners /\ viewer \in Viewers
  BY DEF CacheInv, TaskFits
<1>2. CASE want = <<>>
  <2>1. VA!Settle(VA!Abandon(store, old), [v EXCEPT !.status = status])
    BY <1>2 DEF VA!Reload
  <2>2. TaskFits(VA!Abandon(store, old), [v EXCEPT !.status = status])
    <3> DEFINE x1 == [[viewer EXCEPT !.want = <<>>, !.level = level, !.request = VA!NoRequest] EXCEPT !.status = status]
    <3>1. [v EXCEPT !.status = status] = x1
      BY <1>2
    <3>2. TaskFits(VA!Abandon(store, viewer.request), x1)
      BY NothingIsAsked
    <3> HIDE DEF v, x1
    <3> QED BY <3>1, <3>2
  <2> QED BY <1>1, <2>1, <2>2, SettleFits
<1>3. CASE want # <<>>
  <2>1. /\ VA!Cardinality(VA!Idle(store)) >= Len(want)
        /\ IF rest.waits THEN VA!Settle(rest.s, [w EXCEPT !.request = [r EXCEPT !.got = rest.got, !.load = rest.load]])
           ELSE VA!Finish(rest.s, w, r)
    BY <1>3 DEF VA!Reload, Asking, Asker
  <2> HIDE DEF rest
  <2>2. pic \in {viewer.shown, VA!NoPicture}
    OBVIOUS
  <2>3. /\ r \in Requests /\ r.on /\ r.urls = want /\ r.got = 0 /\ r.load = 0 /\ r.level = level
        /\ want \in Seq(Urls) /\ Len(want) \in Nat /\ Len(want) > 0 /\ Head(want) = want[1]
        /\ pic.alive
        /\ w \in Viewers /\ w.mounted /\ w.shown = pic /\ w.level = level /\ w.want = want /\ w.status = "loading"
        /\ w.request = VA!NoRequest
    <3> HIDE DEF pic
    <3> QED BY <1>3, <2>2, AskingIs
  <2>4. VA!Idle(store) # {}
    <3>1. Cardinality(VA!Idle(store)) >= Len(want)
      BY <2>1, SameCount
    <3>2. Cardinality({}) = 0
      BY FS_EmptySet
    <3>3. Len(want) \in Nat /\ Len(want) > 0
      BY <2>3
    <3> HIDE DEF pic, w, r, first, cleared, v, keeps, old, dropped
    <3> SUFFICES ASSUME VA!Idle(store) = {} PROVE FALSE
      OBVIOUS
    <3>4. Cardinality({}) >= Len(want)
      BY <3>1
    <3> QED BY <3>2, <3>3, <3>4
  <2>5. cleared = Cleared(pic)
    <3>1. CASE keeps
      BY <3>1 DEF Cleared
    <3>2. CASE ~keeps
      <4>1. pic.urls = <<>> /\ cleared = VA!GiveBack(store, viewer.shown.urls)
        BY <3>2 DEF VA!NoPicture
      <4>2. CASE viewer.shown.urls = <<>>
        <5> DEFINE q == viewer.shown.urls
        <5>1. q \in Seq(Urls) /\ Len(q) = 0 /\ 0 \in 0 .. Len(q)
          BY <1>1, <4>2, ViewerParts
        <5> HIDE DEF q
        <5>2. VA!Given(store, q)[0] = store
          BY <5>1, GivenIs
        <5>3. VA!GiveBack(store, q) = store
          BY <5>1, <5>2 DEF VA!GiveBack
        <5> QED BY <4>1, <4>2, <5>3 DEF Cleared, q
      <4>3. CASE viewer.shown.urls # <<>>
        BY <4>1, <4>3 DEF Cleared
      <4> QED BY <4>2, <4>3
    <3> QED BY <3>1, <3>2
  <2>6. first = FirstOf(want, level, pic)
    BY <2>3, <2>5 DEF FirstOf, AskBegin
  <2>7. rest = IF first.waits THEN [first EXCEPT !.s = dropped] ELSE VA!AskLayers(dropped, [r EXCEPT !.got = 1])
    BY DEF rest
  <2> HIDE DEF pic, w, r, first, cleared, v, keeps, old
  <2>8. /\ first \in Accs
        /\ first.waits => TaskFits(dropped, [w EXCEPT !.request = [r EXCEPT !.got = first.got, !.load = first.load]])
        /\ ~first.waits => Moment(dropped, w, want, 1) /\ VA!Idle(dropped) # {}
    BY <1>3, <2>2, <2>4, <2>6, FirstFits DEF w, r, old
  <2> HIDE DEF dropped
  <2>9. CASE first.waits
    <3>1. rest.waits /\ rest.s = dropped /\ rest.got = first.got /\ rest.load = first.load
      BY <2>7, <2>8, <2>9 DEF Accs
    <3>2. VA!Settle(dropped, [w EXCEPT !.request = [r EXCEPT !.got = first.got, !.load = first.load]])
      BY <2>1, <3>1
    <3> QED BY <1>1, <2>8, <2>9, <3>2, SettleFits
  <2>10. CASE ~first.waits
    <3> DEFINE r1 == [r EXCEPT !.got = 1]
    <3>1. /\ r1 \in Requests /\ r1.on /\ r1.urls = want /\ r1.got = 1 /\ r1.level = level /\ r1.load = 0
          /\ 1 <= Len(r1.urls)
      BY <2>3 DEF Requests
    <3>2. rest = VA!AskLayers(dropped, r1)
      BY <2>7, <2>10
    <3>3. ASSUME rest.waits
          PROVE  VA!Settle(rest.s, [w EXCEPT !.request = [r1 EXCEPT !.got = rest.got, !.load = rest.load]])
      <4>1. [r1 EXCEPT !.got = rest.got, !.load = rest.load] = [r EXCEPT !.got = rest.got, !.load = rest.load]
        BY <2>3 DEF Requests
      <4> QED BY <2>1, <3>3, <4>1
    <3> HIDE DEF r1
    <3>4. ASSUME ~rest.waits PROVE VA!Finish(rest.s, w, r1)
      BY <2>1, <2>3, <3>1, <3>4 DEF VA!Finish
    <3>5. Moment(dropped, w, r1.urls, r1.got) /\ VA!Idle(dropped) # {}
      BY <2>8, <2>10, <3>1
    <3>6. LET a == VA!AskLayers(dropped, r1)
          IN  IF a.waits THEN VA!Settle(a.s, [w EXCEPT !.request = [r1 EXCEPT !.got = a.got, !.load = a.load]])
              ELSE VA!Finish(a.s, w, r1)
      BY <3>2, <3>3, <3>4
    <3>7. w.shown.alive
      BY <2>3
    <3> QED BY <1>1, <2>3, <3>1, <3>5, <3>6, <3>7, GoesOn
  <2> QED BY <2>9, <2>10
<1> QED BY <1>2, <1>3
\* A store whose entries are held as before, and whose loads that were under
\* way are still there.
Prepared(s, t) ==
    /\ StoreFits(t)
    /\ \A k \in Loads : s.loads[k].st # "free" => t.loads[k] = s.loads[k]
    /\ \A x \in Urls : /\ t.entries[x].refs = s.entries[x].refs
                       /\ s.entries[x].refs > 0 => t.entries[x].st = s.entries[x].st

\* Marking what is to come changes no hold.
LEMMA MarkedFits ==
  ASSUME VA!ViewerAssetsAssumption, NEW s, StoreFits(s), NEW targets
  PROVE  LET t == VA!Marked(s, targets)
         IN  Prepared(s, t) /\ t.loads = s.loads
<1> DEFINE t == VA!Marked(s, targets)
           m(x) == s.entries[x].st # "none" /\ x \in VA!ToSet(targets)
           e == [x \in Urls |-> [s.entries[x] EXCEPT !.prefetched = m(x)]]
<1>1. s \in Stores /\ s.entries \in [Urls -> EntryRecords]
  BY DEF StoreFits, Stores
<1>2. ASSUME NEW x \in Urls
      PROVE  /\ e[x] \in EntryRecords /\ e[x].st = s.entries[x].st /\ e[x].load = s.entries[x].load
             /\ e[x].refs = s.entries[x].refs /\ (s.entries[x].st = "none" => e[x] = s.entries[x])
  <2>1. s.entries[x] \in EntryRecords /\ EntryFits(s, x)
    BY <1>1 DEF StoreFits
  <2>2. CASE m(x)
    <3>1. e[x] = [s.entries[x] EXCEPT !.prefetched = TRUE] /\ s.entries[x].st # "none"
      BY <2>2
    <3> HIDE DEF e, m
    <3> QED BY <2>1, <3>1 DEF EntryRecords
  <2>3. CASE ~m(x)
    <3>1. e[x] = [s.entries[x] EXCEPT !.prefetched = FALSE]
      BY <2>3
    <3> HIDE DEF e, m
    <3>2. /\ e[x] \in EntryRecords /\ e[x].st = s.entries[x].st /\ e[x].load = s.entries[x].load
          /\ e[x].refs = s.entries[x].refs
      BY <2>1, <3>1 DEF EntryRecords
    <3>3. ASSUME s.entries[x].st = "none" PROVE e[x] = s.entries[x]
      <4>1. s.entries[x] = VA!NoEntry
        BY <2>1, <3>3 DEF EntryFits
      <4>2. PICK no \in BOOLEAN : no = FALSE
        OBVIOUS
      <4>3. VA!NoEntry \in EntryRecords /\ VA!NoEntry.prefetched = no
        BY <2>1, <4>1, <4>2 DEF VA!NoEntry
      <4>4. [VA!NoEntry EXCEPT !.prefetched = no] = VA!NoEntry
        BY <4>3 DEF EntryRecords
      <4>5. e[x] = [s.entries[x] EXCEPT !.prefetched = no]
        BY <3>1, <4>2
      <4> QED BY <4>1, <4>4, <4>5
    <3> QED BY <3>2, <3>3
  <2> QED BY <2>2, <2>3
<1>3. t = [s EXCEPT !.entries = e]
  BY DEF VA!Marked
<1>4. e \in [Urls -> EntryRecords]
  <2>1. e = [x \in Urls |-> e[x]]
    OBVIOUS
  <2> HIDE DEF e
  <2> QED BY <1>2, <2>1
<1> HIDE DEF e, m, t
<1>5. t \in Stores /\ t.entries = e /\ t.loads = s.loads /\ t.recent = s.recent /\ t.gone = s.gone
  BY <1>1, <1>3, <1>4 DEF Stores
<1>6. Listed(t) = Listed(s)
  BY <1>2, <1>5 DEF Listed
<1>7. ASSUME NEW x \in Urls PROVE EntryFits(t, x)
  <2>1. EntryFits(s, x)
    BY DEF StoreFits
  <2>2. /\ t.entries[x].st = s.entries[x].st /\ t.entries[x].load = s.entries[x].load
        /\ s.entries[x].st = "none" => t.entries[x] = s.entries[x]
    BY <1>2, <1>5
  <2> QED BY <1>5, <2>1, <2>2 DEF EntryFits
<1>8. StoreFits(t)
  BY <1>5, <1>6, <1>7 DEF StoreFits
<1>9. Prepared(s, t) /\ t.loads = s.loads
  BY <1>2, <1>5, <1>8 DEF Prepared
<1> QED BY <1>9 DEF t

\* Asking for one frame that comes next changes no hold.
LEMMA PrefetchOneFits ==
  ASSUME VA!ViewerAssetsAssumption, NEW s, StoreFits(s), VA!Idle(s) # {}, NEW u \in Managed
  PROVE  Prepared(s, VA!PrefetchOne(s, u))
<1> DEFINE b == VA!Ensure(s, u, FALSE)
           e == [b.entries[u] EXCEPT !.prefetched = TRUE]
           m == [b EXCEPT !.entries[u] = e]
           t == VA!PrefetchOne(s, u)
<1>0. u \in Urls
  BY DEF Managed
<1>1. /\ StoreFits(b) /\ u \in Listed(b) /\ (u \in Listed(s) => b = s)
      /\ \A x \in Urls : x # u => b.entries[x] = s.entries[x]
      /\ u \notin Listed(s) => b.entries[u].st = "loading" /\ b.entries[u].refs = 0
      /\ \A k \in Loads : s.loads[k].st # "free" => b.loads[k] = s.loads[k]
  <2>1. PICK no \in BOOLEAN : no = FALSE
    OBVIOUS
  <2>2. b = VA!Ensure(s, u, no)
    BY <2>1
  <2> HIDE DEF b
  <2> QED BY <2>2, EnsureFits
<1>2. t = VA!Touch(m, u)
  BY DEF VA!PrefetchOne
<1> HIDE DEF b
<1>3. b.entries[u] \in EntryRecords /\ b.entries \in [Urls -> EntryRecords]
  BY <1>0, <1>1 DEF StoreFits, Stores
<1>4. e \in EntryRecords /\ e.st = b.entries[u].st /\ e.load = b.entries[u].load /\ e.refs = b.entries[u].refs
  BY <1>3 DEF EntryRecords
<1> HIDE DEF e
<1>5. /\ StoreFits(m) /\ m.loads = b.loads
      /\ m.entries = [b.entries EXCEPT ![u] = e] /\ Listed(m) = Listed(b)
  BY <1>1, <1>4, EntryChanged
<1> HIDE DEF m, t
<1>6. StoreFits(t) /\ t.loads = m.loads /\ t.entries = m.entries
  BY <1>1, <1>2, <1>5, TouchFits
<1>7. \A x \in Urls : t.entries[x] = IF x = u THEN e ELSE b.entries[x]
  BY <1>3, <1>5, <1>6
<1>8. ASSUME NEW x \in Urls
      PROVE  /\ t.entries[x].refs = s.entries[x].refs
             /\ s.entries[x].refs > 0 => t.entries[x].st = s.entries[x].st
  <2>1. CASE x # u
    BY <1>1, <1>7, <2>1
  <2>2. CASE x = u /\ u \in Listed(s)
    BY <1>1, <1>4, <1>7, <2>2
  <2>3. CASE x = u /\ u \notin Listed(s)
    <3>1. s.entries[u].refs = 0
      BY <1>0, <2>3 DEF Listed, StoreFits, EntryFits, VA!NoEntry
    <3> QED BY <1>1, <1>4, <1>7, <2>3, <3>1
  <2> QED BY <2>1, <2>2, <2>3
<1>9. Prepared(s, t)
  BY <1>1, <1>5, <1>6, <1>8 DEF Prepared
<1> QED BY <1>9 DEF t

\* Two calls that change no hold, one after the other.
LEMMA BothPrepared ==
  ASSUME NEW s, NEW t, NEW w, Prepared(s, t), Prepared(t, w)
  PROVE  Prepared(s, w)
BY DEF Prepared

\* A frame that comes next is asked for, and those that are no longer wanted are dropped.
LEMMA PrefetchFits ==
  ASSUME VA!ViewerAssetsAssumption, NEW s, StoreFits(s), VA!Idle(s) # {}, NEW q \in Seq(Urls), Len(q) <= 1,
         Len(q) = 1 => q[1] \in Managed
  PROVE  LET t == VA!Prefetch(s, q)
         IN  /\ StoreFits(t) /\ Bounded(t)
             /\ \A l \in Loads : s.loads[l].st # "free" /\ s.loads[l].url \in Gltf => t.loads[l] = s.loads[l]
             /\ \A x \in Urls : /\ t.entries[x].refs = s.entries[x].refs
                                /\ s.entries[x].refs > 0 => t.entries[x].st = s.entries[x].st
<1>4. q \in Seq(Urls) /\ Len(q) \in Nat /\ (Len(q) = 0 \/ Len(q) = 1)
  <2>1. Len(q) \in Nat
    OBVIOUS
  <2>2. \A k \in Nat : k <= 1 => k = 0 \/ k = 1
    OBVIOUS
  <2> QED BY <2>1, <2>2
<1> DEFINE m == VA!Marked(s, q)
           p == VA!Prefetched(m, q)[Len(q)]
           w == VA!Sweep(p, "unwanted")
           t == VA!Trim(w)
<1>1. VA!Prefetch(s, q) = t
  BY DEF VA!Prefetch
<1>2. Prepared(s, m) /\ m.loads = s.loads
  BY MarkedFits
<1>3. VA!Idle(m) # {}
  BY <1>2 DEF VA!Idle
<1> HIDE DEF m
<1>5. \A n \in 0 .. Len(q) : VA!Prefetched(m, q)[n] = IF n = 0 THEN m ELSE VA!PrefetchOne(VA!Prefetched(m, q)[n - 1], q[n])
  BY <1>4, PrefetchedIs
<1>6. Prepared(s, p)
  <2>1. VA!Prefetched(m, q)[0] = m
    BY <1>4, <1>5
  <2>2. CASE Len(q) = 0
    BY <1>2, <2>1, <2>2
  <2>3. CASE Len(q) = 1
    <3>1. 1 \in 0 .. Len(q) /\ 1 # 0 /\ 1 - 1 = 0 /\ q[1] \in Managed
      BY <2>3
    <3>2. p = VA!PrefetchOne(m, q[1])
      BY <1>5, <2>1, <2>3, <3>1
    <3> HIDE DEF p
    <3>3. Prepared(m, p)
      BY <1>2, <1>3, <3>1, <3>2, PrefetchOneFits DEF Prepared
    <3> QED BY <1>2, <3>3, BothPrepared
  <2> QED BY <1>4, <2>2, <2>3
<1> HIDE DEF p
<1>7. Kept(p, w) /\ \A x \in Urls : w.entries[x].refs = p.entries[x].refs
  <2>1. StoreFits(p)
    BY <1>6 DEF Prepared
  <2> QED BY <2>1, SweepFits
<1> HIDE DEF w
<1>8. Kept(w, t) /\ Bounded(t) /\ \A x \in Urls : t.entries[x].refs = w.entries[x].refs
  BY <1>7, TrimFits DEF Kept
<1> HIDE DEF t
<1>9. StoreFits(t) /\ LoadsLeft(p, w) /\ LoadsLeft(w, t) /\ Fewer(p, w) /\ Fewer(w, t)
  BY <1>7, <1>8 DEF Kept
<1>10. ASSUME NEW l \in Loads, s.loads[l].st # "free", s.loads[l].url \in Gltf PROVE t.loads[l] = s.loads[l]
  <2>1. p.loads[l] = s.loads[l]
    BY <1>6, <1>10 DEF Prepared
  <2>2. w.loads[l] = p.loads[l]
    BY <1>9, <1>10, <2>1 DEF LoadsLeft
  <2> QED BY <1>9, <1>10, <2>1, <2>2 DEF LoadsLeft
<1>11. ASSUME NEW x \in Urls
       PROVE  /\ t.entries[x].refs = s.entries[x].refs
              /\ s.entries[x].refs > 0 => t.entries[x].st = s.entries[x].st
  BY <1>6, <1>7, <1>8, <1>9 DEF Prepared, Fewer
<1> QED BY <1>1, <1>8, <1>9, <1>10, <1>11
\* A viewer that has just been mounted, or has left, holds nothing.
LEMMA FreshFits ==
  ASSUME VA!ViewerAssetsAssumption, NEW s, StoreFits(s), Listed(s) = {}, NEW on \in BOOLEAN,
         NEW v \in {VA!NewViewer, [VA!NewViewer EXCEPT !.mounted = on]}
  PROVE  TaskFits(s, v)
<1>1. /\ <<>> \in Wants /\ <<>> \in Seq(Urls) /\ Len(<<>>) = 0 /\ 0 \in Nat /\ "default" \in VA!Levels
      /\ "idle" \in VA!Statuses /\ FALSE \in BOOLEAN /\ TRUE \in BOOLEAN
  BY EmptySeq DEF VA!ViewerAssetsAssumption, VA!Levels, VA!Statuses
<1>2. VA!NoRequest \in Requests /\ ~VA!NoRequest.on
  BY <1>1 DEF VA!NoRequest, Requests
<1>3. /\ VA!NoPicture \in [urls : Seq(Urls), level : VA!Levels, alive : BOOLEAN] /\ VA!NoPicture.urls = <<>>
      /\ VA!NoPicture.alive
  BY <1>1 DEF VA!NoPicture
<1>4. VA!NewViewer \in Viewers
  BY <1>1, <1>2, <1>3 DEF VA!NewViewer, Viewers, Requests
<1>5. /\ v \in Viewers /\ v.request = VA!NoRequest /\ v.shown = VA!NoPicture /\ v.level = "default"
      /\ v.status = "idle" /\ ~v.request.on /\ v.shown.urls = <<>>
  <2>1. /\ VA!NewViewer.request = VA!NoRequest /\ VA!NewViewer.shown = VA!NoPicture
        /\ VA!NewViewer.level = "default" /\ VA!NewViewer.status = "idle"
    BY DEF VA!NewViewer
  <2> QED BY <1>2, <1>3, <1>4, <2>1 DEF Viewers
<1>6. AsksAndShowsWanted(v)
  BY <1>5 DEF AsksAndShowsWanted
<1>7. Bounded(s)
  BY DEF Bounded
<1>8. ViewerFits(s, v)
  <2>1. Had(s, v.shown.urls, Len(v.shown.urls))
    BY <1>1, <1>5 DEF Had
  <2>2. ASSUME NEW x \in Managed PROVE s.entries[x].refs = Held(v, x)
    <3>1. Upto(x, v.shown.urls, Len(v.shown.urls)) = 0
      BY <1>1, <1>5, UptoIs
    <3>2. x \in Urls /\ s.entries[x].st = "none"
      BY DEF Listed, Managed
    <3>3. s.entries[x].refs = 0
      BY <3>2 DEF StoreFits, EntryFits, VA!NoEntry
    <3> QED BY <1>5, <3>1, <3>3 DEF Held
  <2> QED BY <1>5, <2>1, <2>2 DEF ViewerFits
<1> QED BY <1>3, <1>5, <1>6, <1>7, <1>8 DEF TaskFits

\* The store that a page begins with.
LEMMA FreshStore ==
  ASSUME VA!ViewerAssetsAssumption
  PROVE  StoreFits(VA!EmptyStore) /\ Listed(VA!EmptyStore) = {} /\ VA!EmptyStore.gone = {}
<1> DEFINE s == VA!EmptyStore
<1>1. /\ VA!FreeLoad \in LoadRecords /\ LoadFits(VA!FreeLoad) /\ VA!NoEntry \in EntryRecords /\ VA!NoEntry.st = "none"
  BY DEF VA!ViewerAssetsAssumption, VA!FreeLoad, LoadRecords, LoadFits, VA!Levels, VA!NoEntry, EntryRecords
<1>2. /\ s.loads = [l \in Loads |-> VA!FreeLoad] /\ s.entries = [u \in Urls |-> VA!NoEntry] /\ s.recent = <<>>
      /\ s.gone = {} /\ s \in Stores
  BY <1>1, EmptySeq DEF VA!EmptyStore, Stores
<1> HIDE DEF s
<1>3. Listed(s) = {}
  BY <1>1, <1>2 DEF Listed
<1>4. VA!IsInjective(s.recent) /\ VA!ToSet(s.recent) = {}
  <2>1. DOMAIN s.recent = {}
    BY <1>2
  <2> QED BY <2>1 DEF VA!IsInjective, VA!ToSet
<1>5. \A u \in Urls : EntryFits(s, u)
  BY <1>1, <1>2 DEF EntryFits
<1>6. \A l \in Loads : LoadFits(s.loads[l])
  BY <1>1, <1>2
<1> QED BY <1>2, <1>3, <1>4, <1>5, <1>6 DEF StoreFits, s

\* The invariant holds at the beginning.
LEMMA InitFits ==
  ASSUME VA!ViewerAssetsAssumption, VA!Init
  PROVE  CacheInv
<1>1. owner \in VA!Owners /\ store = VA!EmptyStore /\ viewer = VA!NewViewer
  BY DEF VA!Init
<1>2. TRUE \in BOOLEAN
  OBVIOUS
<1>3. TaskFits(store, viewer)
  BY <1>1, <1>2, FreshStore, FreshFits
<1> QED BY <1>1, <1>3, FreshStore DEF CacheInv

\* A viewer that is mounted again begins anew.
LEMMA MountFits ==
  ASSUME VA!ViewerAssetsAssumption, CacheInv, VA!Mount
  PROVE  CacheInv'
<1>1. ~viewer.mounted /\ viewer' = VA!NewViewer /\ owner' = owner /\ store' = store
  BY DEF VA!Mount
<1>2. StoreFits(store) /\ Listed(store) = {} /\ owner \in VA!Owners /\ store.gone = {}
  BY <1>1 DEF CacheInv, TaskFits
<1>3. TRUE \in BOOLEAN
  OBVIOUS
<1>4. TaskFits(store', viewer')
  BY <1>1, <1>2, <1>3, FreshFits
<1>5. TaskFits(store, viewer)'
  BY <1>1, <1>4 DEF TaskFits
<1> QED BY <1>1, <1>2, <1>5 DEF CacheInv

\* The page leaves: everything is given back, and the cache is disposed.
LEMMA UnmountFits ==
  ASSUME VA!ViewerAssetsAssumption, CacheInv, VA!Unmount
  PROVE  CacheInv'
<1> DEFINE old == viewer.request
           given == VA!GiveBack(store, viewer.shown.urls)
           left == VA!Abandon(given, old)
           bare == VA!DisposeCache(left)
           quiet == [l \in Loads |-> [bare.loads[l] EXCEPT !.reports = FALSE]]
           t == [bare EXCEPT !.gone = {}, !.loads = quiet]
<1>1. store' = t /\ viewer' = [VA!NewViewer EXCEPT !.mounted = FALSE] /\ owner' = owner
  BY DEF VA!Unmount
<1>2. /\ StoreFits(store) /\ Bounded(store) /\ viewer \in Viewers /\ owner \in VA!Owners
      /\ ~owner.cached => Listed(store) = {}
  BY DEF CacheInv, TaskFits
<1>3. viewer.shown.urls \in Seq(Urls)
  BY <1>2, ViewerParts
<1>4. Kept(store, given) /\ Bounded(given) /\ (~owner.cached => given = store)
  BY <1>2, <1>3, GiveBackFits
<1> HIDE DEF given
<1>5. RequestIs(given, old)
  <2>1. \A l \in Loads : store.loads[l].st # "free" /\ store.loads[l].url \in Gltf => given.loads[l] = store.loads[l]
    BY <1>4 DEF Kept, LoadsLeft
  <2> QED BY <2>1, OldRequest
<1>6. StoreFits(left)
  <2> HIDE DEF old
  <2>1. StoreFits(given) /\ (~owner.cached => Listed(given) = {})
    BY <1>2, <1>4 DEF Kept
  <2> QED BY <1>4, <1>5, <2>1, AbandonFits
<1> HIDE DEF left
<1>7. StoreFits(bare) /\ Listed(bare) = {}
  BY <1>6, SweepFits DEF VA!DisposeCache, Kept
<1> HIDE DEF bare
<1>8. bare \in Stores /\ bare.loads \in [Loads -> LoadRecords] /\ \A l \in Loads : LoadFits(bare.loads[l])
  BY <1>7 DEF StoreFits, Stores
<1>9. ASSUME NEW l \in Loads PROVE quiet[l] \in LoadRecords /\ LoadFits(quiet[l])
  <2>1. quiet[l] = [bare.loads[l] EXCEPT !.reports = FALSE] /\ bare.loads[l] \in LoadRecords
    BY <1>8
  <2> HIDE DEF quiet
  <2>2. /\ quiet[l] \in LoadRecords /\ quiet[l].st = bare.loads[l].st /\ quiet[l].left = bare.loads[l].left
        /\ quiet[l].url = bare.loads[l].url /\ quiet[l].aborted = bare.loads[l].aborted
    BY <2>1 DEF LoadRecords
  <2> QED BY <1>8, <2>2 DEF LoadFits
<1>10. quiet \in [Loads -> LoadRecords]
  <2>1. quiet = [l \in Loads |-> quiet[l]]
    OBVIOUS
  <2> HIDE DEF quiet
  <2> QED BY <1>9, <2>1
<1> HIDE DEF quiet
<1>11. /\ t \in Stores /\ t.loads = quiet /\ t.entries = bare.entries /\ t.recent = bare.recent /\ t.gone = {}
  BY <1>8, <1>10 DEF Stores
<1> HIDE DEF t
<1>12. Listed(t) = {}
  BY <1>7, <1>11 DEF Listed
<1>13. \A u \in Urls : EntryFits(t, u)
  BY <1>7, <1>11, <1>12 DEF StoreFits, EntryFits, Listed
<1>14. StoreFits(t)
  BY <1>7, <1>9, <1>11, <1>12, <1>13 DEF StoreFits
<1>15. TaskFits(t, viewer')
  <2>1. PICK on \in BOOLEAN : on = FALSE
    OBVIOUS
  <2>2. viewer' = [VA!NewViewer EXCEPT !.mounted = on]
    BY <1>1, <2>1
  <2> QED BY <1>12, <1>14, <2>2, FreshFits
<1>16. TaskFits(store, viewer)'
  BY <1>1, <1>15 DEF TaskFits
<1> QED BY <1>1, <1>2, <1>11, <1>16 DEF CacheInv

\* Another manifest, another precision, or frames to prefetch.
LEMMA PageFits ==
  ASSUME VA!ViewerAssetsAssumption, CacheInv, VA!SetManifest \/ VA!ChangePrecision \/ VA!PrefetchFrames
  PROVE  CacheInv'
<1>1. /\ viewer \in Viewers /\ owner \in VA!Owners /\ viewer.want \in Wants /\ StoreFits(store)
      /\ owner.cached => ViewerFits(store, viewer)
  BY ViewerParts DEF CacheInv, TaskFits
<1>2. CASE VA!SetManifest
  <2>1. viewer.mounted /\ owner' = owner /\ "default" \in VA!Levels /\ <<>> \in Wants
    BY <1>2 DEF VA!SetManifest, VA!Levels, VA!ViewerAssetsAssumption
  <2>2. PICK want \in Wants, status \in {"idle", "loading", "error"} : VA!Reload(want, "default", status)
    BY <1>2, <2>1 DEF VA!SetManifest
  <2> QED BY <2>1, <2>2, ReloadFits
<1>3. CASE VA!ChangePrecision
  <2>1. viewer.mounted /\ owner' = owner /\ ~owner.cached
    BY <1>3 DEF VA!ChangePrecision
  <2>2. PICK level \in VA!Levels : VA!Reload(viewer.want, level, "loading")
    BY <1>3 DEF VA!ChangePrecision
  <2>3. PICK status \in {"idle", "loading", "error"} : status = "loading"
    OBVIOUS
  <2>4. VA!Reload(viewer.want, level, status)
    BY <2>2, <2>3
  <2> QED BY <1>1, <2>1, <2>4, ReloadFits
<1>4. CASE VA!PrefetchFrames
  <2>1. viewer.mounted /\ owner' = owner /\ owner.cached
    BY <1>4 DEF VA!PrefetchFrames
  <2>2. PICK u \in Urls \ Gltf, n \in 0 .. 1 :
          VA!Idle(store) # {} /\ VA!Settle(VA!Prefetch(store, SubSeq(<<u>>, 1, n)), viewer)
    BY <1>4 DEF VA!PrefetchFrames
  <2> DEFINE q == SubSeq(<<u>>, 1, n)
             t == VA!Prefetch(store, q)
  <2>3. u \in Managed /\ u \in Urls
    BY DEF Managed
  <2>4. q \in Seq(Urls) /\ Len(q) = n /\ (n = 1 => q[1] = u)
    BY <2>3
  <2>5. Len(q) <= 1 /\ (Len(q) = 1 => q[1] \in Managed)
    BY <2>3, <2>4
  <2>6. VA!Settle(t, viewer)
    BY <2>2
  <2> HIDE DEF q
  <2>7. /\ StoreFits(t) /\ Bounded(t)
        /\ \A l \in Loads : store.loads[l].st # "free" /\ store.loads[l].url \in Gltf => t.loads[l] = store.loads[l]
        /\ \A x \in Urls : /\ t.entries[x].refs = store.entries[x].refs
                           /\ store.entries[x].refs > 0 => t.entries[x].st = store.entries[x].st
    BY <1>1, <2>2, <2>4, <2>5, PrefetchFits
  <2> HIDE DEF t
  <2>8. ViewerFits(t, viewer)
    <3>1. \A x \in Managed :
            /\ t.entries[x].refs = store.entries[x].refs
            /\ store.entries[x].refs > 0 => t.entries[x].st = store.entries[x].st
      BY <2>7 DEF Managed
    <3>2. ASSUME viewer.request.on, VA!Awaited(viewer.request) \in Gltf
          PROVE  t.loads[viewer.request.load] = store.loads[viewer.request.load]
      <4>1. WaitsFor(store, viewer.request.urls, viewer.request.got, viewer.request.load)
        BY <1>1, <2>1, <3>2 DEF ViewerFits, RequestFits
      <4>2. viewer.request.urls[viewer.request.got + 1] \in Gltf
        BY <3>2 DEF VA!Awaited
      <4>3. /\ viewer.request.load \in Loads /\ store.loads[viewer.request.load].url \in Gltf
            /\ store.loads[viewer.request.load].st # "free"
        BY <4>1, <4>2 DEF WaitsFor
      <4> QED BY <2>7, <4>3
    <3> QED BY <1>1, <2>1, <3>1, <3>2, StaysFit
  <2>9. TaskFits(t, viewer)
    BY <2>1, <2>7, <2>8 DEF CacheInv, TaskFits
  <2> QED BY <1>1, <2>1, <2>6, <2>9, SettleFits
<1> QED BY <1>2, <1>3, <1>4
\* Every step keeps the inductive invariant.
LEMMA AssetsAlways == VA!ViewerAssetsAssumption => (VA!Spec => []CacheInv)
<1> SUFFICES ASSUME VA!ViewerAssetsAssumption PROVE VA!Spec => []CacheInv
  OBVIOUS
<1>1. VA!Init => CacheInv
  BY InitFits
<1>2. CacheInv /\ [VA!Next]_VA!vars => CacheInv'
  <2> SUFFICES ASSUME CacheInv, [VA!Next]_VA!vars PROVE CacheInv'
    OBVIOUS
  <2>1. CASE VA!SetManifest \/ VA!ChangePrecision \/ VA!PrefetchFrames
    BY <2>1, PageFits
  <2>2. CASE VA!Unmount
    BY <2>2, UnmountFits
  <2>3. CASE VA!Mount
    BY <2>3, MountFits
  <2>4. CASE VA!Loader
    BY <2>4, LoaderFits
  <2>5. CASE UNCHANGED VA!vars
    BY <2>5 DEF VA!vars, CacheInv, TaskFits
  <2> QED BY <2>1, <2>2, <2>3, <2>4, <2>5 DEF VA!Next
<1> QED BY <1>1, <1>2, PTL DEF VA!Spec

\* Every cached asset is pinned as often as the viewer holds it.
LEMMA PinsFollow ==
  ASSUME CacheInv
  PROVE  VA!PinsMatchHolders
<1> SUFFICES ASSUME owner.cached, NEW u \in Urls \ Gltf
             PROVE  store.entries[u].refs = IF viewer.mounted THEN VA!Holders(u) ELSE 0
  BY DEF VA!PinsMatchHolders
<1> DEFINE q == viewer.shown.urls
           r == viewer.request
<1>1. /\ viewer \in Viewers /\ store.entries[u].refs = Held(viewer, u) /\ AsksAndShowsWanted(viewer)
      /\ viewer.mounted \/ (~r.on /\ q = <<>>)
  BY DEF CacheInv, TaskFits, ViewerFits, Managed
<1>2. q \in Seq(Urls) /\ Len(q) \in Nat /\ r.urls \in Seq(Urls) /\ r.got \in Nat /\ Len(r.urls) \in Nat
  BY <1>1, ViewerParts
<1>3. Upto(u, q, Len(q)) \in Nat /\ (q = <<>> => Upto(u, q, Len(q)) = 0)
  BY <1>2, UptoIs, EmptySeq
<1>4. CASE ~viewer.mounted
  BY <1>1, <1>3, <1>4 DEF Held
<1>5. CASE viewer.mounted
  <2>1. VA!Count(u, q) = Upto(u, q, Len(q))
    <3>1. 0 \in 0 .. Len(q)
      BY <1>2
    <3> QED BY <1>2, <3>1, CountIs
  <2>2. ASSUME r.on PROVE VA!Count(u, SubSeq(r.urls, 1, r.got + 1)) = Upto(u, r.urls, r.got + 1)
    <3>1. r.got < Len(r.urls)
      BY <1>1, <2>2 DEF AsksAndShowsWanted
    <3>2. r.got + 1 \in 0 .. Len(r.urls)
      BY <1>2, <3>1
    <3> QED BY <1>2, <3>2, CountIs
  <2> QED BY <1>1, <1>5, <2>1, <2>2 DEF Held, VA!Holders
<1> QED BY <1>4, <1>5

\* The cache outgrows its capacity only by what is in use, or by a load under way.
LEMMA CacheStaysSmall ==
  ASSUME VA!ViewerAssetsAssumption, CacheInv
  PROVE  VA!CacheIsBounded
<1>1. StoreFits(store) /\ Bounded(store)
  BY DEF CacheInv, TaskFits
<1>2. SUFFICES ASSUME VA!Size(store) > Capacity, \A u \in Urls : store.entries[u].st # "loading"
               PROVE  \A u \in VA!ToSet(store.recent) : ~VA!Evictable(store, u)
  BY DEF VA!CacheIsBounded
<1>3. Loaded(store) = Listed(store)
  <2>1. \A u \in Urls : store.entries[u].st \in {"none", "loading", "ready"}
    BY <1>1 DEF StoreFits, Stores, EntryRecords
  <2> QED BY <1>2, <2>1 DEF Loaded, Listed
<1>4. Cardinality(Loaded(store)) > Capacity
  BY <1>1, <1>2, <1>3, ListedIsFinite
<1>5. VA!ToSet(store.recent) = Listed(store)
  BY <1>1 DEF StoreFits
<1> QED BY <1>1, <1>4, <1>5 DEF Bounded

\* The invariant types the state.
LEMMA CacheIsTyped ==
  ASSUME CacheInv
  PROVE  VA!TypeOK
<1>1. /\ owner \in VA!Owners /\ StoreFits(store) /\ store.gone = {} /\ viewer \in Viewers /\ AsksAndShowsWanted(viewer)
  BY DEF CacheInv, TaskFits
<1>2. store.loads \in [Loads -> LoadRecords] /\ store.entries \in [Urls -> EntryRecords]
  BY <1>1 DEF StoreFits, Stores
<1>3. VA!IsInjective(store.recent) /\ VA!ToSet(store.recent) = {u \in Urls : store.entries[u].st # "none"}
  BY <1>1 DEF StoreFits, Listed
<1>4. /\ viewer.want \in Wants /\ viewer.status \in VA!Statuses /\ viewer.level \in VA!Levels
      /\ viewer.missing \subseteq VA!Levels
  BY <1>1 DEF Viewers
<1>5. viewer.request.got \in 0 .. Len(viewer.request.urls)
  <2>1. viewer.request.got \in Nat /\ Len(viewer.request.urls) \in Nat
    BY <1>1, ViewerParts
  <2>2. CASE viewer.request.on
    BY <1>1, <2>1, <2>2 DEF AsksAndShowsWanted
  <2>3. CASE ~viewer.request.on
    <3>1. viewer.request.got = 0
      BY <1>1, <2>3 DEF AsksAndShowsWanted, VA!NoRequest
    <3> QED BY <2>1, <3>1
  <2> QED BY <2>2, <2>3
<1> QED BY <1>1, <1>2, <1>3, <1>4, <1>5 DEF VA!TypeOK, LoadRecords, EntryRecords

\* For any manifests, any layers a page asks for, any capacity of the cache and
\* any number of loads: every cached asset is pinned exactly as often as the
\* viewer holds it, whatever was aborted, failed or retained in between
\* (UVFAssetLRU.acquire and release, and the loading effect of Viewer3D).
THEOREM AssetsStayPinned == VA!ViewerAssetsAssumption => (VA!Spec => []VA!PinsMatchHolders)
<1> SUFFICES ASSUME VA!ViewerAssetsAssumption PROVE VA!Spec => []VA!PinsMatchHolders
  OBVIOUS
<1>1. CacheInv => VA!PinsMatchHolders
  BY PinsFollow
<1> QED BY <1>1, AssetsAlways, PTL

\* The asset in the scene has not been disposed, and a viewer that says it is
\* ready shows what it was last asked for, at the precision asked for.
THEOREM SceneIsCurrent == VA!ViewerAssetsAssumption => (VA!Spec => [](VA!ShownAssetIsAlive /\ VA!ReadyShowsWanted))
<1> SUFFICES ASSUME VA!ViewerAssetsAssumption PROVE VA!Spec => [](VA!ShownAssetIsAlive /\ VA!ReadyShowsWanted)
  OBVIOUS
<1>1. CacheInv => VA!ShownAssetIsAlive /\ VA!ReadyShowsWanted
  BY DEF CacheInv, TaskFits, AsksAndShowsWanted, VA!ShownAssetIsAlive, VA!ReadyShowsWanted
<1> QED BY <1>1, AssetsAlways, PTL

\* The cache is larger than its capacity only by entries in use, unless a load
\* that will trim it is under way; the types of the state are kept as well.
THEOREM AssetsAreBounded == VA!ViewerAssetsAssumption => (VA!Spec => [](VA!CacheIsBounded /\ VA!TypeOK))
<1> SUFFICES ASSUME VA!ViewerAssetsAssumption PROVE VA!Spec => [](VA!CacheIsBounded /\ VA!TypeOK)
  OBVIOUS
<1>1. CacheInv => VA!CacheIsBounded /\ VA!TypeOK
  BY CacheStaysSmall, CacheIsTyped
<1> QED BY <1>1, AssetsAlways, PTL
=============================================================================
