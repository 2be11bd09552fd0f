------------------------------ MODULE StepJobs ------------------------------
(***************************************************************************)
(* The STEP library: versions of exact CAD geometry that are uploaded or   *)
(* generated, their validation, and the generation jobs.  The store is     *)
(* internal/stepassets, the handlers, the worker of each job and the       *)
(* validations are those of internal/server/step_assets.go.                *)
(*                                                                         *)
(* The store keeps everything in memory and writes all of it to one index  *)
(* at each change.  A failing write is answered with an error, and the     *)
(* change stays in memory.  The mutex covers a change and its write, not   *)
(* the file of a version, which is written between two critical sections.  *)
(*                                                                         *)
(* Bounds: Jobs (each requested once), Cancellable, Uploads (each stored   *)
(* once), Assets, MaxChecks validations of one version at a time,          *)
(* MaxCrashes, MaxLostWrites.                                              *)
(***************************************************************************)
EXTENDS Integers, Sequences, FiniteSets

CONSTANTS
  Jobs,           \* generations that may be requested
  Cancellable,    \* the ones a client may cancel
  Uploads,        \* uploads that may be requested
  Assets,         \* ids of assets: random, never used twice
  New,            \* a request for a new asset instead of a new version
  MaxChecks, MaxCrashes, MaxLostWrites

ASSUME StepAssumption ==
  /\ New \notin Assets \cup Jobs \cup Uploads
  /\ Jobs \cap Uploads = {}
  /\ Cancellable \subseteq Jobs
  /\ MaxChecks \in Nat \ {0}
  /\ MaxCrashes \in Nat
  /\ MaxLostWrites \in Nat

VARIABLES
  lib,        \* the memory of the store
  disk,       \* its index.json
  worker,     \* the goroutine of each job
  slot,       \* the job that holds stepJobSlots
  cancel,     \* what the request that cancels a job is doing
  upload,     \* what each upload is doing
  checking,   \* goroutines that validate a version
  lost,       \* writes of the index that failed
  crashes

vars == <<lib, disk, worker, slot, cancel, upload, checking, lost, crashes>>

-----------------------------------------------------------------------------
Live == {"queued", "running", "recovering"}
Finished == {"completed", "failed", "needs_input", "cancelled"}

\* A version is named by its asset and its place in it; None: no version.
VersionId == Assets \X (Nat \ {0})
None == <<>>

Version == [number: Nat, by: Jobs \cup Uploads \cup {New}, since: 0 .. MaxCrashes, recipe: BOOLEAN,
            validation: {"validating", "checked"}]   \* checked: ready or blocked

Job == [status: {"none"} \cup Live \cup Finished, request: Assets \cup {New},
        version: VersionId \cup {None}]

Index == [versions: [Assets -> Seq(Version)], job: [Jobs -> Job]]

\* What was there before is one valid upload in each asset; New made it.
Loaded(stock) ==
  [ versions |-> [a \in Assets |-> IF a \in stock
                    THEN <<[number |-> 1, by |-> New, since |-> 0, recipe |-> FALSE,
                            validation |-> "checked"]>>
                    ELSE <<>>],
    job |-> [j \in Jobs |-> [status |-> "none", request |-> New, version |-> None]] ]

\* What both ways to store a version have prepared before its insertion.
Draft == [asset: Assets \cup {New}, number: Nat]
NoDraft == [asset |-> New, number |-> 0]

Step == {"idle", "slot", "register", "begin", "design", "generate", "storing",
         "ready", "write", "recipe", "validate", "finish", "fail", "failing"}
\* stopped: the context of the job was cancelled.
Worker == [pc: Step, stopped: BOOLEAN, draft: Draft, version: VersionId \cup {None}]
Idle == [pc |-> "idle", stopped |-> FALSE, draft |-> NoDraft, version |-> None]

\* "asked": a request to cancel the job has ended.
Cancel == {"never", "signal", "mark", "asked"}
Upload == [pc: {"idle", "write", "done"}, draft: Draft]

Init ==
  /\ \E stock \in SUBSET Assets : lib = Loaded(stock)
  /\ disk = lib
  /\ worker = [j \in Jobs |-> Idle]
  /\ slot = {}
  /\ cancel = [j \in Jobs |-> "never"]
  /\ upload = [u \in Uploads |-> [pc |-> "idle", draft |-> NoDraft]]
  /\ checking = {}
  /\ lost = 0
  /\ crashes = 0

-----------------------------------------------------------------------------
(***************************************************************************)
(* The store.                                                              *)
(***************************************************************************)
\* The memory is lib' whether the write succeeds or not.
persistLocked(ok) ==
  IF ok THEN disk' = lib' /\ UNCHANGED lost
        ELSE lost < MaxLostWrites /\ lost' = lost + 1 /\ UNCHANGED disk

StatusOf(j) == lib.job[j].status
IsCancelled(j) == StatusOf(j) = "cancelled"
AssetExists(a) == lib.versions[a] # <<>>
Exists(v) == v # None /\ v[2] \in 1 .. Len(lib.versions[v[1]])

UpdateAIJobSwapped(j) ==                              \* mutant: the stage as the status
  /\ lib' = [lib EXCEPT !.job[j].status = "designing"]
  /\ \E ok \in BOOLEAN : persistLocked(ok)

\* Neither of the two looks at the status the job has.
UpdateAIJob(j) ==
  /\ lib' = [lib EXCEPT !.job[j].status = "running"]
  /\ \E ok \in BOOLEAN : persistLocked(ok)

FinishAIJob(j, status, v) ==
  /\ lib' = [lib EXCEPT !.job[j].status = status, !.job[j].version = v]
  /\ \E ok \in BOOLEAN : persistLocked(ok)

\* What is written for a request: version 1 of a new asset, or the next one
\* of an asset that exists.
Drafted == {worker[j].draft.asset : j \in Jobs} \cup {upload[u].draft.asset : u \in Uploads}
Drafts(request) ==
  IF request = New
    THEN {[asset |-> a, number |-> 1] : a \in {b \in Assets \ Drafted : ~AssetExists(b)}}
    ELSE {[asset |-> a, number |-> Len(lib.versions[a]) + 1] : a \in
            {b \in {request} : AssetExists(b)}}

InsertStaleNumber(d, by) ==                           \* mutant: the number from before the write
  lib' = [lib EXCEPT !.versions[d.asset] =
            Append(@, [number |-> d.number, by |-> by, since |-> crashes, recipe |-> FALSE,
                       validation |-> "validating"])]

\* The number is counted again, for versions may have come meanwhile.
InsertVersion(d, by) ==
  lib' = [lib EXCEPT !.versions[d.asset] =
            Append(@, [number |-> Len(@) + 1, by |-> by, since |-> crashes, recipe |-> FALSE,
                       validation |-> "validating"])]
InsertedLatest(d) == <<d.asset, Len(lib.versions[d.asset])>>  \* mutant: the version before it
Inserted(d) == <<d.asset, Len(lib.versions[d.asset]) + 1>>

SetGeometry(v) == lib' = [lib EXCEPT !.versions[v[1]][v[2]].recipe = TRUE]
SetValidation(v, result) == lib' = [lib EXCEPT !.versions[v[1]][v[2]].validation = result]

-----------------------------------------------------------------------------
(***************************************************************************)
(* Uploads, and the validation of versions.                                *)
(***************************************************************************)
Checks(v) == {c \in checking : c[1] = v}
startSTEPValidation(v) ==
  \E k \in 1 .. MaxChecks : <<v, k>> \notin checking /\ checking' = checking \cup {<<v, k>>}

jobVars == <<worker, slot, cancel>>

storeSTEPAssetUpload(u) ==
  /\ upload[u].pc = "idle"
  /\ \E request \in Assets \cup {New} : \E d \in Drafts(request) :
       upload' = [upload EXCEPT ![u] = [pc |-> "write", draft |-> d]]
  /\ UNCHANGED <<lib, disk, jobVars, checking, lost, crashes>>

\* The file is refused, empty or cut short; the client may try again.
RefuseUpload(u) ==
  /\ upload[u].pc = "write"
  /\ upload' = [upload EXCEPT ![u] = [pc |-> "idle", draft |-> NoDraft]]
  /\ UNCHANGED <<lib, disk, jobVars, checking, lost, crashes>>

\* The file is in its place.  A failing write of the index is an error for
\* the client, and nothing is validated.
InsertUpload(u) ==
  LET d == upload[u].draft IN
  /\ upload[u].pc = "write"
  /\ InsertVersion(d, u)
  /\ \/ persistLocked(TRUE) /\ startSTEPValidation(Inserted(d))
     \/ persistLocked(FALSE) /\ UNCHANGED checking
  /\ upload' = [upload EXCEPT ![u] = [pc |-> "done", draft |-> NoDraft]]
  /\ UNCHANGED <<jobVars, crashes>>

validateSTEPAssetVersion(v) ==
  /\ Exists(v)
  /\ Cardinality(Checks(v)) < MaxChecks
  /\ SetValidation(v, "validating")
  /\ \/ persistLocked(TRUE) /\ startSTEPValidation(v)
     \/ persistLocked(FALSE) /\ UNCHANGED checking
  /\ UNCHANGED <<jobVars, upload, crashes>>

\* The validator answers or times out; whatever the version's state is now.
FinishValidation(c) ==
  /\ c \in checking
  /\ SetValidation(c[1], "checked")
  /\ \E ok \in BOOLEAN : persistLocked(ok)
  /\ checking' = checking \ {c}
  /\ UNCHANGED <<jobVars, upload, crashes>>

-----------------------------------------------------------------------------
(***************************************************************************)
(* Requests for a generation.                                              *)
(***************************************************************************)
At(j, pc) == worker[j].pc = pc
Goes(j, pc) == worker' = [worker EXCEPT ![j].pc = pc]
Leaves(j) == worker' = [worker EXCEPT ![j] = Idle] /\ slot' = slot \ {j}

libVars == <<lib, disk, lost>>
others == <<upload, checking, crashes>>

\* When the write fails the job is queued in memory, with no worker.
aiDesignSTEPAsset(j) ==
  /\ StatusOf(j) = "none" /\ At(j, "idle") /\ cancel[j] = "never"
  /\ \E request \in Assets \cup {New} :
       lib' = [lib EXCEPT !.job[j].status = "queued", !.job[j].request = request]
  /\ \/ persistLocked(TRUE) /\ Goes(j, "slot")
     \/ persistLocked(FALSE) /\ UNCHANGED worker
  /\ UNCHANGED <<slot, cancel, others>>

\* Three steps: look at the job, cancel the context of its worker if there
\* is one, mark the job.
cancelAISTEPJob(j) ==
  /\ j \in Cancellable /\ cancel[j] \in {"never", "asked"}
  /\ StatusOf(j) \in Live
  /\ cancel' = [cancel EXCEPT ![j] = "signal"]
  /\ UNCHANGED <<libVars, worker, slot, others>>

Registered(j) == worker[j].pc \notin {"idle", "slot", "register"}
SignalCancel(j) ==
  /\ cancel[j] = "signal"
  /\ cancel' = [cancel EXCEPT ![j] = "mark"]
  /\ worker' = [worker EXCEPT ![j].stopped = @ \/ Registered(j)]
  /\ UNCHANGED <<libVars, slot, others>>

MarkCancelled(j) ==
  /\ cancel[j] = "mark"
  /\ FinishAIJob(j, "cancelled", None)
  /\ cancel' = [cancel EXCEPT ![j] = "asked"]
  /\ UNCHANGED <<worker, slot, others>>

-----------------------------------------------------------------------------
(***************************************************************************)
(* The worker of a job (runAISTEPJob).                                     *)
(***************************************************************************)
\* It waits for the slot, and looks once whether the job was cancelled.
TakeSlot(j) ==
  /\ At(j, "slot")
  /\ slot = {}
  /\ IF IsCancelled(j) THEN Leaves(j) ELSE slot' = {j} /\ Goes(j, "register")
  /\ UNCHANGED <<libVars, cancel, others>>

RegisterCancel(j) ==
  /\ At(j, "register")
  /\ Goes(j, "begin")
  /\ UNCHANGED <<libVars, slot, cancel, others>>

\* Reports of progress, whose errors are dropped.
BeginDesign(j) ==
  /\ At(j, "begin")
  /\ UpdateAIJob(j)
  /\ Goes(j, "design")
  /\ UNCHANGED <<slot, cancel, others>>

\* The Agent answers, asks for more, or fails.  The worker of a job whose
\* context was cancelled leaves it as it is, if it saw that when the call
\* came back with an error.
DesignCAD(j) ==
  /\ At(j, "design")
  /\ \/ UpdateAIJob(j) /\ Goes(j, "generate") /\ UNCHANGED slot
     \/ worker[j].stopped /\ Leaves(j) /\ UNCHANGED libVars
     \/ FinishAIJob(j, "needs_input", None) /\ Leaves(j)
     \/ Goes(j, "fail") /\ UNCHANGED <<libVars, slot>>
  /\ UNCHANGED <<cancel, others>>

\* An error before the generator runs is recorded even for a cancelled
\* context; a success counts unless the job is marked cancelled.
GenerateCAD(j) ==
  /\ At(j, "generate")
  /\ \/ ~IsCancelled(j) /\ Goes(j, "storing") /\ UNCHANGED slot
     \/ (worker[j].stopped \/ IsCancelled(j)) /\ Leaves(j)
     \/ Goes(j, "fail") /\ UNCHANGED slot
  /\ UNCHANGED <<libVars, cancel, others>>

BeginStoring(j) ==
  /\ At(j, "storing")
  /\ UpdateAIJob(j)
  /\ Goes(j, "ready")
  /\ UNCHANGED <<slot, cancel, others>>

\* The last look at the job, and the choice of the asset.
CheckStoring(j) ==
  /\ At(j, "ready")
  /\ IF IsCancelled(j)
       THEN Leaves(j)
       ELSE /\ UNCHANGED slot
            /\ \/ \E d \in Drafts(lib.job[j].request) :
                    worker' = [worker EXCEPT ![j].pc = "write", ![j].draft = d]
               \/ Goes(j, "fail")
  /\ UNCHANGED <<libVars, cancel, others>>

WriteFails(j) ==
  /\ At(j, "write")
  /\ worker' = [worker EXCEPT ![j].pc = "fail", ![j].draft = NoDraft]
  /\ UNCHANGED <<libVars, slot, cancel, others>>

\* The file is in its place. From here on the version exists, and a failing
\* write of the index fails the job.
StoreVersion(j) ==
  LET d == worker[j].draft IN
  /\ At(j, "write")
  /\ InsertVersion(d, j)
  /\ \E ok \in BOOLEAN :
       /\ persistLocked(ok)
       /\ worker' = [worker EXCEPT ![j].pc = IF ok THEN "recipe" ELSE "fail",
                                   ![j].draft = NoDraft, ![j].version = Inserted(d)]
  /\ UNCHANGED <<slot, cancel, others>>

StoreRecipe(j) ==
  /\ At(j, "recipe")
  /\ SetGeometry(worker[j].version)
  /\ \E ok \in BOOLEAN : persistLocked(ok) /\ Goes(j, IF ok THEN "validate" ELSE "fail")
  /\ UNCHANGED <<slot, cancel, others>>

StoreValidation(j) ==
  /\ At(j, "validate")
  /\ SetValidation(worker[j].version, "checked")
  /\ \E ok \in BOOLEAN : persistLocked(ok) /\ Goes(j, IF ok THEN "finish" ELSE "fail")
  /\ UNCHANGED <<slot, cancel, others>>

CompleteUnlessStopped(j) ==                           \* mutant: fails although the version is stored
  /\ At(j, "finish")
  /\ IF worker[j].stopped THEN FinishAIJob(j, "failed", None)
                          ELSE FinishAIJob(j, "completed", worker[j].version)
  /\ Leaves(j)
  /\ UNCHANGED <<cancel, others>>

CompleteJob(j) ==
  /\ At(j, "finish")
  /\ FinishAIJob(j, "completed", worker[j].version)
  /\ Leaves(j)
  /\ UNCHANGED <<cancel, others>>

\* finishAISTEPJobError: look at the job, then mark it.
CheckFailure(j) ==
  /\ At(j, "fail")
  /\ IF IsCancelled(j) THEN Leaves(j) ELSE Goes(j, "failing") /\ UNCHANGED slot
  /\ UNCHANGED <<libVars, cancel, others>>

RecordFailure(j) ==
  /\ At(j, "failing")
  /\ FinishAIJob(j, "failed", None)
  /\ Leaves(j)
  /\ UNCHANGED <<cancel, others>>

-----------------------------------------------------------------------------
(***************************************************************************)
(* The process ends and is started again: validations and jobs that the    *)
(* index has as unfinished are resumed, the jobs from their beginning.     *)
(***************************************************************************)
RecoverRunningOnly ==                                 \* mutant: queued and recovering forgotten
  {j \in Jobs : disk.job[j].status = "running"}
RecoverUnsuccessful ==                                \* mutant: failed jobs run again
  {j \in Jobs : disk.job[j].status \in Live \cup {"failed"}}
RecoverAIJobs == {j \in Jobs : disk.job[j].status \in Live}
resumeNothing == {}                                   \* mutant
resumeSTEPValidations ==
  UNION { {<<<<a, n>>, 1>> : n \in {i \in DOMAIN disk.versions[a] :
                                     disk.versions[a][i].validation = "validating"}} : a \in Assets }

Restart ==
  /\ crashes < MaxCrashes
  /\ crashes' = crashes + 1
  /\ lib' = [disk EXCEPT !.job = [j \in Jobs |->
               IF j \in RecoverAIJobs THEN [disk.job[j] EXCEPT !.status = "recovering"]
                                      ELSE disk.job[j]]]
  /\ \E ok \in BOOLEAN :
       /\ RecoverAIJobs = {} => ok
       /\ persistLocked(ok)
       /\ worker' = [j \in Jobs |-> IF ok /\ j \in RecoverAIJobs THEN [Idle EXCEPT !.pc = "slot"]
                                                               ELSE Idle]
  /\ slot' = {}
  /\ cancel' = [j \in Jobs |-> IF cancel[j] = "never" THEN "never" ELSE "asked"]
  /\ upload' = [u \in Uploads |-> IF upload[u].pc = "write"
                                     THEN [pc |-> "idle", draft |-> NoDraft] ELSE upload[u]]
  /\ checking' = resumeSTEPValidations

-----------------------------------------------------------------------------
WorkerStep(j) ==
  \/ RegisterCancel(j) \/ BeginDesign(j) \/ DesignCAD(j) \/ GenerateCAD(j)
  \/ BeginStoring(j) \/ CheckStoring(j) \/ WriteFails(j) \/ StoreVersion(j) \/ StoreRecipe(j)
  \/ StoreValidation(j) \/ CompleteJob(j) \/ CheckFailure(j) \/ RecordFailure(j)

RequestStep(j) ==
  aiDesignSTEPAsset(j) \/ cancelAISTEPJob(j) \/ SignalCancel(j) \/ MarkCancelled(j)

UploadStep(u) == storeSTEPAssetUpload(u) \/ RefuseUpload(u) \/ InsertUpload(u)

Stored == UNION { {<<a, n>> : n \in DOMAIN lib.versions[a]} : a \in Assets }

Next ==
  \/ Restart
  \/ \E j \in Jobs : RequestStep(j) \/ TakeSlot(j) \/ WorkerStep(j)
  \/ \E u \in Uploads : UploadStep(u)
  \/ \E v \in Stored : validateSTEPAssetVersion(v)
  \/ \E c \in checking : FinishValidation(c)

Spec == Init /\ [][Next]_vars

(***************************************************************************)
(* Fairness.  A goroutine that can run does run, the calls of the Agent,   *)
(* the generator and the validator have timeouts, and the slot is given    *)
(* to those that wait for it in turn.                                      *)
(***************************************************************************)
MaxVersions == 1 + Cardinality(Jobs) * (MaxCrashes + 1) + Cardinality(Uploads)
FairSpec ==
  /\ Spec
  /\ \A j \in Jobs : WF_vars(WorkerStep(j)) /\ SF_vars(TakeSlot(j))
  /\ \A a \in Assets, n \in 1 .. MaxVersions, k \in 1 .. MaxChecks :
       WF_vars(FinishValidation(<<<<a, n>>, k>>))

-----------------------------------------------------------------------------
TypeOK ==
  /\ lib \in Index
  /\ disk \in Index
  /\ worker \in [Jobs -> Worker]
  /\ slot \subseteq Jobs
  /\ cancel \in [Jobs -> Cancel]
  /\ upload \in [Uploads -> Upload]
  /\ checking \subseteq VersionId \X (1 .. MaxChecks)
  /\ lost \in 0 .. MaxLostWrites
  /\ crashes \in 0 .. MaxCrashes

\* The versions of an asset are numbered 1, 2, ... in the order they came,
\* though each number is first counted before the file is written.
VersionsAreNumbered ==
  \A a \in Assets : \A n \in DOMAIN lib.versions[a] : lib.versions[a][n].number = n

\* A completed job names a version that is in the library, that it made and
\* that has its editable recipe, in memory and after any restart.
CompletedHasVersion ==
  \A index \in {lib, disk} : \A j \in Jobs :
    index.job[j].status = "completed" =>
      \E a \in Assets : \E n \in DOMAIN index.versions[a] :
        /\ index.job[j].version = <<a, n>>
        /\ index.versions[a][n].by = j
        /\ index.versions[a][n].recipe

\* "AI STEP generation stopped before creating a version", and a job that
\* asks for more information has made none either: unless a write of the
\* index failed, none of its versions dates from this run of the server.
FailedMadeNothing ==
  \A j \in Jobs : StatusOf(j) \in {"failed", "needs_input"} /\ lost = 0 =>
    \A a \in Assets : \A n \in DOMAIN lib.versions[a] :
      lib.versions[a][n].by = j => lib.versions[a][n].since < crashes

\* What a job became stays: only a request to cancel it that is already on
\* its way changes it, or a restart that comes after a failed write.
OutcomeStays ==
  [][\A j \in Jobs :
       StatusOf(j) \in {"completed", "failed", "needs_input"} =>
         lib'.job[j] = lib.job[j] \/ cancel[j] = "mark" \/ lost > 0]_vars

\* A job nobody asks to cancel ends, across restarts and the queue for the
\* only slot, unless a write of the index fails.
JobSettles ==
  \A j \in Jobs :
    (StatusOf(j) \in Live) ~> (StatusOf(j) \notin Live \/ cancel[j] # "never" \/ lost > 0)

\* A version does not stay "validating", across restarts, unless a write of
\* the index fails.
VersionSettles ==
  \A a \in Assets : \A n \in 1 .. MaxVersions :
    (Exists(<<a, n>>) /\ lib.versions[a][n].validation = "validating") ~>
      (Exists(<<a, n>>) /\ lib.versions[a][n].validation # "validating") \/ lost > 0

(***************************************************************************)
(* What the repository says of the program and the program does not do.    *)
(***************************************************************************)

\* "Generation was cancelled; no STEP version was created."
CancelledMadeNothing ==
  \A j \in Jobs : IsCancelled(j) =>
    \A a \in Assets : \A n \in DOMAIN lib.versions[a] : lib.versions[a][n].by # j
=============================================================================
