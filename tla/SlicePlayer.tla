---------------------------- MODULE SlicePlayer ----------------------------
(***************************************************************************)
(* Preparing one result archive of a Case for time-series playback: the    *)
(* job store and the frame cache of internal/sliceplayer, and around them  *)
(* the worker goroutine of each job, the readers that are served frames    *)
(* and the cleanup loop of internal/server.                                *)
(*                                                                         *)
(* Every job of the archive has the same cache key, so all of them share   *)
(* one cache directory, and one slot lets a single worker convert.  The    *)
(* store's mutex covers each change of a job and each removal; the files   *)
(* of the cache are read and written without it.  A frame is one file that *)
(* is overwritten in place: "torn" until its conversion ends.              *)
(*                                                                         *)
(* Bounds: Jobs, Readers, NumFrames, MaxCrashes.                           *)
(***************************************************************************)
EXTENDS Integers, FiniteSets

CONSTANTS
  Jobs,            \* preparations that may be requested
  Readers,         \* concurrent requests for a frame
  NumFrames,       \* frames of the archive
  Failures,        \* downloads and conversions may fail
  DiskFailures,    \* writing the two files of the cache may fail
  Cleans,          \* the cleanup loop finds the directory expired
  MaxCrashes

ASSUME SliceAssumption ==
  /\ NumFrames \in Nat \ {0}
  /\ Failures \in BOOLEAN
  /\ DiskFailures \in BOOLEAN
  /\ Cleans \in BOOLEAN
  /\ MaxCrashes \in Nat

VARIABLES
  job,          \* the records of the store
  worker,       \* where the goroutine of each job is
  slot,         \* the jobs that hold slicePlayerSlots
  cache,        \* the cache directory and the two files at its top
  asset,        \* the frames below it
  reader,       \* what each request for a frame is doing
  interrupted,  \* a crash cut a removal short
  up, crashes

vars == <<job, worker, slot, cache, asset, reader, interrupted, up, crashes>>

Frames == 1 .. NumFrames
Terminal == {"completed", "failed", "cancelled"}
Live == {"queued", "running"}

\* "none": not requested yet; "gone": deleted with the cache directory.
Status == {"none", "gone"} \cup Live \cup Terminal

\* ready: the frames the job's report offers, partial or final.
Job == [status: Status, ready: SUBSET Frames]

Step == {"idle", "cached", "restore", "slot", "begin", "download", "prepare", "open",
         "convert", "publish", "finish", "complete", "index", "playback", "commit",
         "failing", "fail"}
Worker == [pc: Step, frame: 0 .. NumFrames, hit: BOOLEAN]
Idle == [pc |-> "idle", frame |-> 0, hit |-> FALSE]   \* with hit: its error was dropped

Asset == {"none", "torn", "whole"}
Cache == [dir: BOOLEAN, index: BOOLEAN, playback: BOOLEAN]
NoCache == [dir |-> FALSE, index |-> FALSE, playback |-> FALSE]

Reader == [pc: {"idle", "ready", "leased", "serve"}, job: Jobs, frame: Frames]

Init ==
  /\ job = [j \in Jobs |-> [status |-> "none", ready |-> {}]]
  /\ worker = [j \in Jobs |-> Idle]
  /\ slot = {}
  /\ cache = NoCache
  /\ asset = [f \in Frames |-> "none"]
  /\ reader \in [Readers -> {[pc |-> "idle", job |-> j, frame |-> 1] : j \in Jobs}]
  /\ interrupted = FALSE
  /\ up = TRUE
  /\ crashes = 0

files == <<cache, asset>>
process == <<interrupted, up, crashes>>

-----------------------------------------------------------------------------
(***************************************************************************)
(* The store's methods.                                                    *)
(***************************************************************************)
Set(j, r) == job' = [job EXCEPT ![j] = r]
Exists(j) == job[j].status \notin {"none", "gone"}

IsCancelled(j) == job[j].status = "cancelled"
Cached == cache.index
CachedPlayback == cache.playback

\* A refused update leaves the record alone, and its caller goes on.
Update(j) ==
  IF job[j].status \in Live THEN Set(j, [job[j] EXCEPT !.status = "running"])
                            ELSE UNCHANGED job

FailAnyJob(j) ==                                      \* mutant: no guard at all
  IF Exists(j) THEN Set(j, [job[j] EXCEPT !.status = "failed"]) ELSE UNCHANGED job

Fail(j) ==
  IF Exists(j) /\ ~IsCancelled(j) THEN Set(j, [job[j] EXCEPT !.status = "failed"])
                                  ELSE UNCHANGED job

CommitAllowed(j) == Exists(j) /\ ~IsCancelled(j)

\* A directory is kept while a reader holds a lease on it or a job that is
\* not terminal uses it.
protectedIgnoringLeases ==                            \* mutant
  \E j \in Jobs : job[j].status \in Live
protectedRunningOnly ==                               \* mutant: queued jobs forgotten
  \/ \E j \in Jobs : job[j].status = "running"
  \/ \E r \in Readers : reader[r].pc \in {"leased", "serve"}
protectedLocked ==
  \/ \E j \in Jobs : job[j].status \in Live
  \/ \E r \in Readers : reader[r].pc \in {"leased", "serve"}

-----------------------------------------------------------------------------
(***************************************************************************)
(* Requests for a job.                                                     *)
(***************************************************************************)
Goes(j, pc) == worker' = [worker EXCEPT ![j].pc = pc]
Leaves(j) == worker' = [worker EXCEPT ![j] = Idle] /\ slot' = slot \ {j}

startSlicePlayerJob(j) ==
  /\ up
  /\ job[j].status = "none"
  /\ Set(j, [status |-> "queued", ready |-> {}])
  /\ Goes(j, "cached")
  /\ UNCHANGED <<slot, files, reader, process>>

\* Cancelling the download of the job as well only makes it end sooner.
cancelSlicePlayerJob(j) ==
  /\ up
  /\ job[j].status \in Live
  /\ Set(j, [job[j] EXCEPT !.status = "cancelled"])
  /\ UNCHANGED <<worker, slot, files, reader, process>>

-----------------------------------------------------------------------------
(***************************************************************************)
(* The worker of a job.                                                    *)
(***************************************************************************)
At(j, pc) == up /\ worker[j].pc = pc

LookUpCache(j) ==
  /\ At(j, "cached")
  /\ IF Cached /\ CachedPlayback
       THEN worker' = [worker EXCEPT ![j] = [Idle EXCEPT !.pc = "restore", !.hit = TRUE]]
       ELSE Goes(j, "slot")
  /\ UNCHANGED <<job, slot, files, reader, process>>

RestoreFromCache(j) ==
  /\ At(j, "restore")
  /\ Update(j)
  /\ Goes(j, "complete")
  /\ UNCHANGED <<slot, files, reader, process>>

TakeSlot(j) ==
  /\ At(j, "slot")
  /\ slot = {}
  /\ slot' = {j}
  /\ Goes(j, "begin")
  /\ UNCHANGED <<job, files, reader, process>>

BeginPreparation(j) ==
  /\ At(j, "begin")
  /\ IF IsCancelled(j) THEN Leaves(j) /\ UNCHANGED job
                       ELSE Update(j) /\ Goes(j, "download") /\ UNCHANGED slot
  /\ UNCHANGED <<files, reader, process>>

\* A reusable archive, a fresh download, or an error: the disk is full, the
\* call fails or times out, or the job was cancelled.
DownloadArchive(j) ==
  /\ At(j, "download")
  /\ \/ Goes(j, "prepare")
     \/ (Failures \/ ~(job[j].status \in Live)) /\ Goes(j, "failing")
  /\ UNCHANGED <<job, slot, files, reader, process>>

PrepareFrames(j) ==
  /\ At(j, "prepare")
  /\ IF IsCancelled(j)
       THEN Leaves(j) /\ UNCHANGED <<job, cache>>
       ELSE /\ Update(j)
            /\ cache' = [cache EXCEPT !.dir = TRUE]
            /\ worker' = [worker EXCEPT ![j].pc = "open", ![j].frame = 1]
            /\ UNCHANGED slot
  /\ UNCHANGED <<asset, reader, process>>

\* The file of the next frame is opened, truncating the one that is there.
OpenFrame(j) ==
  /\ At(j, "open")
  /\ IF IsCancelled(j)
       THEN Goes(j, "failing") /\ UNCHANGED files
       ELSE /\ Goes(j, "convert")
            /\ asset' = [asset EXCEPT ![worker[j].frame] = "torn"]
            /\ cache' = [cache EXCEPT !.dir = TRUE]
  /\ UNCHANGED <<job, slot, reader, process>>

\* A conversion that stops leaves the file as it is; one whose directory
\* was removed cannot end well.
ConvertFrame(j) ==
  LET f == worker[j].frame IN
  /\ At(j, "convert")
  /\ \/ asset[f] = "torn" /\ asset' = [asset EXCEPT ![f] = "whole"] /\ Goes(j, "publish")
     \/ (Failures \/ IsCancelled(j) \/ asset[f] # "torn") /\ Goes(j, "failing") /\ UNCHANGED asset
  /\ UNCHANGED <<job, slot, cache, reader, process>>

PublishOffByOne(j) ==                                 \* mutant: one frame too many
  LET f == worker[j].frame IN
  /\ At(j, "publish")
  /\ job[j].status \in Live
  /\ Set(j, [status |-> "running", ready |-> 1 .. f])
  /\ worker' = [worker EXCEPT ![j].pc = "open", ![j].frame = f + 1]
  /\ UNCHANGED <<slot, files, reader, process>>

PublishPartial(j) ==
  LET f == worker[j].frame IN
  /\ At(j, "publish")
  /\ IF job[j].status \in Live
       THEN /\ Set(j, [status |-> "running", ready |-> 1 .. f])
            /\ IF f < NumFrames
                 THEN worker' = [worker EXCEPT ![j].pc = "open", ![j].frame = f + 1]
                 ELSE Goes(j, "finish")
       ELSE Goes(j, "failing") /\ UNCHANGED job
  /\ UNCHANGED <<slot, files, reader, process>>

FinishFrames(j) ==
  /\ At(j, "finish")
  /\ IF IsCancelled(j) THEN Leaves(j) /\ UNCHANGED job
                       ELSE Update(j) /\ Goes(j, "complete") /\ UNCHANGED slot
  /\ UNCHANGED <<files, reader, process>>

(***************************************************************************)
(* CompleteWithMetrics: look at the job, write two files, look again.  The *)
(* error is dropped when the job was restored from the cache.              *)
(***************************************************************************)
CompletionFails(j) ==
  /\ IF worker[j].hit THEN Goes(j, "idle") ELSE Goes(j, "fail")
  /\ UNCHANGED slot

BeginCompletion(j) ==
  /\ At(j, "complete")
  /\ IF CommitAllowed(j) THEN Goes(j, "index") /\ UNCHANGED slot ELSE CompletionFails(j)
  /\ UNCHANGED <<job, files, reader, process>>

putIndex(j) ==
  /\ At(j, "index")
  /\ \/ /\ cache' = [cache EXCEPT !.dir = TRUE, !.index = TRUE]
        /\ Goes(j, "playback")
        /\ UNCHANGED slot
     \/ DiskFailures /\ UNCHANGED cache /\ CompletionFails(j)
  /\ UNCHANGED <<job, asset, reader, process>>

putPlayback(j) ==
  /\ At(j, "playback")
  /\ \/ /\ cache' = [cache EXCEPT !.dir = TRUE, !.playback = TRUE]
        /\ Goes(j, "commit")
        /\ UNCHANGED slot
     \/ DiskFailures /\ UNCHANGED cache /\ CompletionFails(j)
  /\ UNCHANGED <<job, asset, reader, process>>

CommitCompletion(j) ==
  /\ At(j, "commit")
  /\ IF CommitAllowed(j)
       THEN Set(j, [status |-> "completed", ready |-> Frames]) /\ Leaves(j)
       ELSE CompletionFails(j) /\ UNCHANGED job
  /\ UNCHANGED <<files, reader, process>>

\* An error of the download or the conversion: not recorded once cancelled.
CheckFailure(j) ==
  /\ At(j, "failing")
  /\ IF IsCancelled(j) THEN Leaves(j) ELSE Goes(j, "fail") /\ UNCHANGED slot
  /\ UNCHANGED <<job, files, reader, process>>

RecordFailure(j) ==
  /\ At(j, "fail")
  /\ Fail(j)
  /\ Leaves(j)
  /\ UNCHANGED <<files, reader, process>>

-----------------------------------------------------------------------------
(***************************************************************************)
(* A request for a frame: look at the job, take a lease, find the file,    *)
(* send it.                                                                *)
(***************************************************************************)
Reads(r, pc) == reader' = [reader EXCEPT ![r].pc = pc]

slicePlayerAsset(r) ==
  /\ up
  /\ reader[r].pc = "idle"
  /\ \E j \in Jobs : \E f \in job[j].ready :
       /\ Exists(j)
       /\ reader' = [reader EXCEPT ![r] = [pc |-> "ready", job |-> j, frame |-> f]]
  /\ UNCHANGED <<job, worker, slot, files, process>>

Protect(r) ==
  /\ up
  /\ reader[r].pc = "ready"
  /\ Reads(r, IF Exists(reader[r].job) THEN "leased" ELSE "idle")
  /\ UNCHANGED <<job, worker, slot, files, process>>

AssetPath(r) ==
  /\ up
  /\ reader[r].pc = "leased"
  /\ Reads(r, IF Exists(reader[r].job) /\ asset[reader[r].frame] # "none" THEN "serve" ELSE "idle")
  /\ UNCHANGED <<job, worker, slot, files, process>>

ReleaseLease(r) ==
  /\ up
  /\ reader[r].pc = "serve"
  /\ Reads(r, "idle")
  /\ UNCHANGED <<job, worker, slot, files, process>>

-----------------------------------------------------------------------------
removeFilesOnly ==                                    \* mutant: the jobs are kept
  /\ up /\ Cleans
  /\ cache.dir
  /\ ~protectedLocked
  /\ cache' = NoCache
  /\ asset' = [f \in Frames |-> "none"]
  /\ UNCHANGED <<job, worker, slot, reader, process>>

\* The directory and the terminal jobs that used it go in one critical section.
removeCacheCandidate ==
  /\ up /\ Cleans
  /\ cache.dir
  /\ ~protectedLocked
  /\ cache' = NoCache
  /\ asset' = [f \in Frames |-> "none"]
  /\ job' = [j \in Jobs |->
               IF job[j].status \in Terminal THEN [status |-> "gone", ready |-> {}] ELSE job[j]]
  /\ UNCHANGED <<worker, slot, reader, process>>

EndProcess ==
  /\ up
  /\ crashes < MaxCrashes
  /\ up' = FALSE
  /\ crashes' = crashes + 1
  /\ worker' = [j \in Jobs |-> Idle]
  /\ slot' = {}
  /\ reader' = [r \in Readers |-> [reader[r] EXCEPT !.pc = "idle"]]

Crash == EndProcess /\ UNCHANGED <<job, files, interrupted>>

\* The process ends while it removes the directory: some of it is left, and
\* all of the job records.
CrashInCleanup ==
  /\ EndProcess
  /\ Cleans
  /\ cache.dir
  /\ ~protectedLocked
  /\ \E i, p \in BOOLEAN : cache' = [dir |-> TRUE, index |-> cache.index /\ i,
                                     playback |-> cache.playback /\ p]
  /\ \E kept \in SUBSET Frames :
       asset' = [f \in Frames |-> IF f \in kept THEN asset[f] ELSE "none"]
  /\ interrupted' = TRUE
  /\ UNCHANGED job

RestartWithoutResuming ==                             \* mutant: resumeSlicePlayerJobs forgotten
  /\ ~up
  /\ up' = TRUE
  /\ job' = [j \in Jobs |-> IF job[j].status \in Live
                              THEN [job[j] EXCEPT !.status = "queued"] ELSE job[j]]
  /\ UNCHANGED <<worker, slot, files, reader, interrupted, crashes>>

\* Interrupted jobs are queued again, with the report they had, and resumed.
Restart ==
  /\ ~up
  /\ up' = TRUE
  /\ job' = [j \in Jobs |-> IF job[j].status \in Live
                              THEN [job[j] EXCEPT !.status = "queued"] ELSE job[j]]
  /\ worker' = [j \in Jobs |-> IF job'[j].status = "queued"
                                 THEN [Idle EXCEPT !.pc = "cached"] ELSE Idle]
  /\ UNCHANGED <<slot, files, reader, interrupted, crashes>>

-----------------------------------------------------------------------------
WorkerStep(j) ==
  \/ LookUpCache(j) \/ RestoreFromCache(j) \/ BeginPreparation(j)
  \/ DownloadArchive(j) \/ PrepareFrames(j) \/ OpenFrame(j) \/ ConvertFrame(j)
  \/ PublishPartial(j) \/ FinishFrames(j) \/ BeginCompletion(j) \/ putIndex(j)
  \/ putPlayback(j) \/ CommitCompletion(j) \/ CheckFailure(j) \/ RecordFailure(j)

ReaderStep(r) == slicePlayerAsset(r) \/ Protect(r) \/ AssetPath(r) \/ ReleaseLease(r)

Next ==
  \/ removeCacheCandidate \/ Crash \/ CrashInCleanup \/ Restart
  \/ \E j \in Jobs : \/ startSlicePlayerJob(j) \/ cancelSlicePlayerJob(j)
                     \/ TakeSlot(j) \/ WorkerStep(j)
  \/ \E r \in Readers : ReaderStep(r)

Spec == Init /\ [][Next]_vars

(***************************************************************************)
(* Fairness.  A worker that can run does run: its waits for Flow360 have   *)
(* timeouts and the archive is finite.  Go hands a channel to the workers  *)
(* that wait for it in their order, so none waits for the slot forever.    *)
(* The server is started again after a crash.                              *)
(***************************************************************************)
FairSpec ==
  /\ Spec
  /\ WF_vars(Restart)
  /\ \A j \in Jobs : WF_vars(WorkerStep(j)) /\ SF_vars(TakeSlot(j))

-----------------------------------------------------------------------------
TypeOK ==
  /\ job \in [Jobs -> Job]
  /\ worker \in [Jobs -> Worker]
  /\ slot \subseteq Jobs
  /\ cache \in Cache
  /\ asset \in [Frames -> Asset]
  /\ reader \in [Readers -> Reader]
  /\ interrupted \in BOOLEAN
  /\ up \in BOOLEAN
  /\ crashes \in 0 .. MaxCrashes

\* The panel tells the user of a completed job that its frame index "is
\* cached and can be reused": whatever the cleanup and other jobs of the
\* archive did meanwhile, both files are there, unless the process ended in
\* the middle of a removal.
CompletedIsCached ==
  \A j \in Jobs : job[j].status = "completed" =>
    interrupted \/ (cache.index /\ cache.playback)

\* The frames that are played while the rest is still being prepared exist,
\* torn or whole, whatever was cancelled, cleaned or restarted meanwhile.
LiveFramesExist ==
  \A j \in Jobs : job[j].status \in Live => \A f \in job[j].ready : asset[f] # "none"

\* What a user has been told of a finished job does not change: the worker
\* of a cancelled job neither completes nor fails it, not even when it was
\* about to, and a restart does not revive it.
TerminalIsFinal ==
  [][\A j \in Jobs : job[j].status \in Terminal =>
       job'[j] = job[j] \/ job'[j].status = "gone"]_vars

\* A frame that is being sent is not removed under its reader.
ServedFrameStays ==
  [][\A r \in Readers : LET f == reader[r].frame IN
       reader[r].pc = "serve" /\ asset[f] # "none" => asset'[f] # "none"]_vars

\* Every requested preparation ends: crashes, cancellations and the queue
\* for the only slot never leave one queued or running for good, except when
\* restoring it from the cache failed, whose error the worker drops.
ErrorDropped(j) == worker[j].pc = "idle" /\ worker[j].hit
JobSettles ==
  \A j \in Jobs : (job[j].status \in Live) ~> (job[j].status \notin Live \/ ErrorDropped(j))

(***************************************************************************)
(* What the repository says of the program and the program does not do.    *)
(***************************************************************************)

\* "Completed frame assets remain immutable": a frame offered by a report is
\* not rewritten while the report offers it.
PublishedFramesImmutable ==
  [][\A j \in Jobs : \A f \in job[j].ready \cap job'[j].ready : asset'[f] = asset[f]]_vars
=============================================================================
