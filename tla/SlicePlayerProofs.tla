------------------------- MODULE SlicePlayerProofs -------------------------
(***************************************************************************)
(* Proofs about SlicePlayer for every set of jobs and readers and every    *)
(* number of frames: type correctness, that a completed job's cache is on  *)
(* disk, that the frames of an unfinished one exist, and that the outcome  *)
(* of a job is final.                                                      *)
(*                                                                         *)
(* Then about two screens that are independent of it: of ViewerInput, the  *)
(* camera and the pointer of the viewer, that a camera that navigates has  *)
(* a cause, that a pose is told or about to be told, and that one press    *)
(* has one holder; of DraftEditor, for any documents and patches, that     *)
(* what was in the editor stays within reach of undo.                      *)
(***************************************************************************)
EXTENDS SlicePlayer, Naturals, Integers, Sequences, FiniteSets, SequenceTheorems, TLAPS

CONSTANTS Parts, SceneAt, Policies, CubeFaces, Tolerance, MaxTopology, MaxTriangles, MaxInputSteps, NoPart   \* of ViewerInput
VARIABLES camera, press, snap, picks
VI == INSTANCE ViewerInput

CONSTANTS Drafts, Docs, Canon, Valid, Blocked, Patches, MaxHistory, MaxPending, None   \* of DraftEditor
VARIABLES remote, page, editor, saves
DE == INSTANCE DraftEditor WITH calls <- saves

\* A worker at work belongs to a job that was not finished by anyone else:
\* a cancellation, or the removal that follows it, are all that can have
\* happened to the job meanwhile.
WorkerOwnsJob ==
  \A j \in Jobs : worker[j].pc # "idle" => job[j].status \in Live \cup {"cancelled", "gone"}

\* What a worker wrote to the cache stays there while its job is live.
WrittenFilesStay ==
  \A j \in Jobs : job[j].status \in Live /\ ~interrupted =>
    /\ worker[j].pc = "playback" => cache.index
    /\ worker[j].pc = "commit" => cache.index /\ cache.playback

Inv == TypeOK /\ WorkerOwnsJob /\ WrittenFilesStay /\ CompletedIsCached

-----------------------------------------------------------------------------
\* Sets of numbers that the constants bound.
LEMMA Bounds ==
  /\ 0 \in 0 .. NumFrames /\ 1 \in Frames /\ 0 \in 0 .. MaxCrashes
  /\ NumFrames \in Nat /\ MaxCrashes \in Nat
BY SliceAssumption DEF SliceAssumption, Frames

\* The frames a report may offer once frame f is converted, and the next one.
LEMMA FrameRange ==
  ASSUME NEW f \in 0 .. NumFrames
  PROVE  1 .. f \subseteq Frames /\ (f < NumFrames => f + 1 \in Frames)
BY Bounds DEF Frames

\* A worker that has left, or has just begun, is well-typed.
LEMMA IdleType == Idle \in Worker /\ [Idle EXCEPT !.pc = "cached"] \in Worker
<1>1. {"idle", "cached"} \subseteq Step
  BY DEF Step
<1> QED BY <1>1, Bounds DEF Idle, Worker

\* A worker that goes on or leaves stays a worker.
LEMMA GoesType ==
  ASSUME TypeOK, NEW j \in Jobs
  PROVE  /\ \A s \in Step : Goes(j, s) => worker' \in [Jobs -> Worker]
         /\ Leaves(j) => worker' \in [Jobs -> Worker] /\ slot' \subseteq Jobs
         /\ \A f \in Frames : [worker[j] EXCEPT !.pc = "open", !.frame = f] \in Worker
         /\ worker[j] \in Worker
<1>1. worker[j] \in Worker /\ Idle \in Worker
  BY IdleType DEF TypeOK
<1>4. ASSUME NEW f \in Frames PROVE [worker[j] EXCEPT !.pc = "open", !.frame = f] \in Worker
  <2>1. f \in 0 .. NumFrames /\ "open" \in Step
    BY Bounds DEF Frames, Step
  <2> QED BY <1>1, <2>1 DEF Worker
<1>2. ASSUME NEW s \in Step, Goes(j, s) PROVE worker' \in [Jobs -> Worker]
  <2>1. [worker[j] EXCEPT !.pc = s] \in Worker
    BY <1>1 DEF Worker
  <2> QED BY <1>2, <2>1 DEF TypeOK, Goes
<1>3. ASSUME Leaves(j) PROVE worker' \in [Jobs -> Worker] /\ slot' \subseteq Jobs
  BY <1>1, <1>3 DEF TypeOK, Leaves
<1> QED BY <1>1, <1>2, <1>3, <1>4

\* The names of the worker's steps and of the statuses it writes.
LEMMA Names ==
  /\ {"idle", "slot", "begin", "download", "prepare", "open", "convert", "publish",
      "finish", "complete", "index", "playback", "commit", "failing", "fail", "restore", "cached"} \subseteq Step
  /\ {"queued", "running", "failed", "completed", "cancelled", "gone"} \subseteq Status
BY DEF Step, Status, Live, Terminal

\* The store's methods keep well-typed jobs.
LEMMA StoreType ==
  ASSUME TypeOK, NEW j \in Jobs
  PROVE  /\ \A r \in Job : Set(j, r) => job' \in [Jobs -> Job]
         /\ \A s \in Status : [job[j] EXCEPT !.status = s] \in Job
         /\ Update(j) => job' \in [Jobs -> Job]
         /\ Fail(j) => job' \in [Jobs -> Job]
<1>1. \A r \in Job : Set(j, r) => job' \in [Jobs -> Job]
  BY DEF TypeOK, Set
<1>2. \A s \in Status : [job[j] EXCEPT !.status = s] \in Job
  BY DEF TypeOK, Job
<1>3. Update(j) => job' \in [Jobs -> Job]
  BY <1>1, <1>2, Names DEF Update, TypeOK
<1>4. Fail(j) => job' \in [Jobs -> Job]
  BY <1>1, <1>2, Names DEF Fail, TypeOK
<1> QED BY <1>1, <1>2, <1>3, <1>4

\* Each step of a worker leaves well-typed variables.
LEMMA WorkerType ==
  ASSUME TypeOK, NEW j \in Jobs, WorkerStep(j) \/ TakeSlot(j)
  PROVE  TypeOK'
<1> USE GoesType, StoreType, Names, Bounds DEF files, process
<1>1. CASE LookUpCache(j)
  <2>1. CASE Cached /\ CachedPlayback
    <3>1. [Idle EXCEPT !.pc = "restore", !.hit = TRUE] \in Worker
      BY DEF Worker, Idle
    <3> QED BY <1>1, <2>1, <3>1 DEF LookUpCache, TypeOK
  <2>2. CASE ~(Cached /\ CachedPlayback)
    BY <1>1, <2>2 DEF LookUpCache, TypeOK
  <2> QED BY <2>1, <2>2
<1>2. CASE RestoreFromCache(j)
  BY <1>2 DEF RestoreFromCache, TypeOK
<1>3. CASE TakeSlot(j)
  BY <1>3 DEF TakeSlot, TypeOK
<1>4. CASE BeginPreparation(j)
  BY <1>4 DEF BeginPreparation, TypeOK
<1>5. CASE DownloadArchive(j)
  BY <1>5 DEF DownloadArchive, TypeOK
<1>6. CASE PrepareFrames(j)
  <2>1. CASE IsCancelled(j)
    BY <1>6, <2>1 DEF PrepareFrames, TypeOK
  <2>2. CASE ~IsCancelled(j)
    <3>1. [worker[j] EXCEPT !.pc = "open", !.frame = 1] \in Worker
      BY Bounds
    <3>2. worker' \in [Jobs -> Worker]
      BY <1>6, <2>2, <3>1 DEF PrepareFrames, TypeOK
    <3>3. cache' \in Cache
      BY <1>6, <2>2 DEF PrepareFrames, TypeOK, Cache
    <3> QED BY <1>6, <2>2, <3>2, <3>3 DEF PrepareFrames, TypeOK
  <2> QED BY <2>1, <2>2
<1>7. CASE OpenFrame(j)
  <2>1. cache' \in Cache /\ asset' \in [Frames -> Asset]
    BY <1>7 DEF OpenFrame, TypeOK, Cache, Asset
  <2> QED BY <1>7, <2>1 DEF OpenFrame, TypeOK
<1>8. CASE ConvertFrame(j)
  <2>1. asset' \in [Frames -> Asset]
    BY <1>8 DEF ConvertFrame, TypeOK, Asset
  <2> QED BY <1>8, <2>1 DEF ConvertFrame, TypeOK
<1>9. CASE PublishPartial(j)
  <2>1. CASE job[j].status \in Live
    <3>1. worker[j].frame \in 0 .. NumFrames
      BY DEF Worker
    <3>2. [status |-> "running", ready |-> 1 .. worker[j].frame] \in Job
      BY <3>1, FrameRange DEF Job
    <3>3. worker[j].frame < NumFrames =>
            [worker[j] EXCEPT !.pc = "open", !.frame = worker[j].frame + 1] \in Worker
      BY <3>1, FrameRange
    <3>4. worker' \in [Jobs -> Worker]
      BY <1>9, <2>1, <3>3 DEF PublishPartial, TypeOK
    <3> QED BY <1>9, <2>1, <3>2, <3>4 DEF PublishPartial, TypeOK
  <2>2. CASE job[j].status \notin Live
    BY <1>9, <2>2 DEF PublishPartial, TypeOK
  <2> QED BY <2>1, <2>2
<1>10. CASE FinishFrames(j)
  BY <1>10 DEF FinishFrames, TypeOK
<1>11. CASE BeginCompletion(j)
  BY <1>11 DEF BeginCompletion, CompletionFails, TypeOK
<1>12. CASE putIndex(j)
  <2>1. cache' \in Cache
    BY <1>12 DEF putIndex, TypeOK, Cache
  <2> QED BY <1>12, <2>1 DEF putIndex, CompletionFails, TypeOK
<1>13. CASE putPlayback(j)
  <2>1. cache' \in Cache
    BY <1>13 DEF putPlayback, TypeOK, Cache
  <2> QED BY <1>13, <2>1 DEF putPlayback, CompletionFails, TypeOK
<1>14. CASE CommitCompletion(j)
  <2>1. [status |-> "completed", ready |-> Frames] \in Job
    BY DEF Job
  <2> QED BY <1>14, <2>1 DEF CommitCompletion, CompletionFails, TypeOK
<1>15. CASE CheckFailure(j)
  BY <1>15 DEF CheckFailure, TypeOK
<1>16. CASE RecordFailure(j)
  BY <1>16 DEF RecordFailure, TypeOK
<1> QED BY <1>1, <1>2, <1>3, <1>4, <1>5, <1>6, <1>7, <1>8, <1>9, <1>10, <1>11, <1>12,
           <1>13, <1>14, <1>15, <1>16 DEF WorkerStep

\* So does each step of a reader.
LEMMA ReaderType ==
  ASSUME TypeOK, NEW r \in Readers, ReaderStep(r)
  PROVE  TypeOK'
<1> USE Bounds DEF TypeOK, files, process, Reads
<1>1. CASE slicePlayerAsset(r)
  <2> PICK j \in Jobs : \E f \in job[j].ready :
        reader' = [reader EXCEPT ![r] = [pc |-> "ready", job |-> j, frame |-> f]]
    BY <1>1 DEF slicePlayerAsset
  <2> PICK f \in job[j].ready :
        reader' = [reader EXCEPT ![r] = [pc |-> "ready", job |-> j, frame |-> f]]
    OBVIOUS
  <2>1. f \in Frames
    BY DEF Job
  <2> QED BY <1>1, <2>1 DEF slicePlayerAsset, Reader
<1>2. CASE Protect(r) \/ AssetPath(r) \/ ReleaseLease(r)
  BY <1>2 DEF Protect, AssetPath, ReleaseLease, Reader
<1> QED BY <1>1, <1>2 DEF ReaderStep

\* And so do requests for jobs, removals, crashes and restarts.
LEMMA ProcessType ==
  ASSUME TypeOK,
         \/ \E j \in Jobs : startSlicePlayerJob(j) \/ cancelSlicePlayerJob(j)
         \/ removeCacheCandidate \/ Crash \/ CrashInCleanup \/ Restart
  PROVE  TypeOK'
<1> USE Bounds DEF TypeOK, files, process
<1>1. ASSUME NEW j \in Jobs, startSlicePlayerJob(j) PROVE TypeOK'
  <2>1. [status |-> "queued", ready |-> {}] \in Job
    BY Names DEF Job
  <2> QED BY <1>1, <2>1, GoesType, StoreType, Names DEF startSlicePlayerJob
<1>2. ASSUME NEW j \in Jobs, cancelSlicePlayerJob(j) PROVE TypeOK'
  BY <1>2, StoreType, Names DEF cancelSlicePlayerJob
<1>3. CASE removeCacheCandidate
  BY <1>3 DEF removeCacheCandidate, NoCache, Cache, Asset, Job, Status
<1>4. ASSUME EndProcess
      PROVE  /\ worker' \in [Jobs -> Worker] /\ slot' \subseteq Jobs
             /\ reader' \in [Readers -> Reader] /\ up' \in BOOLEAN /\ crashes' \in 0 .. MaxCrashes
  <2>1. worker' \in [Jobs -> Worker]
    BY <1>4, IdleType DEF EndProcess
  <2>2. ASSUME NEW r \in Readers PROVE [reader[r] EXCEPT !.pc = "idle"] \in Reader
    BY DEF Reader
  <2>3. reader' \in [Readers -> Reader]
    BY <1>4, <2>2 DEF EndProcess
  <2>4. crashes' \in 0 .. MaxCrashes
    BY <1>4 DEF EndProcess
  <2> QED BY <1>4, <2>1, <2>3, <2>4 DEF EndProcess
<1>5. CASE Crash
  BY <1>4, <1>5 DEF Crash
<1>6. CASE CrashInCleanup
  BY <1>4, <1>6 DEF CrashInCleanup, Cache, Asset
<1>7. CASE Restart
  <2>1. job' \in [Jobs -> Job]
    BY <1>7 DEF Restart, Job, Status, Live
  <2>2. worker' \in [Jobs -> Worker]
    BY <1>7, IdleType DEF Restart
  <2> QED BY <1>7, <2>1, <2>2 DEF Restart
<1> QED BY <1>1, <1>2, <1>3, <1>5, <1>6, <1>7

\* Every step, and stuttering, keeps the types.
LEMMA TypeStep ==
  ASSUME TypeOK, [Next]_vars
  PROVE  TypeOK'
<1>1. CASE UNCHANGED vars
  BY <1>1 DEF vars, TypeOK
<1>2. CASE Next
  BY <1>2, WorkerType, ReaderType, ProcessType DEF Next
<1> QED BY <1>1, <1>2

\* Types hold at the start.
LEMMA TypeInit == Init => TypeOK
<1> SUFFICES ASSUME Init PROVE TypeOK
  OBVIOUS
<1> USE Bounds
<1>1. worker \in [Jobs -> Worker]
  BY IdleType DEF Init
<1>2. ASSUME NEW j \in Jobs PROVE [pc |-> "idle", job |-> j, frame |-> 1] \in Reader
  BY DEF Reader
<1>3. reader \in [Readers -> Reader]
  BY <1>2 DEF Init
<1>4. job \in [Jobs -> Job] /\ cache \in Cache /\ asset \in [Frames -> Asset]
  BY DEF Init, Job, Status, NoCache, Cache, Asset
<1> QED BY <1>1, <1>3, <1>4 DEF Init, TypeOK

\* TypeOK holds of every behaviour of the store, its workers and its readers.
THEOREM TypeCorrect == Spec => []TypeOK
BY TypeInit, TypeStep, PTL DEF Spec

-----------------------------------------------------------------------------
(***************************************************************************)
(* What a step of a worker does to the jobs.                               *)
(***************************************************************************)

\* The worker of j is the only one that moves, and j the only job that may
\* change.  It leaves, or j stays as it is or goes on running.
WorkerEffect(j) ==
  /\ worker[j].pc # "idle"
  /\ \A k \in Jobs \ {j} : job'[k] = job[k] /\ worker'[k] = worker[k]
  /\ \/ worker'[j].pc = "idle"
     \/ job'[j] = job[j]
     \/ job[j].status \in Live /\ job'[j].status = "running"
  /\ interrupted' = interrupted

\* Update never touches another job, and never one that is not live.
LEMMA UpdateEffect ==
  ASSUME TypeOK, NEW j \in Jobs, Update(j)
  PROVE  /\ \A k \in Jobs \ {j} : job'[k] = job[k]
         /\ job'[j] = job[j] \/ (job[j].status \in Live /\ job'[j].status = "running")
<1>1. CASE job[j].status \in Live
  <2>1. [job[j] EXCEPT !.status = "running"].status = "running"
    BY DEF TypeOK, Job
  <2> QED BY <1>1, <2>1 DEF Update, Set, TypeOK
<1>2. CASE job[j].status \notin Live
  BY <1>2 DEF Update
<1> QED BY <1>1, <1>2

LEMMA WorkerEffects ==
  ASSUME TypeOK, NEW j \in Jobs, WorkerStep(j) \/ TakeSlot(j)
  PROVE  WorkerEffect(j)
<1> USE UpdateEffect DEF TypeOK, WorkerEffect, files, process, At, Goes, Leaves, Idle, Set
<1>1. CASE LookUpCache(j) \/ RestoreFromCache(j) \/ TakeSlot(j) \/ BeginPreparation(j)
  <2>1. CASE LookUpCache(j)
    BY <1>1, <2>1 DEF LookUpCache
  <2>2. CASE RestoreFromCache(j)
    BY <1>1, <2>2 DEF RestoreFromCache
  <2>3. CASE TakeSlot(j)
    BY <1>1, <2>3 DEF TakeSlot
  <2>4. CASE BeginPreparation(j)
    BY <1>1, <2>4 DEF BeginPreparation
  <2> QED BY <1>1, <2>1, <2>2, <2>3, <2>4
<1>2. CASE DownloadArchive(j) \/ PrepareFrames(j) \/ OpenFrame(j) \/ ConvertFrame(j)
  <2>1. CASE DownloadArchive(j)
    BY <2>1 DEF DownloadArchive
  <2>2. CASE PrepareFrames(j)
    BY <2>2 DEF PrepareFrames
  <2>3. CASE OpenFrame(j)
    BY <2>3 DEF OpenFrame
  <2>4. CASE ConvertFrame(j)
    BY <2>4 DEF ConvertFrame
  <2> QED BY <1>2, <2>1, <2>2, <2>3, <2>4
<1>3. CASE PublishPartial(j) \/ FinishFrames(j)
  <2>1. CASE PublishPartial(j)
    BY <2>1 DEF PublishPartial
  <2>2. CASE FinishFrames(j)
    BY <2>2 DEF FinishFrames
  <2> QED BY <1>3, <2>1, <2>2
<1>4. CASE BeginCompletion(j) \/ putIndex(j) \/ putPlayback(j)
  BY <1>4 DEF BeginCompletion, putIndex, putPlayback, CompletionFails
<1>5. CASE CommitCompletion(j)
  BY <1>5 DEF CommitCompletion, CompletionFails
<1>6. CASE CheckFailure(j) \/ RecordFailure(j)
  BY <1>6 DEF CheckFailure, RecordFailure, Fail
<1> QED BY <1>1, <1>2, <1>3, <1>4, <1>5, <1>6 DEF WorkerStep

\* No other step brings a worker to work but on a job it makes queued, and
\* no other step changes a job with a worker but by cancelling or deleting it.
LEMMA OwnsStep ==
  ASSUME TypeOK, WorkerOwnsJob, [Next]_vars
  PROVE  WorkerOwnsJob'
<1> USE DEF TypeOK, WorkerOwnsJob, files, process
<1>1. CASE UNCHANGED vars
  BY <1>1 DEF vars
<1>2. ASSUME NEW j \in Jobs, WorkerStep(j) \/ TakeSlot(j) PROVE WorkerOwnsJob'
  <2>1. WorkerEffect(j)
    BY <1>2, WorkerEffects
  <2> SUFFICES ASSUME NEW k \in Jobs, worker'[k].pc # "idle"
               PROVE  job'[k].status \in Live \cup {"cancelled", "gone"}
    OBVIOUS
  <2>2. CASE k = j
    BY <2>1, <2>2 DEF WorkerEffect, Live
  <2>3. CASE k # j
    BY <2>1, <2>3 DEF WorkerEffect
  <2> QED BY <2>2, <2>3
<1>3. ASSUME NEW j \in Jobs, startSlicePlayerJob(j) PROVE WorkerOwnsJob'
  BY <1>3 DEF startSlicePlayerJob, Set, Goes, Live
<1>4. ASSUME NEW j \in Jobs, cancelSlicePlayerJob(j) PROVE WorkerOwnsJob'
  BY <1>4 DEF cancelSlicePlayerJob, Set
<1>5. ASSUME NEW r \in Readers, ReaderStep(r) PROVE WorkerOwnsJob'
  BY <1>5 DEF ReaderStep, slicePlayerAsset, Protect, AssetPath, ReleaseLease
<1>6. CASE removeCacheCandidate
  BY <1>6 DEF removeCacheCandidate
<1>7. CASE Crash \/ CrashInCleanup
  BY <1>7 DEF Crash, CrashInCleanup, EndProcess, Idle
<1>8. CASE Restart
  BY <1>8 DEF Restart, Idle, Live
<1> QED BY <1>1, <1>2, <1>3, <1>4, <1>5, <1>6, <1>7, <1>8 DEF Next

-----------------------------------------------------------------------------
(***************************************************************************)
(* The outcome of a job is final.                                          *)
(***************************************************************************)
FinalStep == \A j \in Jobs : job[j].status \in Terminal =>
               job'[j] = job[j] \/ job'[j].status = "gone"

LEMMA FinalityStep ==
  ASSUME TypeOK, WorkerOwnsJob, [Next]_vars
  PROVE  FinalStep
<1> USE DEF TypeOK, FinalStep, files, process
<1>1. CASE UNCHANGED vars
  BY <1>1 DEF vars
<1>2. ASSUME NEW j \in Jobs, WorkerStep(j) \/ TakeSlot(j) PROVE FinalStep
  <2>1. WorkerEffect(j)
    BY <1>2, WorkerEffects
  <2>2. job[j].status \in Live \cup {"cancelled", "gone"}
    BY <2>1 DEF WorkerEffect, WorkerOwnsJob
  <2>3. ASSUME job[j].status = "cancelled" PROVE job'[j] = job[j]
    <3> USE <2>3 DEF Live, Exists, IsCancelled, Update, Set, Fail, CommitAllowed
    <3>1. CASE LookUpCache(j) \/ RestoreFromCache(j) \/ TakeSlot(j) \/ BeginPreparation(j)
      BY <3>1 DEF LookUpCache, RestoreFromCache, TakeSlot, BeginPreparation
    <3>2. CASE DownloadArchive(j) \/ PrepareFrames(j) \/ OpenFrame(j) \/ ConvertFrame(j)
      BY <3>2 DEF DownloadArchive, PrepareFrames, OpenFrame, ConvertFrame
    <3>3. CASE PublishPartial(j) \/ FinishFrames(j)
      BY <3>3 DEF PublishPartial, FinishFrames
    <3>4. CASE BeginCompletion(j) \/ putIndex(j) \/ putPlayback(j)
      BY <3>4 DEF BeginCompletion, putIndex, putPlayback
    <3>5. CASE CommitCompletion(j) \/ CheckFailure(j) \/ RecordFailure(j)
      BY <3>5 DEF CommitCompletion, CheckFailure, RecordFailure
    <3> QED BY <1>2, <3>1, <3>2, <3>3, <3>4, <3>5 DEF WorkerStep
  <2>4. job[j].status \in Terminal => job'[j] = job[j]
    BY <2>2, <2>3 DEF Live, Terminal
  <2> QED BY <2>1, <2>4 DEF WorkerEffect
<1>3. ASSUME NEW j \in Jobs, startSlicePlayerJob(j) PROVE FinalStep
  BY <1>3 DEF startSlicePlayerJob, Set, Terminal
<1>4. ASSUME NEW j \in Jobs, cancelSlicePlayerJob(j) PROVE FinalStep
  BY <1>4 DEF cancelSlicePlayerJob, Set, Terminal, Live
<1>5. ASSUME NEW r \in Readers, ReaderStep(r) PROVE FinalStep
  BY <1>5 DEF ReaderStep, slicePlayerAsset, Protect, AssetPath, ReleaseLease
<1>6. CASE removeCacheCandidate
  BY <1>6 DEF removeCacheCandidate
<1>7. CASE Crash \/ CrashInCleanup
  BY <1>7 DEF Crash, CrashInCleanup
<1>8. CASE Restart
  BY <1>8 DEF Restart, Terminal, Live
<1> QED BY <1>1, <1>2, <1>3, <1>4, <1>5, <1>6, <1>7, <1>8 DEF Next

LEMMA OwnsInit == Init => WorkerOwnsJob
BY DEF Init, WorkerOwnsJob, Idle

\* A completed, failed or cancelled job keeps its record until it is deleted
\* with its cache directory, whatever its worker was about to write.
THEOREM OutcomesAreFinal == Spec => TerminalIsFinal
<1>1. TypeOK /\ WorkerOwnsJob /\ [Next]_vars => (TypeOK /\ WorkerOwnsJob)'
  BY TypeStep, OwnsStep
<1>2. TypeOK /\ WorkerOwnsJob /\ [Next]_vars => [FinalStep]_vars
  BY FinalityStep
<1>3. Init => TypeOK /\ WorkerOwnsJob
  BY TypeInit, OwnsInit
<1> QED BY <1>1, <1>2, <1>3, PTL DEF Spec, TerminalIsFinal, FinalStep

-----------------------------------------------------------------------------
(***************************************************************************)
(* A completed job is backed by the files of the cache.                    *)
(***************************************************************************)

\* What a worker's step does to the cache: it removes nothing, it comes to
\* its last two steps by writing a file, and it completes its job only from
\* the last one.
CacheEffect(j) ==
  /\ cache.index => cache'.index
  /\ cache.playback => cache'.playback
  /\ worker'[j].pc = "playback" => cache'.index
  /\ worker'[j].pc = "commit" => worker[j].pc = "playback" /\ cache'.playback /\ job' = job
  /\ job'[j].status = "completed" =>
       job[j].status = "completed" \/ (worker[j].pc = "commit" /\ CommitAllowed(j))

\* Where a worker is after it has moved, and what a job is after it was set.
LEMMA MoveEffect ==
  ASSUME TypeOK, NEW j \in Jobs
  PROVE  /\ \A s : Goes(j, s) => worker'[j].pc = s
         /\ Leaves(j) => worker'[j].pc = "idle"
         /\ \A f : worker' = [worker EXCEPT ![j].pc = "open", ![j].frame = f] => worker'[j].pc = "open"
         /\ \A r : Set(j, r) => job'[j] = r
         /\ Update(j) /\ job'[j].status = "completed" => job[j].status = "completed"
<1>1. worker[j] \in Worker /\ worker \in [Jobs -> Worker] /\ job \in [Jobs -> Job]
  BY DEF TypeOK
<1>2. ASSUME NEW s, Goes(j, s) PROVE worker'[j].pc = s
  <2>1. worker'[j] = [worker[j] EXCEPT !.pc = s]
    BY <1>1, <1>2 DEF Goes
  <2> QED BY <1>1, <2>1 DEF Worker
<1>3. ASSUME NEW f, worker' = [worker EXCEPT ![j].pc = "open", ![j].frame = f]
      PROVE  worker'[j].pc = "open"
  <2>1. worker'[j] = [worker[j] EXCEPT !.pc = "open", !.frame = f]
    BY <1>1, <1>3
  <2> QED BY <1>1, <2>1 DEF Worker
<1>4. Leaves(j) => worker'[j].pc = "idle"
  BY <1>1 DEF Leaves, Idle
<1>5. \A r : Set(j, r) => job'[j] = r
  BY <1>1 DEF Set
<1>6. Update(j) /\ job'[j].status = "completed" => job[j].status = "completed"
  BY UpdateEffect
<1> QED BY <1>2, <1>3, <1>4, <1>5, <1>6

LEMMA CacheEffects ==
  ASSUME TypeOK, NEW j \in Jobs, WorkerStep(j) \/ TakeSlot(j)
  PROVE  CacheEffect(j)
<1> USE MoveEffect DEF CacheEffect, files, At
<1>0. cache \in Cache
  BY DEF TypeOK
<1>1. CASE LookUpCache(j)
  <2>1. CASE Cached /\ CachedPlayback
    <3>1. worker'[j].pc = "restore"
      BY ZenonT(30), <1>1, <2>1 DEF LookUpCache, TypeOK, Idle
    <3> QED BY <1>1, <3>1 DEF LookUpCache
  <2>2. CASE ~(Cached /\ CachedPlayback)
    BY <1>1, <2>2 DEF LookUpCache
  <2> QED BY <2>1, <2>2
<1>2. CASE RestoreFromCache(j)
  BY <1>2 DEF RestoreFromCache
<1>3. CASE TakeSlot(j)
  BY <1>3 DEF TakeSlot
<1>4. CASE BeginPreparation(j)
  BY <1>4 DEF BeginPreparation
<1>5. CASE DownloadArchive(j)
  BY <1>5 DEF DownloadArchive
<1>6. CASE PrepareFrames(j)
  BY <1>0, <1>6 DEF PrepareFrames, Cache
<1>7. CASE OpenFrame(j)
  BY <1>0, <1>7 DEF OpenFrame, Cache
<1>8. CASE ConvertFrame(j)
  BY <1>8 DEF ConvertFrame
<1>9. CASE PublishPartial(j)
  <2>1. CASE job[j].status \in Live
    <3>1. worker'[j].pc \in {"open", "finish"}
      BY <1>9, <2>1 DEF PublishPartial
    <3>2. job'[j] = [status |-> "running", ready |-> 1 .. worker[j].frame]
      BY <1>9, <2>1 DEF PublishPartial
    <3> QED BY <1>9, <3>1, <3>2 DEF PublishPartial
  <2>2. CASE job[j].status \notin Live
    BY <1>9, <2>2 DEF PublishPartial
  <2> QED BY <2>1, <2>2
<1>10. CASE FinishFrames(j)
  BY <1>10 DEF FinishFrames
<1>11. CASE BeginCompletion(j)
  BY <1>11 DEF BeginCompletion, CompletionFails
<1>12. CASE putIndex(j)
  BY <1>0, <1>12 DEF putIndex, CompletionFails, Cache
<1>13. CASE putPlayback(j)
  BY <1>0, <1>13 DEF putPlayback, CompletionFails, Cache
<1>14. CASE CommitCompletion(j)
  BY <1>14 DEF CommitCompletion, CompletionFails
<1>15. CASE CheckFailure(j)
  BY <1>15 DEF CheckFailure
<1>16. CASE RecordFailure(j)
  <2>1. [job[j] EXCEPT !.status = "failed"].status = "failed"
    BY DEF TypeOK, Job
  <2> QED BY <1>16, <2>1 DEF RecordFailure, Fail
<1> QED BY <1>1, <1>2, <1>3, <1>4, <1>5, <1>6, <1>7, <1>8, <1>9, <1>10, <1>11, <1>12,
           <1>13, <1>14, <1>15, <1>16 DEF WorkerStep

\* The step of one worker keeps both facts for its own job and the others.
LEMMA WorkerFiles ==
  ASSUME Inv, NEW j \in Jobs, WorkerStep(j) \/ TakeSlot(j)
  PROVE  WrittenFilesStay' /\ CompletedIsCached'
<1>1. WorkerEffect(j) /\ CacheEffect(j)
  BY WorkerEffects, CacheEffects DEF Inv
<1>2. ASSUME NEW k \in Jobs, job'[k].status \in Live, ~interrupted'
      PROVE  /\ worker'[k].pc = "playback" => cache'.index
             /\ worker'[k].pc = "commit" => cache'.index /\ cache'.playback
  <2>1. CASE k = j
    <3>1. worker'[j].pc = "commit" => cache.index
      BY <1>1, <1>2, <2>1 DEF CacheEffect, WorkerEffect, Inv, WrittenFilesStay
    <3> QED BY <1>1, <2>1, <3>1 DEF CacheEffect
  <2>2. CASE k # j
    BY <1>1, <1>2, <2>2 DEF WorkerEffect, CacheEffect, Inv, WrittenFilesStay
  <2> QED BY <2>1, <2>2
<1>3. ASSUME NEW k \in Jobs, job'[k].status = "completed"
      PROVE  interrupted' \/ (cache'.index /\ cache'.playback)
  <2>1. CASE k = j /\ job[j].status # "completed"
    <3>1. worker[j].pc = "commit" /\ CommitAllowed(j)
      BY <1>1, <1>3, <2>1 DEF CacheEffect
    <3>2. job[j].status \in Live
      BY <3>1 DEF Inv, WorkerOwnsJob, CommitAllowed, Exists, IsCancelled
    <3> QED BY <1>1, <3>1, <3>2 DEF CacheEffect, WorkerEffect, Inv, WrittenFilesStay
  <2>2. CASE job[k].status = "completed"
    BY <1>1, <2>2 DEF CacheEffect, WorkerEffect, Inv, CompletedIsCached
  <2>3. job[k].status = "completed" \/ k = j
    BY <1>1, <1>3 DEF WorkerEffect
  <2> QED BY <2>1, <2>2, <2>3
<1> QED BY <1>2, <1>3 DEF WrittenFilesStay, CompletedIsCached

\* A removal waits for every job that is not terminal, and takes the
\* terminal ones along; a crash in its middle is remembered.
LEMMA FilesStep ==
  ASSUME Inv, [Next]_vars
  PROVE  WrittenFilesStay' /\ CompletedIsCached'
<1> USE DEF Inv, TypeOK, WrittenFilesStay, CompletedIsCached, files, process
<1>1. CASE UNCHANGED vars
  BY <1>1 DEF vars
<1>2. ASSUME NEW j \in Jobs, WorkerStep(j) \/ TakeSlot(j)
      PROVE  WrittenFilesStay' /\ CompletedIsCached'
  BY <1>2, WorkerFiles
<1>3. ASSUME NEW j \in Jobs, startSlicePlayerJob(j) PROVE WrittenFilesStay' /\ CompletedIsCached'
  BY <1>3 DEF startSlicePlayerJob, Set, Goes, Live
<1>4. ASSUME NEW j \in Jobs, cancelSlicePlayerJob(j) PROVE WrittenFilesStay' /\ CompletedIsCached'
  BY <1>4 DEF cancelSlicePlayerJob, Set, Live
<1>5. ASSUME NEW r \in Readers, ReaderStep(r) PROVE WrittenFilesStay' /\ CompletedIsCached'
  BY <1>5 DEF ReaderStep, slicePlayerAsset, Protect, AssetPath, ReleaseLease
<1>6. CASE removeCacheCandidate
  BY <1>6 DEF removeCacheCandidate, protectedLocked, Terminal, Live
<1>7. CASE Crash
  BY <1>7 DEF Crash, EndProcess, Idle
<1>8. CASE CrashInCleanup
  BY <1>8 DEF CrashInCleanup
<1>9. CASE Restart
  BY <1>9 DEF Restart, Idle, Live
<1> QED BY <1>1, <1>2, <1>3, <1>4, <1>5, <1>6, <1>7, <1>8, <1>9 DEF Next

LEMMA FilesInit == Init => WrittenFilesStay /\ CompletedIsCached
BY DEF Init, WrittenFilesStay, CompletedIsCached, Idle, Live

\* While no crash has cut a removal short, the index and the playback of
\* every completed job are in the cache.
THEOREM CompletedJobsAreCached == Spec => []CompletedIsCached
<1>1. Init => Inv
  BY TypeInit, OwnsInit, FilesInit DEF Inv
<1>2. Inv /\ [Next]_vars => Inv'
  BY TypeStep, OwnsStep, FilesStep DEF Inv
<1>3. Inv => CompletedIsCached
  BY DEF Inv
<1> QED BY <1>1, <1>2, <1>3, PTL DEF Spec

-----------------------------------------------------------------------------
(***************************************************************************)
(* The frames offered by a job that is not over exist.                     *)
(***************************************************************************)
Converting == {"open", "convert", "publish"}

\* The frame a worker is at is one of the archive.
FramesInRange == \A j \in Jobs : worker[j].pc \in Converting => worker[j].frame \in Frames

\* A worker converts the frames in order and its report offers those before
\* the one it is at.
OfferedInOrder ==
  \A j \in Jobs : worker[j].pc \in Converting /\ job[j].status \in Live =>
    1 .. worker[j].frame - 1 \subseteq job[j].ready

\* The file it has converted and not yet offered is there.
ConvertedExists ==
  \A j \in Jobs : worker[j].pc = "publish" /\ job[j].status \in Live =>
    asset[worker[j].frame] # "none"

FrameInv == FramesInRange /\ OfferedInOrder /\ ConvertedExists /\ LiveFramesExist

\* A worker's step removes no frame; it adds to a report only the frame it
\* has converted; it goes to the next frame only then.
FrameEffect(j) ==
  /\ \A f \in Frames : asset[f] # "none" => asset'[f] # "none"
  /\ job'[j].status \in Live =>
       /\ job[j].status \in Live
       /\ \/ job'[j].ready = job[j].ready
          \/ worker[j].pc = "publish" /\ job'[j].ready = 1 .. worker[j].frame
  /\ worker'[j].pc \in Converting => worker'[j].frame \in Frames
  /\ worker'[j].pc \in Converting =>
       \/ worker'[j].frame = 1
       \/ /\ worker[j].pc \in Converting
          /\ worker'[j].frame = worker[j].frame
          /\ job' = job
       \/ /\ worker[j].pc = "publish"
          /\ worker'[j].frame = worker[j].frame + 1
          /\ job'[j].ready = 1 .. worker[j].frame
  /\ worker'[j].pc = "publish" => asset'[worker'[j].frame] # "none"

\* Moving on keeps the frame, and the store's Update keeps the report.
LEMMA KeepsFrame ==
  ASSUME TypeOK, NEW j \in Jobs
  PROVE  /\ \A s : Goes(j, s) => worker'[j].frame = worker[j].frame
         /\ \A f : worker' = [worker EXCEPT ![j].pc = "open", ![j].frame = f] => worker'[j].frame = f
         /\ Update(j) => job'[j].ready = job[j].ready
         /\ worker[j].frame \in 0 .. NumFrames
<1>1. worker[j] \in Worker /\ worker \in [Jobs -> Worker] /\ job \in [Jobs -> Job] /\ job[j] \in Job
  BY DEF TypeOK
<1>2. ASSUME NEW s, Goes(j, s) PROVE worker'[j].frame = worker[j].frame
  <2>1. worker'[j] = [worker[j] EXCEPT !.pc = s]
    BY <1>1, <1>2 DEF Goes
  <2> QED BY <1>1, <2>1 DEF Worker
<1>3. ASSUME NEW f, worker' = [worker EXCEPT ![j].pc = "open", ![j].frame = f]
      PROVE  worker'[j].frame = f
  <2>1. worker'[j] = [worker[j] EXCEPT !.pc = "open", !.frame = f]
    BY <1>1, <1>3
  <2> QED BY <1>1, <2>1 DEF Worker
<1>4. Update(j) => job'[j].ready = job[j].ready
  <2>1. [job[j] EXCEPT !.status = "running"].ready = job[j].ready
    BY <1>1 DEF Job
  <2> QED BY <1>1, <2>1 DEF Update, Set
<1>5. worker[j].frame \in 0 .. NumFrames
  BY <1>1 DEF Worker
<1> QED BY <1>2, <1>3, <1>4, <1>5

LEMMA FrameEffects ==
  ASSUME TypeOK, FramesInRange, NEW j \in Jobs, WorkerStep(j) \/ TakeSlot(j)
  PROVE  FrameEffect(j)
<1>17. LookUpCache(j) => worker'[j].pc \in {"restore", "slot"}
  <2>1. LookUpCache(j) /\ Cached /\ CachedPlayback => worker'[j].pc = "restore"
    BY DEF LookUpCache, TypeOK, Idle
  <2>2. LookUpCache(j) /\ ~(Cached /\ CachedPlayback) => worker'[j].pc = "slot"
    BY MoveEffect DEF LookUpCache
  <2> QED BY <2>1, <2>2
<1> USE MoveEffect, KeepsFrame, UpdateEffect DEF FrameEffect, Converting, files, At
<1>0. 1 \in Frames /\ (worker[j].pc \in Converting => worker[j].frame \in Frames)
  BY Bounds DEF FramesInRange
<1>1. CASE LookUpCache(j)
  BY <1>1, <1>17 DEF LookUpCache
<1>2. CASE RestoreFromCache(j)
  BY <1>2 DEF RestoreFromCache
<1>3. CASE TakeSlot(j)
  BY <1>3 DEF TakeSlot
<1>4. CASE BeginPreparation(j)
  BY <1>4 DEF BeginPreparation
<1>5. CASE DownloadArchive(j)
  BY <1>5 DEF DownloadArchive
<1>6. CASE PrepareFrames(j)
  <2>1. asset' = asset /\ worker[j].pc = "prepare"
    BY <1>6 DEF PrepareFrames
  <2>2. CASE IsCancelled(j)
    <3>1. worker'[j].pc = "idle" /\ job' = job
      BY <1>6, <2>2 DEF PrepareFrames
    <3> QED BY <2>1, <3>1
  <2>3. CASE ~IsCancelled(j)
    <3>1. Update(j) /\ worker' = [worker EXCEPT ![j].pc = "open", ![j].frame = 1]
      BY <1>6, <2>3 DEF PrepareFrames
    <3>2. worker'[j].pc = "open" /\ worker'[j].frame = 1
      BY <3>1
    <3>3. job'[j].ready = job[j].ready /\ (job'[j].status \in Live => job[j].status \in Live)
      BY <3>1
    <3> QED BY <1>0, <2>1, <3>2, <3>3
  <2> QED BY <2>2, <2>3
<1>7. CASE OpenFrame(j)
  BY <1>0, <1>7 DEF OpenFrame, TypeOK
<1>8. CASE ConvertFrame(j)
  <2>1. CASE asset' = [asset EXCEPT ![worker[j].frame] = "whole"] /\ Goes(j, "publish")
             /\ asset[worker[j].frame] = "torn"
    BY <1>0, <1>8, <2>1 DEF ConvertFrame, TypeOK
  <2>2. CASE Goes(j, "failing") /\ UNCHANGED asset
    BY <1>8, <2>2 DEF ConvertFrame
  <2> QED BY <1>8, <2>1, <2>2 DEF ConvertFrame
<1>9. CASE PublishPartial(j)
  <2>1. CASE job[j].status \in Live
    <3>1. job'[j] = [status |-> "running", ready |-> 1 .. worker[j].frame]
      BY <1>9, <2>1 DEF PublishPartial
    <3>2. \/ /\ worker'[j].pc = "open" /\ worker'[j].frame = worker[j].frame + 1
             /\ worker[j].frame < NumFrames
          \/ worker'[j].pc = "finish"
      BY ZenonT(30), <1>9, <2>1 DEF PublishPartial
    <3>3. worker[j].frame < NumFrames => worker[j].frame + 1 \in Frames
      BY FrameRange, KeepsFrame
    <3>4. asset' = asset /\ worker[j].pc = "publish"
      BY <1>9 DEF PublishPartial
    <3> QED BY <2>1, <3>1, <3>2, <3>3, <3>4
  <2>2. CASE job[j].status \notin Live
    BY <1>9, <2>2 DEF PublishPartial
  <2> QED BY <2>1, <2>2
<1>10. CASE FinishFrames(j)
  BY <1>10 DEF FinishFrames
<1>11. CASE BeginCompletion(j)
  BY <1>11 DEF BeginCompletion, CompletionFails
<1>12. CASE putIndex(j)
  BY <1>12 DEF putIndex, CompletionFails
<1>13. CASE putPlayback(j)
  BY <1>13 DEF putPlayback, CompletionFails
<1>14. CASE CommitCompletion(j)
  <2>1. CASE CommitAllowed(j)
    <3>1. Leaves(j) /\ asset' = asset /\ Set(j, [status |-> "completed", ready |-> Frames])
      BY <1>14, <2>1 DEF CommitCompletion
    <3>2. worker'[j].pc = "idle"
      BY <3>1
    <3>3. job'[j] = [status |-> "completed", ready |-> Frames]
      BY <3>1
    <3> QED BY <3>1, <3>2, <3>3 DEF Live
  <2>2. CASE ~CommitAllowed(j)
    BY <1>14, <2>2 DEF CommitCompletion, CompletionFails
  <2> QED BY <2>1, <2>2
<1>15. CASE CheckFailure(j)
  BY <1>15 DEF CheckFailure
<1>16. CASE RecordFailure(j)
  <2>1. [job[j] EXCEPT !.status = "failed"].status = "failed"
    BY DEF TypeOK, Job
  <2> QED BY <1>16, <2>1 DEF RecordFailure, Fail, Live
<1> QED BY <1>1, <1>2, <1>3, <1>4, <1>5, <1>6, <1>7, <1>8, <1>9, <1>10, <1>11, <1>12,
           <1>13, <1>14, <1>15, <1>16 DEF WorkerStep

\* The step of one worker keeps the three facts for its own job and the others.
LEMMA WorkerFrames ==
  ASSUME TypeOK, FrameInv, NEW j \in Jobs, WorkerStep(j) \/ TakeSlot(j)
  PROVE  FrameInv'
<1> USE DEF FrameInv, FramesInRange, OfferedInOrder, ConvertedExists, LiveFramesExist
<1>1. WorkerEffect(j) /\ FrameEffect(j)
  BY WorkerEffects, FrameEffects
<1>2. /\ worker[j].frame \in 0 .. NumFrames /\ NumFrames \in Nat
      /\ \A k \in Jobs : job[k].ready \subseteq Frames
      /\ \A k \in Jobs : worker[k].frame \in 0 .. NumFrames
  BY KeepsFrame, Bounds DEF TypeOK, Job
<1>6. ASSUME NEW k \in Jobs, worker'[k].pc \in Converting PROVE worker'[k].frame \in Frames
  BY <1>1, <1>6 DEF FrameEffect, WorkerEffect
<1>3. ASSUME NEW k \in Jobs, worker'[k].pc \in Converting, job'[k].status \in Live
      PROVE  1 .. worker'[k].frame - 1 \subseteq job'[k].ready
  <2>1. CASE k = j
    BY <1>1, <1>2, <1>3, <2>1 DEF FrameEffect
  <2>2. CASE k # j
    BY <1>1, <1>3, <2>2 DEF WorkerEffect
  <2> QED BY <2>1, <2>2
<1>4. ASSUME NEW k \in Jobs, worker'[k].pc = "publish", job'[k].status \in Live
      PROVE  asset'[worker'[k].frame] # "none"
  <2>1. CASE k = j
    BY <1>1, <1>4, <2>1 DEF FrameEffect
  <2>2. CASE k # j
    <3>1. worker'[k] = worker[k] /\ job'[k] = job[k]
      BY <1>1, <2>2 DEF WorkerEffect
    <3>2. asset[worker[k].frame] # "none" /\ worker[k].frame \in Frames
      BY <1>4, <3>1 DEF Converting
    <3> QED BY <1>1, <3>1, <3>2 DEF FrameEffect
  <2> QED BY <2>1, <2>2
<1>5. ASSUME NEW k \in Jobs, job'[k].status \in Live, NEW f \in job'[k].ready
      PROVE  asset'[f] # "none"
  <2>1. CASE k = j
    <3>1. CASE f \in job[j].ready
      BY <1>1, <1>2, <1>5, <2>1, <3>1 DEF FrameEffect
    <3>2. CASE f \notin job[j].ready
      <4>1. worker[j].pc = "publish" /\ f \in 1 .. worker[j].frame /\ job[j].status \in Live
        BY <1>1, <1>5, <2>1, <3>2 DEF FrameEffect
      <4>2. f = worker[j].frame
        BY <1>2, <3>2, <4>1 DEF Converting
      <4>3. asset[f] # "none" /\ f \in Frames
        BY <1>2, <4>1, <4>2 DEF Frames
      <4> QED BY <1>1, <4>3 DEF FrameEffect
    <3> QED BY <3>1, <3>2
  <2>2. CASE k # j
    <3>1. job[k].status \in Live /\ f \in job[k].ready
      BY <1>1, <1>5, <2>2 DEF WorkerEffect
    <3> QED BY <1>1, <1>2, <3>1 DEF FrameEffect
  <2> QED BY <2>1, <2>2
<1> QED BY <1>3, <1>4, <1>5, <1>6

\* A removal waits until no job is live, so it takes no frame of a live job;
\* a restarted job begins again with the first frame.
LEMMA FrameStep ==
  ASSUME TypeOK, FrameInv, [Next]_vars
  PROVE  FrameInv'
<1> USE DEF TypeOK, FrameInv, FramesInRange, OfferedInOrder, ConvertedExists, LiveFramesExist,
            Converting, files, process
<1>1. CASE UNCHANGED vars
  BY <1>1 DEF vars
<1>2. ASSUME NEW j \in Jobs, WorkerStep(j) \/ TakeSlot(j) PROVE FrameInv'
  BY <1>2, WorkerFrames
<1>3. ASSUME NEW j \in Jobs, startSlicePlayerJob(j) PROVE FrameInv'
  BY <1>3 DEF startSlicePlayerJob, Set, Goes, Live
<1>4. ASSUME NEW j \in Jobs, cancelSlicePlayerJob(j) PROVE FrameInv'
  BY <1>4 DEF cancelSlicePlayerJob, Set, Live
<1>5. ASSUME NEW r \in Readers, ReaderStep(r) PROVE FrameInv'
  BY <1>5 DEF ReaderStep, slicePlayerAsset, Protect, AssetPath, ReleaseLease
<1>6. CASE removeCacheCandidate
  BY <1>6 DEF removeCacheCandidate, protectedLocked, Live
<1>7. CASE Crash
  BY <1>7 DEF Crash, EndProcess, Idle
<1>8. CASE CrashInCleanup
  BY <1>8 DEF CrashInCleanup, EndProcess, protectedLocked, Idle
<1>9. CASE Restart
  BY <1>9 DEF Restart, Idle, Live
<1> QED BY <1>1, <1>2, <1>3, <1>4, <1>5, <1>6, <1>7, <1>8, <1>9 DEF Next

LEMMA FrameInit == Init => FrameInv
BY DEF Init, FrameInv, FramesInRange, OfferedInOrder, ConvertedExists, LiveFramesExist,
       Converting, Idle, Live

\* The frames that are offered while a job is queued or running exist.
THEOREM OfferedFramesExist == Spec => []LiveFramesExist
<1>1. Init => TypeOK /\ FrameInv
  BY TypeInit, FrameInit
<1>2. TypeOK /\ FrameInv /\ [Next]_vars => (TypeOK /\ FrameInv)'
  BY TypeStep, FrameStep
<1>3. FrameInv => LiveFramesExist
  BY DEF FrameInv
<1> QED BY <1>1, <1>2, <1>3, PTL DEF Spec
-----------------------------------------------------------------------------
(***************************************************************************)
(* A frame that is being sent is not removed.  A worker removes no frame,  *)
(* and a removal, also one that a crash cuts short, looks at the leases.   *)
(***************************************************************************)
ServedStep ==
  \A r \in Readers :
    reader[r].pc = "serve" /\ asset[reader[r].frame] # "none" => asset'[reader[r].frame] # "none"

LEMMA ServedKept ==
  ASSUME TypeOK, FramesInRange, Next
  PROVE  ServedStep
<1> USE DEF files, process
<1>1. \A r \in Readers : reader[r].frame \in Frames
  BY DEF TypeOK, Reader
<1>2. ASSUME NEW j \in Jobs, WorkerStep(j) \/ TakeSlot(j) PROVE ServedStep
  BY <1>1, <1>2, FrameEffects DEF ServedStep, FrameEffect
<1>3. CASE removeCacheCandidate \/ CrashInCleanup
  <2>1. ~protectedLocked
    BY <1>3 DEF removeCacheCandidate, CrashInCleanup
  <2>2. \A r \in Readers : reader[r].pc # "serve"
    BY <2>1 DEF protectedLocked
  <2> QED BY <2>2 DEF ServedStep
<1>4. ASSUME NEW j \in Jobs, startSlicePlayerJob(j) \/ cancelSlicePlayerJob(j) PROVE ServedStep
  BY <1>4 DEF startSlicePlayerJob, cancelSlicePlayerJob, ServedStep
<1>5. ASSUME NEW r \in Readers, ReaderStep(r) PROVE ServedStep
  BY <1>5 DEF ReaderStep, slicePlayerAsset, Protect, AssetPath, ReleaseLease, ServedStep
<1>6. CASE Crash \/ Restart
  BY <1>6 DEF Crash, Restart, ServedStep
<1> QED BY <1>2, <1>3, <1>4, <1>5, <1>6 DEF Next

\* While a frame is sent its file stays, whatever the cleanup, the workers
\* and a crash do.
THEOREM ServedFramesStay == Spec => ServedFrameStays
<1>1. Init => TypeOK /\ FrameInv
  BY TypeInit, FrameInit
<1>2. TypeOK /\ FrameInv /\ [Next]_vars => (TypeOK /\ FrameInv)'
  BY TypeStep, FrameStep
<1>3. TypeOK /\ FrameInv /\ [Next]_vars => [ServedStep]_vars
  BY ServedKept DEF FrameInv
<1> QED BY <1>1, <1>2, <1>3, PTL DEF Spec, ServedFrameStays, ServedStep

-----------------------------------------------------------------------------
(***************************************************************************)
(* The camera and the pointer of a viewer.  What they may do does not      *)
(* depend on what is picked.                                               *)
(***************************************************************************)
Camera == [navigating : BOOLEAN, turning : BOOLEAN, wheel : BOOLEAN, rolling : BOOLEAN, orbit : BOOLEAN,
           enabled : BOOLEAN, untold : BOOLEAN, timer : BOOLEAN]
Press == [held : {"none", "first", "second", "finger"}, cube : CubeFaces \cup {NoPart},
          drag : {"none", "still", "moved"}, owed : BOOLEAN, down : BOOLEAN, armed : BOOLEAN]
InputInv ==
  /\ camera \in Camera /\ press \in Press
  /\ VI!NavigatingIsBacked /\ VI!MovesAreTold /\ VI!OneHolder

-----------------------------------------------------------------------------
\* What the camera is after each of the ways it is moved, left at rest or told
\* of: the fields that change.
LEMMA CameraIs ==
  ASSUME NEW c \in Camera
  PROVE  /\ VI!Moved(c) = [c EXCEPT !.untold = TRUE, !.timer = TRUE] /\ VI!Moved(c) \in Camera
         /\ VI!Told(c) = [c EXCEPT !.untold = FALSE, !.timer = FALSE] /\ VI!Told(c) \in Camera
         /\ VI!Navigate(c) = [c EXCEPT !.navigating = TRUE] /\ VI!Navigate(c) \in Camera
         /\ VI!Animate(c) = [c EXCEPT !.turning = TRUE, !.navigating = TRUE] /\ VI!Animate(c) \in Camera
         /\ VI!Rest(c) \in Camera /\ ~VI!Rest(c).navigating
         /\ \A f \in DOMAIN c \ {"navigating", "untold", "timer"} : VI!Rest(c)[f] = c[f]
         /\ (c.untold => c.timer) => (VI!Rest(c).untold => VI!Rest(c).timer)
  BY DEF Camera, VI!Moved, VI!Told, VI!Navigate, VI!Animate, VI!Rest

\* An interruption leaves the camera at rest and the press without a target.
LEMMA Interrupted ==
  ASSUME InputInv, NEW c \in Camera, c.untold => c.timer, press' = VI!Dropped(press), camera' = VI!Freed(c)
  PROVE  InputInv'
<1>1. [c EXCEPT !.enabled = TRUE] \in Camera
  BY DEF Camera
<1> DEFINE d == [c EXCEPT !.enabled = TRUE]
<1>2. d \in Camera /\ d.untold = c.untold /\ d.timer = c.timer
  BY DEF Camera
<1> HIDE DEF d
<1>3. camera' = VI!Rest(d)
  BY DEF d, VI!Freed
<1>4. camera' \in Camera /\ ~camera'.navigating /\ (camera'.untold => camera'.timer)
  BY <1>2, <1>3, CameraIs
<1>5. press' \in Press /\ press'.cube = NoPart
  BY DEF VI!Dropped, VI!NoPress, Press, InputInv
<1> QED BY <1>4, <1>5 DEF InputInv, VI!NavigatingIsBacked, VI!MovesAreTold, VI!OneHolder

\* The camera's own steps.
LEMMA CameraSteps ==
  ASSUME InputInv,
         \/ VI!EmitCameraState \/ VI!ApplyCameraState \/ VI!ApplyCameraCommand \/ VI!Wheel \/ VI!WheelEnds
         \/ VI!flushNavigationMove \/ VI!handleDoubleClick
         \/ \E more \in BOOLEAN : VI!flushWheelZoom(more) \/ VI!AnimationFrame(more)
  PROVE  InputInv'
<1> USE DEF VI!NavigatingIsBacked, VI!MovesAreTold, VI!OneHolder
<1>0. camera \in Camera /\ press \in Press
  BY DEF InputInv
<1>1. CASE VI!EmitCameraState \/ VI!ApplyCameraState
  BY <1>1 DEF VI!EmitCameraState, VI!ApplyCameraState, VI!Told, InputInv, Camera, Press
<1>2. CASE VI!ApplyCameraCommand
  BY <1>2 DEF VI!ApplyCameraCommand, VI!Moved, InputInv, Camera, Press
<1>3. CASE VI!Wheel
  <2>1. /\ camera' = [camera EXCEPT !.wheel = TRUE, !.rolling = TRUE, !.navigating = camera.navigating \/ ~camera.wheel]
        /\ press' = press /\ camera.enabled
    BY <1>3 DEF VI!Wheel
  <2>2. /\ camera' \in Camera /\ camera'.wheel /\ camera'.enabled
        /\ camera'.untold = camera.untold /\ camera'.timer = camera.timer
    BY <1>0, <2>1 DEF Camera
  <2> QED BY <2>1, <2>2 DEF InputInv
<1>4. CASE VI!WheelEnds
  <2>1. [camera EXCEPT !.wheel = FALSE] \in Camera
    BY <1>0 DEF Camera
  <2>2. camera' \in Camera /\ ~camera'.navigating /\ (camera'.untold => camera'.timer) /\ camera'.enabled = camera.enabled
    BY <1>4, <2>1, CameraIs DEF VI!WheelEnds, InputInv, Camera
  <2> QED BY <1>4, <2>2 DEF VI!WheelEnds, InputInv, Press
<1>5. CASE VI!flushNavigationMove
  BY <1>5 DEF VI!flushNavigationMove, VI!Moved, InputInv, Camera, Press
<1>6. CASE VI!handleDoubleClick
  BY <1>6 DEF VI!handleDoubleClick, VI!Animate, VI!Navigate, InputInv, Camera, Press
<1>7. ASSUME NEW more \in BOOLEAN, VI!flushWheelZoom(more) PROVE InputInv'
  <2>1. CASE camera.wheel
    BY <1>7, <2>1 DEF VI!flushWheelZoom, VI!Moved, InputInv, Camera, Press
  <2>2. CASE ~camera.wheel
    BY <1>7, <2>2 DEF VI!flushWheelZoom, InputInv, Camera, Press
  <2> QED BY <2>1, <2>2
<1>8. ASSUME NEW last \in BOOLEAN, VI!AnimationFrame(last) PROVE InputInv'
  <2>1. CASE ~last
    BY <1>8, <2>1 DEF VI!AnimationFrame, VI!Moved, InputInv, Camera, Press
  <2>2. CASE last
    <3> DEFINE c == [VI!Moved(camera) EXCEPT !.turning = FALSE]
    <3>1. c \in Camera /\ c.timer /\ c.enabled = camera.enabled
      BY <1>0 DEF Camera, VI!Moved
    <3> HIDE DEF c
    <3>2. camera' = VI!Rest(c)
      BY <1>8, <2>2 DEF VI!AnimationFrame, c
    <3>3. camera' \in Camera /\ ~camera'.navigating /\ (camera'.untold => camera'.timer)
      BY <3>1, <3>2, CameraIs
    <3>4. VI!Rest(c).enabled = c.enabled
      BY <3>1 DEF VI!Rest, VI!Told, Camera
    <3> QED BY <1>8, <3>1, <3>2, <3>3, <3>4 DEF VI!AnimationFrame, InputInv, Press
  <2> QED BY <2>1, <2>2
<1> QED BY <1>1, <1>2, <1>3, <1>4, <1>5, <1>6, <1>7, <1>8

\* A button goes down, on the cube or on the scene.
LEMMA DownStep ==
  ASSUME VI!ViewerInputAssumption, InputInv, NEW place \in VI!Places, NEW held \in {"first", "second", "finger"},
         VI!handlePointerDown(place, held)
  PROVE  InputInv'
<1> USE DEF VI!NavigatingIsBacked, VI!MovesAreTold, VI!OneHolder
<1>1. CASE place \in CubeFaces
  <2>1. /\ press' = [press EXCEPT !.held = held, !.cube = place] /\ press.drag = "none"
        /\ camera' = [camera EXCEPT !.enabled = FALSE]
    BY <1>1 DEF VI!handlePointerDown
  <2>2. /\ camera' \in Camera /\ ~camera'.enabled
        /\ \A f \in {"navigating", "wheel", "turning", "orbit", "untold", "timer"} : camera'[f] = camera[f]
    BY <2>1 DEF InputInv, Camera
  <2>3. press' \in Press /\ press'.drag = "none"
    BY <1>1, <2>1 DEF InputInv, Press
  <2> QED BY <2>1, <2>2, <2>3 DEF InputInv
<1>2. CASE place \notin CubeFaces
  <2>1. press.drag = "none" /\ camera \in Camera /\ press \in Press
    BY DEF VI!handlePointerDown, InputInv
  <2>2. press' \in Press /\ press'.cube = NoPart
    <3>1. CASE held = "second"
      BY <1>2, <2>1, <3>1 DEF VI!handlePointerDown, Press
    <3>2. CASE held # "second"
      <4>1. press' = [held |-> held, cube |-> NoPart, drag |-> IF held = "finger" THEN "none" ELSE "still",
                      owed |-> FALSE, down |-> TRUE, armed |-> picks.tool = "capturing"]
        BY <1>2, <3>2 DEF VI!handlePointerDown, VI!NoPress
      <4>2. (picks.tool = "capturing") \in BOOLEAN /\ (IF held = "finger" THEN "none" ELSE "still") \in {"none", "still", "moved"}
        OBVIOUS
      <4>3. press'.held \in {"none", "first", "second", "finger"} /\ press'.cube = NoPart
        BY <4>1
      <4> QED BY <4>1, <4>2, <4>3 DEF Press
    <3> QED BY <3>1, <3>2
  <2>3. camera' \in Camera /\ camera'.untold = camera.untold /\ camera'.timer = camera.timer
    BY <1>2, <2>1 DEF VI!handlePointerDown, VI!Navigate, Camera
  <2>4. camera'.navigating => camera'.wheel \/ camera'.turning \/ camera'.orbit
    BY <1>2, <2>1 DEF VI!handlePointerDown, VI!Navigate, Camera, InputInv
  <2> QED BY <2>2, <2>3, <2>4 DEF InputInv
<1> QED BY <1>1, <1>2

\* The pointer moves or leaves.
LEMMA MoveSteps ==
  ASSUME InputInv,
         \/ \E place \in VI!Places, far \in BOOLEAN : VI!handlePointerMove(place, far)
         \/ VI!ReleasedOutside \/ VI!handlePointerLeave
  PROVE  InputInv'
<1> USE DEF VI!NavigatingIsBacked, VI!MovesAreTold, VI!OneHolder
<1>1. ASSUME NEW place \in VI!Places, NEW far \in BOOLEAN, VI!handlePointerMove(place, far) PROVE InputInv'
  <2>1. CASE press' = [press EXCEPT !.down = FALSE, !.armed = FALSE] /\ UNCHANGED camera
    BY <2>1 DEF InputInv, Press
  <2>2. CASE /\ press.cube = NoPart /\ press' = [press EXCEPT !.drag = "moved", !.owed = TRUE]
             /\ camera' = IF press.drag = "still" THEN VI!Navigate(camera) ELSE camera
    BY <2>2 DEF InputInv, Press, Camera, VI!Navigate
  <2>3. CASE camera' = VI!Moved(camera) /\ UNCHANGED press
    BY <2>3 DEF InputInv, Camera, VI!Moved
  <2> QED BY <1>1, <2>1, <2>2, <2>3 DEF VI!handlePointerMove
<1>2. CASE VI!ReleasedOutside \/ VI!handlePointerLeave
  BY <1>2 DEF VI!ReleasedOutside, VI!handlePointerLeave, InputInv, Press
<1> QED BY <1>1, <1>2

\* A button goes up: a drag or an orbit ends with it.
LEMMA UpStep ==
  ASSUME InputInv, NEW place \in VI!Places, NEW far \in BOOLEAN, NEW alt \in BOOLEAN, NEW additive \in BOOLEAN,
         VI!handlePointerUp(place, far, alt, additive)
  PROVE  InputInv'
<1> USE DEF VI!NavigatingIsBacked, VI!MovesAreTold, VI!OneHolder
<1> DEFINE ended == [camera EXCEPT !.orbit = FALSE]
           orbited == IF press.held # "first" /\ camera.orbit THEN VI!Rest(ended) ELSE camera
<1>0. camera \in Camera /\ press \in Press
  BY DEF InputInv
<1>1. ended \in Camera /\ (ended.untold => ended.timer) /\ ended.turning = camera.turning /\ ended.wheel = camera.wheel
  BY <1>0 DEF Camera, InputInv
<1> HIDE DEF ended
<1>2. /\ orbited \in Camera /\ (orbited.untold => orbited.timer)
      /\ orbited.navigating => press.drag = "moved" \/ orbited.wheel \/ orbited.turning \/ orbited.orbit
  BY <1>0, <1>1, CameraIs DEF InputInv
<1>3. \/ /\ press' = [press EXCEPT !.held = "none", !.cube = NoPart]
         /\ camera' = IF place = press.cube THEN VI!Animate([orbited EXCEPT !.enabled = TRUE])
                      ELSE [orbited EXCEPT !.enabled = TRUE]
      \/ /\ press' = VI!NoPress
         /\ camera' = LET flushed == IF press.drag # "none" /\ press.owed THEN VI!Moved(orbited) ELSE orbited
                      IN  IF press.drag = "moved" THEN VI!Rest(flushed) ELSE flushed
  BY DEF VI!handlePointerUp, ended
<1> HIDE DEF orbited
<1>4. CASE /\ press' = [press EXCEPT !.held = "none", !.cube = NoPart]
           /\ camera' = IF place = press.cube THEN VI!Animate([orbited EXCEPT !.enabled = TRUE])
                        ELSE [orbited EXCEPT !.enabled = TRUE]
  BY <1>0, <1>2, <1>4 DEF InputInv, Camera, Press, VI!Animate, VI!Navigate
<1>5. CASE /\ press' = VI!NoPress
           /\ camera' = LET flushed == IF press.drag # "none" /\ press.owed THEN VI!Moved(orbited) ELSE orbited
                        IN  IF press.drag = "moved" THEN VI!Rest(flushed) ELSE flushed
  <2> DEFINE flushed == IF press.drag # "none" /\ press.owed THEN VI!Moved(orbited) ELSE orbited
  <2>1. /\ flushed \in Camera /\ (flushed.untold => flushed.timer) /\ flushed.navigating = orbited.navigating
        /\ flushed.wheel = orbited.wheel /\ flushed.turning = orbited.turning /\ flushed.orbit = orbited.orbit
    BY <1>2 DEF Camera, VI!Moved
  <2>2. camera' = IF press.drag = "moved" THEN VI!Rest(flushed) ELSE flushed
    BY <1>5
  <2> HIDE DEF flushed
  <2>3. /\ camera' \in Camera /\ (camera'.untold => camera'.timer)
        /\ camera'.navigating => camera'.wheel \/ camera'.turning \/ camera'.orbit
    BY <1>2, <2>1, <2>2, CameraIs
  <2>4. press' \in Press /\ press'.cube = NoPart
    BY <1>5 DEF VI!NoPress, Press
  <2> QED BY <2>3, <2>4 DEF InputInv
<1> QED BY <1>3, <1>4, <1>5

\* What interrupts everything, and what only picks or hides.
LEMMA OtherInputs ==
  ASSUME InputInv,
         \/ VI!onLostPointerCapture \/ VI!cancelViewerInteraction \/ VI!Escape
         \/ \E place \in VI!Places, alt \in BOOLEAN : VI!HoverFrame(place, alt)
         \/ \E d \in {-1, 1} : VI!Tab(d)
         \/ VI!toggleProbeTool \/ \E chosen \in BOOLEAN : VI!selectField(chosen)
         \/ \E p \in Parts : VI!toggleGroupVisibility(p) \/ VI!SelectInLegend(p)
         \/ \E t \in {"off", "capturing", "done"}, y \in Policies : VI!ToolChanges(t, y)
  PROVE  InputInv'
<1>0. camera \in Camera /\ press \in Press
  BY DEF InputInv
<1>1. CASE VI!onLostPointerCapture \/ VI!cancelViewerInteraction
  BY <1>0, <1>1, Interrupted DEF VI!onLostPointerCapture, VI!cancelViewerInteraction, InputInv, VI!MovesAreTold
<1>2. CASE VI!Escape
  <2>0. LET c == [camera EXCEPT !.turning = FALSE]
        IN  c \in Camera /\ c.untold = camera.untold /\ c.timer = camera.timer
    BY <1>0 DEF Camera
  <2>1. PICK c \in Camera : c = [camera EXCEPT !.turning = FALSE] /\ c.untold = camera.untold /\ c.timer = camera.timer
    BY <2>0
  <2> QED BY <1>2, <2>1, Interrupted DEF VI!Escape, InputInv, VI!MovesAreTold
<1>3. ASSUME NEW p \in Parts, VI!toggleGroupVisibility(p) PROVE InputInv'
  <2>1. (camera' = camera \/ camera' = VI!Animate(camera)) /\ press' = press
    BY <1>3 DEF VI!toggleGroupVisibility
  <2> QED BY <1>0, <2>1 DEF VI!Animate, VI!Navigate, InputInv, Camera, VI!NavigatingIsBacked, VI!MovesAreTold, VI!OneHolder
<1>4. CASE \/ \E place \in VI!Places, alt \in BOOLEAN : VI!HoverFrame(place, alt)
           \/ \E d \in {-1, 1} : VI!Tab(d)
           \/ VI!toggleProbeTool \/ \E chosen \in BOOLEAN : VI!selectField(chosen)
           \/ \E p \in Parts : VI!SelectInLegend(p)
           \/ \E t \in {"off", "capturing", "done"}, y \in Policies : VI!ToolChanges(t, y)
  <2>1. UNCHANGED <<camera, press>>
    BY <1>4 DEF VI!HoverFrame, VI!Tab, VI!toggleProbeTool, VI!selectField, VI!SelectInLegend, VI!ToolChanges
  <2> QED BY <2>1 DEF InputInv, VI!NavigatingIsBacked, VI!MovesAreTold, VI!OneHolder
<1> QED BY <1>1, <1>2, <1>3, <1>4

LEMMA InputInit == VI!Init => InputInv
  BY DEF VI!Init, VI!NoPress, InputInv, Camera, Press, VI!NavigatingIsBacked, VI!MovesAreTold, VI!OneHolder

LEMMA InputNext == VI!ViewerInputAssumption /\ InputInv /\ [VI!Next]_VI!inputVars => InputInv'
<1> SUFFICES ASSUME VI!ViewerInputAssumption, InputInv, [VI!Next]_VI!inputVars PROVE InputInv'
  OBVIOUS
<1>1. CASE UNCHANGED VI!inputVars
  BY <1>1 DEF VI!inputVars, InputInv, VI!NavigatingIsBacked, VI!MovesAreTold, VI!OneHolder
<1>2. CASE VI!Next
  BY <1>2, CameraSteps, DownStep, MoveSteps, UpStep, OtherInputs DEF VI!Next
<1> QED BY <1>1, <1>2

LEMMA InputAlways == VI!ViewerInputAssumption => (VI!Spec => []InputInv)
<1> SUFFICES ASSUME VI!ViewerInputAssumption PROVE VI!Spec => []InputInv
  OBVIOUS
<1> QED BY InputInit, InputNext, PTL DEF VI!Spec

\* The viewer draws coarsely only while a drag, the wheel, an animation or an
\* orbit moves the camera, in whatever order buttons, keys, frames and
\* interruptions come (setCameraNavigationActive).
THEOREM NavigationIsBacked == VI!ViewerInputAssumption => (VI!Spec => []VI!NavigatingIsBacked)
<1> SUFFICES ASSUME VI!ViewerInputAssumption PROVE VI!Spec => []VI!NavigatingIsBacked
  OBVIOUS
<1>1. InputInv => VI!NavigatingIsBacked
  BY DEF InputInv
<1> QED BY <1>1, InputAlways, PTL

\* The owner of a viewer is told of every pose the camera is left in
\* (scheduleCameraState).
THEOREM PosesAreTold == VI!ViewerInputAssumption => (VI!Spec => []VI!MovesAreTold)
<1> SUFFICES ASSUME VI!ViewerInputAssumption PROVE VI!Spec => []VI!MovesAreTold
  OBVIOUS
<1>1. InputInv => VI!MovesAreTold
  BY DEF InputInv
<1> QED BY <1>1, InputAlways, PTL

\* A press on the navigation cube holds the pointer alone, also when its
\* release was never seen (handlePointerDown, handlePointerUp).
THEOREM CubeHoldsAlone == VI!ViewerInputAssumption => (VI!Spec => []VI!OneHolder)
<1> SUFFICES ASSUME VI!ViewerInputAssumption PROVE VI!Spec => []VI!OneHolder
  OBVIOUS
<1>1. InputInv => VI!OneHolder
  BY DEF InputInv
<1> QED BY <1>1, InputAlways, PTL

-----------------------------------------------------------------------------
(***************************************************************************)
(* The editor of a Draft.  The documents that are around are documents,    *)
(* and a patch that waits is for another Draft than the one edited: one    *)
(* for this Draft is taken when it is committed, never behind a save.      *)
(***************************************************************************)
EditorFields == {"on", "draft", "baseline", "doc", "broken", "dirty", "past", "future", "timer", "checking", "verdict",
                 "ai", "urgent", "saving", "failed"}
EditedPageFields == {"panel", "active", "detail", "dirty", "guard", "next", "patch", "settings"}
Holds(e) ==
  /\ DOMAIN e = EditorFields
  /\ e.on => e.draft \in Drafts /\ e.baseline \in Docs /\ e.doc \in Docs /\ e.past \in Seq(Docs) /\ e.future \in Seq(Docs)
DetailTyped(d) == DOMAIN d = {"draft", "doc", "schema"} /\ d.draft \in Drafts /\ d.doc \in Docs /\ d.schema \in Docs
PageHolds(p) ==
  /\ DOMAIN p = EditedPageFields /\ p.active \in Drafts /\ p.next \in Drafts \cup {None}
  /\ p.detail # None => DetailTyped(p.detail)
  /\ p.patch # None => p.patch.of \in Patches
  /\ p.settings # None => p.settings \in Docs
Saving(s) == DOMAIN s = {"draft", "doc", "stored", "matches", "closing"} /\ s.doc \in Docs
SavesHold(c) ==
  /\ DOMAIN c = {"save", "orphans", "entity"}
  /\ c.save # None => Saving(c.save)
  /\ \A s \in c.orphans : Saving(s)
  /\ c.entity # None => c.entity.doc \in Docs
NoPatchWaits(p, e) == ~ (e.on /\ p.patch # None /\ p.patch.draft = e.draft)
EditorInv ==
  /\ remote \in [Drafts -> Docs]
  /\ Holds(editor) /\ PageHolds(page) /\ SavesHold(saves) /\ NoPatchWaits(page, editor)

\* From one editor to the next, what was in it is still within reach.
Keeps(e, f) ==
  e.on /\ f.on /\ f.draft = e.draft /\ f.doc # e.doc
    => \/ e.doc \in DE!Recoverable(f)
       \/ f.doc = f.baseline /\ ~f.dirty

-----------------------------------------------------------------------------
\* A validation that is armed, or is not, leaves what is edited alone.
EditedParts == EditorFields \ {"timer", "checking", "verdict", "urgent"}
LEMMA RevalidateIs ==
  ASSUME NEW old, NEW e, DOMAIN e = EditorFields
  PROVE  LET r == DE!Revalidate(old, e)
         IN  DOMAIN r = EditorFields /\ \A f \in EditedParts : r[f] = e[f]
  BY DEF DE!Revalidate, EditedParts, EditorFields

LEMMA ReplaceIs ==
  ASSUME NEW e, DOMAIN e = EditorFields, NEW next
  PROVE  LET r == DE!replaceCandidate(e, next)
         IN  /\ DOMAIN r = EditorFields /\ r.doc = next /\ r.dirty = (next # e.baseline)
             /\ r.on = e.on /\ r.draft = e.draft /\ r.baseline = e.baseline /\ r.past = e.past /\ r.future = e.future
<1> DEFINE w == [e EXCEPT !.doc = next, !.broken = FALSE, !.failed = FALSE, !.dirty = next # e.baseline]
<1>1. /\ DOMAIN w = EditorFields /\ w.doc = next /\ w.dirty = (next # e.baseline)
      /\ w.on = e.on /\ w.draft = e.draft /\ w.baseline = e.baseline /\ w.past = e.past /\ w.future = e.future
  BY DEF EditorFields
<1>2. DE!replaceCandidate(e, next) = DE!Revalidate(e, w)
  BY DEF DE!replaceCandidate
<1> HIDE DEF w
<1>3. {"on", "draft", "baseline", "doc", "dirty", "past", "future"} \subseteq EditedParts
  BY DEF EditedParts, EditorFields
<1> QED BY <1>1, <1>2, <1>3, RevalidateIs

\* The newest entries of a history have the last one.
LEMMA NewestHas ==
  ASSUME DE!DraftEditorAssumption, NEW h \in Seq(Docs), NEW d \in Docs
  PROVE  DE!Newest(Append(h, d)) \in Seq(Docs) /\ d \in DE!ToSet(DE!Newest(Append(h, d)))
<1> DEFINE l == Append(h, d)
<1>1. l \in Seq(Docs) /\ Len(l) = Len(h) + 1 /\ l[Len(l)] = d /\ Len(h) \in Nat
  OBVIOUS
<1> HIDE DEF l
<1>2. CASE Len(l) > MaxHistory
  <2>1. Len(l) >= 2  BY <1>1, <1>2 DEF DE!DraftEditorAssumption
  <2>2. Tail(l) \in Seq(Docs) /\ Len(Tail(l)) = Len(l) - 1 /\ \A i \in 1..Len(l) - 1 : Tail(l)[i] = l[i + 1]
    BY <1>1, <2>1
  <2>3. Len(l) - 1 \in DOMAIN Tail(l) /\ Tail(l)[Len(l) - 1] = d
    BY <1>1, <2>1, <2>2
  <2> QED BY <1>2, <2>2, <2>3 DEF DE!Newest, DE!ToSet, l
<1>3. CASE ~(Len(l) > MaxHistory)
  <2>1. Len(l) \in DOMAIN l  BY <1>1
  <2> QED BY <1>1, <1>3, <2>1 DEF DE!Newest, DE!ToSet, l
<1> QED BY <1>2, <1>3

\* A candidate that is applied.
LEMMA ApplyKeeps ==
  ASSUME DE!DraftEditorAssumption, NEW e, Holds(e), e.on, NEW next \in Docs
  PROVE  LET r == DE!applyCandidate(e, next)
         IN  Holds(r) /\ Keeps(e, r) /\ r.on /\ r.draft = e.draft
<1> DEFINE w == DE!replaceCandidate(e, next)
           more == DE!Newest(Append(e.past, e.doc))
           pushed == IF e.doc = next THEN e ELSE [e EXCEPT !.past = more, !.future = <<>>]
           r == [w EXCEPT !.past = pushed.past, !.future = pushed.future]
<1>1. /\ DOMAIN w = EditorFields /\ w.doc = next /\ w.on = e.on /\ w.draft = e.draft /\ w.baseline = e.baseline
  BY ReplaceIs DEF Holds
<1>2. more \in Seq(Docs) /\ e.doc \in DE!ToSet(more)
  BY NewestHas DEF Holds
<1>3. r = DE!applyCandidate(e, next)
  BY DEF DE!applyCandidate
<1> HIDE DEF w, more
<1>4. /\ pushed.past \in Seq(Docs) /\ pushed.future \in Seq(Docs)
      /\ e.doc # next => pushed.past = more
  BY <1>2 DEF Holds, EditorFields
<1> HIDE DEF pushed
<1>5. /\ DOMAIN r = EditorFields /\ r.doc = next /\ r.on = e.on /\ r.draft = e.draft /\ r.baseline = e.baseline
      /\ r.past = pushed.past /\ r.future = pushed.future
  BY <1>1 DEF EditorFields
<1> HIDE DEF r
<1>6. Holds(r)
  BY <1>4, <1>5 DEF Holds
<1>7. Keeps(e, r)
  BY <1>2, <1>4, <1>5 DEF Keeps, DE!Recoverable
<1> QED BY <1>3, <1>5, <1>6, <1>7

\* The patches that wait are taken, by the editor of their Draft.
LEMMA TakePatchIs ==
  ASSUME DE!DraftEditorAssumption, NEW p, PageHolds(p), NEW e, Holds(e)
  PROVE  LET t == DE!TakePatch(p, e)
         IN  /\ Holds(t.editor) /\ PageHolds(t.page) /\ NoPatchWaits(t.page, t.editor) /\ Keeps(e, t.editor)
             /\ NoPatchWaits(p, e) => t.editor = e
             /\ t.editor.on = e.on /\ t.editor.draft = e.draft /\ (e.on => t.editor.on)
             /\ t.page.panel = p.panel /\ t.page.detail = p.detail
<1> DEFINE takes == e.on /\ p.patch # None /\ p.patch.draft = e.draft
           t == DE!TakePatch(p, e)
<1>1. CASE takes
  <2> DEFINE q == [p EXCEPT !.patch = None]
             next == p.patch.of[e.doc]
             r == DE!applyCandidate(e, next)
  <2>1. next \in Docs
    BY <1>1 DEF PageHolds, Holds, DE!DraftEditorAssumption
  <2>2. Holds(r) /\ Keeps(e, r) /\ r.on /\ r.draft = e.draft
    BY <1>1, <2>1, ApplyKeeps
  <2>3. t.page = q /\ t.editor = r
    BY <1>1 DEF DE!TakePatch
  <2>4. PageHolds(q) /\ q.patch = None /\ q.panel = p.panel /\ q.detail = p.detail
    BY DEF PageHolds, EditedPageFields
  <2>5. r.on = e.on
    <3>1. r.on = DE!replaceCandidate(e, next).on
      <4>1. DOMAIN DE!replaceCandidate(e, next) = EditorFields  BY ReplaceIs DEF Holds
      <4> QED BY <4>1 DEF DE!applyCandidate, EditorFields
    <3> QED BY <3>1, ReplaceIs DEF Holds
  <2> HIDE DEF q, r, next, t
  <2> QED BY <1>1, <2>2, <2>3, <2>4, <2>5 DEF NoPatchWaits, t
<1>2. CASE ~takes
  <2>1. t.page = p /\ t.editor = e
    BY <1>2 DEF DE!TakePatch
  <2> HIDE DEF t
  <2> QED BY <1>2, <2>1 DEF NoPatchWaits, Keeps, t
<1> QED BY <1>1, <1>2

LEMMA NewEditorIs ==
  ASSUME NEW d, DetailTyped(d)
  PROVE  Holds(DE!NewEditor(d)) /\ DE!NewEditor(d).on /\ DE!NewEditor(d).draft = d.draft
  BY DEF DE!NewEditor, DE!NoEditor, Holds, EditorFields, DetailTyped

\* What is rendered: the editor there was, a new one, or none.
LEMMA CommitKeeps ==
  ASSUME DE!DraftEditorAssumption, EditorInv, remote' = remote, NEW p, PageHolds(p), NEW e, Holds(e), NEW c, SavesHold(c),
         e.on = editor.on, e.draft = editor.draft, Keeps(editor, e),
         e = editor \/ NoPatchWaits(p, e),
         DE!Commit(p, e, c)
  PROVE  EditorInv' /\ Keeps(editor, editor')
<1> DEFINE stays == e.on /\ DE!Shown(p) /\ p.detail.draft = e.draft
           mounted == IF stays THEN e ELSE IF DE!Shown(p) THEN DE!NewEditor(p.detail) ELSE DE!NoEditor
           taken == DE!TakePatch(p, mounted)
           matches == c.save # None /\ DE!Candidate(editor) = c.save.doc
           q == [taken.page EXCEPT !.dirty = IF DE!Shown(p) THEN taken.editor.dirty ELSE @,
                                   !.guard = IF p.panel = "parameters" THEN @ ELSE "closed",
                                   !.settings = IF stays THEN @ ELSE None]
<1>1. editor' = taken.editor /\ page' = q /\ saves' = IF stays \/ ~e.on THEN c ELSE DE!Orphaned(c, matches)
  BY DEF DE!Commit
<1>2. Holds(mounted)
  BY NewEditorIs DEF DE!Shown, PageHolds, DE!NoEditor, Holds, EditorFields
<1>3. Keeps(editor, mounted) /\ (mounted = editor \/ NoPatchWaits(p, mounted) \/ ~(mounted.on /\ editor.on /\ mounted.draft = editor.draft))
  <2>1. CASE stays  BY <2>1
  <2>2. CASE ~stays /\ DE!Shown(p)
    <3>1. mounted.draft = p.detail.draft
      BY <2>2, NewEditorIs DEF DE!Shown, PageHolds
    <3>2. ~(editor.on /\ mounted.draft = editor.draft)
      BY <2>2, <3>1
    <3> HIDE DEF mounted
    <3> QED BY <3>2 DEF Keeps
  <2>3. CASE ~stays /\ ~DE!Shown(p)
    <3>1. ~mounted.on
      BY <2>3 DEF DE!NoEditor
    <3> HIDE DEF mounted
    <3> QED BY <3>1 DEF Keeps
  <2> QED BY <2>1, <2>2, <2>3
<1> HIDE DEF mounted
<1>4. /\ Holds(taken.editor) /\ PageHolds(taken.page) /\ NoPatchWaits(taken.page, taken.editor) /\ Keeps(mounted, taken.editor)
      /\ NoPatchWaits(p, mounted) => taken.editor = mounted
      /\ taken.editor.on = mounted.on /\ taken.editor.draft = mounted.draft
  BY <1>2, TakePatchIs
<1>5. Keeps(editor, taken.editor)
  <2>1. CASE mounted = editor  BY <1>4, <2>1
  <2>2. CASE NoPatchWaits(p, mounted)  BY <1>3, <1>4, <2>2
  <2>3. CASE ~(mounted.on /\ editor.on /\ mounted.draft = editor.draft)  BY <1>4, <2>3 DEF Keeps
  <2> QED BY <1>3, <2>1, <2>2, <2>3
<1> HIDE DEF taken
<1>6. PageHolds(q) /\ q.patch = taken.page.patch
  <2> DEFINE s == IF stays THEN taken.page.settings ELSE None
  <2>1. s # None => s \in Docs  BY <1>4 DEF PageHolds
  <2>2. /\ DOMAIN q = EditedPageFields /\ q.active = taken.page.active /\ q.next = taken.page.next
        /\ q.detail = taken.page.detail /\ q.patch = taken.page.patch /\ q.settings = s
    BY <1>4 DEF PageHolds, EditedPageFields
  <2> HIDE DEF q, s
  <2> QED BY <1>4, <2>1, <2>2 DEF PageHolds
<1> HIDE DEF q, stays
<1>7. SavesHold(DE!Orphaned(c, matches))
  <2>1. CASE c.save = None  BY <2>1 DEF DE!Orphaned
  <2>2. CASE c.save # None
    <3> DEFINE s == [c.save EXCEPT !.matches = matches, !.closing = FALSE]
               d == [c EXCEPT !.save = None, !.orphans = c.orphans \union {s}]
    <3>1. Saving(s)  BY <2>2 DEF SavesHold, Saving
    <3> HIDE DEF s
    <3>2. DOMAIN d = DOMAIN c /\ d.save = None /\ d.orphans = c.orphans \union {s} /\ d.entity = c.entity
      BY DEF SavesHold
    <3>3. DE!Orphaned(c, matches) = d  BY <2>2 DEF DE!Orphaned, s
    <3> HIDE DEF d
    <3> QED BY <3>1, <3>2, <3>3 DEF SavesHold
  <2> QED BY <2>1, <2>2
<1> HIDE DEF matches
<1>8. NoPatchWaits(q, taken.editor)
  BY <1>4, <1>6 DEF NoPatchWaits
<1> QED BY <1>1, <1>4, <1>5, <1>6, <1>7, <1>8 DEF EditorInv

-----------------------------------------------------------------------------
\* The page's own operations.
LEMMA PageOps ==
  ASSUME NEW p, PageHolds(p)
  PROVE  /\ \A d \in Drafts : PageHolds(DE!Activate(p, d)) /\ DE!Activate(p, d).patch = p.patch
         /\ PageHolds(DE!closePanel(p)) /\ DE!closePanel(p).patch = p.patch
         /\ PageHolds(DE!requestClose(p))
         /\ \A d \in Docs : PageHolds(DE!Synced(p, d)) /\ DE!Synced(p, d).patch = p.patch
<1>1. ASSUME NEW q, PageHolds(q), NEW d \in Drafts
      PROVE  PageHolds(DE!Activate(q, d)) /\ DE!Activate(q, d).patch = q.patch
  BY <1>1 DEF DE!Activate, PageHolds, EditedPageFields
<1>2. PageHolds(DE!closePanel(p)) /\ DE!closePanel(p).patch = p.patch
  <2> DEFINE q == [p EXCEPT !.panel = "none", !.dirty = FALSE, !.next = None]
  <2>1. PageHolds(q) /\ q.patch = p.patch  BY DEF PageHolds, EditedPageFields
  <2>2. DE!closePanel(p) = IF p.next = None THEN q ELSE DE!Activate(q, p.next)  BY DEF DE!closePanel
  <2> HIDE DEF q
  <2>3. p.next # None => p.next \in Drafts  BY DEF PageHolds
  <2> QED BY <1>1, <2>1, <2>2, <2>3
<1>3. PageHolds(DE!requestClose(p))
  <2>1. PageHolds([p EXCEPT !.guard = "open"])  BY DEF PageHolds, EditedPageFields
  <2> QED BY <1>2, <2>1 DEF DE!requestClose
<1>4. ASSUME NEW d \in Docs
      PROVE  PageHolds(DE!Synced(p, d)) /\ DE!Synced(p, d).patch = p.patch
  <2>1. CASE p.detail = None  BY <2>1 DEF DE!Synced
  <2>2. CASE p.detail # None
    <3> DEFINE detail == [p.detail EXCEPT !.doc = d]
               q == [p EXCEPT !.detail = detail]
    <3>1. DetailTyped(detail)  BY <2>2 DEF PageHolds, DetailTyped
    <3> HIDE DEF detail
    <3>2. PageHolds(q) /\ q.patch = p.patch  BY <3>1 DEF PageHolds, EditedPageFields
    <3>3. DE!Synced(p, d) = q  BY <2>2 DEF DE!Synced, detail
    <3> QED BY <3>2, <3>3
  <2> QED BY <2>1, <2>2
<1> QED BY <1>1, <1>2, <1>3, <1>4

\* A step that renders the page p: the editor is what it was, or new, or gone.
LEMMA Renders ==
  ASSUME DE!DraftEditorAssumption, EditorInv, remote' = remote, NEW p, PageHolds(p), DE!Commit(p, editor, saves)
  PROVE  EditorInv' /\ Keeps(editor, editor')
<1>1. Keeps(editor, editor)  BY DEF Keeps
<1> QED BY <1>1, CommitKeeps DEF EditorInv

\* A step within the editor, or beside it.
LEMMA EditStep ==
  ASSUME EditorInv, remote' \in [Drafts -> Docs], Holds(editor'), editor'.on = editor.on, editor'.draft = editor.draft,
         editor'.doc = editor.doc \/ Keeps(editor, editor'),
         PageHolds(page'), page'.patch = page.patch, SavesHold(saves')
  PROVE  EditorInv' /\ Keeps(editor, editor')
  BY DEF EditorInv, NoPatchWaits, Keeps

\* What the page learns of a candidate.
LEMMA DirtyIs ==
  ASSUME EditorInv, NEW d
  PROVE  PageHolds([page EXCEPT !.dirty = d]) /\ [page EXCEPT !.dirty = d].patch = page.patch
  BY DEF EditorInv, PageHolds, EditedPageFields

LEMMA EditedStep ==
  ASSUME EditorInv, NEW e, Holds(e), e.on = editor.on, e.draft = editor.draft, e.doc = editor.doc \/ Keeps(editor, e),
         DE!Edited(e), UNCHANGED <<remote, saves>>
  PROVE  EditorInv' /\ Keeps(editor, editor')
<1>1. editor' = e /\ page' = [page EXCEPT !.dirty = e.dirty]  BY DEF DE!Edited
<1>2. PageHolds(page') /\ page'.patch = page.patch  BY <1>1, DirtyIs
<1>3. remote' \in [Drafts -> Docs] /\ SavesHold(saves')  BY DEF EditorInv
<1> QED BY <1>1, <1>2, <1>3, EditStep

-----------------------------------------------------------------------------
LEMMA EditorInit ==
  ASSUME DE!DraftEditorAssumption, DE!Init
  PROVE  EditorInv
<1>1. remote \in [Drafts -> Docs]  BY DEF DE!Init
<1>2. Holds(editor) /\ ~editor.on  BY DEF DE!Init, DE!NoEditor, Holds, EditorFields
<1>3. PageHolds(page)  BY DEF DE!Init, PageHolds, EditedPageFields
<1>4. SavesHold(saves)  BY DEF DE!Init, DE!NoCalls, SavesHold
<1> QED BY <1>1, <1>2, <1>3, <1>4 DEF EditorInv, NoPatchWaits

\* The page opens, closes and loads; the dialog.
LEMMA PageSteps ==
  ASSUME DE!DraftEditorAssumption, EditorInv,
         \/ \E d \in Drafts : DE!OpenDraft(d)
         \/ DE!Configure \/ DE!TogglePanel \/ DE!CloseOtherPanel \/ DE!ConfirmCopilotPatch
         \/ DE!CloseDialog \/ DE!DiscardAndClose \/ DE!LoadDraftDetail
  PROVE  EditorInv' /\ Keeps(editor, editor')
<1>0. PageHolds(page) /\ remote \in [Drafts -> Docs]  BY DEF EditorInv
<1> SUFFICES \E p : PageHolds(p) /\ DE!Commit(p, editor, saves) /\ remote' = remote
  BY Renders
<1>1. ASSUME NEW d \in Drafts, DE!OpenDraft(d)
      PROVE  \E p : PageHolds(p) /\ DE!Commit(p, editor, saves) /\ remote' = remote
  <2>1. PageHolds([page EXCEPT !.next = d])  BY <1>0 DEF PageHolds, EditedPageFields
  <2>2. PageHolds([page EXCEPT !.panel = "none"])  BY <1>0 DEF PageHolds, EditedPageFields
  <2>3. /\ PageHolds(DE!requestClose([page EXCEPT !.next = d]))
        /\ PageHolds(DE!Activate([page EXCEPT !.panel = "none"], d))
    BY <2>1, <2>2, PageOps
  <2> QED BY <1>1, <2>3 DEF DE!OpenDraft
<1>2. CASE DE!Configure
  <2>1. PageHolds([page EXCEPT !.panel = "parameters"])  BY <1>0 DEF PageHolds, EditedPageFields
  <2> QED BY <1>2, <2>1 DEF DE!Configure
<1>3. CASE DE!TogglePanel
  <2>1. PageHolds([page EXCEPT !.panel = IF @ = "other" THEN "none" ELSE "other"])
    BY <1>0 DEF PageHolds, EditedPageFields
  <2> QED BY <1>3, <2>1 DEF DE!TogglePanel
<1>4. CASE DE!CloseOtherPanel
  BY <1>0, <1>4, PageOps DEF DE!CloseOtherPanel
<1>5. CASE DE!ConfirmCopilotPatch
  <2>1. PICK f \in Patches : DE!Commit([page EXCEPT !.patch = [draft |-> page.active, of |-> f], !.panel = "parameters"], editor, saves)
    BY <1>5 DEF DE!ConfirmCopilotPatch
  <2> DEFINE patch == [draft |-> page.active, of |-> f]
             p == [page EXCEPT !.patch = patch, !.panel = "parameters"]
  <2>2. patch.of \in Patches  OBVIOUS
  <2> HIDE DEF patch
  <2>3. PageHolds(p)  BY <1>0, <2>2 DEF PageHolds, EditedPageFields
  <2>4. DE!Commit(p, editor, saves)  BY <2>1 DEF patch
  <2> QED BY <1>5, <2>3, <2>4 DEF DE!ConfirmCopilotPatch
<1>6. CASE DE!CloseDialog
  BY <1>0, <1>6, PageOps DEF DE!CloseDialog
<1>7. CASE DE!DiscardAndClose
  <2>1. PageHolds([page EXCEPT !.guard = "closed"])  BY <1>0 DEF PageHolds, EditedPageFields
  <2>2. PageHolds(DE!closePanel([page EXCEPT !.guard = "closed"]))  BY <2>1, PageOps
  <2> QED BY <1>7, <2>2 DEF DE!DiscardAndClose
<1>8. CASE DE!LoadDraftDetail
  <2> DEFINE detail == [draft |-> page.active, doc |-> remote[page.active], schema |-> remote[page.active]]
             p == [page EXCEPT !.detail = detail]
  <2>1. DetailTyped(detail)  BY <1>0 DEF DetailTyped, PageHolds
  <2>2. DE!Commit(p, editor, saves) /\ remote' = remote  BY <1>8 DEF DE!LoadDraftDetail
  <2> HIDE DEF detail
  <2>3. PageHolds(p)  BY <1>0, <2>1 DEF PageHolds, EditedPageFields
  <2> QED BY <2>2, <2>3
<1> QED BY <1>1, <1>2, <1>3, <1>4, <1>5, <1>6, <1>7, <1>8

\* What leaves the candidate alone.
LEMMA QuietSteps ==
  ASSUME DE!DraftEditorAssumption, EditorInv,
         \/ DE!MutateEntity \/ DE!EntityStored \/ DE!CancelClose \/ DE!SaveAndClose \/ DE!OpenSettings \/ DE!CloseSettings
         \/ DE!ValidationTimer \/ DE!ValidateNow \/ DE!ValidationAnswer \/ DE!AskAI \/ DE!Save \/ DE!SaveFails
         \/ \E s \in saves.orphans \union ({saves.save} \ {None}) : DE!SaveReaches(s)
         \/ \E s \in saves.orphans : DE!OrphanAnswer(s)
  PROVE  EditorInv' /\ Keeps(editor, editor')
<1>0. /\ PageHolds(page) /\ remote \in [Drafts -> Docs] /\ Holds(editor) /\ SavesHold(saves)
      /\ \A d \in Docs : Canon[d] \in Docs
  BY DEF EditorInv, DE!DraftEditorAssumption
<1> DEFINE Like(e) == Holds(e) /\ e.on = editor.on /\ e.draft = editor.draft /\ e.doc = editor.doc
           Page(p) == PageHolds(p) /\ p.patch = page.patch
<1> SUFFICES remote' \in [Drafts -> Docs] /\ Like(editor') /\ Page(page') /\ SavesHold(saves')
  BY EditStep
<1>a. Like(editor) /\ Page(page)  BY <1>0
<1>b. \A x : Page([page EXCEPT !.guard = x])
  BY <1>0 DEF PageHolds, EditedPageFields
<1>1. CASE DE!MutateEntity
  <2>1. PICK f \in Patches : saves' = [saves EXCEPT !.entity = [draft |-> page.detail.draft, doc |-> f[page.detail.doc]]]
    BY <1>1 DEF DE!MutateEntity
  <2> DEFINE entity == [draft |-> page.detail.draft, doc |-> f[page.detail.doc]]
  <2>2. entity.doc \in Docs
    BY <1>0, <1>1 DEF DE!MutateEntity, DE!DraftEditorAssumption, PageHolds, DetailTyped
  <2> HIDE DEF entity
  <2>3. saves' = [saves EXCEPT !.entity = entity]  BY <2>1 DEF entity
  <2>4. SavesHold(saves')  BY <1>0, <2>2, <2>3 DEF SavesHold
  <2> QED BY <1>0, <1>1, <1>a, <2>4 DEF DE!MutateEntity
<1>2. CASE DE!EntityStored
  <2> DEFINE doc == Canon[saves.entity.doc]
  <2>1. doc \in Docs  BY <1>0, <1>2 DEF DE!EntityStored, SavesHold
  <2>2. \/ remote' = [remote EXCEPT ![saves.entity.draft] = doc] /\ page' = DE!Synced(page, doc)
        \/ UNCHANGED <<remote, page>>
    BY <1>2 DEF DE!EntityStored, DE!Synced
  <2>3. saves' = [saves EXCEPT !.entity = None] /\ editor' = editor  BY <1>2 DEF DE!EntityStored
  <2> HIDE DEF doc
  <2>4. remote' \in [Drafts -> Docs]  BY <1>0, <2>1, <2>2
  <2>5. Page(page')  BY <1>0, <1>a, <2>1, <2>2, PageOps
  <2>6. SavesHold(saves')  BY <1>0, <2>3 DEF SavesHold
  <2> QED BY <1>a, <2>3, <2>4, <2>5, <2>6
<1>3. CASE DE!CancelClose
  <2>1. Page([page EXCEPT !.guard = "closed", !.next = None])  BY <1>0 DEF PageHolds, EditedPageFields
  <2> QED BY <1>0, <1>3, <1>a, <2>1 DEF DE!CancelClose
<1>c. ASSUME NEW closing, DE!StartSave(closing), editor.on
      PROVE  Like(editor') /\ SavesHold(saves')
  <2> DEFINE save == [draft |-> editor.draft, doc |-> editor.doc, stored |-> FALSE, matches |-> TRUE, closing |-> closing]
  <2>1. Saving(save)  BY <1>0, <1>c DEF Saving, Holds
  <2>2. editor' = [editor EXCEPT !.saving = TRUE, !.failed = FALSE] /\ saves' = [saves EXCEPT !.save = save]
    BY <1>c DEF DE!StartSave
  <2> HIDE DEF save
  <2>3. Like(editor')  BY <1>0, <2>2 DEF Holds, EditorFields
  <2>4. SavesHold(saves')  BY <1>0, <2>1, <2>2 DEF SavesHold
  <2> QED BY <2>3, <2>4
<1>4. CASE DE!SaveAndClose
  <2>1. CASE DE!CanSave
    <3>1. DE!StartSave(TRUE) /\ editor.on /\ page' = [page EXCEPT !.guard = "saving"] /\ remote' = remote
      BY <1>4, <2>1 DEF DE!SaveAndClose, DE!CanSave
    <3> HIDE DEF Like, Page
    <3> QED BY <1>0, <1>b, <1>c, <3>1
  <2>2. CASE ~DE!CanSave
    BY <1>0, <1>4, <1>a, <2>2 DEF DE!SaveAndClose
  <2> QED BY <2>1, <2>2
<1>5. CASE DE!OpenSettings
  <2>1. editor.on /\ page' = [page EXCEPT !.settings = editor.doc]  BY <1>5 DEF DE!OpenSettings, DE!Reachable
  <2>2. Page(page')  BY <1>0, <2>1 DEF PageHolds, EditedPageFields, Holds
  <2> QED BY <1>0, <1>5, <1>a, <2>2 DEF DE!OpenSettings
<1>6. CASE DE!CloseSettings
  <2>1. Page([page EXCEPT !.settings = None])  BY <1>0 DEF PageHolds, EditedPageFields
  <2> QED BY <1>0, <1>6, <1>a, <2>1 DEF DE!CloseSettings
<1>7. CASE DE!ValidationTimer \/ DE!ValidateNow
  <2>1. PICK doc : editor' = [editor EXCEPT !.timer = None, !.checking = doc, !.verdict = None]
    BY <1>7 DEF DE!ValidationTimer, DE!ValidateNow, DE!ValidateCandidate
  <2>2. Like(editor')  BY <1>0, <2>1 DEF Holds, EditorFields
  <2> QED BY <1>0, <1>7, <1>a, <2>2 DEF DE!ValidationTimer, DE!ValidateNow
<1>8. CASE DE!ValidationAnswer
  <2>1. \/ \E verdict : editor' = [editor EXCEPT !.checking = None, !.verdict = verdict]
        \/ editor' = [editor EXCEPT !.checking = None]
    BY <1>8 DEF DE!ValidationAnswer
  <2>2. Like(editor')  BY <1>0, <2>1 DEF Holds, EditorFields
  <2> QED BY <1>0, <1>8, <1>a, <2>2 DEF DE!ValidationAnswer
<1>9. CASE DE!AskAI
  <2>1. Like([editor EXCEPT !.ai = editor.doc])  BY <1>0 DEF Holds, EditorFields
  <2> QED BY <1>0, <1>9, <1>a, <2>1 DEF DE!AskAI
<1>10. CASE DE!Save
  <2>1. DE!StartSave(FALSE) /\ editor.on /\ UNCHANGED <<remote, page>>  BY <1>10 DEF DE!Save, DE!CanSave
  <2> HIDE DEF Like, Page
  <2> QED BY <1>0, <1>a, <1>c, <2>1
<1>11. CASE DE!SaveFails
  <2>1. Like([editor EXCEPT !.saving = FALSE, !.failed = TRUE])  BY <1>0 DEF Holds, EditorFields
  <2>2. SavesHold([saves EXCEPT !.save = None])  BY <1>0 DEF SavesHold
  <2>3. \E x : page' = [page EXCEPT !.guard = x]  BY <1>11 DEF DE!SaveFails
  <2> HIDE DEF Like, Page
  <2>4. Page(page')  BY <1>b, <2>3
  <2> QED BY <1>0, <1>11, <2>1, <2>2, <2>4 DEF DE!SaveFails
<1>12. ASSUME NEW s \in saves.orphans \union ({saves.save} \ {None}), DE!SaveReaches(s)
       PROVE  remote' \in [Drafts -> Docs] /\ Like(editor') /\ Page(page') /\ SavesHold(saves')
  <2>1. Saving(s)  BY <1>0 DEF SavesHold
  <2>2. remote' = [remote EXCEPT ![s.draft] = Canon[s.doc]] /\ UNCHANGED <<page, editor>>
    BY <1>12 DEF DE!SaveReaches
  <2>3. remote' \in [Drafts -> Docs]  BY <1>0, <2>1, <2>2 DEF Saving
  <2> DEFINE stored == [s EXCEPT !.stored = TRUE]
  <2>4. Saving(stored)  BY <2>1 DEF Saving
  <2>5. saves' = IF s = saves.save THEN [saves EXCEPT !.save = stored]
                 ELSE [saves EXCEPT !.orphans = (saves.orphans \ {s}) \union {stored}]
    BY <1>0, <1>12 DEF DE!SaveReaches, SavesHold
  <2> HIDE DEF stored
  <2>6. SavesHold(saves')  BY <1>0, <2>4, <2>5 DEF SavesHold
  <2> QED BY <1>a, <2>2, <2>3, <2>6
<1>13. ASSUME NEW s \in saves.orphans, DE!OrphanAnswer(s)
       PROVE  remote' \in [Drafts -> Docs] /\ Like(editor') /\ Page(page') /\ SavesHold(saves')
  <2>1. Canon[s.doc] \in Docs  BY <1>0 DEF SavesHold, Saving
  <2>2. page' = page \/ page' = DE!Synced(page, Canon[s.doc])  BY <1>13 DEF DE!OrphanAnswer
  <2>3. saves' = [saves EXCEPT !.orphans = saves.orphans \ {s}] /\ UNCHANGED <<remote, editor>>
    BY <1>13 DEF DE!OrphanAnswer
  <2>4. Page(page')  BY <1>0, <1>a, <2>1, <2>2, PageOps
  <2>5. SavesHold(saves')  BY <1>0, <2>3 DEF SavesHold
  <2> QED BY <1>0, <1>a, <2>3, <2>4, <2>5
<1> HIDE DEF Like, Page
<1> QED BY <1>1, <1>2, <1>3, <1>4, <1>5, <1>6, <1>7, <1>8, <1>9, <1>10, <1>11, <1>12, <1>13

\* What replaces the candidate.
LEMMA CandidateSteps ==
  ASSUME DE!DraftEditorAssumption, EditorInv,
         DE!Edit \/ DE!BreakText \/ DE!Undo \/ DE!Redo \/ DE!Discard \/ DE!ApplySettings \/ DE!AIAnswer
  PROVE  EditorInv' /\ Keeps(editor, editor')
<1>0. /\ PageHolds(page) /\ remote \in [Drafts -> Docs] /\ Holds(editor) /\ SavesHold(saves)
      /\ \A f \in Patches, d \in Docs : f[d] \in Docs
  BY DEF EditorInv, DE!DraftEditorAssumption
<1>1. CASE DE!Edit
  <2>1. PICK d \in Docs : DE!Edited(DE!applyCandidate(editor, d))  BY <1>1 DEF DE!Edit
  <2>2. editor.on /\ UNCHANGED <<remote, saves>>  BY <1>1 DEF DE!Edit, DE!Reachable
  <2> QED BY <1>0, <2>1, <2>2, ApplyKeeps, EditedStep
<1>2. CASE DE!BreakText
  <2> DEFINE w == [editor EXCEPT !.broken = TRUE, !.dirty = TRUE, !.failed = FALSE]
             e == DE!Revalidate(editor, w)
  <2>1. /\ DOMAIN w = EditorFields /\ w.on = editor.on /\ w.draft = editor.draft /\ w.baseline = editor.baseline
        /\ w.doc = editor.doc /\ w.past = editor.past /\ w.future = editor.future
    BY <1>0 DEF Holds, EditorFields
  <2>2. DE!Edited(e) /\ UNCHANGED <<remote, saves>>  BY <1>2 DEF DE!BreakText
  <2> HIDE DEF w
  <2>3. {"on", "draft", "baseline", "doc", "past", "future"} \subseteq EditedParts  BY DEF EditedParts, EditorFields
  <2>4. DOMAIN e = EditorFields /\ e.on = editor.on /\ e.draft = editor.draft /\ e.baseline = editor.baseline
        /\ e.doc = editor.doc /\ e.past = editor.past /\ e.future = editor.future
    BY <2>1, <2>3, RevalidateIs
  <2> HIDE DEF e
  <2>5. Holds(e)  BY <1>0, <2>4 DEF Holds
  <2> QED BY <2>2, <2>4, <2>5, EditedStep
<1>3. CASE DE!Undo
  <2>0. editor.on /\ editor.past # <<>> /\ UNCHANGED <<remote, saves>>
    BY <1>3 DEF DE!Undo, DE!Reachable, DE!Offers
  <2>1. editor.past \in Seq(Docs) /\ editor.future \in Seq(Docs) /\ editor.doc \in Docs  BY <1>0, <2>0 DEF Holds
  <2> DEFINE last == DE!Last(editor.past)  past == DE!Front(editor.past)  future == <<editor.doc>> \o editor.future
             w == DE!replaceCandidate(editor, last)
             e == [w EXCEPT !.past = past, !.future = future]
  <2>2. last \in Docs /\ past \in Seq(Docs)
    <3>1. Len(editor.past) \in DOMAIN editor.past  BY <2>0, <2>1
    <3>2. last \in Docs  BY <2>1, <3>1 DEF DE!Last
    <3>3. past \in Seq(Docs)
      <4>1. Len(editor.past) - 1 \in Int /\ 1 \in Int /\ \A i \in 1..Len(editor.past) - 1 : editor.past[i] \in Docs
        BY <2>1
      <4> QED BY <4>1, SubSeqProperties DEF DE!Front
    <3> QED BY <3>2, <3>3
  <2>3. future \in Seq(Docs) /\ 1 \in DOMAIN future /\ future[1] = editor.doc
    <3>1. <<editor.doc>> \in Seq(Docs) /\ Len(<<editor.doc>>) = 1 /\ <<editor.doc>>[1] = editor.doc  BY <2>1
    <3>2. future \in Seq(Docs) /\ Len(future) = 1 + Len(editor.future) /\ future[1] = <<editor.doc>>[1]
      BY <2>1, <3>1, ConcatProperties
    <3> HIDE DEF future
    <3> QED BY <2>1, <3>1, <3>2
  <2>4. DE!Edited(e)
    <3> HIDE DEF DE!replaceCandidate
    <3>1. w.past = editor.past /\ w.future = editor.future  BY <1>0, ReplaceIs DEF Holds
    <3>2. DE!Edited([w EXCEPT !.past = DE!Front(@), !.future = <<editor.doc>> \o @])  BY <1>3 DEF DE!Undo
    <3> HIDE DEF w
    <3> QED BY <3>1, <3>2
  <2>5. DOMAIN w = EditorFields /\ w.doc = last /\ w.on = editor.on /\ w.draft = editor.draft /\ w.baseline = editor.baseline
    BY <1>0, ReplaceIs DEF Holds
  <2> HIDE DEF w, last, past, future
  <2>6. /\ DOMAIN e = EditorFields /\ e.doc = last /\ e.on = editor.on /\ e.draft = editor.draft /\ e.baseline = editor.baseline
        /\ e.past = past /\ e.future = future
    BY <2>5 DEF EditorFields
  <2> HIDE DEF e
  <2>7. Holds(e)  BY <1>0, <2>0, <2>2, <2>3, <2>6 DEF Holds
  <2>8. Keeps(editor, e)  BY <2>3, <2>6 DEF Keeps, DE!Recoverable, DE!ToSet
  <2> QED BY <2>0, <2>4, <2>6, <2>7, <2>8, EditedStep
<1>4. CASE DE!Redo
  <2>0. editor.on /\ editor.future # <<>> /\ UNCHANGED <<remote, saves>>
    BY <1>4 DEF DE!Redo, DE!Reachable, DE!Offers
  <2>1. editor.past \in Seq(Docs) /\ editor.future \in Seq(Docs) /\ editor.doc \in Docs  BY <1>0, <2>0 DEF Holds
  <2> DEFINE next == Head(editor.future)  past == Append(editor.past, editor.doc)  future == Tail(editor.future)
             w == DE!replaceCandidate(editor, next)
             e == [w EXCEPT !.past = past, !.future = future]
  <2>2. next \in Docs /\ future \in Seq(Docs)  BY <2>0, <2>1
  <2>3. past \in Seq(Docs) /\ Len(past) \in DOMAIN past /\ past[Len(past)] = editor.doc  BY <2>1
  <2>4. DE!Edited(e)
    <3>1. w.past = editor.past /\ w.future = editor.future  BY <1>0, ReplaceIs DEF Holds
    <3>2. DE!Edited([w EXCEPT !.past = Append(@, editor.doc), !.future = Tail(@)])  BY <1>4 DEF DE!Redo
    <3> HIDE DEF w
    <3> QED BY <3>1, <3>2
  <2>5. DOMAIN w = EditorFields /\ w.doc = next /\ w.on = editor.on /\ w.draft = editor.draft /\ w.baseline = editor.baseline
    BY <1>0, ReplaceIs DEF Holds
  <2> HIDE DEF w, next, past, future
  <2>6. /\ DOMAIN e = EditorFields /\ e.doc = next /\ e.on = editor.on /\ e.draft = editor.draft /\ e.baseline = editor.baseline
        /\ e.past = past /\ e.future = future
    BY <2>5 DEF EditorFields
  <2> HIDE DEF e
  <2>7. Holds(e)  BY <1>0, <2>0, <2>2, <2>3, <2>6 DEF Holds
  <2>8. Keeps(editor, e)  BY <2>3, <2>6 DEF Keeps, DE!Recoverable, DE!ToSet
  <2> QED BY <2>0, <2>4, <2>6, <2>7, <2>8, EditedStep
<1>5. CASE DE!Discard
  <2>0. editor.on /\ UNCHANGED <<remote, saves>> /\ DE!Edited(DE!discard(editor))
    BY <1>5 DEF DE!Discard, DE!Reachable
  <2> DEFINE w == DE!replaceCandidate(editor, editor.baseline)
             e == [w EXCEPT !.past = <<>>, !.future = <<>>]
  <2>1. /\ DOMAIN w = EditorFields /\ w.doc = editor.baseline /\ w.dirty = FALSE /\ w.on = editor.on
        /\ w.draft = editor.draft /\ w.baseline = editor.baseline
    <3>1. DOMAIN editor = EditorFields  BY <1>0 DEF Holds
    <3>2. /\ DOMAIN w = EditorFields /\ w.doc = editor.baseline /\ w.dirty = (editor.baseline # editor.baseline)
          /\ w.on = editor.on /\ w.draft = editor.draft /\ w.baseline = editor.baseline
      BY <3>1, ReplaceIs
    <3> HIDE DEF w
    <3>3. (editor.baseline # editor.baseline) = FALSE  OBVIOUS
    <3> QED BY <3>2, <3>3
  <2>2. DE!discard(editor) = e  BY DEF DE!discard
  <2> HIDE DEF w
  <2>3. /\ DOMAIN e = EditorFields /\ e.doc = editor.baseline /\ e.dirty = FALSE /\ e.on = editor.on
        /\ e.draft = editor.draft /\ e.baseline = editor.baseline /\ e.past = <<>> /\ e.future = <<>>
    BY <2>1 DEF EditorFields
  <2> HIDE DEF e
  <2>4. Holds(e) /\ Keeps(editor, e)
    <3>1. <<>> \in Seq(Docs)  OBVIOUS
    <3> QED BY <1>0, <2>0, <2>3, <3>1 DEF Holds, Keeps
  <2> QED BY <2>0, <2>2, <2>3, <2>4, EditedStep
<1>6. CASE DE!ApplySettings
  <2>1. PICK f \in Patches : editor' = DE!applyCandidate(editor, f[page.settings])  BY <1>6 DEF DE!ApplySettings
  <2>2. editor.on /\ page.settings # None /\ UNCHANGED <<remote, saves>>
    BY <1>6 DEF DE!ApplySettings
  <2>3. f[page.settings] \in Docs  BY <1>0, <2>2 DEF PageHolds
  <2>4. Holds(editor') /\ Keeps(editor, editor') /\ editor'.on /\ editor'.draft = editor.draft
    BY <1>0, <2>1, <2>2, <2>3, ApplyKeeps
  <2>5. page' = [page EXCEPT !.settings = None, !.dirty = editor'.dirty]  BY <1>6 DEF DE!ApplySettings
  <2>6. PageHolds(page') /\ page'.patch = page.patch  BY <1>0, <2>5 DEF PageHolds, EditedPageFields
  <2>7. NoPatchWaits(page', editor')  BY <2>2, <2>4, <2>6 DEF EditorInv, NoPatchWaits
  <2> QED BY <1>0, <2>2, <2>4, <2>6, <2>7 DEF EditorInv
<1>7. CASE DE!AIAnswer
  <2>0. editor.on /\ UNCHANGED <<remote, saves>>  BY <1>7 DEF DE!AIAnswer
  <2>1. CASE DE!Edited([editor EXCEPT !.ai = None])
    <3> DEFINE e == [editor EXCEPT !.ai = None]
    <3>1. Holds(e) /\ e.on = editor.on /\ e.draft = editor.draft /\ e.doc = editor.doc
      BY <1>0 DEF Holds, EditorFields
    <3> HIDE DEF e
    <3> QED BY <2>0, <2>1, <3>1, EditedStep DEF e
  <2>2. ASSUME NEW f \in Patches,
               DE!Edited(DE!applyCandidate([editor EXCEPT !.ai = None, !.urgent = f[editor.doc]], f[editor.doc]))
        PROVE  EditorInv' /\ Keeps(editor, editor')
    <3> DEFINE next == f[editor.doc]
               asked == [editor EXCEPT !.ai = None, !.urgent = next]
               e == DE!applyCandidate(asked, next)
    <3>1. next \in Docs  BY <1>0, <2>0 DEF Holds
    <3>2. Holds(asked) /\ asked.on /\ asked.draft = editor.draft /\ asked.doc = editor.doc
      BY <1>0, <2>0 DEF Holds, EditorFields
    <3> HIDE DEF next, asked
    <3>3. Holds(e) /\ Keeps(asked, e) /\ e.on /\ e.draft = editor.draft
      BY <3>1, <3>2, ApplyKeeps
    <3>4. DE!Edited(e)  BY <2>2 DEF asked, next
    <3> HIDE DEF e
    <3>5. Keeps(editor, e)  BY <2>0, <3>2, <3>3 DEF Keeps
    <3>6. e.on = editor.on  
      BY <2>0, <3>3, <3>4
    <3> QED BY <2>0, <3>3, <3>4, <3>5, <3>6, EditedStep
  <2> QED BY <1>7, <2>1, <2>2 DEF DE!AIAnswer
<1> QED BY <1>1, <1>2, <1>3, <1>4, <1>5, <1>6, <1>7

\* What was saved is the candidate; an edit made meanwhile is kept.
LEMMA SaveSteps ==
  ASSUME DE!DraftEditorAssumption, EditorInv, DE!SaveAnswer
  PROVE  EditorInv' /\ Keeps(editor, editor')
<1> DEFINE s == saves.save
           doc == Canon[s.doc]
           unchanged == DE!Candidate(editor) = s.doc
           w == [editor EXCEPT !.baseline = doc, !.doc = doc, !.dirty = FALSE, !.past = <<>>, !.future = <<>>]
           clean == DE!Revalidate(editor, w)
           other == [editor EXCEPT !.baseline = doc]
           e == IF unchanged THEN clean ELSE other
           saved == [e EXCEPT !.saving = FALSE]
           p == IF unchanged THEN DE!Synced(page, doc) ELSE page
           closes == s.closing /\ unchanged
           guard == IF s.closing /\ p.guard = "saving" THEN IF closes THEN "closed" ELSE "open" ELSE p.guard
           q == [p EXCEPT !.guard = guard]
           r == IF closes THEN DE!closePanel(q) ELSE q
           c == [saves EXCEPT !.save = None]
<1>0. /\ PageHolds(page) /\ remote \in [Drafts -> Docs] /\ Holds(editor) /\ SavesHold(saves)
      /\ \A d \in Docs : Canon[d] \in Docs
  BY DEF EditorInv, DE!DraftEditorAssumption
<1>1. s # None /\ remote' = remote  BY DEF DE!SaveAnswer
<1>2. doc \in Docs  BY <1>0, <1>1 DEF SavesHold, Saving
<1>3. DE!Commit(r, saved, c)
  BY DEF DE!SaveAnswer
<1>4. SavesHold(c)  BY <1>0 DEF SavesHold
<1> HIDE DEF c, s, doc
<1>5. /\ DOMAIN w = EditorFields /\ w.on = editor.on /\ w.draft = editor.draft /\ w.baseline = doc /\ w.doc = doc
      /\ w.dirty = FALSE /\ w.past = <<>> /\ w.future = <<>>
  BY <1>0 DEF Holds, EditorFields
<1> HIDE DEF w
<1>6. {"on", "draft", "baseline", "doc", "dirty", "past", "future"} \subseteq EditedParts  BY DEF EditedParts, EditorFields
<1>7. /\ DOMAIN clean = EditorFields /\ clean.on = editor.on /\ clean.draft = editor.draft /\ clean.baseline = doc
      /\ clean.doc = doc /\ clean.dirty = FALSE /\ clean.past = <<>> /\ clean.future = <<>>
  BY <1>5, <1>6, RevalidateIs
<1> HIDE DEF clean
<1>8. /\ DOMAIN other = EditorFields /\ other.on = editor.on /\ other.draft = editor.draft /\ other.baseline = doc
      /\ other.doc = editor.doc /\ other.past = editor.past /\ other.future = editor.future
  BY <1>0 DEF Holds, EditorFields
<1> HIDE DEF other, unchanged
<1>9. /\ DOMAIN e = EditorFields /\ e.on = editor.on /\ e.draft = editor.draft /\ e.baseline = doc
      /\ e.doc = editor.doc \/ (e.doc = doc /\ e.dirty = FALSE)
      /\ editor.on => e.doc \in Docs /\ e.past \in Seq(Docs) /\ e.future \in Seq(Docs)
  <2>1. <<>> \in Seq(Docs)  OBVIOUS
  <2> QED BY <1>0, <1>2, <1>7, <1>8, <2>1 DEF Holds
<1> HIDE DEF e
<1>10. /\ DOMAIN saved = EditorFields /\ saved.on = e.on /\ saved.draft = e.draft /\ saved.baseline = e.baseline
       /\ saved.doc = e.doc /\ saved.dirty = e.dirty /\ saved.past = e.past /\ saved.future = e.future
  BY <1>9 DEF EditorFields
<1> HIDE DEF saved
<1>11. Holds(saved) /\ Keeps(editor, saved) /\ saved.on = editor.on /\ saved.draft = editor.draft
  BY <1>0, <1>2, <1>9, <1>10 DEF Holds, Keeps
<1>12. PageHolds(p) /\ p.patch = page.patch
  BY <1>0, <1>2, PageOps
<1> HIDE DEF p, guard
<1>13. PageHolds(q) /\ q.patch = page.patch
  BY <1>12 DEF PageHolds, EditedPageFields
<1> HIDE DEF q, closes
<1>14. PageHolds(r) /\ r.patch = page.patch
  BY <1>13, PageOps
<1> HIDE DEF r
<1>15. NoPatchWaits(r, saved)
  BY <1>11, <1>14 DEF EditorInv, NoPatchWaits
<1> QED BY <1>1, <1>3, <1>4, <1>11, <1>14, <1>15, CommitKeeps

LEMMA EditorNext ==
  ASSUME DE!DraftEditorAssumption, EditorInv, [DE!Next]_DE!vars
  PROVE  EditorInv' /\ Keeps(editor, editor')
<1>1. CASE UNCHANGED DE!vars
  BY <1>1 DEF DE!vars, EditorInv, Holds, PageHolds, SavesHold, NoPatchWaits, Keeps
<1>2. CASE DE!User
  BY <1>2, PageSteps, QuietSteps, CandidateSteps DEF DE!User
<1>3. CASE DE!Answers
  BY <1>3, PageSteps, QuietSteps, CandidateSteps, SaveSteps DEF DE!Answers
<1> QED BY <1>1, <1>2, <1>3 DEF DE!Next

\* Whatever replaces a candidate in the editor, it stays one undo or redo away,
\* unless it is discarded or saved.
THEOREM CandidatesStayInReach == DE!DraftEditorAssumption => (DE!Spec => [][DE!CandidateKept]_DE!vars)
<1> SUFFICES ASSUME DE!DraftEditorAssumption
             PROVE  DE!Spec => [][DE!CandidateKept]_DE!vars
  OBVIOUS
<1>1. DE!Init => EditorInv  BY EditorInit
<1>2. EditorInv /\ [DE!Next]_DE!vars => EditorInv'  BY EditorNext
<1>3. EditorInv /\ [DE!Next]_DE!vars => [DE!CandidateKept]_DE!vars
  BY EditorNext DEF Keeps, DE!CandidateKept
<1> QED BY <1>1, <1>2, <1>3, PTL DEF DE!Spec

=============================================================================
