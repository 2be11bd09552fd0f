--------------------- MODULE GeometryDiagnosticsProofs ---------------------
(***************************************************************************)
(* Proofs about GeometryDiagnostics for any number of jobs, clicks, ratios *)
(* and versions: the types, that a cancelled job stays cancelled, and that *)
(* "Analyzing" is shown only while exactly one loop is behind it.          *)
(*                                                                         *)
(* Then about two screens of the same geometry and its mesh: of            *)
(* GeometryReview the types and that a role the user gave a face gives way *)
(* only to an undo of the user, of SurfaceReview that the comparison on    *)
(* screen is of the mesh that was chosen and the field that is shown, and  *)
(* that a stored filter is read back as it was.                            *)
(*                                                                         *)
(* Each module's assumption is a hypothesis of its theorems.               *)
(***************************************************************************)
EXTENDS GeometryDiagnostics, FiniteSetTheorems, Naturals, Sequences, FiniteSets, SequenceTheorems, TLAPS

CONSTANTS Faces, Bounded, Telling, Customs, MaxUndo, MaxGestures, NoMaterial   \* of GeometryReview
VARIABLES stored, geo
GV == INSTANCE GeometryReview

CONSTANTS Meshes, Manifests, PathOf, BoundaryModels, QualityFields, MaxRules, MaxSurfaceSteps, NoFace   \* of SurfaceReview
VARIABLES surface, filters, beside
SU == INSTANCE SurfaceReview

vars == <<jobs, diag, asked>>
Spec == Init /\ [][Next]_vars

-----------------------------------------------------------------------------
(***************************************************************************)
(* What a state is made of.                                                *)
(***************************************************************************)
Job == [st : JobStates, ratio : Ratios, ended : BOOLEAN, rank : Nat]
Maybe(S) == S \union {Nothing}

Diag == [manifest : BOOLEAN, located : BOOLEAN, focus : BOOLEAN,
         panel : {"none", "diagnostics", "health"},
         busyWith : SUBSET {"advanced", "comparison"}, ratio : Ratios,
         token : Nat, busy : BOOLEAN, job : Nat, jobSaw : JobStates \union {"none"},
         report : Maybe(Ratios), compareTo : Maybe(Versions),
         comparison : Maybe(Versions), gestures : Nat]

Asked == [op : {"preview", "latest", "semantic", "advanced", "comparison", "cancel"} \union Loop,
          token : Nat, job : Nat, ratio : Maybe(Ratios), version : Maybe(Versions)]

\* The jobs: a completed one has ended, and the last to complete is known.
EndedWhenCompleted == \A j \in Completed : jobs[j].ended
Ranked ==
  /\ \A j \in Completed : jobs[j].rank <= Cardinality(Completed)
  /\ Completed # {} => \E j \in Completed : jobs[j].rank = Cardinality(Completed)

StoreInv == jobs \in Seq(Job) /\ EndedWhenCompleted /\ Ranked

\* The requests: they name jobs that are there, and a start has its ratio.
JobsNamed ==
  /\ diag.job <= Len(jobs)
  /\ \A c \in asked : /\ c.op \in {"poll", "wait", "cancel"} => c.job \in DOMAIN jobs
                      /\ c.op = "start" => c.ratio \in Ratios

PageInv == diag \in Diag /\ asked \subseteq Asked /\ JobsNamed

TypeInv == StoreInv /\ PageInv

-----------------------------------------------------------------------------
(***************************************************************************)
(* The job store.                                                          *)
(***************************************************************************)
\* What becomes of the jobs in one step.
Adds == \E ratio \in Ratios : jobs' = Append(jobs, Queued(ratio))
Changes == \E j \in DOMAIN jobs, st \in JobStates :
             /\ jobs[j].st \notin {"completed", "cancelled"}
             /\ ChangeJob(j, st)
GivesUp == jobs' = [j \in DOMAIN jobs |->
                  IF jobs[j].st \in Terminal THEN [jobs[j] EXCEPT !.ended = TRUE]
                  ELSE [jobs[j] EXCEPT !.st = "failed", !.ended = TRUE]]

StoreStep == UNCHANGED jobs \/ Adds \/ Changes \/ GivesUp

\* Jobs are numbered and finitely many.
LEMMA CompletedType ==
  ASSUME jobs \in Seq(Job)
  PROVE  /\ DOMAIN jobs = 1 .. Len(jobs) /\ Len(jobs) \in Nat
         /\ \A j \in DOMAIN jobs : jobs[j] \in Job
         /\ IsFiniteSet(Completed) /\ Cardinality(Completed) \in Nat
<1>1. DOMAIN jobs = 1 .. Len(jobs) /\ Len(jobs) \in Nat /\ \A j \in DOMAIN jobs : jobs[j] \in Job
  OBVIOUS
<1>2. Completed \in SUBSET (1 .. Len(jobs))
  BY <1>1 DEF Completed
<1>3. IsFiniteSet(Completed)
  <2>1. IsFiniteSet(1 .. Len(jobs))
    BY <1>1, FS_Interval
  <2> QED BY <1>2, <2>1, FS_Subset
<1> QED BY <1>1, <1>3, FS_CardinalityType

\* The fields of a changed job.
LEMMA ChangeEffect ==
  ASSUME jobs \in Seq(Job), NEW j \in DOMAIN jobs, NEW st \in JobStates, ChangeJob(j, st)
  PROVE  /\ jobs' \in Seq(Job) /\ DOMAIN jobs' = DOMAIN jobs /\ Len(jobs') = Len(jobs)
         /\ \A k \in DOMAIN jobs : k # j => jobs'[k] = jobs[k]
         /\ jobs'[j].st = st
         /\ jobs'[j].ended = (jobs[j].ended \/ st \in {"completed", "failed"})
         /\ st = "completed" => jobs'[j].rank = 1 + Cardinality(Completed)
<1> DEFINE old == jobs[j]
           rank == IF st = "completed" THEN 1 + Cardinality(Completed) ELSE old.rank
           ended == old.ended \/ st \in {"completed", "failed"}
           new == [old EXCEPT !.st = st, !.ended = ended, !.rank = rank]
<1>1. old \in Job /\ jobs \in [1 .. Len(jobs) -> Job] /\ Len(jobs) \in Nat /\ j \in 1 .. Len(jobs)
  BY CompletedType
<1>2. jobs' = [jobs EXCEPT ![j] = new]
  BY <1>1 DEF ChangeJob
<1>3. rank \in Nat /\ ended \in BOOLEAN
  BY <1>1, CompletedType DEF Job
<1>4. new \in Job /\ new.st = st /\ new.ended = ended /\ new.rank = rank
  BY <1>1, <1>3 DEF Job
<1>5. jobs'[j] = new /\ \A k \in DOMAIN jobs : k # j => jobs'[k] = jobs[k]
  BY <1>1, <1>2
<1>6. jobs' \in [1 .. Len(jobs) -> Job]
  BY <1>1, <1>2, <1>4
<1>7. jobs' \in Seq(Job) /\ Len(jobs') = Len(jobs) /\ DOMAIN jobs' = DOMAIN jobs
  BY <1>1, <1>6
<1> QED BY <1>4, <1>5, <1>7

\* The same completed jobs with the same ranks are ranked as before.
LEMMA RankedKept ==
  ASSUME Ranked, EndedWhenCompleted, Completed' = Completed,
         \A k \in Completed : jobs'[k].rank = jobs[k].rank /\ (jobs[k].ended => jobs'[k].ended)
  PROVE  Ranked' /\ EndedWhenCompleted'
BY DEF Ranked, EndedWhenCompleted

LEMMA StoreKept ==
  ASSUME StoreInv, StoreStep
  PROVE  /\ StoreInv'
         /\ Len(jobs') >= Len(jobs)
         /\ CancelledStays
<1>0. /\ jobs \in Seq(Job) /\ DOMAIN jobs = 1 .. Len(jobs) /\ Len(jobs) \in Nat
      /\ \A k \in DOMAIN jobs : jobs[k] \in Job
      /\ IsFiniteSet(Completed) /\ Cardinality(Completed) \in Nat
  BY CompletedType DEF StoreInv
<1>1. CASE UNCHANGED jobs
  BY <1>0, <1>1 DEF StoreInv, Ranked, EndedWhenCompleted, Completed, CancelledStays
<1>2. ASSUME NEW ratio \in Ratios, jobs' = Append(jobs, Queued(ratio))
      PROVE  StoreInv' /\ Len(jobs') >= Len(jobs) /\ CancelledStays
  <2>1. Queued(ratio) \in Job /\ Queued(ratio).st = "queued"
    BY DEF Queued, Job, JobStates
  <2>2. /\ jobs' \in Seq(Job) /\ Len(jobs') = Len(jobs) + 1
        /\ DOMAIN jobs' = DOMAIN jobs \union {Len(jobs) + 1}
        /\ jobs'[Len(jobs) + 1] = Queued(ratio)
        /\ \A k \in DOMAIN jobs : jobs'[k] = jobs[k]
    BY <1>0, <1>2, <2>1
  <2>3. Completed' = Completed
    BY <2>1, <2>2 DEF Completed
  <2>4. Ranked' /\ EndedWhenCompleted'
    BY <2>2, <2>3, RankedKept DEF StoreInv, Completed
  <2> QED BY <1>0, <2>2, <2>4 DEF StoreInv, CancelledStays
<1>3. ASSUME NEW j \in DOMAIN jobs, NEW st \in JobStates,
             jobs[j].st \notin {"completed", "cancelled"}, ChangeJob(j, st)
      PROVE  StoreInv' /\ Len(jobs') >= Len(jobs) /\ CancelledStays
  <2>1. /\ jobs' \in Seq(Job) /\ DOMAIN jobs' = DOMAIN jobs /\ Len(jobs') = Len(jobs)
        /\ \A k \in DOMAIN jobs : k # j => jobs'[k] = jobs[k]
        /\ jobs'[j].st = st
        /\ st = "completed" => jobs'[j].ended /\ jobs'[j].rank = 1 + Cardinality(Completed)
    BY <1>0, <1>3, ChangeEffect
  <2>2. CASE st = "completed"
    <3>1. Completed' = Completed \union {j} /\ j \notin Completed
      BY <1>3, <2>1, <2>2 DEF Completed
    <3>2. Cardinality(Completed') = Cardinality(Completed) + 1
      BY <1>0, <3>1, FS_AddElement
    <3>3. \A k \in Completed : k # j /\ jobs'[k] = jobs[k] /\ jobs[k].rank \in Nat
      BY <1>0, <1>3, <2>1 DEF Completed, Job
    <3>4. Ranked'
      <4>1. \A k \in Completed : jobs'[k].rank \in Nat /\ jobs'[k].rank <= Cardinality(Completed)
        BY <3>3 DEF StoreInv, Ranked
      <4>2. jobs'[j].rank = Cardinality(Completed')
        BY <1>0, <2>1, <2>2, <3>2
      <4>3. \A k \in Completed' : jobs'[k].rank <= Cardinality(Completed')
        BY <1>0, <3>1, <3>2, <4>1, <4>2
      <4> QED BY <3>1, <4>2, <4>3 DEF Ranked
    <3>5. EndedWhenCompleted'
      BY <2>1, <2>2, <3>1, <3>3 DEF StoreInv, EndedWhenCompleted
    <3> QED BY <1>0, <1>3, <2>1, <3>4, <3>5 DEF StoreInv, CancelledStays
  <2>3. CASE st # "completed"
    <3>1. Completed' = Completed /\ j \notin Completed
      BY <1>3, <2>1, <2>3 DEF Completed
    <3>2. Ranked' /\ EndedWhenCompleted'
      BY <2>1, <3>1, RankedKept DEF StoreInv, Completed
    <3> QED BY <1>0, <1>3, <2>1, <3>2 DEF StoreInv, CancelledStays
  <2> QED BY <2>2, <2>3
<1>4. CASE GivesUp
  <2> DEFINE over(j) == IF jobs[j].st \in Terminal THEN [jobs[j] EXCEPT !.ended = TRUE]
                        ELSE [jobs[j] EXCEPT !.st = "failed", !.ended = TRUE]
  <2>1. \A j \in DOMAIN jobs :
          /\ over(j) \in Job /\ over(j).ended /\ over(j).rank = jobs[j].rank
          /\ over(j).st = IF jobs[j].st \in Terminal THEN jobs[j].st ELSE "failed"
    BY <1>0 DEF Job, JobStates
  <2>2. jobs' \in [1 .. Len(jobs) -> Job] /\ \A j \in DOMAIN jobs : jobs'[j] = over(j)
    BY <1>0, <1>4, <2>1 DEF GivesUp
  <2>3. jobs' \in Seq(Job) /\ Len(jobs') = Len(jobs) /\ DOMAIN jobs' = DOMAIN jobs
    <3>1. jobs' \in [1 .. Len(jobs) -> Job] /\ Len(jobs) \in Nat /\ DOMAIN jobs = 1 .. Len(jobs)
      BY <1>0, <2>2
    <3> HIDE DEF over
    <3> QED BY ONLY <3>1
  <2>4. \A j \in DOMAIN jobs : /\ jobs'[j].ended /\ jobs'[j].rank = jobs[j].rank
                               /\ jobs[j].st \in Terminal => jobs'[j].st = jobs[j].st
                               /\ jobs[j].st \notin Terminal => jobs'[j].st = "failed"
    BY <2>1, <2>2
  <2>5. Completed' = Completed
    BY <2>3, <2>4 DEF Completed, Terminal
  <2>6. Ranked' /\ EndedWhenCompleted'
    BY <2>4, <2>5, RankedKept DEF StoreInv, Completed
  <2> QED BY <1>0, <2>3, <2>4, <2>6 DEF StoreInv, CancelledStays, Terminal
<1> QED BY <1>1, <1>2, <1>3, <1>4 DEF StoreStep, Adds, Changes
\* Every step takes the store's jobs through one of its methods; a worker
\* that has not ended has no completed job, and asks before it cancels one.
LEMMA NextStores ==
  ASSUME TypeInv, Next
  PROVE  StoreStep
<1> USE DEF StoreStep
<1>0. JobsNamed /\ EndedWhenCompleted /\ jobs \in Seq(Job) /\ asked \subseteq Asked
  BY DEF TypeInv, StoreInv, PageInv
<1>1. CASE TogglePanel \/ createAdvancedPlan \/ runComparison \/ chooseVersion
           \/ focusDiagnostic \/ chooseRatio \/ runDiagnostics \/ cancelDiagnostics
  BY <1>1 DEF TogglePanel, createAdvancedPlan, runComparison, Submit, chooseVersion,
              focusDiagnostic, chooseRatio, runDiagnostics, cancelDiagnostics
<1>2. ASSUME NEW c \in asked,
             WorkEnds(c) \/ PreviewArrives(c) \/ PollArrives(c) \/ TimerFires(c) \/ LatestArrives(c)
      PROVE  StoreStep
  BY <1>2 DEF WorkEnds, PreviewArrives, PollArrives, TimerFires, LatestArrives
<1>3. ASSUME NEW c \in asked, StartArrives(c) \/ RunFails(c) PROVE StoreStep
  BY <1>0, <1>3 DEF StartArrives, RunFails, JobsNamed, Adds
<1>4. ASSUME NEW c \in asked, CancelArrives(c) PROVE StoreStep
  <2>1. CASE ChangeJob(c.job, "cancelled")
    <3>1. c.job \in DOMAIN jobs /\ jobs[c.job].st \notin {"completed", "cancelled"}
      BY <1>0, <1>4, <2>1 DEF CancelArrives, JobsNamed, ChangeJob, Terminal
    <3> QED BY <2>1, <3>1 DEF Changes, JobStates
  <2>2. CASE UNCHANGED jobs
    BY <2>2
  <2> QED BY <1>4, <2>1, <2>2 DEF CancelArrives
<1>5. CASE Worker
  <2>1. PICK j \in DOMAIN jobs :
          /\ ~jobs[j].ended
          /\ \/ jobs[j].st = "queued" /\ ChangeJob(j, "running")
             \/ \E st \in {"completed", "failed"} : ChangeJob(j, st)
    BY <1>5 DEF Worker
  <2>2. jobs[j].st # "completed"
    BY <1>0, <2>1 DEF EndedWhenCompleted, Completed
  <2>3. jobs[j].st # "cancelled"
    BY <2>1 DEF ChangeJob
  <2> QED BY <2>1, <2>2, <2>3 DEF Changes, JobStates
<1>6. CASE Restart
  BY <1>6 DEF Restart, GivesUp
<1> QED BY <1>1, <1>2, <1>3, <1>4, <1>5, <1>6 DEF Next

-----------------------------------------------------------------------------
(***************************************************************************)
(* The page.                                                               *)
(***************************************************************************)
\* The latest completed job is the one with the highest rank.
LEMMA LatestType ==
  ASSUME StoreInv
  PROVE  LatestCompleted = 0 \/ LatestCompleted \in Completed
<1>1. CASE Completed = {}
  BY <1>1 DEF LatestCompleted
<1>2. CASE Completed # {}
  <2>1. \E j \in Completed : \A k \in Completed : jobs[k].rank <= jobs[j].rank
    BY <1>2 DEF StoreInv, Ranked
  <2> QED BY <1>2, <2>1 DEF LatestCompleted
<1> QED BY <1>1, <1>2

\* A request as the page makes it.
LEMMA CallType ==
  ASSUME NEW op, NEW token \in Nat,
         op \in {"preview", "latest", "semantic", "advanced", "comparison", "cancel"} \union Loop
  PROVE  /\ Call(op, token) \in Asked
         /\ Call(op, token).op = op /\ Call(op, token).token = token
         /\ \A j \in Nat : LET c == [Call(op, token) EXCEPT !.job = j]
                           IN  c \in Asked /\ c.op = op /\ c.token = token /\ c.job = j
         /\ \A r \in Maybe(Ratios) :
              LET c == [Call(op, token) EXCEPT !.ratio = r]
              IN  c \in Asked /\ c.op = op /\ c.token = token /\ c.ratio = r
         /\ \A v \in Maybe(Versions) :
              LET c == [Call(op, token) EXCEPT !.version = v]
              IN  c \in Asked /\ c.op = op /\ c.token = token /\ c.version = v
BY DEF Call, Asked, Maybe

\* A step of the page that asks for nothing about jobs.
LEMMA PageKept ==
  ASSUME TypeInv, StoreStep, diag' \in Diag, diag'.job = diag.job, asked' \subseteq Asked,
         \A c \in asked' \ asked : c.op \notin {"start", "poll", "wait", "cancel"}
  PROVE  PageInv'
<1>1. /\ jobs \in Seq(Job) /\ jobs' \in Seq(Job) /\ Len(jobs') >= Len(jobs)
  BY StoreKept DEF TypeInv, StoreInv
<1>2. DOMAIN jobs \subseteq DOMAIN jobs' /\ Len(jobs) \in Nat /\ Len(jobs') \in Nat
  BY <1>1
<1>3. diag.job \in Nat /\ diag.job <= Len(jobs)
  BY DEF TypeInv, PageInv, JobsNamed, Diag
<1>4. diag'.job <= Len(jobs')
  BY <1>1, <1>2, <1>3
<1> QED BY <1>2, <1>4 DEF TypeInv, PageInv, JobsNamed

\* A click counts, and does what the handler makes of the page.
LEMMA ClickedType ==
  ASSUME NEW g \in Diag, Clicked(g)
  PROVE  /\ diag' \in Diag /\ diag'.job = g.job
         /\ diag'.token = g.token /\ diag'.busy = g.busy
BY DEF Clicked, Diag

LEMMA ClickType ==
  ASSUME TypeInv, StoreStep,
         \/ TogglePanel \/ createAdvancedPlan \/ runComparison \/ chooseVersion
         \/ focusDiagnostic \/ chooseRatio
  PROVE  PageInv'
<1>0. diag \in Diag /\ asked \subseteq Asked /\ diag.compareTo \in Maybe(Versions)
  BY DEF TypeInv, PageInv, Diag
<1>1. CASE TogglePanel
  <2>1. PICK p \in {"diagnostics", "health", "none"} : Clicked([diag EXCEPT !.panel = p])
    BY <1>1 DEF TogglePanel
  <2>2. [diag EXCEPT !.panel = p] \in Diag /\ [diag EXCEPT !.panel = p].job = diag.job
    BY <1>0 DEF Diag
  <2> QED BY <1>0, <1>1, <2>1, <2>2, ClickedType, PageKept DEF TogglePanel
<1>2. ASSUME NEW op, NEW work \in {"advanced", "comparison"}, Submit(op, work) PROVE PageInv'
  <2> DEFINE g == [diag EXCEPT !.busyWith = @ \union {work}]
             call == [Call(work, 0) EXCEPT !.version = diag.compareTo]
  <2>1. g \in Diag /\ g.job = diag.job
    BY <1>0 DEF Diag
  <2>2. Clicked(g) /\ asked' = asked \union {call}
    BY <1>2 DEF Submit
  <2>3. call \in Asked /\ call.op = work
    BY <1>0, CallType
  <2> HIDE DEF g, call
  <2> QED BY <1>0, <2>1, <2>2, <2>3, ClickedType, PageKept
<1>3. CASE chooseVersion
  <2>1. PICK v \in Versions : Clicked([diag EXCEPT !.compareTo = v, !.comparison = Nothing])
    BY <1>3 DEF chooseVersion
  <2> DEFINE g == [diag EXCEPT !.compareTo = v, !.comparison = Nothing]
  <2>2. g \in Diag /\ g.job = diag.job
    BY <1>0 DEF Diag, Maybe
  <2> QED BY <1>0, <1>3, <2>1, <2>2, ClickedType, PageKept DEF chooseVersion
<1>4. CASE focusDiagnostic
  <2>1. PICK present \in BOOLEAN :
          Clicked(IF diag.manifest THEN [diag EXCEPT !.located = present, !.focus = FALSE]
                  ELSE [diag EXCEPT !.focus = TRUE])
    BY <1>4 DEF focusDiagnostic
  <2> DEFINE g == IF diag.manifest THEN [diag EXCEPT !.located = present, !.focus = FALSE]
                  ELSE [diag EXCEPT !.focus = TRUE]
  <2>2. g \in Diag /\ g.job = diag.job
    BY <1>0 DEF Diag
  <2> QED BY <1>0, <1>4, <2>1, <2>2, ClickedType, PageKept DEF focusDiagnostic
<1>5. CASE chooseRatio
  <2>1. PICK r \in Ratios : Clicked([diag EXCEPT !.ratio = r, !.report = Nothing])
    BY <1>5 DEF chooseRatio
  <2> DEFINE g == [diag EXCEPT !.ratio = r, !.report = Nothing]
  <2>2. g \in Diag /\ g.job = diag.job
    BY <1>0 DEF Diag, Maybe
  <2> QED BY <1>0, <1>5, <2>1, <2>2, ClickedType, PageKept DEF chooseRatio
<1>6. createAdvancedPlan \/ runComparison => PageInv'
  BY <1>2 DEF createAdvancedPlan, runComparison
<1> QED BY <1>1, <1>3, <1>4, <1>5, <1>6

LEMMA AnswerType ==
  ASSUME TypeInv, StoreStep, NEW c \in asked, WorkEnds(c) \/ PreviewArrives(c) \/ RunFails(c)
  PROVE  PageInv'
<1>0. diag \in Diag /\ asked \subseteq Asked /\ c \in Asked
  BY DEF TypeInv, PageInv
<1>1. CASE WorkEnds(c)
  <2>1. diag.busyWith \ {c.op} \in SUBSET {"advanced", "comparison"}
        /\ {diag.comparison, c.version, Nothing} \subseteq Maybe(Versions)
    BY <1>0 DEF Diag, Asked, Maybe
  <2>2. PICK v \in Maybe(Versions) :
          diag' = [diag EXCEPT !.busyWith = @ \ {c.op}, !.comparison = v]
    BY <1>1, <2>1 DEF WorkEnds
  <2>3. diag' \in Diag /\ diag'.job = diag.job
    BY <1>0, <2>1, <2>2 DEF Diag
  <2> QED BY <1>0, <1>1, <2>3, PageKept DEF WorkEnds
<1>2. CASE PreviewArrives(c)
  <2>1. diag' \in Diag /\ diag'.job = diag.job
    BY ZenonT(30), <1>0, <1>2 DEF PreviewArrives, Diag
  <2> QED BY <1>0, <1>2, <2>1, PageKept DEF PreviewArrives
<1>3. CASE RunFails(c)
  <2>1. diag' \in Diag /\ diag'.job = diag.job
    BY ZenonT(30), <1>0, <1>3 DEF RunFails, Diag, Maybe
  <2> QED BY <1>0, <1>3, <2>1, PageKept DEF RunFails
<1> QED BY <1>1, <1>2, <1>3
\* A step after which the page may name a job that is there.
LEMMA PageNames ==
  ASSUME TypeInv, StoreStep, diag' \in Diag, diag'.job <= Len(jobs'), asked' \subseteq Asked,
         \A c \in asked' \ asked :
           /\ c.op \in {"poll", "wait", "cancel"} => c.job \in DOMAIN jobs'
           /\ c.op = "start" => c.ratio \in Ratios
  PROVE  PageInv'
<1>1. /\ jobs \in Seq(Job) /\ jobs' \in Seq(Job) /\ Len(jobs') >= Len(jobs)
  BY StoreKept DEF TypeInv, StoreInv
<1>2. DOMAIN jobs \subseteq DOMAIN jobs'
  BY <1>1
<1> QED BY <1>2 DEF TypeInv, PageInv, JobsNamed

LEMMA RunType ==
  ASSUME TypeInv, StoreStep, runDiagnostics \/ cancelDiagnostics
  PROVE  PageInv'
<1>0. /\ diag \in Diag /\ asked \subseteq Asked /\ diag.job \in Nat /\ diag.job <= Len(jobs)
      /\ jobs \in Seq(Job) /\ Len(jobs) \in Nat /\ DOMAIN jobs = 1 .. Len(jobs)
      /\ diag.token + 1 \in Nat /\ diag.ratio \in Ratios
  BY DEF TypeInv, StoreInv, PageInv, JobsNamed, Diag
<1>1. CASE runDiagnostics
  <2> DEFINE g == [diag EXCEPT !.token = @ + 1, !.busy = TRUE, !.job = 0, !.jobSaw = "none"]
             call == [Call("start", diag.token + 1) EXCEPT !.ratio = diag.ratio]
  <2>1. g \in Diag /\ g.job = 0
    BY <1>0 DEF Diag
  <2>2. call \in Asked /\ call.op = "start" /\ call.ratio = diag.ratio
    BY <1>0, CallType DEF Loop, Maybe
  <2>3. Clicked(g) /\ asked' = asked \union {call} /\ jobs' = jobs
    BY <1>1 DEF runDiagnostics
  <2> HIDE DEF g, call
  <2> QED BY <1>0, <2>1, <2>2, <2>3, ClickedType, PageNames
<1>2. CASE cancelDiagnostics
  <2> DEFINE g == [diag EXCEPT !.token = @ + 1, !.busy = FALSE]
             call == [Call("cancel", 0) EXCEPT !.job = diag.job]
  <2>1. g \in Diag /\ g.job = diag.job
    BY <1>0 DEF Diag
  <2>2. call \in Asked /\ call.op = "cancel" /\ call.job = diag.job
    BY <1>0, CallType
  <2>3. Clicked(g) /\ asked' = asked \union {call} /\ jobs' = jobs
    BY <1>2 DEF cancelDiagnostics
  <2>4. diag.job # 0
    BY <1>2 DEF cancelDiagnostics, Gesture, Offers, DiagnosticsOffers, HealthOffers
  <2> HIDE DEF g, call
  <2> QED BY <1>0, <2>1, <2>2, <2>3, <2>4, ClickedType, PageNames
<1> QED BY <1>1, <1>2

\* The loop of a run, and the answers that tell of a job.
LEMMA LoopType ==
  ASSUME TypeInv, StoreStep, NEW c \in asked,
         StartArrives(c) \/ PollArrives(c) \/ TimerFires(c) \/ LatestArrives(c) \/ CancelArrives(c)
  PROVE  PageInv'
<1>0. /\ diag \in Diag /\ asked \subseteq Asked /\ c \in Asked /\ diag.job <= Len(jobs)
      /\ jobs \in Seq(Job) /\ Len(jobs) \in Nat /\ DOMAIN jobs = 1 .. Len(jobs)
      /\ \A j \in DOMAIN jobs : jobs[j].st \in JobStates /\ jobs[j].ratio \in Maybe(Ratios)
  <2>1. \A j \in DOMAIN jobs : jobs[j] \in Job
    BY CompletedType DEF TypeInv, StoreInv
  <2>2. \A j \in DOMAIN jobs : jobs[j].st \in JobStates /\ jobs[j].ratio \in Maybe(Ratios)
    BY <2>1 DEF Job, Maybe
  <2> QED BY <2>2, CompletedType DEF TypeInv, StoreInv, PageInv, JobsNamed
<1>9. /\ c.op \in {"poll", "wait", "cancel"} => c.job \in DOMAIN jobs
      /\ diag.job \in Nat /\ c.job \in Nat
  BY <1>0 DEF TypeInv, PageInv, JobsNamed, Diag, Asked
<1>1. CASE StartArrives(c)
  <2>1. /\ c.op = "start" /\ jobs' = Append(jobs, Queued(c.ratio))
        /\ Len(jobs') = Len(jobs) + 1 /\ DOMAIN jobs' = 1 .. Len(jobs) + 1
    BY <1>0, <1>1 DEF StartArrives
  <2>2. CASE c.token # diag.token
    <3>1. diag' = diag /\ asked' \subseteq asked
      BY <1>1, <2>2 DEF StartArrives
    <3> QED BY <1>0, <1>9, <2>1, <3>1, PageNames
  <2>3. CASE c.token = diag.token
    <3> DEFINE n == Len(jobs) + 1
               d == [c EXCEPT !.op = "wait", !.job = n]
    <3>5. n \in Nat
      BY <1>0
    <3>1. /\ diag' = [diag EXCEPT !.job = n, !.jobSaw = "queued"]
          /\ asked' = (asked \ {c}) \union {d}
      BY <1>1, <2>3 DEF StartArrives
    <3>6. n = Len(jobs') /\ n \in DOMAIN jobs'
      BY <1>0, <2>1
    <3> HIDE DEF n
    <3>2. diag' \in Diag /\ diag'.job = n
      BY <1>0, <3>1, <3>5 DEF Diag, JobStates
    <3>3. d \in Asked /\ d.op = "wait" /\ d.job = n
      BY <1>0, <3>5 DEF Asked, Loop
    <3> HIDE DEF d
    <3> QED BY <1>0, <3>1, <3>2, <3>3, <3>5, <3>6, PageNames
  <2> QED BY <2>2, <2>3
<1>2. CASE PollArrives(c)
  <2>1. c.op = "poll" /\ jobs' = jobs /\ c.job \in DOMAIN jobs
    BY <1>2, <1>9 DEF PollArrives
  <2>2. PICK busy \in BOOLEAN, report \in Maybe(Ratios) :
          diag' = [diag EXCEPT !.job = c.job, !.jobSaw = jobs[c.job].st, !.busy = busy,
                               !.report = report]
    <3> DEFINE st == jobs[c.job].st
               busy == diag.busy /\ ~(st \in Terminal /\ c.token = diag.token)
               report == CASE st = "completed" -> jobs[c.job].ratio
                           [] st = "failed" -> Nothing
                           [] OTHER -> diag.report
    <3>1. busy \in BOOLEAN /\ report \in Maybe(Ratios)
      BY <1>0, <2>1 DEF Diag, Maybe
    <3>2. diag' = [diag EXCEPT !.job = c.job, !.jobSaw = st, !.busy = busy, !.report = report]
      BY <1>2 DEF PollArrives
    <3> QED BY <3>1, <3>2
  <2>3. diag' \in Diag /\ diag'.job = c.job
    BY <1>0, <1>9, <2>1, <2>2 DEF Diag
  <2> DEFINE d == [c EXCEPT !.op = "wait"]
  <2>4. d \in Asked /\ d.op = "wait" /\ d.job = c.job
    BY <1>0 DEF Asked, Loop
  <2>5. asked' \subseteq asked \union {d}
    BY <1>2 DEF PollArrives
  <2>6. c.job <= Len(jobs')
    BY <1>0, <2>1
  <2> HIDE DEF d
  <2> QED BY <1>0, <2>1, <2>3, <2>4, <2>5, <2>6, PageNames
<1>3. CASE TimerFires(c)
  <2> DEFINE d == [c EXCEPT !.op = "poll"]
  <2>1. d \in Asked /\ d.op = "poll" /\ d.job = c.job
    BY <1>0 DEF Asked, Loop
  <2>2. asked' \subseteq asked \union {d} /\ jobs' = jobs /\ diag' = diag /\ c.op = "wait"
    BY <1>3 DEF TimerFires
  <2> HIDE DEF d
  <2> QED BY <1>0, <1>9, <2>1, <2>2, PageNames
<1>4. CASE LatestArrives(c)
  <2>1. asked' \subseteq asked /\ jobs' = jobs
    BY <1>4 DEF LatestArrives
  <2>2. CASE diag' = diag
    BY <1>0, <2>1, <2>2, PageNames
  <2>3. CASE diag' # diag
    <3>1. /\ diag' = [diag EXCEPT !.job = LatestCompleted, !.jobSaw = "completed",
                                  !.report = jobs[LatestCompleted].ratio]
          /\ LatestCompleted \in DOMAIN jobs
      BY <1>4, <2>3, LatestType DEF LatestArrives, TypeInv, Completed
    <3>3. LatestCompleted \in Nat /\ jobs[LatestCompleted].ratio \in Maybe(Ratios)
      BY <1>0, <3>1
    <3>2. diag' \in Diag /\ diag'.job = LatestCompleted
      BY <1>0, <3>1, <3>3 DEF Diag, JobStates
    <3> QED BY <1>0, <2>1, <3>1, <3>2, PageNames
  <2> QED BY <2>2, <2>3
<1>5. CASE CancelArrives(c)
  <2>1. asked' \subseteq asked /\ Len(jobs') >= Len(jobs) /\ Len(jobs') \in Nat
    BY <1>5, StoreKept DEF CancelArrives, TypeInv, StoreInv
  <2>2. CASE diag' = diag
    BY <1>0, <1>9, <2>1, <2>2, PageNames
  <2>3. CASE diag' = [diag EXCEPT !.job = c.job, !.jobSaw = "cancelled"]
    <3>1. diag' \in Diag /\ diag'.job = c.job /\ c.job \in DOMAIN jobs
      BY <1>0, <1>5, <1>9, <2>3 DEF Diag, JobStates, CancelArrives
    <3> QED BY <1>0, <2>1, <3>1, PageNames
  <2> QED BY <1>5, <2>2, <2>3 DEF CancelArrives
<1> QED BY <1>1, <1>2, <1>3, <1>4, <1>5

LEMMA TypeStep == TypeInv /\ [Next]_vars => TypeInv'
<1> SUFFICES ASSUME TypeInv, [Next]_vars PROVE TypeInv'
  OBVIOUS
<1>1. CASE UNCHANGED vars
  BY <1>1 DEF vars, TypeInv, StoreInv, EndedWhenCompleted, Ranked, Completed, PageInv, JobsNamed
<1>2. CASE Next
  <2>1. StoreStep
    BY <1>2, NextStores
  <2>2. StoreInv'
    BY <2>1, StoreKept DEF TypeInv
  <2>3. CASE Worker \/ Restart
    <3>1. diag' = diag /\ asked' = asked
      BY <2>3 DEF Worker, Restart
    <3> QED BY <2>1, <2>2, <3>1, PageKept DEF TypeInv, PageInv
  <2>4. CASE \/ TogglePanel \/ createAdvancedPlan \/ runComparison \/ chooseVersion
             \/ focusDiagnostic \/ chooseRatio \/ runDiagnostics \/ cancelDiagnostics
    BY <2>1, <2>2, <2>4, ClickType, RunType DEF TypeInv
  <2>5. ASSUME NEW c \in asked,
               \/ WorkEnds(c) \/ PreviewArrives(c) \/ StartArrives(c) \/ PollArrives(c)
               \/ RunFails(c) \/ TimerFires(c) \/ LatestArrives(c) \/ CancelArrives(c)
        PROVE  TypeInv'
    BY <2>1, <2>2, <2>5, AnswerType, LoopType DEF TypeInv
  <2> QED BY <1>2, <2>3, <2>4, <2>5 DEF Next
<1> QED BY <1>1, <1>2
LEMMA TypeInit == ASSUME GeometryDiagnosticsAssumption, Init PROVE TypeInv
<1>1. jobs = <<>> /\ DOMAIN jobs = {} /\ Len(jobs) = 0
  BY DEF Init
<1>2. Completed = {} /\ jobs \in Seq(Job)
  BY <1>1 DEF Completed
<1>3. StoreInv
  BY <1>2 DEF StoreInv, EndedWhenCompleted, Ranked
<1>4. (CHOOSE r \in Ratios : TRUE) \in Ratios
  BY DEF GeometryDiagnosticsAssumption
<1>5. diag \in Diag /\ diag.job = 0
  BY <1>4 DEF Init, NewDiagnostics, Diag, Maybe
<1>6. asked \subseteq Asked /\ \A c \in asked : c.op \in {"preview", "latest"}
  BY CallType DEF Init
<1> QED BY <1>1, <1>3, <1>5, <1>6 DEF TypeInv, PageInv, JobsNamed

\* The jobs, the two panels and the requests that are out stay well-formed,
\* and what is shown or asked of a job is about a job that exists.
THEOREM TypeCorrect == GeometryDiagnosticsAssumption => (Spec => []TypeOK)
<1> SUFFICES ASSUME GeometryDiagnosticsAssumption PROVE Spec => []TypeOK
  OBVIOUS
<1>1. Init => TypeInv
  BY TypeInit
<1>2. TypeInv => TypeOK
  <2> SUFFICES ASSUME TypeInv PROVE TypeOK
    OBVIOUS
  <2>1. jobs \in Seq(Job) /\ Len(jobs) \in Nat /\ diag \in Diag /\ diag.job <= Len(jobs)
    BY DEF TypeInv, StoreInv, PageInv, JobsNamed
  <2>2. diag.job \in 0 .. Len(jobs)
    BY <2>1 DEF Diag
  <2>3. diag.busyWith \subseteq {"advanced", "comparison"}
    BY <2>1 DEF Diag
  <2> QED BY <2>1, <2>2, <2>3 DEF TypeOK, Job, Diag, Maybe
<1> QED BY <1>1, <1>2, TypeStep, PTL DEF Spec

\* A job that was cancelled is never completed or failed, whatever its worker
\* was doing and however often the server restarts.
THEOREM CancelledJobsStay == GeometryDiagnosticsAssumption => (Spec => [][CancelledStays]_vars)
<1> SUFFICES ASSUME GeometryDiagnosticsAssumption PROVE Spec => [][CancelledStays]_vars
  OBVIOUS
<1>1. Init => TypeInv
  BY TypeInit
<1>2. TypeInv /\ [Next]_vars => [CancelledStays]_vars
  BY NextStores, StoreKept DEF TypeInv
<1> QED BY <1>1, <1>2, TypeStep, PTL DEF Spec

-----------------------------------------------------------------------------
(***************************************************************************)
(* "Analyzing" has one loop behind it.  Each run takes a new token; calls  *)
(* of earlier runs may be out, and of the present one at most one is.      *)
(***************************************************************************)
OfLoop(c) == c.op \in Loop
Current(c) == OfLoop(c) /\ c.token = diag.token

LoopInv ==
  /\ \A c \in asked : OfLoop(c) => c.token <= diag.token
  /\ \A c, d \in asked : Current(c) /\ Current(d) => c = d
  /\ diag.busy => \E c \in asked : Current(c)

\* What a step does to the loops.
LoopsKept == \A c : OfLoop(c) => (c \in asked' <=> c \in asked)
Quiet == LoopsKept /\ diag'.token = diag.token /\ diag'.busy = diag.busy
GivenUp == LoopsKept /\ diag'.token = diag.token + 1 /\ ~diag'.busy
Begun == \E c : /\ OfLoop(c) /\ c.token = diag.token + 1
                /\ asked' = asked \union {c}
                /\ diag'.token = diag.token + 1
TurnTaken == \E c \in asked : \E d : /\ OfLoop(c) /\ OfLoop(d) /\ d.token = c.token
                                       /\ asked' = (asked \ {c}) \union {d}
                                       /\ diag'.token = diag.token
                                       /\ diag'.busy = diag.busy
LoopEnds == \E c \in asked : /\ OfLoop(c)
                             /\ asked' = asked \ {c}
                             /\ diag'.token = diag.token
                             /\ diag'.busy => diag.busy /\ c.token # diag.token

LEMMA ClickLoops ==
  ASSUME TypeInv,
         \/ TogglePanel \/ createAdvancedPlan \/ runComparison \/ chooseVersion
         \/ focusDiagnostic \/ chooseRatio \/ runDiagnostics \/ cancelDiagnostics
  PROVE  Quiet \/ GivenUp \/ Begun
<1>0. diag \in Diag /\ diag.compareTo \in Maybe(Versions) /\ diag.ratio \in Maybe(Ratios)
      /\ diag.job \in Nat /\ diag.token \in Nat /\ diag.token + 1 \in Nat
  BY DEF TypeInv, PageInv, Diag, Maybe
<1> USE DEF Quiet, LoopsKept, OfLoop, Loop
<1>1. ASSUME NEW g, g \in Diag, Clicked(g), asked' = asked,
             g.token = diag.token, g.busy = diag.busy
      PROVE  Quiet
  BY <1>1, ClickedType
<1>2. CASE TogglePanel
  <2>1. PICK p \in {"diagnostics", "health", "none"} : Clicked([diag EXCEPT !.panel = p])
    BY <1>2 DEF TogglePanel
  <2> DEFINE g == [diag EXCEPT !.panel = p]
  <2>2. g \in Diag /\ g.token = diag.token /\ g.busy = diag.busy
    BY <1>0 DEF Diag
  <2> QED BY <1>1, <1>2, <2>1, <2>2 DEF TogglePanel
<1>3. ASSUME NEW op, NEW work \in {"advanced", "comparison"}, Submit(op, work) PROVE Quiet
  <2> DEFINE g == [diag EXCEPT !.busyWith = @ \union {work}]
             call == [Call(work, 0) EXCEPT !.version = diag.compareTo]
  <2>1. g \in Diag /\ g.token = diag.token /\ g.busy = diag.busy
    BY <1>0 DEF Diag
  <2>2. Clicked(g) /\ asked' = asked \union {call}
    BY <1>3 DEF Submit
  <2>3. call.op = work
    BY <1>0, CallType
  <2> HIDE DEF g, call
  <2> QED BY <2>1, <2>2, <2>3, ClickedType
<1>4. CASE chooseVersion
  <2>1. PICK v \in Versions : Clicked([diag EXCEPT !.compareTo = v, !.comparison = Nothing])
    BY <1>4 DEF chooseVersion
  <2> DEFINE g == [diag EXCEPT !.compareTo = v, !.comparison = Nothing]
  <2>2. g \in Diag /\ g.token = diag.token /\ g.busy = diag.busy
    BY <1>0 DEF Diag, Maybe
  <2> QED BY <1>1, <1>4, <2>1, <2>2 DEF chooseVersion
<1>5. CASE focusDiagnostic
  <2>1. PICK present \in BOOLEAN :
          Clicked(IF diag.manifest THEN [diag EXCEPT !.located = present, !.focus = FALSE]
                  ELSE [diag EXCEPT !.focus = TRUE])
    BY <1>5 DEF focusDiagnostic
  <2> DEFINE g == IF diag.manifest THEN [diag EXCEPT !.located = present, !.focus = FALSE]
                  ELSE [diag EXCEPT !.focus = TRUE]
  <2>2. g \in Diag /\ g.token = diag.token /\ g.busy = diag.busy
    BY <1>0 DEF Diag
  <2> QED BY <1>1, <1>5, <2>1, <2>2 DEF focusDiagnostic
<1>6. CASE chooseRatio
  <2>1. PICK r \in Ratios : Clicked([diag EXCEPT !.ratio = r, !.report = Nothing])
    BY <1>6 DEF chooseRatio
  <2> DEFINE g == [diag EXCEPT !.ratio = r, !.report = Nothing]
  <2>2. g \in Diag /\ g.token = diag.token /\ g.busy = diag.busy
    BY <1>0 DEF Diag, Maybe
  <2> QED BY <1>1, <1>6, <2>1, <2>2 DEF chooseRatio
<1>7. CASE runDiagnostics
  <2> DEFINE g == [diag EXCEPT !.token = @ + 1, !.busy = TRUE, !.job = 0, !.jobSaw = "none"]
             call == [Call("start", diag.token + 1) EXCEPT !.ratio = diag.ratio]
  <2>1. g \in Diag /\ g.token = diag.token + 1
    BY <1>0 DEF Diag
  <2>2. call.op = "start" /\ call.token = diag.token + 1
    BY <1>0, CallType
  <2>3. Clicked(g) /\ asked' = asked \union {call}
    BY <1>7 DEF runDiagnostics
  <2> HIDE DEF g, call
  <2> QED BY <2>1, <2>2, <2>3, ClickedType DEF Begun
<1>8. CASE cancelDiagnostics
  <2> DEFINE g == [diag EXCEPT !.token = @ + 1, !.busy = FALSE]
             call == [Call("cancel", 0) EXCEPT !.job = diag.job]
  <2>1. g \in Diag /\ g.token = diag.token + 1 /\ ~g.busy
    BY <1>0 DEF Diag
  <2>2. call.op = "cancel"
    BY <1>0, CallType
  <2>3. Clicked(g) /\ asked' = asked \union {call}
    BY <1>8 DEF cancelDiagnostics
  <2> HIDE DEF g, call
  <2> QED BY <2>1, <2>2, <2>3, ClickedType DEF GivenUp
<1> QED BY <1>2, <1>3, <1>4, <1>5, <1>6, <1>7, <1>8 DEF createAdvancedPlan, runComparison
LEMMA AnswerLoops ==
  ASSUME TypeInv, NEW c \in asked,
         \/ WorkEnds(c) \/ PreviewArrives(c) \/ StartArrives(c) \/ PollArrives(c)
         \/ RunFails(c) \/ TimerFires(c) \/ LatestArrives(c) \/ CancelArrives(c)
  PROVE  Quiet \/ TurnTaken \/ LoopEnds
<1>0. diag \in Diag /\ c \in Asked
  BY DEF TypeInv, PageInv
<1> USE DEF OfLoop, Loop
<1>1. CASE WorkEnds(c) \/ PreviewArrives(c) \/ LatestArrives(c) \/ CancelArrives(c)
  <2>1. LoopsKept
    BY <1>1 DEF WorkEnds, PreviewArrives, LatestArrives, CancelArrives, LoopsKept
  <2>2. diag'.token = diag.token /\ diag'.busy = diag.busy
    <3>1. CASE WorkEnds(c)
      <4>1. PICK comparison : diag' = [diag EXCEPT !.busyWith = @ \ {c.op}, !.comparison = comparison]
        BY <3>1 DEF WorkEnds
      <4> QED BY <1>0, <4>1 DEF Diag
    <3>2. CASE PreviewArrives(c)
      BY <1>0, <3>2 DEF PreviewArrives, Diag
    <3>3. CASE LatestArrives(c)
      BY <1>0, <3>3 DEF LatestArrives, Diag
    <3>4. CASE CancelArrives(c)
      BY <1>0, <3>4 DEF CancelArrives, Diag
    <3> QED BY <1>1, <3>1, <3>2, <3>3, <3>4
  <2> QED BY <2>1, <2>2 DEF Quiet
<1>2. CASE StartArrives(c)
  <2>1. CASE c.token # diag.token
    BY <1>2, <2>1 DEF StartArrives, LoopEnds
  <2>2. CASE c.token = diag.token
    <3> DEFINE d == [c EXCEPT !.op = "wait", !.job = Len(jobs) + 1]
    <3>1. asked' = (asked \ {c}) \union {d} /\ c.op = "start"
      BY <1>2, <2>2 DEF StartArrives
    <3>2. diag'.token = diag.token /\ diag'.busy = diag.busy
      BY <1>0, <1>2, <2>2 DEF StartArrives, Diag
    <3>3. d.op = "wait" /\ d.token = c.token
      BY <1>0 DEF Asked
    <3> HIDE DEF d
    <3> QED BY <3>1, <3>2, <3>3 DEF TurnTaken
  <2> QED BY <2>1, <2>2
<1>3. CASE PollArrives(c)
  <2> DEFINE st == jobs[c.job].st
             over == st \in Terminal
  <2>1. PICK busy, report :
          /\ diag' = [diag EXCEPT !.job = c.job, !.jobSaw = st, !.busy = busy, !.report = report]
          /\ busy = (diag.busy /\ ~(over /\ c.token = diag.token))
    BY <1>3 DEF PollArrives
  <2>2. diag'.token = diag.token /\ diag'.busy = busy
    BY <1>0, <2>1 DEF Diag
  <2>3. CASE over
    <3>1. asked' = asked \ {c} /\ c.op = "poll"
      BY <1>3, <2>3 DEF PollArrives
    <3>2. diag'.busy => diag.busy /\ c.token # diag.token
      BY <2>1, <2>2, <2>3
    <3> QED BY <2>2, <3>1, <3>2 DEF LoopEnds
  <2>4. CASE ~over
    <3> DEFINE d == [c EXCEPT !.op = "wait"]
    <3>1. asked' = (asked \ {c}) \union {d} /\ c.op = "poll"
      BY <1>3, <2>4 DEF PollArrives
    <3>2. d.op = "wait" /\ d.token = c.token
      BY <1>0 DEF Asked
    <3>3. diag'.busy = diag.busy
      BY <1>0, <2>1, <2>2, <2>4 DEF Diag
    <3> HIDE DEF d
    <3> QED BY <2>2, <3>1, <3>2, <3>3 DEF TurnTaken
  <2> QED BY <2>3, <2>4
<1>4. CASE RunFails(c)
  <2>1. diag'.token = diag.token /\ diag'.busy = (diag.busy /\ c.token # diag.token)
    BY <1>0, <1>4 DEF RunFails, Diag
  <2>2. asked' = asked \ {c} /\ c.op \in Loop
    BY <1>4 DEF RunFails
  <2> QED BY <2>1, <2>2 DEF LoopEnds
<1>5. CASE TimerFires(c)
  <2>1. CASE c.token # diag.token
    BY <1>5, <2>1 DEF TimerFires, LoopEnds
  <2>2. CASE c.token = diag.token
    <3> DEFINE d == [c EXCEPT !.op = "poll"]
    <3>1. asked' = (asked \ {c}) \union {d} /\ c.op = "wait" /\ diag' = diag
      BY <1>5, <2>2 DEF TimerFires
    <3>2. d.op = "poll" /\ d.token = c.token
      BY <1>0 DEF Asked
    <3> HIDE DEF d
    <3> QED BY <3>1, <3>2 DEF TurnTaken
  <2> QED BY <2>1, <2>2
<1> QED BY <1>1, <1>2, <1>3, <1>4, <1>5

LEMMA LoopStep == TypeInv /\ LoopInv /\ [Next]_vars => LoopInv'
<1> SUFFICES ASSUME TypeInv, LoopInv, [Next]_vars PROVE LoopInv'
  OBVIOUS
<1>0. diag.token \in Nat /\ \A c \in asked : c.token \in Nat
  BY DEF TypeInv, PageInv, Diag, Asked
<1> USE DEF LoopInv, Current
<1>1. CASE Quiet
  BY <1>1 DEF Quiet, LoopsKept
<1>2. CASE GivenUp
  BY <1>0, <1>2 DEF GivenUp, LoopsKept
<1>3. CASE Begun
  BY <1>0, <1>3 DEF Begun
<1>4. CASE TurnTaken
  BY <1>0, <1>4 DEF TurnTaken
<1>5. CASE LoopEnds
  BY <1>0, <1>5 DEF LoopEnds
<1>6. CASE UNCHANGED vars
  BY <1>6 DEF vars
<1>7. CASE Worker \/ Restart
  BY <1>7 DEF Worker, Restart
<1> QED BY <1>1, <1>2, <1>3, <1>4, <1>5, <1>6, <1>7, ClickLoops, AnswerLoops DEF Next

\* While a panel says "Analyzing", exactly one start, timer or poll of that
\* very run is out: none is lost, and no earlier run polls in its place.
THEOREM LoopsBacked == GeometryDiagnosticsAssumption => (Spec => []BusyIsBacked)
<1> SUFFICES ASSUME GeometryDiagnosticsAssumption PROVE Spec => []BusyIsBacked
  OBVIOUS
<1>1. Init => TypeInv
  BY TypeInit
<1>2. Init => LoopInv
  BY CallType DEF Init, LoopInv, NewDiagnostics, Current, OfLoop, Loop
<1>3. LoopInv => BusyIsBacked
  <2> SUFFICES ASSUME LoopInv, diag.busy
               PROVE  Cardinality({c \in asked : c.op \in Loop /\ c.token = diag.token}) = 1
    BY DEF BusyIsBacked
  <2>1. PICK d \in asked : Current(d)
    BY DEF LoopInv
  <2>2. {c \in asked : c.op \in Loop /\ c.token = diag.token} = {d}
    BY <2>1 DEF LoopInv, Current, OfLoop
  <2> QED BY <2>2, FS_Singleton
<1> QED BY <1>1, <1>2, <1>3, TypeStep, LoopStep, PTL DEF Spec

-----------------------------------------------------------------------------
(***************************************************************************)
(* The workspace of a Geometry.  The drafts its undo remembers are roles   *)
(* of the same surfaces.                                                   *)
(***************************************************************************)
Draft == [Faces -> {GV!NoRole, "provided", "inferred"}]
Overrides == [Faces -> GV!Materials \cup {NoMaterial}]
Store == [library : SUBSET Customs, overrides : Overrides]
Workspace == [manifest : BOOLEAN, selected : SUBSET Faces, hidden : SUBSET Faces, roles : Draft, history : Seq(Draft),
              intent : BOOLEAN, library : SUBSET Customs, chosen : GV!Materials, overrides : Overrides,
              panel : GV!Panels, planning : BOOLEAN, gestures : Nat]
WorkspaceInv == /\ stored \in Store /\ geo \in Workspace /\ Len(geo.history) <= MaxUndo
             /\ geo.library = stored.library /\ geo.overrides = stored.overrides

-----------------------------------------------------------------------------
\* What a click may not do: forget which drafts there were, or take a role
\* the user gave.
Keeps(g) == \A f \in Faces : geo.roles[f] = "provided" /\ g.roles[f] = "inferred" => g.history # GV!Remembered

\* A workspace that is opened has the types.
LEMMA FreshWorkspace ==
  ASSUME NEW store \in Store
  PROVE  GV!NewWorkspace(store) \in Workspace /\ GV!NewWorkspace(store).history = <<>>
         /\ GV!NewWorkspace(store).library = store.library /\ GV!NewWorkspace(store).overrides = store.overrides
         /\ \A f \in Faces : GV!NewWorkspace(store).roles[f] = GV!NoRole
<1> DEFINE g == GV!NewWorkspace(store)
<1>1. g = [manifest |-> FALSE, selected |-> {}, hidden |-> {},
           roles |-> [f \in Faces |-> GV!NoRole], history |-> <<>>, intent |-> FALSE,
           library |-> store.library, chosen |-> GV!Default, overrides |-> store.overrides,
           panel |-> "none", planning |-> FALSE, gestures |-> 0]
  BY DEF GV!NewWorkspace
<1>2. [f \in Faces |-> GV!NoRole] \in Draft /\ GV!Default \in GV!Materials /\ "none" \in GV!Panels
  BY DEF Draft, GV!Materials, GV!Presets, GV!Panels
<1>3. store.library \in SUBSET Customs /\ store.overrides \in Overrides /\ << >> \in Seq(Draft)
  BY DEF Store
<1> QED BY <1>1, <1>2, <1>3 DEF Workspace

\* The drafts that are remembered are no more than the history keeps, and one
\* that is taken back leaves fewer of them.
LEMMA RememberedDrafts ==
  ASSUME GV!GeometryReviewAssumption, WorkspaceInv
  PROVE  /\ GV!Remembered \in Seq(Draft) /\ Len(GV!Remembered) <= MaxUndo
         /\ geo.history # <<>> => /\ GV!Front(geo.history) \in Seq(Draft)
                                  /\ Len(GV!Front(geo.history)) < Len(geo.history)
                                  /\ GV!Front(geo.history) # GV!Remembered
                                  /\ GV!Last(geo.history) \in Draft
<1>1. geo.history \in Seq(Draft) /\ geo.roles \in Draft /\ Len(geo.history) <= MaxUndo /\ MaxUndo \in Nat \ {0}
  BY DEF WorkspaceInv, Workspace, GV!GeometryReviewAssumption
<1> DEFINE kept == IF Len(geo.history) >= MaxUndo THEN Tail(geo.history) ELSE geo.history
<1>2. kept \in Seq(Draft) /\ Len(kept) < MaxUndo /\ Len(kept) >= Len(geo.history) - 1
  BY <1>1
<1>3. GV!Remembered = Append(kept, geo.roles)
  BY DEF GV!Remembered
<1> HIDE DEF kept
<1>4. GV!Remembered \in Seq(Draft) /\ Len(GV!Remembered) = Len(kept) + 1
  BY <1>1, <1>2, <1>3
<1>5. ASSUME geo.history # <<>>
      PROVE  /\ GV!Front(geo.history) \in Seq(Draft) /\ Len(GV!Front(geo.history)) = Len(geo.history) - 1
             /\ GV!Last(geo.history) \in Draft
  BY <1>1, <1>5 DEF GV!Front, GV!Last
<1> QED BY <1>1, <1>2, <1>4, <1>5

\* A click changes the workspace and counts.
LEMMA ClickedStep ==
  ASSUME WorkspaceInv, NEW g \in Workspace, GV!Clicked(g), Len(g.history) <= MaxUndo
  PROVE  /\ geo' \in Workspace /\ Len(geo'.history) <= MaxUndo
         /\ geo'.library = g.library /\ geo'.overrides = g.overrides
         /\ geo'.roles = g.roles /\ geo'.history = g.history
  BY DEF GV!Clicked, Workspace

\* A click that leaves the storage alone.
LEMMA PageStep ==
  ASSUME WorkspaceInv, NEW g \in Workspace, GV!Clicked(g), Len(g.history) <= MaxUndo, Keeps(g),
         g.library = geo.library, g.overrides = geo.overrides, UNCHANGED stored
  PROVE  WorkspaceInv' /\ GV!RoleKept
<1>1. WorkspaceInv'
  BY ClickedStep DEF WorkspaceInv
<1>2. GV!RoleKept
  BY ClickedStep DEF GV!RoleKept, Keeps
<1> QED BY <1>1, <1>2

\* A click that saves the display materials.
LEMMA SaveStep ==
  ASSUME WorkspaceInv, NEW g \in Workspace, GV!SaveAndShow(g), g.history = geo.history, g.roles = geo.roles
  PROVE  WorkspaceInv' /\ GV!RoleKept
<1>1. GV!Clicked(g) /\ stored' = [library |-> g.library, overrides |-> g.overrides] /\ Len(g.history) <= MaxUndo
  BY DEF GV!SaveAndShow, GV!Save, WorkspaceInv
<1>2. stored' \in Store
  BY <1>1 DEF Workspace, Store
<1>3. WorkspaceInv'
  BY <1>1, <1>2, ClickedStep DEF WorkspaceInv
<1>4. GV!RoleKept
  BY <1>1, ClickedStep DEF GV!RoleKept
<1> QED BY <1>3, <1>4

\* The clicks that touch neither materials nor roles.
LEMMA QuietClicks ==
  ASSUME WorkspaceInv,
         GV!Select \/ GV!Hide \/ GV!Isolate \/ GV!TogglePanel \/ GV!chooseAppearance \/ GV!decideIntent \/ GV!createSemanticPlan
  PROVE  WorkspaceInv' /\ GV!RoleKept
<1>1. geo \in Workspace /\ Len(geo.history) <= MaxUndo
  BY DEF WorkspaceInv
<1> DEFINE Plain(g) == /\ g \in Workspace /\ GV!Clicked(g) /\ g.history = geo.history /\ g.roles = geo.roles
                       /\ g.library = geo.library /\ g.overrides = geo.overrides
<1>2. ASSUME GV!Select PROVE \E g : Plain(g)
  <2>1. PICK s \in SUBSET Faces : GV!Clicked([geo EXCEPT !.selected = s])
    BY <1>2 DEF GV!Select
  <2>2. Plain([geo EXCEPT !.selected = s])
    BY <1>1, <2>1 DEF Workspace
  <2> QED BY <2>2
<1>3. ASSUME GV!Hide PROVE \E g : Plain(g)
  <2>1. PICK s \in SUBSET Faces : GV!Clicked([geo EXCEPT !.hidden = s])
    <3>1. PICK f \in Faces : GV!Clicked([geo EXCEPT !.hidden = IF f \in @ THEN @ \ {f} ELSE @ \union {f}])
      BY <1>3 DEF GV!Hide
    <3> DEFINE s == IF f \in geo.hidden THEN geo.hidden \ {f} ELSE geo.hidden \union {f}
    <3>2. s \in SUBSET Faces
      BY <1>1 DEF Workspace
    <3> QED BY <3>1, <3>2
  <2>2. Plain([geo EXCEPT !.hidden = s])
    BY <1>1, <2>1 DEF Workspace
  <2> QED BY <2>2
<1>4. ASSUME GV!Isolate PROVE \E g : Plain(g)
  <2>1. Plain([geo EXCEPT !.hidden = Faces \ geo.selected])
    BY <1>1, <1>4 DEF Workspace, GV!Isolate
  <2> QED BY <2>1
<1>5. ASSUME GV!TogglePanel PROVE \E g : Plain(g)
  <2>1. PICK s \in GV!Panels : GV!Clicked([geo EXCEPT !.panel = s])
    BY <1>5 DEF GV!TogglePanel, GV!Panels
  <2>2. Plain([geo EXCEPT !.panel = s])
    BY <1>1, <2>1 DEF Workspace
  <2> QED BY <2>2
<1>6. ASSUME GV!chooseAppearance PROVE \E g : Plain(g)
  <2>1. PICK m \in (GV!Presets \union geo.library) \ {geo.chosen} : GV!Clicked([geo EXCEPT !.chosen = m])
    BY <1>6 DEF GV!chooseAppearance
  <2>2. m \in GV!Materials
    BY <1>1, <2>1 DEF Workspace, GV!Materials
  <2>3. Plain([geo EXCEPT !.chosen = m])
    BY <1>1, <2>1, <2>2 DEF Workspace
  <2> QED BY <2>3
<1>7. ASSUME GV!decideIntent PROVE \E g : Plain(g)
  <2>1. Plain([geo EXCEPT !.intent = TRUE])
    BY <1>1, <1>7 DEF Workspace, GV!decideIntent
  <2> QED BY <2>1
<1>8. ASSUME GV!createSemanticPlan PROVE \E g : Plain(g)
  <2>1. Plain([geo EXCEPT !.planning = TRUE])
    BY <1>1, <1>8 DEF Workspace, GV!createSemanticPlan
  <2> QED BY <2>1
<1>9. UNCHANGED stored
  BY DEF GV!Select, GV!Hide, GV!Isolate, GV!TogglePanel, GV!chooseAppearance, GV!decideIntent, GV!createSemanticPlan, GV!OnlyPage
<1>10. PICK g : Plain(g)
  BY <1>2, <1>3, <1>4, <1>5, <1>6, <1>7, <1>8
<1> QED BY <1>1, <1>9, <1>10, PageStep DEF Keeps

\* The clicks that save the display materials.
LEMMA MaterialClicks ==
  ASSUME WorkspaceInv, GV!assignSurfaceMaterial \/ GV!createAppearance \/ GV!deleteAppearance
  PROVE  WorkspaceInv' /\ GV!RoleKept
<1>1. geo \in Workspace /\ geo.library = stored.library /\ GV!Default \in GV!Presets
  BY DEF WorkspaceInv, GV!Presets
<1>2. geo.library \in SUBSET Customs /\ geo.overrides \in Overrides /\ geo.chosen \in GV!Materials
      /\ \A m \in GV!Presets \cup Customs : m \in GV!Materials
  BY <1>1 DEF Workspace, GV!Materials
<1> DEFINE Saved(g) == g \in Workspace /\ GV!SaveAndShow(g) /\ g.history = geo.history /\ g.roles = geo.roles
<1>3. ASSUME GV!assignSurfaceMaterial PROVE \E g : Saved(g)
  <2>1. PICK m \in GV!Presets \union geo.library \union {NoMaterial} :
          GV!SaveAndShow([geo EXCEPT !.overrides = [f \in Faces |-> IF f \in geo.selected THEN m ELSE @[f]],
                                     !.chosen = IF m = NoMaterial THEN @ ELSE m])
    BY <1>3 DEF GV!assignSurfaceMaterial
  <2> DEFINE painted == [f \in Faces |-> IF f \in geo.selected THEN m ELSE geo.overrides[f]]
             shown == IF m = NoMaterial THEN geo.chosen ELSE m
  <2>2. painted \in Overrides /\ shown \in GV!Materials
    BY <1>2, <2>1 DEF Overrides
  <2>3. GV!SaveAndShow([geo EXCEPT !.overrides = painted, !.chosen = shown])
    BY <2>1
  <2> HIDE DEF painted, shown
  <2>4. Saved([geo EXCEPT !.overrides = painted, !.chosen = shown])
    BY <1>1, <2>2, <2>3 DEF Workspace
  <2> QED BY <2>4
<1>4. ASSUME GV!createAppearance PROVE \E g : Saved(g)
  <2>1. PICK m \in Customs \ stored.library : GV!SaveAndShow([geo EXCEPT !.library = @ \union {m}, !.chosen = m])
    BY <1>4 DEF GV!createAppearance
  <2>2. Saved([geo EXCEPT !.library = @ \union {m}, !.chosen = m])
    BY <1>1, <1>2, <2>1 DEF Workspace
  <2> QED BY <2>2
<1>5. ASSUME GV!deleteAppearance PROVE \E g : Saved(g)
  <2> DEFINE painted == [f \in Faces |-> IF geo.overrides[f] = geo.chosen THEN GV!Default ELSE geo.overrides[f]]
  <2>1. painted \in Overrides /\ GV!Default \in GV!Materials
    BY <1>1, <1>2 DEF Overrides
  <2>2. GV!SaveAndShow([geo EXCEPT !.library = @ \ {geo.chosen}, !.overrides = painted, !.chosen = GV!Default])
    BY <1>5 DEF GV!deleteAppearance
  <2> HIDE DEF painted
  <2>3. Saved([geo EXCEPT !.library = @ \ {geo.chosen}, !.overrides = painted, !.chosen = GV!Default])
    BY <1>1, <1>2, <2>1, <2>2 DEF Workspace
  <2> QED BY <2>3
<1>6. PICK g : Saved(g)
  BY <1>3, <1>4, <1>5
<1> QED BY <1>6, SaveStep

\* The clicks that change the draft of the roles.
LEMMA DraftClicks ==
  ASSUME GV!GeometryReviewAssumption, WorkspaceInv, GV!assignGroups \/ GV!applySuggestions \/ GV!undoAssignments
  PROVE  WorkspaceInv' /\ GV!RoleKept
<1>1. geo \in Workspace /\ geo.roles \in Draft /\ Len(geo.history) <= MaxUndo /\ geo.history \in Seq(Draft)
  BY DEF WorkspaceInv, Workspace
<1> DEFINE Drafted(g) == /\ g \in Workspace /\ GV!Clicked(g) /\ Len(g.history) <= MaxUndo /\ Keeps(g)
                         /\ g.library = geo.library /\ g.overrides = geo.overrides
<1>2. ASSUME NEW roles \in Draft, GV!commitAssignments(roles),
             \A f \in Faces : geo.roles[f] = "provided" => roles[f] = "provided"
      PROVE  \E g : Drafted(g)
  <2> DEFINE remembered == GV!Remembered
             g == [geo EXCEPT !.history = remembered, !.roles = roles]
  <2>1. remembered \in Seq(Draft) /\ Len(remembered) <= MaxUndo
    BY RememberedDrafts
  <2>2. GV!Clicked(g)
    BY <1>2 DEF GV!commitAssignments
  <2> HIDE DEF remembered
  <2>3. /\ g \in Workspace /\ g.roles = roles /\ g.history = remembered
        /\ g.library = geo.library /\ g.overrides = geo.overrides
    BY <1>1, <2>1 DEF Workspace
  <2> HIDE DEF g
  <2>4. Keeps(g)
    BY <1>2, <2>3 DEF Keeps
  <2> QED BY <2>1, <2>2, <2>3, <2>4
<1>3. ASSUME GV!assignGroups PROVE \E g : Drafted(g)
  <2> DEFINE roles == [f \in Faces |-> IF f \in geo.selected THEN "provided" ELSE geo.roles[f]]
  <2>1. roles \in Draft /\ \A f \in Faces : geo.roles[f] = "provided" => roles[f] = "provided"
    BY <1>1 DEF Draft
  <2>2. GV!commitAssignments(roles)
    BY <1>3 DEF GV!assignGroups
  <2> HIDE DEF roles
  <2> QED BY <1>2, <2>1, <2>2
<1>4. ASSUME GV!applySuggestions PROVE \E g : Drafted(g)
  <2> DEFINE roles == [f \in Faces |-> GV!Suggestion(f)]
  <2>1. roles \in Draft /\ \A f \in Faces : geo.roles[f] = "provided" => roles[f] = "provided"
    BY <1>1 DEF Draft, GV!Suggestion, GV!NoRole
  <2>2. GV!commitAssignments(roles)
    BY <1>4 DEF GV!applySuggestions
  <2> HIDE DEF roles
  <2> QED BY <1>2, <2>1, <2>2
<1>5. ASSUME GV!undoAssignments PROVE \E g : Drafted(g)
  <2> DEFINE last == GV!Last(geo.history)
             front == GV!Front(geo.history)
             g == [geo EXCEPT !.roles = last, !.history = front]
  <2>1. geo.history # <<>> /\ GV!Clicked(g)
    BY <1>5 DEF GV!undoAssignments, GV!Gesture, GV!Offers, GV!InventoryOffers, GV!InspectorOffers,
                GV!AppearanceOffers, GV!SemanticsOffers
  <2>2. last \in Draft /\ front \in Seq(Draft) /\ front # GV!Remembered /\ Len(front) < Len(geo.history)
    BY <2>1, RememberedDrafts
  <2> HIDE DEF last, front
  <2>3. /\ g \in Workspace /\ g.history = front /\ g.library = geo.library /\ g.overrides = geo.overrides
    BY <1>1, <2>2 DEF Workspace
  <2> HIDE DEF g
  <2>4. Keeps(g) /\ Len(g.history) <= MaxUndo
    BY <1>1, <2>2, <2>3 DEF Keeps, GV!GeometryReviewAssumption
  <2> QED BY <2>1, <2>3, <2>4
<1>6. UNCHANGED stored
  BY DEF GV!assignGroups, GV!applySuggestions, GV!undoAssignments, GV!OnlyPage
<1>7. PICK g : Drafted(g)
  BY <1>3, <1>4, <1>5
<1> QED BY <1>6, <1>7, PageStep

\* What is no click: the plan ends, the preview arrives, another page was open.
LEMMA OtherReviewSteps ==
  ASSUME GV!GeometryReviewAssumption, WorkspaceInv, GV!PlanEnds \/ GV!PreviewArrives \/ GV!Reopen
  PROVE  WorkspaceInv' /\ GV!RoleKept
<1>1. geo \in Workspace /\ stored \in Store /\ Len(geo.history) <= MaxUndo /\ UNCHANGED stored
  BY DEF WorkspaceInv, GV!PlanEnds, GV!PreviewArrives, GV!Reopen, GV!OnlyPage
<1> DEFINE Same == /\ geo' \in Workspace /\ geo'.history = geo.history /\ geo'.roles = geo.roles
                   /\ geo'.library = geo.library /\ geo'.overrides = geo.overrides
<1>2. ASSUME Same PROVE WorkspaceInv' /\ GV!RoleKept
  BY <1>1, <1>2 DEF WorkspaceInv, GV!RoleKept
<1>3. ASSUME GV!PlanEnds PROVE Same
  BY <1>1, <1>3 DEF Workspace, GV!PlanEnds
<1>4. ASSUME GV!PreviewArrives PROVE Same
  BY <1>1, <1>4 DEF Workspace, GV!PreviewArrives
<1>5. ASSUME GV!Reopen PROVE WorkspaceInv' /\ GV!RoleKept
  <2> DEFINE fresh == GV!NewWorkspace(stored)
  <2>1. fresh \in Workspace /\ fresh.history = <<>> /\ fresh.library = stored.library
        /\ fresh.overrides = stored.overrides /\ \A f \in Faces : fresh.roles[f] = GV!NoRole
    BY <1>1, FreshWorkspace
  <2>2. geo' = [fresh EXCEPT !.gestures = geo.gestures + 1] /\ geo.gestures \in Nat
    BY <1>1, <1>5 DEF GV!Reopen, Workspace
  <2> HIDE DEF fresh
  <2>3. /\ geo' \in Workspace /\ geo'.history = <<>> /\ geo'.library = stored.library
        /\ geo'.overrides = stored.overrides /\ geo'.roles = fresh.roles
    BY <2>1, <2>2 DEF Workspace
  <2>4. Len(geo'.history) <= MaxUndo
    BY <2>3 DEF GV!GeometryReviewAssumption
  <2> QED BY <1>1, <2>1, <2>3, <2>4 DEF WorkspaceInv, GV!RoleKept, GV!NoRole
<1> QED BY <1>2, <1>3, <1>4, <1>5

LEMMA WorkspaceInit == GV!GeometryReviewAssumption /\ GV!Init => WorkspaceInv
<1> SUFFICES ASSUME GV!GeometryReviewAssumption, GV!Init PROVE WorkspaceInv
  OBVIOUS
<1>1. stored \in Store
  BY DEF GV!Init, Store, Overrides, GV!Materials
<1>2. geo = GV!NewWorkspace(stored) /\ 0 <= MaxUndo
  BY DEF GV!Init, GV!GeometryReviewAssumption
<1> QED BY <1>1, <1>2, FreshWorkspace DEF WorkspaceInv

LEMMA WorkspaceNext ==
  GV!GeometryReviewAssumption /\ WorkspaceInv /\ [GV!Next]_GV!reviewVars => WorkspaceInv' /\ [GV!RoleKept]_GV!reviewVars
<1> SUFFICES ASSUME GV!GeometryReviewAssumption, WorkspaceInv, [GV!Next]_GV!reviewVars
             PROVE  WorkspaceInv' /\ [GV!RoleKept]_GV!reviewVars
  OBVIOUS
<1>1. CASE GV!Next
  BY <1>1, QuietClicks, MaterialClicks, DraftClicks, OtherReviewSteps DEF GV!Next
<1>2. CASE UNCHANGED GV!reviewVars
  BY <1>2 DEF GV!reviewVars, WorkspaceInv
<1> QED BY <1>1, <1>2

LEMMA WorkspaceAlways == GV!GeometryReviewAssumption => (GV!Spec => []WorkspaceInv)
<1> SUFFICES ASSUME GV!GeometryReviewAssumption PROVE GV!Spec => []WorkspaceInv
  OBVIOUS
<1> QED BY WorkspaceInit, WorkspaceNext, PTL DEF GV!Spec

\* The workspace of a Geometry is well-formed and its undo bounded, and what it
\* shows of the display materials is what the browser's storage keeps.
THEOREM WorkspaceTyped == GV!GeometryReviewAssumption => (GV!Spec => []GV!TypeOK)
<1> SUFFICES ASSUME GV!GeometryReviewAssumption PROVE GV!Spec => []GV!TypeOK
  OBVIOUS
<1>1. WorkspaceInv => GV!TypeOK
  BY DEF WorkspaceInv, Workspace, Store, Draft, Overrides, GV!TypeOK
<1> QED BY <1>1, WorkspaceAlways, PTL

\* A role the user gave to a surface is replaced by a suggested one in no step
\* but the undo of the user, whatever was suggested, forgotten at the end of the
\* history or reopened meanwhile (applySuggestions, undoAssignments).
THEOREM GivenRolesStay == GV!GeometryReviewAssumption => (GV!Spec => [][GV!RoleKept]_GV!reviewVars)
<1> SUFFICES ASSUME GV!GeometryReviewAssumption PROVE GV!Spec => [][GV!RoleKept]_GV!reviewVars
  OBVIOUS
<1> QED BY WorkspaceAlways, WorkspaceNext, PTL DEF GV!Spec

-----------------------------------------------------------------------------
(***************************************************************************)
(* The workspace of a surface mesh: its filter is the one that is stored,  *)
(* of no more rules than are read back, and a comparison that is read is   *)
(* about the field that is shown.                                          *)
(***************************************************************************)
SurfaceFields == {"mesh", "groups", "mode", "selection", "hidden", "fields", "field", "probe", "opacity", "filter",
                  "loadsLeft", "busy", "steps"}
BesideFields == {"with", "versions", "loading", "asked", "askedField", "shown", "shownField"}
Filter == [on : BOOLEAN, rules : Seq(SU!Rules)]
Same(s) == /\ DOMAIN s = SurfaceFields /\ s.mesh = surface.mesh /\ s.filter = surface.filter
           /\ s.fields \subseteq QualityFields
SurfaceInv ==
  /\ DOMAIN surface = SurfaceFields /\ surface.mesh \in Meshes /\ surface.fields \subseteq QualityFields
  /\ filters \in [Meshes -> Filter] /\ \A m \in Meshes : Len(filters[m].rules) <= MaxRules
  /\ SU!FilterComesBack
BesideInv ==
  /\ DOMAIN beside = BesideFields /\ beside.versions \subseteq Meshes
  /\ beside.asked => beside.askedField = surface.field
  /\ SU!ComparisonIsOfChoice
MeshInv == SurfaceInv /\ BesideInv

-----------------------------------------------------------------------------
\* The comparison follows the field, whatever step changed it.
LEMMA ComparisonFollows ==
  ASSUME SU!SurfaceReviewAssumption, BesideInv, NEW s, surface' = s, SU!Effects(s, beside)
  PROVE  BesideInv'
<1>1. NoFace \notin Meshes
  BY DEF SU!SurfaceReviewAssumption
<1>2. CASE s.field # surface.field
  <2>1. beside' = SU!Compared(beside, s.field)
    BY <1>2 DEF SU!Effects
  <2>2. /\ DOMAIN beside' = BesideFields /\ beside'.versions = beside.versions /\ beside'.with = beside.with
        /\ beside'.asked => beside'.askedField = s.field /\ beside'.loading
        /\ beside'.with \in beside'.versions => beside'.loading
    BY <1>1, <2>1 DEF SU!Compared, BesideInv, BesideFields
  <2> QED BY <2>2 DEF BesideInv, SU!ComparisonIsOfChoice
<1>3. CASE s.field = surface.field
  BY <1>3 DEF SU!Effects, BesideInv, SU!ComparisonIsOfChoice
<1> QED BY <1>2, <1>3

\* A step that leaves the filter alone.
LEMMA FilterStays ==
  ASSUME SU!SurfaceReviewAssumption, MeshInv, NEW s, Same(s), SU!Becomes(s)
  PROVE  MeshInv'
<1>1. BesideInv'
  BY ComparisonFollows DEF MeshInv, SU!Becomes
<1>2. SurfaceInv'
  BY DEF MeshInv, SurfaceInv, Same, SU!Becomes, SU!FilterComesBack
<1> QED BY <1>1, <1>2 DEF MeshInv

LEMMA Edits ==
  ASSUME MeshInv
  PROVE  /\ Same(surface) /\ Same(SU!Stepped)
         /\ \A s, ids : Same(s) => Same(SU!WithSelection(s, ids))
         /\ \A s, f : Same(s) => Same(SU!WithField(s, f)) /\ Same(SU!Located(s, f)) /\ Same(SU!Reset(s, f))
         /\ \A s : Same(s) => Same(SU!WithFields(s, QualityFields))
<1>1. Same(surface) /\ Same(SU!Stepped)
  BY DEF MeshInv, SurfaceInv, Same, SurfaceFields, SU!Stepped
<1>2. ASSUME NEW s, Same(s), NEW ids PROVE Same(SU!WithSelection(s, ids))
  BY <1>2 DEF Same, SurfaceFields, SU!WithSelection
<1>3. ASSUME NEW s, Same(s), NEW f PROVE Same(SU!WithField(s, f)) /\ Same(SU!Located(s, f))
  BY <1>3 DEF Same, SurfaceFields, SU!WithField, SU!Located
<1>4. ASSUME NEW s, Same(s), NEW groups PROVE Same(SU!Reset(s, groups))
  <2>1. PICK u : u = SU!WithField(s, NoFace)
    OBVIOUS
  <2>2. Same(u)
    BY <1>3, <1>4, <2>1
  <2>3. PICK x : SU!Reset(s, groups) = [u EXCEPT !.groups = groups, !.selection = x, !.hidden = {}, !.fields = {}]
    BY <2>1 DEF SU!Reset
  <2> QED BY <2>2, <2>3 DEF Same, SurfaceFields
<1>5. ASSUME NEW s, Same(s) PROVE Same(SU!WithFields(s, QualityFields))
  <2>1. PICK u : Same(u) /\ SU!WithFields(s, QualityFields) = [u EXCEPT !.fields = QualityFields]
    BY <1>3, <1>5 DEF SU!WithFields
  <2> QED BY <2>1 DEF Same, SurfaceFields
<1> QED BY <1>1, <1>2, <1>3, <1>4, <1>5

LEMMA SurfaceClicks ==
  ASSUME SU!SurfaceReviewAssumption, MeshInv,
         \/ SU!ManifestArrives \/ SU!FieldsFound \/ SU!ChooseRow \/ SU!ChooseMany \/ SU!ShowRows \/ SU!SelectionCard
         \/ SU!SetOpacity \/ SU!ToggleQuality \/ SU!ChooseField \/ SU!Probe \/ SU!LocateExtreme
         \/ SU!Remediate \/ SU!Remediated
  PROVE  MeshInv'
<1> DEFINE Elsewhere == \E s : Same(s) /\ SU!Becomes(s)
<1>1. Same(surface) /\ Same(SU!Stepped)
  BY Edits
<1>2. ASSUME SU!ManifestArrives PROVE Elsewhere
  <2>1. PICK m : SU!Becomes([SU!Reset(surface, m) EXCEPT !.loadsLeft = @ - 1])
    BY <1>2 DEF SU!ManifestArrives
  <2>2. PICK u : u = SU!Reset(surface, m) /\ Same(u)
    BY <1>1, Edits
  <2>3. Same([u EXCEPT !.loadsLeft = @ - 1])
    BY <2>2 DEF Same, SurfaceFields
  <2> QED BY <2>1, <2>2, <2>3
<1>3. ASSUME SU!FieldsFound PROVE Elsewhere
  BY <1>1, <1>3, Edits DEF SU!FieldsFound
<1>4. ASSUME SU!ChooseRow \/ SU!ChooseMany PROVE Elsewhere
  BY <1>1, <1>4, Edits DEF SU!ChooseRow, SU!ChooseMany
<1>5. ASSUME NEW s, Same(s), NEW x, SU!Becomes([s EXCEPT !.hidden = x]) PROVE Elsewhere
  <2>1. Same([s EXCEPT !.hidden = x])
    BY <1>5 DEF Same, SurfaceFields
  <2> QED BY <1>5, <2>1
<1>6. ASSUME SU!ShowRows PROVE Elsewhere
  <2>1. PICK x : SU!Becomes([SU!Stepped EXCEPT !.hidden = x])
    BY <1>6 DEF SU!ShowRows
  <2> QED BY <1>1, <1>5, <2>1
<1>7. ASSUME SU!SelectionCard PROVE Elsewhere
  <2>1. CASE SU!Becomes(SU!WithSelection(SU!Stepped, <<>>))
    BY <1>1, <2>1, Edits
  <2>2. CASE \E x : SU!Becomes([SU!WithSelection(SU!Stepped, SU!Selected(surface)) EXCEPT !.hidden = x])
    BY <1>1, <1>5, <2>2, Edits
  <2>3. CASE \E x : SU!Becomes([SU!Stepped EXCEPT !.hidden = x])
    BY <1>1, <1>5, <2>3
  <2> QED BY <1>7, <2>1, <2>2, <2>3 DEF SU!SelectionCard
<1>8. ASSUME SU!SetOpacity PROVE Elsewhere
  <2>1. PICK o : SU!Becomes([SU!Stepped EXCEPT !.opacity = o])
    BY <1>8 DEF SU!SetOpacity
  <2>2. Same([SU!Stepped EXCEPT !.opacity = o])
    BY <1>1 DEF Same, SurfaceFields
  <2> QED BY <2>1, <2>2
<1>9. ASSUME SU!ToggleQuality PROVE Elsewhere
  <2>1. Same([SU!Stepped EXCEPT !.mode = "boundaries", !.probe = NoFace]) /\ Same([SU!Stepped EXCEPT !.mode = "quality"])
    BY <1>1 DEF Same, SurfaceFields
  <2> QED BY <1>9, <2>1 DEF SU!ToggleQuality
<1>10. ASSUME SU!ChooseField \/ SU!LocateExtreme PROVE Elsewhere
  BY <1>1, <1>10, Edits DEF SU!ChooseField, SU!LocateExtreme
<1>11. ASSUME SU!Probe PROVE Elsewhere
  <2>1. PICK f : SU!Becomes([SU!Stepped EXCEPT !.probe = f])
    BY <1>11 DEF SU!Probe
  <2>2. Same([SU!Stepped EXCEPT !.probe = f])
    BY <1>1 DEF Same, SurfaceFields
  <2> QED BY <2>1, <2>2
<1>12. ASSUME SU!Remediate \/ SU!Remediated PROVE Elsewhere
  <2>1. Same([SU!Stepped EXCEPT !.busy = TRUE]) /\ Same([surface EXCEPT !.busy = FALSE])
    BY <1>1 DEF Same, SurfaceFields
  <2> QED BY <1>12, <2>1 DEF SU!Remediate, SU!Remediated
<1>13. Elsewhere
  BY <1>2, <1>3, <1>4, <1>6, <1>7, <1>8, <1>9, <1>10, <1>11, <1>12
<1> QED BY <1>13, FilterStays

\* The filter that is edited is stored for its mesh, and is of no more rules
\* than are read back.
LEMMA FilterIsStored ==
  ASSUME SU!SurfaceReviewAssumption, MeshInv, NEW filter \in Filter, Len(filter.rules) <= MaxRules, SU!Replaced(filter)
  PROVE  MeshInv'
<1>1. Same(SU!Stepped) /\ surface' = [SU!Stepped EXCEPT !.filter = filter] /\ UNCHANGED beside
      /\ filters' = [filters EXCEPT ![surface.mesh] = filter]
  BY Edits DEF SU!Replaced
<1>2. /\ DOMAIN surface' = SurfaceFields /\ surface'.mesh = surface.mesh /\ surface'.filter = filter
      /\ surface'.fields \subseteq QualityFields /\ surface'.field = SU!Stepped.field
  BY <1>1 DEF Same, SurfaceFields
<1>3. SU!Stepped.field = surface.field
  BY DEF SU!Stepped, MeshInv, SurfaceInv, SurfaceFields
<1>4. SurfaceInv'
  BY <1>1, <1>2 DEF MeshInv, SurfaceInv, SU!FilterComesBack
<1>5. BesideInv'
  BY <1>1, <1>2, <1>3 DEF MeshInv, BesideInv, SU!ComparisonIsOfChoice
<1> QED BY <1>4, <1>5 DEF MeshInv

\* A rule that is edited stays a rule.
LEMMA RulesStay ==
  ASSUME NEW r \in SU!Rules
  PROVE  /\ \A part \in {"min", "max"}, v \in 0 .. SU!FieldMax : SU!Updated(r, part, v) \in SU!Rules
         /\ \A f \in QualityFields : SU!WithOtherField(r, f) \in SU!Rules
         /\ \A f \in QualityFields : [field |-> f, lo |-> 0, hi |-> SU!FieldMax] \in SU!Rules
<1>1. ASSUME NEW part \in {"min", "max"}, NEW v \in 0 .. SU!FieldMax PROVE SU!Updated(r, part, v) \in SU!Rules
  BY DEF SU!Updated, SU!Rules, SU!Lesser, SU!Greater
<1>2. \A f \in QualityFields : [field |-> f, lo |-> 0, hi |-> SU!FieldMax] \in SU!Rules
  BY DEF SU!Rules, SU!FieldMax
<1> QED BY <1>1, <1>2 DEF SU!WithOtherField

\* A sequence without one of its members.
LEMMA Removed ==
  ASSUME NEW S, NEW s \in Seq(S), NEW i \in 1 .. Len(s)
  PROVE  SU!RemoveAt(s, i) \in Seq(S) /\ Len(SU!RemoveAt(s, i)) = Len(s) - 1
<1>1. i - 1 \in Nat /\ i + 1 \in Nat /\ i \in Nat /\ Len(s) \in Nat
  OBVIOUS
<1>2. /\ SubSeq(s, 1, i - 1) \in Seq(S) /\ Len(SubSeq(s, 1, i - 1)) = i - 1
      /\ SubSeq(s, i + 1, Len(s)) \in Seq(S) /\ Len(SubSeq(s, i + 1, Len(s))) = Len(s) - i
  BY <1>1
<1>3. PICK a \in Seq(S), b \in Seq(S) : /\ a = SubSeq(s, 1, i - 1) /\ b = SubSeq(s, i + 1, Len(s))
                                        /\ Len(a) = i - 1 /\ Len(b) = Len(s) - i
  BY <1>2
<1>4. a \o b \in Seq(S) /\ Len(a \o b) = Len(a) + Len(b)
  BY ConcatProperties
<1>5. SU!RemoveAt(s, i) = a \o b
  BY <1>3 DEF SU!RemoveAt
<1>6. (i - 1) + (Len(s) - i) = Len(s) - 1
  BY <1>1
<1>7. Len(a \o b) = (i - 1) + (Len(s) - i)
  BY <1>3, <1>4, Zenon
<1> QED BY <1>4, <1>5, <1>6, <1>7

LEMMA EditRulesStep ==
  ASSUME SU!SurfaceReviewAssumption, MeshInv, SU!EditRules
  PROVE  MeshInv'
<1> DEFINE filter == surface.filter
           rules == filter.rules
           Kept(f) == f \in Filter /\ Len(f.rules) <= MaxRules /\ SU!Replaced(f)
<1>1. /\ filter \in Filter /\ rules \in Seq(SU!Rules) /\ Len(rules) <= MaxRules /\ Len(rules) \in Nat /\ MaxRules \in Nat
      /\ surface.fields \subseteq QualityFields /\ filter.on \in BOOLEAN
  BY DEF MeshInv, SurfaceInv, SU!FilterComesBack, Filter, SU!SurfaceReviewAssumption
<1>2. \A new \in Seq(SU!Rules) : [filter EXCEPT !.rules = new] \in Filter /\ [filter EXCEPT !.rules = new].rules = new
  BY <1>1 DEF Filter
<1> HIDE DEF filter
<1>3. ASSUME Len(rules) < MaxRules, NEW f \in QualityFields,
             SU!Replaced([filter EXCEPT !.rules = Append(@, [field |-> f, lo |-> 0, hi |-> SU!FieldMax])])
      PROVE  \E x : Kept(x)
  <2>0. [field |-> f, lo |-> 0, hi |-> SU!FieldMax] \in SU!Rules
    BY DEF SU!Rules, SU!FieldMax
  <2>1. PICK r \in SU!Rules : r = [field |-> f, lo |-> 0, hi |-> SU!FieldMax]
    BY <2>0
  <2>2. PICK new : new = Append(rules, r)
    OBVIOUS
  <2>3. new \in Seq(SU!Rules) /\ Len(new) = Len(rules) + 1
    BY <1>1, <2>2
  <2>4. SU!Replaced([filter EXCEPT !.rules = new])
    BY <1>3, <2>1, <2>2
  <2>5. Len(new) <= MaxRules
    BY <1>1, <1>3, <2>3
  <2>6. Kept([filter EXCEPT !.rules = new])
    BY <1>2, <2>3, <2>4, <2>5
  <2> QED BY <2>6
<1>4. ASSUME NEW i \in 1 .. Len(rules), SU!Replaced([on |-> filter.on /\ Len(rules) > 1, rules |-> SU!RemoveAt(rules, i)])
      PROVE  \E x : Kept(x)
  <2>1. PICK new \in Seq(SU!Rules) : new = SU!RemoveAt(rules, i) /\ Len(new) = Len(rules) - 1
    BY <1>1, Removed
  <2>2. PICK on \in BOOLEAN : on = (filter.on /\ Len(rules) > 1)
    OBVIOUS
  <2>3. SU!Replaced([on |-> on, rules |-> new])
    BY <1>4, <2>1, <2>2
  <2>4. [on |-> on, rules |-> new] \in Filter /\ Len(new) <= MaxRules
    BY <1>1, <2>1 DEF Filter
  <2> QED BY <2>3, <2>4
<1>5. ASSUME NEW i \in 1 .. Len(rules), NEW r \in SU!Rules, SU!Replaced([filter EXCEPT !.rules[i] = r])
      PROVE  \E x : Kept(x)
  <2>1. PICK new : new = [rules EXCEPT ![i] = r]
    OBVIOUS
  <2>2. new \in Seq(SU!Rules) /\ Len(new) = Len(rules)
    BY <1>1, <2>1
  <2>3. SU!Replaced([filter EXCEPT !.rules = new])
    BY <1>5, <2>1
  <2>4. Kept([filter EXCEPT !.rules = new])
    BY <1>1, <1>2, <2>2, <2>3
  <2> QED BY <2>4
<1>6. ASSUME rules # <<>>, SU!Replaced([filter EXCEPT !.on = ~@]) \/ SU!Replaced(SU!NoFilter)
      PROVE  \E x : Kept(x)
  <2>1. [filter EXCEPT !.on = ~@] \in Filter /\ [filter EXCEPT !.on = ~@].rules = rules
    BY <1>1 DEF Filter
  <2>2. SU!NoFilter.rules = << >> /\ SU!NoFilter \in Filter /\ Len(<< >>) <= MaxRules
    BY <1>1 DEF Filter, SU!NoFilter
  <2> QED BY <1>1, <1>6, <2>1, <2>2
<1>7. \A i \in 1 .. Len(rules) : rules[i] \in SU!Rules
  BY <1>1
<1>8. \E x : Kept(x)
  <2>1. CASE \E f \in surface.fields : Len(rules) < MaxRules
                /\ SU!Replaced([filter EXCEPT !.rules = Append(@, [field |-> f, lo |-> 0, hi |-> SU!FieldMax])])
    BY <1>1, <1>3, <2>1
  <2>2. CASE \E i \in 1 .. Len(rules) : SU!Replaced([on |-> filter.on /\ Len(rules) > 1, rules |-> SU!RemoveAt(rules, i)])
    BY <1>4, <2>2
  <2>3. CASE \E i \in 1 .. Len(rules), part \in {"min", "max"}, v \in 0 .. SU!FieldMax :
                SU!Replaced([filter EXCEPT !.rules[i] = SU!Updated(rules[i], part, v)])
    BY <1>5, <1>7, <2>3, RulesStay
  <2>4. CASE \E i \in 1 .. Len(rules), f \in surface.fields :
                SU!Replaced([filter EXCEPT !.rules[i] = SU!WithOtherField(rules[i], f)])
    BY <1>1, <1>5, <1>7, <2>4, RulesStay
  <2>5. CASE rules # <<>> /\ (SU!Replaced([filter EXCEPT !.on = ~@]) \/ SU!Replaced(SU!NoFilter))
    BY <1>6, <2>5
  <2> QED BY <2>1, <2>2, <2>3, <2>4, <2>5 DEF SU!EditRules, filter
<1> HIDE DEF rules
<1>9. PICK x : Kept(x)
  BY <1>8
<1> QED BY <1>9, FilterIsStored

\* Another mesh is opened with the filter it was left with.
LEMMA OpenStep ==
  ASSUME SU!SurfaceReviewAssumption, MeshInv, SU!OpenMesh
  PROVE  MeshInv'
<1>1. PICK m \in Meshes : /\ surface' = [SU!Opened(m, surface.steps + 1) EXCEPT !.filter = SU!ReadBack(filters[m])]
                          /\ beside' = SU!NothingBeside(m) /\ UNCHANGED filters
  BY DEF SU!OpenMesh
<1>2. SU!ReadBack(filters[m]) = filters[m]
  <2>1. Len(filters[m].rules) <= MaxRules /\ Len(filters[m].rules) \in Nat /\ MaxRules \in Nat
    BY DEF MeshInv, SurfaceInv, Filter, SU!SurfaceReviewAssumption
  <2> QED BY <2>1 DEF SU!ReadBack
<1>3. DOMAIN surface' = SurfaceFields /\ surface'.mesh = m /\ surface'.filter = filters[m] /\ surface'.fields = {}
  BY <1>1, <1>2 DEF SU!Opened, SurfaceFields
<1>4. SurfaceInv'
  BY <1>1, <1>3 DEF MeshInv, SurfaceInv, SU!FilterComesBack
<1>5. BesideInv'
  BY <1>1 DEF BesideInv, BesideFields, SU!NothingBeside, SU!ComparisonIsOfChoice
<1> QED BY <1>4, <1>5 DEF MeshInv

\* The comparison's own steps.
LEMMA BesideSteps ==
  ASSUME SU!SurfaceReviewAssumption, MeshInv, SU!CompareWith \/ SU!ComparisonArrives \/ SU!VersionsChange
  PROVE  MeshInv'
<1>1. NoFace \notin Meshes /\ beside.versions \subseteq Meshes
  BY DEF SU!SurfaceReviewAssumption, MeshInv, BesideInv
<1>2. /\ SU!Stepped.field = surface.field /\ SU!Stepped.mesh = surface.mesh /\ SU!Stepped.filter = surface.filter
      /\ DOMAIN SU!Stepped = SurfaceFields /\ SU!Stepped.fields = surface.fields
  BY DEF SU!Stepped, MeshInv, SurfaceInv, SurfaceFields
<1>3. (surface' = surface \/ surface' = SU!Stepped) /\ UNCHANGED filters
  BY DEF SU!CompareWith, SU!ComparisonArrives, SU!VersionsChange, SU!Beside
<1>4. SurfaceInv' /\ surface'.field = surface.field
  BY <1>2, <1>3 DEF MeshInv, SurfaceInv, SU!FilterComesBack
<1>5. ASSUME NEW c, DOMAIN c = BesideFields, c.versions \subseteq Meshes, beside' = SU!Compared(c, surface.field)
      PROVE  BesideInv'
  <2>1. /\ DOMAIN beside' = BesideFields /\ beside'.versions = c.versions
        /\ beside'.asked => beside'.askedField = surface.field
        /\ beside'.with \in beside'.versions => beside'.loading
    BY <1>1, <1>5 DEF SU!Compared, BesideFields
  <2> QED BY <1>4, <1>5, <2>1 DEF BesideInv, SU!ComparisonIsOfChoice
<1>6. ASSUME SU!CompareWith PROVE BesideInv'
  <2>1. PICK m : beside' = SU!Compared([beside EXCEPT !.with = m, !.shown = NoFace], surface.field)
    BY <1>6 DEF SU!CompareWith, SU!Beside
  <2>2. DOMAIN [beside EXCEPT !.with = m, !.shown = NoFace] = BesideFields
        /\ [beside EXCEPT !.with = m, !.shown = NoFace].versions = beside.versions
    BY DEF MeshInv, BesideInv, BesideFields
  <2> QED BY <1>1, <1>5, <2>1, <2>2
<1>7. ASSUME SU!VersionsChange PROVE BesideInv'
  <2>1. PICK vs \in SUBSET Meshes : beside' = SU!Compared([beside EXCEPT !.versions = vs], surface.field)
    BY <1>1, <1>7 DEF SU!VersionsChange, SU!Beside
  <2>2. DOMAIN [beside EXCEPT !.versions = vs] = BesideFields /\ [beside EXCEPT !.versions = vs].versions = vs
    BY DEF MeshInv, BesideInv, BesideFields
  <2> QED BY <1>5, <2>1, <2>2
<1>8. ASSUME SU!ComparisonArrives PROVE BesideInv'
  <2>1. \/ beside' = [beside EXCEPT !.asked = FALSE, !.loading = FALSE, !.shown = beside.with, !.shownField = beside.askedField]
        \/ beside' = [beside EXCEPT !.asked = FALSE, !.loading = FALSE, !.shown = NoFace]
    BY <1>8 DEF SU!ComparisonArrives, SU!Beside
  <2>2. beside.askedField = surface.field /\ DOMAIN beside = BesideFields
    BY <1>8 DEF SU!ComparisonArrives, MeshInv, BesideInv
  <2>3. CASE beside' = [beside EXCEPT !.asked = FALSE, !.loading = FALSE, !.shown = beside.with, !.shownField = beside.askedField]
    <3>1. /\ DOMAIN beside' = BesideFields /\ beside'.versions = beside.versions /\ ~beside'.asked
          /\ beside'.shown = beside'.with /\ beside'.shownField = surface.field
      BY <2>2, <2>3 DEF BesideFields
    <3> QED BY <1>1, <1>4, <3>1 DEF BesideInv, SU!ComparisonIsOfChoice
  <2>4. CASE beside' = [beside EXCEPT !.asked = FALSE, !.loading = FALSE, !.shown = NoFace]
    <3>1. /\ DOMAIN beside' = BesideFields /\ beside'.versions = beside.versions /\ ~beside'.asked
          /\ beside'.shown = NoFace
      BY <2>2, <2>4 DEF BesideFields
    <3> QED BY <1>1, <3>1 DEF BesideInv, SU!ComparisonIsOfChoice
  <2> QED BY <2>1, <2>3, <2>4
<1> QED BY <1>4, <1>6, <1>7, <1>8 DEF MeshInv

LEMMA SurfaceInit == SU!SurfaceReviewAssumption /\ SU!Init => MeshInv
<1> SUFFICES ASSUME SU!SurfaceReviewAssumption, SU!Init PROVE MeshInv
  OBVIOUS
<1>1. PICK m \in Meshes : surface = SU!Opened(m, 0) /\ beside = SU!NothingBeside(m)
  BY DEF SU!Init
<1>2. filters = [x \in Meshes |-> SU!NoFilter] /\ SU!NoFilter \in Filter /\ Len(SU!NoFilter.rules) <= MaxRules
  BY DEF SU!Init, SU!NoFilter, Filter, SU!SurfaceReviewAssumption
<1>3. DOMAIN surface = SurfaceFields /\ surface.mesh = m /\ surface.filter = filters[m] /\ surface.fields = {}
  BY <1>1 DEF SU!Opened, SurfaceFields
<1>4. SurfaceInv
  BY <1>2, <1>3 DEF SurfaceInv, SU!FilterComesBack
<1>5. BesideInv
  BY <1>1 DEF BesideInv, BesideFields, SU!NothingBeside, SU!ComparisonIsOfChoice
<1> QED BY <1>4, <1>5 DEF MeshInv

LEMMA SurfaceNext == SU!SurfaceReviewAssumption /\ MeshInv /\ [SU!Next]_SU!vars => MeshInv'
<1> SUFFICES ASSUME SU!SurfaceReviewAssumption, MeshInv, [SU!Next]_SU!vars PROVE MeshInv'
  OBVIOUS
<1>1. CASE SU!Next
  BY <1>1, SurfaceClicks, EditRulesStep, OpenStep, BesideSteps DEF SU!Next
<1>2. CASE UNCHANGED SU!vars
  <2>1. UNCHANGED <<surface, filters, beside>>
    BY <1>2 DEF SU!vars
  <2> QED BY <2>1 DEF MeshInv, SurfaceInv, BesideInv, SU!FilterComesBack, SU!ComparisonIsOfChoice
<1> QED BY <1>1, <1>2

LEMMA SurfaceAlways == SU!SurfaceReviewAssumption => (SU!Spec => []MeshInv)
<1> SUFFICES ASSUME SU!SurfaceReviewAssumption PROVE SU!Spec => []MeshInv
  OBVIOUS
<1> QED BY SurfaceInit, SurfaceNext, PTL DEF SU!Spec

\* A comparison that is shown and not being read is of the mesh that is chosen
\* and of the field that is shown, whatever changed while it was read.
THEOREM ComparisonIsCurrent == SU!SurfaceReviewAssumption => (SU!Spec => []SU!ComparisonIsOfChoice)
<1> SUFFICES ASSUME SU!SurfaceReviewAssumption PROVE SU!Spec => []SU!ComparisonIsOfChoice
  OBVIOUS
<1>1. MeshInv => SU!ComparisonIsOfChoice
  BY DEF MeshInv, BesideInv
<1> QED BY <1>1, SurfaceAlways, PTL

\* The range filter of a mesh is the one its user left, on every return to it:
\* none has so many rules that it would not be read back.
THEOREM FilterIsReadBack == SU!SurfaceReviewAssumption => (SU!Spec => []SU!FilterComesBack)
<1> SUFFICES ASSUME SU!SurfaceReviewAssumption PROVE SU!Spec => []SU!FilterComesBack
  OBVIOUS
<1>1. MeshInv => SU!FilterComesBack
  BY DEF MeshInv, SurfaceInv
<1> QED BY <1>1, SurfaceAlways, PTL

=============================================================================
