-------------------------- MODULE StepJobsProofs --------------------------
(***************************************************************************)
(* Proofs about StepJobs for every set of jobs, uploads and assets and     *)
(* every bound: type correctness, the numbering of versions, that what a   *)
(* job became stays, and what a completed and a failed job mean for the    *)
(* library.                                                                *)
(***************************************************************************)
EXTENDS StepJobs, SequenceTheorems, TLAPS

\* A file that is written belongs to an asset.
DraftsHaveAssets ==
  /\ \A j \in Jobs : worker[j].pc = "write" => worker[j].draft.asset \in Assets
  /\ \A u \in Uploads : upload[u].pc = "write" => upload[u].draft.asset \in Assets

TypeInv == TypeOK /\ DraftsHaveAssets

Status == {"none"} \cup Live \cup Finished
Author == Jobs \cup Uploads \cup {New}

\* What the changes of the library never take back.
Grows ==
  \A a \in Assets : \A n \in DOMAIN lib.versions[a] :
    /\ n \in DOMAIN lib'.versions[a]
    /\ lib'.versions[a][n].by = lib.versions[a][n].by
    /\ lib'.versions[a][n].since = lib.versions[a][n].since
    /\ lib'.versions[a][n].number = lib.versions[a][n].number
    /\ lib.versions[a][n].recipe => lib'.versions[a][n].recipe

-----------------------------------------------------------------------------
(***************************************************************************)
(* The methods of the store.                                               *)
(***************************************************************************)
LEMMA Names ==
  /\ {"none", "queued", "running", "recovering", "completed", "failed", "needs_input",
      "cancelled"} = Status
  /\ Step = {"idle", "slot", "register", "begin", "design", "generate", "storing",
             "ready", "write", "recipe", "validate", "finish", "fail", "failing"}
  /\ Cancel = {"never", "signal", "mark", "asked"}
BY DEF Status, Live, Finished, Step, Cancel

\* A write of the index saves what is in memory, or leaves the file alone.
LEMMA Persisted ==
  ASSUME TypeOK, lib' \in Index, NEW ok \in BOOLEAN, persistLocked(ok)
  PROVE  /\ disk' \in Index
         /\ lost' \in 0 .. MaxLostWrites
         /\ lost' >= lost
         /\ disk' = lib' \/ (disk' = disk /\ lost' > 0)
BY StepAssumption DEF StepAssumption, TypeOK, persistLocked

\* A change of a job's record leaves the versions alone.
LEMMA JobChange ==
  ASSUME TypeOK, NEW j \in Jobs, NEW s \in Status, NEW v \in VersionId \cup {None},
         NEW q \in Assets \cup {New},
         \/ lib' = [lib EXCEPT !.job[j].status = s]
         \/ lib' = [lib EXCEPT !.job[j].status = s, !.job[j].version = v]
         \/ lib' = [lib EXCEPT !.job[j].status = s, !.job[j].request = q]
  PROVE  /\ lib' \in Index
         /\ lib'.versions = lib.versions
         /\ lib'.job[j].status = s
         /\ \A k \in Jobs \ {j} : lib'.job[k] = lib.job[k]
<1>1. lib \in [versions: [Assets -> Seq(Version)], job: [Jobs -> Job]] /\ lib.job[j] \in Job
  BY DEF TypeOK, Index
<1>2. ASSUME NEW r \in Job, r.status = s, lib' = [lib EXCEPT !.job = [lib.job EXCEPT ![j] = r]]
      PROVE  /\ lib' \in Index
             /\ lib'.versions = lib.versions
             /\ lib'.job[j].status = s
             /\ \A k \in Jobs \ {j} : lib'.job[k] = lib.job[k]
  BY <1>1, <1>2 DEF Index
<1>3. /\ [lib.job[j] EXCEPT !.status = s] \in Job
      /\ [lib.job[j] EXCEPT !.status = s, !.version = v] \in Job
      /\ [lib.job[j] EXCEPT !.status = s, !.request = q] \in Job
  BY <1>1 DEF Job, Status
<1>4. /\ [lib.job[j] EXCEPT !.status = s].status = s
      /\ [lib.job[j] EXCEPT !.status = s, !.version = v].status = s
      /\ [lib.job[j] EXCEPT !.status = s, !.request = q].status = s
  BY <1>1 DEF Job
<1>5. CASE lib' = [lib EXCEPT !.job[j].status = s]
  BY <1>1, <1>2, <1>3, <1>4, <1>5
<1>6. CASE lib' = [lib EXCEPT !.job[j].status = s, !.job[j].version = v]
  <2>1. lib' = [lib EXCEPT !.job = [lib.job EXCEPT ![j] = [lib.job[j] EXCEPT !.status = s, !.version = v]]]
    BY <1>1, <1>6
  <2> QED BY <1>2, <1>3, <1>4, <2>1
<1>7. CASE lib' = [lib EXCEPT !.job[j].status = s, !.job[j].request = q]
  <2>1. lib' = [lib EXCEPT !.job = [lib.job EXCEPT ![j] = [lib.job[j] EXCEPT !.status = s, !.request = q]]]
    BY <1>1, <1>7
  <2> QED BY <1>2, <1>3, <1>4, <2>1
<1> QED BY <1>5, <1>6, <1>7

\* A sequence with one element replaced, if it is there.
LEMMA Replaced ==
  ASSUME NEW S, NEW s \in Seq(S), NEW i, NEW w, i \in DOMAIN s => w \in S,
         NEW t, t = [s EXCEPT ![i] = w]
  PROVE  /\ t \in Seq(S)
         /\ DOMAIN t = DOMAIN s
         /\ \A n \in DOMAIN s : t[n] = s[n] \/ (n = i /\ t[n] = w)
<1>1. CASE i \in DOMAIN s
  <2>1. i \in 1 .. Len(s) /\ w \in S
    BY <1>1
  <2>2. t \in Seq(S)
    BY <2>1, ExceptSeq
  <2> QED BY <2>1, <2>2
<1>2. CASE i \notin DOMAIN s
  <2>1. t = s
    BY <1>2
  <2> QED BY <2>1
<1> QED BY <1>1, <1>2

\* A flag of a version that is set, or not there to be set.
LEMMA FlagChange ==
  ASSUME TypeOK, NEW v,
         \/ SetGeometry(v)
         \/ \E result \in {"validating", "checked"} : SetValidation(v, result)
  PROVE  lib' \in Index /\ lib'.job = lib.job /\ Grows
         /\ \A a \in Assets : DOMAIN lib'.versions[a] = DOMAIN lib.versions[a]
<1>1. lib.versions \in [Assets -> Seq(Version)] /\ lib \in [versions: [Assets -> Seq(Version)], job: [Jobs -> Job]]
  BY DEF TypeOK, Index
<1>2. PICK w : /\ lib' = [lib EXCEPT !.versions = [lib.versions EXCEPT ![v[1]] = [@ EXCEPT ![v[2]] = w]]]
               /\ \/ w = [lib.versions[v[1]][v[2]] EXCEPT !.recipe = TRUE]
                  \/ \E result \in {"validating", "checked"} :
                       w = [lib.versions[v[1]][v[2]] EXCEPT !.validation = result]
  <2>1. CASE SetGeometry(v)
    BY <1>1, <2>1 DEF SetGeometry
  <2>2. CASE \E result \in {"validating", "checked"} : SetValidation(v, result)
    <3>1. PICK result \in {"validating", "checked"} : SetValidation(v, result)
      BY <2>2
    <3> QED BY <1>1, <3>1 DEF SetValidation
  <2> QED BY <2>1, <2>2
<1>7. ASSUME NEW a \in Assets, a = v[1], v[2] \in DOMAIN lib.versions[a]
      PROVE  /\ w \in Version
             /\ w.by = lib.versions[a][v[2]].by
             /\ w.since = lib.versions[a][v[2]].since
             /\ w.number = lib.versions[a][v[2]].number
             /\ lib.versions[a][v[2]].recipe => w.recipe
  <2>1. lib.versions[a][v[2]] \in Version
    BY <1>1, <1>7
  <2> QED BY <1>2, <1>7, <2>1 DEF Version
<1>3. lib'.job = lib.job
  BY <1>1, <1>2
<1>4. ASSUME NEW a \in Assets
      PROVE  /\ lib'.versions[a] \in Seq(Version)
             /\ DOMAIN lib'.versions[a] = DOMAIN lib.versions[a]
             /\ \A n \in DOMAIN lib.versions[a] :
                  lib'.versions[a][n] = lib.versions[a][n] \/ (a = v[1] /\ n = v[2] /\ lib'.versions[a][n] = w)
  <2>1. CASE a # v[1]
    BY <1>1, <1>2, <2>1
  <2>2. CASE a = v[1]
    <3> DEFINE s == lib.versions[a]  t == lib'.versions[a]  i == v[2]
    <3>1. s \in Seq(Version) /\ t = [s EXCEPT ![i] = w]
      BY <1>1, <1>2, <2>2
    <3>2. i \in DOMAIN s => w \in Version
      BY <1>7, <2>2
    <3>3. /\ t \in Seq(Version)
          /\ DOMAIN t = DOMAIN s
          /\ \A n \in DOMAIN s : t[n] = s[n] \/ (n = i /\ t[n] = w)
      <4> HIDE DEF s, t, i
      <4> QED BY <3>1, <3>2, Replaced
    <3> QED BY <2>2, <3>3
  <2> QED BY <2>1, <2>2
<1>5. lib' \in Index
  BY <1>1, <1>2, <1>4 DEF Index
<1>6. Grows
  BY SMTT(30), <1>7, <1>4 DEF Grows
<1> QED BY <1>3, <1>4, <1>5, <1>6
\* A version that is inserted; there is nothing to insert it in without an
\* asset.
LEMMA Insertion ==
  ASSUME TypeOK, NEW d \in Draft, NEW by \in Author, InsertVersion(d, by)
  PROVE  /\ lib' \in Index
         /\ lib'.job = lib.job
         /\ Grows
         /\ \A a \in Assets : \A n \in DOMAIN lib'.versions[a] :
              \/ n \in DOMAIN lib.versions[a]
              \/ /\ <<a, n>> = Inserted(d)
                 /\ lib'.versions[a][n].number = n
                 /\ lib'.versions[a][n].by = by
                 /\ lib'.versions[a][n].since = crashes
         /\ d.asset \in Assets =>
              /\ Inserted(d) \in VersionId
              /\ \E n \in DOMAIN lib'.versions[d.asset] :
                   Inserted(d) = <<d.asset, n>> /\ lib'.versions[d.asset][n].by = by
<1> DEFINE V(s) == [number |-> Len(s) + 1, by |-> by, since |-> crashes, recipe |-> FALSE,
                    validation |-> "validating"]
<1>1. lib.versions \in [Assets -> Seq(Version)] /\ lib \in [versions: [Assets -> Seq(Version)], job: [Jobs -> Job]]
  BY DEF TypeOK, Index
<1>2. lib' = [lib EXCEPT !.versions = [lib.versions EXCEPT ![d.asset] = Append(@, V(@))]]
  BY <1>1 DEF InsertVersion
<1>3. \A s \in Seq(Version) : V(s) \in Version
  BY DEF Version, Author, TypeOK
<1>4. ASSUME NEW a \in Assets
      PROVE  /\ lib'.versions[a] \in Seq(Version)
             /\ DOMAIN lib.versions[a] \subseteq DOMAIN lib'.versions[a]
             /\ \A n \in DOMAIN lib.versions[a] : lib'.versions[a][n] = lib.versions[a][n]
             /\ \A n \in DOMAIN lib'.versions[a] \ DOMAIN lib.versions[a] :
                  a = d.asset /\ n = Len(lib.versions[a]) + 1 /\ lib'.versions[a][n] = V(lib.versions[a])
             /\ a = d.asset => Len(lib.versions[a]) + 1 \in DOMAIN lib'.versions[a] \ DOMAIN lib.versions[a]
  <2>1. CASE a # d.asset
    BY <1>1, <1>2, <2>1
  <2>2. CASE a = d.asset
    <3>1. lib'.versions[a] = Append(lib.versions[a], V(lib.versions[a])) /\ lib.versions[a] \in Seq(Version)
      BY <1>1, <1>2, <2>2
    <3> QED BY SMTT(30), <1>3, <2>2, <3>1, AppendProperties, LenProperties
  <2> QED BY <2>1, <2>2
<1>5. lib' \in Index /\ lib'.job = lib.job
  BY <1>1, <1>2, <1>4 DEF Index
<1>6. \A s : /\ V(s).number = Len(s) + 1 /\ V(s).by = by /\ V(s).since = crashes
  OBVIOUS
<1> HIDE DEF V
<1>9. Grows
  BY <1>4 DEF Grows
<1>7. ASSUME NEW a \in Assets, NEW n \in DOMAIN lib'.versions[a], n \notin DOMAIN lib.versions[a]
      PROVE  /\ <<a, n>> = Inserted(d)
             /\ lib'.versions[a][n].number = n
             /\ lib'.versions[a][n].by = by
             /\ lib'.versions[a][n].since = crashes
  <2>1. /\ a = d.asset /\ n = Len(lib.versions[a]) + 1
        /\ lib'.versions[a][n] = V(lib.versions[a])
    BY <1>4, <1>7
  <2> QED BY <1>6, <2>1 DEF Inserted
<1>8. ASSUME d.asset \in Assets
      PROVE  /\ Inserted(d) \in VersionId
             /\ \E n \in DOMAIN lib'.versions[d.asset] :
                  Inserted(d) = <<d.asset, n>> /\ lib'.versions[d.asset][n].by = by
  <2> DEFINE n == Len(lib.versions[d.asset]) + 1
  <2>1. n \in Nat \ {0}
    BY <1>1, <1>8
  <2>2. n \in DOMAIN lib'.versions[d.asset] /\ n \notin DOMAIN lib.versions[d.asset]
    BY <1>4, <1>8
  <2>3. Inserted(d) = <<d.asset, n>> /\ lib'.versions[d.asset][n].by = by
    BY <1>7, <1>8, <2>2
  <2> QED BY <1>8, <2>1, <2>2, <2>3 DEF VersionId
<1> QED BY <1>5, <1>9, <1>7, <1>8

\* What every call of the store leaves behind: memory and index are well
\* typed, and the index is up to date unless a write failed.
StoreOK ==
  /\ lib' \in Index /\ disk' \in Index
  /\ lost' \in 0 .. MaxLostWrites /\ lost' >= lost
  /\ disk' = lib' \/ (disk' = disk /\ lost' > 0)

\* Only the record of job j changes, and its status becomes s.
Records(j, s) ==
  /\ lib'.versions = lib.versions
  /\ lib'.job[j].status = s
  /\ \A k \in Jobs \ {j} : lib'.job[k] = lib.job[k]

LEMMA JobCalls ==
  ASSUME TypeOK, NEW j \in Jobs
  PROVE  /\ UpdateAIJob(j) => StoreOK /\ Records(j, "running")
         /\ \A s \in Status, v \in VersionId \cup {None} :
              FinishAIJob(j, s, v) =>
                StoreOK /\ Records(j, s) /\ lib'.job[j].version = v
<1>1. ASSUME UpdateAIJob(j) PROVE StoreOK /\ Records(j, "running")
  <2>1. PICK ok \in BOOLEAN : persistLocked(ok)
    BY <1>1 DEF UpdateAIJob
  <2>2. "running" \in Status /\ None \in VersionId \cup {None} /\ New \in Assets \cup {New}
    BY Names
  <2>3. lib' = [lib EXCEPT !.job[j].status = "running"]
    BY <1>1 DEF UpdateAIJob
  <2>4. lib' \in Index /\ Records(j, "running")
    BY <2>2, <2>3, JobChange DEF Records
  <2> QED BY <2>1, <2>4, Persisted DEF StoreOK
<1>2. ASSUME NEW s \in Status, NEW v \in VersionId \cup {None}, FinishAIJob(j, s, v)
      PROVE  StoreOK /\ Records(j, s) /\ lib'.job[j].version = v
  <2>1. PICK ok \in BOOLEAN : persistLocked(ok)
    BY <1>2 DEF FinishAIJob
  <2>2. New \in Assets \cup {New}
    OBVIOUS
  <2>3. lib' = [lib EXCEPT !.job[j].status = s, !.job[j].version = v]
    BY <1>2 DEF FinishAIJob
  <2>4. lib' \in Index /\ Records(j, s)
    BY <2>2, <2>3, JobChange DEF Records
  <2>5. lib'.job[j].version = v
    BY <2>3 DEF TypeOK, Index, Job
  <2> QED BY <2>1, <2>4, <2>5, Persisted DEF StoreOK
<1> QED BY <1>1, <1>2

\* Only versions change, and what was there stays.
Keeps == lib'.job = lib.job /\ Grows

LEMMA FlagCalls ==
  ASSUME TypeOK, NEW v, NEW ok \in BOOLEAN, persistLocked(ok),
         \/ SetGeometry(v)
         \/ \E result \in {"validating", "checked"} : SetValidation(v, result)
  PROVE  StoreOK /\ Keeps /\ \A a \in Assets : DOMAIN lib'.versions[a] = DOMAIN lib.versions[a]
<1>1. lib' \in Index /\ Keeps /\ \A a \in Assets : DOMAIN lib'.versions[a] = DOMAIN lib.versions[a]
  BY FlagChange DEF Keeps
<1> QED BY <1>1, Persisted DEF StoreOK

LEMMA InsertCall ==
  ASSUME TypeOK, NEW d \in Draft, NEW by \in Author, InsertVersion(d, by),
         NEW ok \in BOOLEAN, persistLocked(ok)
  PROVE  StoreOK /\ Keeps
BY Insertion, Persisted DEF StoreOK, Keeps

-----------------------------------------------------------------------------
(***************************************************************************)
(* Type correctness.                                                       *)
(***************************************************************************)
LEMMA IdleType ==
  /\ NoDraft \in Draft /\ Idle \in Worker /\ [Idle EXCEPT !.pc = "slot"] \in Worker
  /\ Idle.pc = "idle" /\ [Idle EXCEPT !.pc = "slot"].pc = "slot"
<1>1. NoDraft \in Draft
  BY DEF NoDraft, Draft
<1> QED BY <1>1, Names DEF Idle, Worker

\* What is drafted for a request belongs to an asset.
LEMMA DraftsType ==
  ASSUME TypeOK, NEW request \in Assets \cup {New}, NEW d \in Drafts(request)
  PROVE  d \in Draft /\ d.asset \in Assets
<1>1. lib.versions \in [Assets -> Seq(Version)]
  BY DEF TypeOK, Index
<1>2. CASE request = New
  BY <1>2 DEF Drafts, Draft
<1>3. CASE request # New
  <2>1. d = [asset |-> request, number |-> Len(lib.versions[request]) + 1] /\ request \in Assets
    BY <1>3 DEF Drafts
  <2>2. Len(lib.versions[request]) \in Nat
    BY <1>1, <2>1
  <2> QED BY <2>1, <2>2 DEF Draft
<1> QED BY <1>2, <1>3

LEMMA GoesType ==
  ASSUME TypeInv, NEW j \in Jobs
  PROVE  /\ worker[j] \in Worker
         /\ \A s \in Step \ {"write"} : Goes(j, s) =>
              /\ worker' \in [Jobs -> Worker]
              /\ \A k \in Jobs : worker'[k].pc = "write" => worker'[k].draft.asset \in Assets
         /\ Leaves(j) =>
              /\ worker' \in [Jobs -> Worker] /\ slot' \subseteq Jobs
              /\ \A k \in Jobs : worker'[k].pc = "write" => worker'[k].draft.asset \in Assets
<1>1. worker[j] \in Worker /\ Idle \in Worker /\ Idle.pc = "idle"
  BY IdleType DEF TypeInv, TypeOK
<1>2. ASSUME NEW s \in Step \ {"write"}, Goes(j, s)
      PROVE  /\ worker' \in [Jobs -> Worker]
             /\ \A k \in Jobs : worker'[k].pc = "write" => worker'[k].draft.asset \in Assets
  <2>1. [worker[j] EXCEPT !.pc = s] \in Worker /\ [worker[j] EXCEPT !.pc = s].pc = s
    BY <1>1 DEF Worker
  <2>2. worker' = [worker EXCEPT ![j] = [worker[j] EXCEPT !.pc = s]]
    BY <1>2 DEF Goes, TypeInv, TypeOK
  <2> QED BY <2>1, <2>2 DEF TypeInv, TypeOK, DraftsHaveAssets
<1>3. ASSUME Leaves(j)
      PROVE  /\ worker' \in [Jobs -> Worker] /\ slot' \subseteq Jobs
             /\ \A k \in Jobs : worker'[k].pc = "write" => worker'[k].draft.asset \in Assets
  BY <1>1, <1>3 DEF TypeInv, TypeOK, DraftsHaveAssets, Leaves
<1> QED BY <1>1, <1>2, <1>3

\* The worker of a job.
LEMMA WorkerType ==
  ASSUME TypeInv, NEW j \in Jobs, WorkerStep(j) \/ TakeSlot(j)
  PROVE  TypeInv'
<1> DEFINE WorkerOK == /\ worker' \in [Jobs -> Worker]
                       /\ \A k \in Jobs : worker'[k].pc = "write" => worker'[k].draft.asset \in Assets
<1> DEFINE LibOK == StoreOK \/ UNCHANGED libVars
<1>0. TypeOK /\ worker[j] \in Worker /\ None \in VersionId \cup {None} /\ New \in Assets \cup {New}
  BY GoesType DEF TypeInv
<1>1. ASSUME WorkerOK, LibOK, slot' \subseteq Jobs, UNCHANGED <<cancel, others>>
      PROVE  TypeInv'
  BY <1>1 DEF TypeInv, TypeOK, DraftsHaveAssets, StoreOK, libVars, others
<1>2. CASE TakeSlot(j)
  BY <1>0, <1>1, <1>2, GoesType, Names DEF TakeSlot, libVars
<1>3. CASE RegisterCancel(j)
  BY <1>0, <1>1, <1>3, GoesType, Names DEF RegisterCancel, TypeOK
<1>4. CASE BeginDesign(j)
  BY <1>0, <1>1, <1>4, GoesType, JobCalls, Names DEF BeginDesign, TypeOK
<1>5. CASE DesignCAD(j)
  <2>1. LibOK
    BY <1>0, <1>5, JobCalls, Names DEF DesignCAD
  <2>2. WorkerOK /\ slot' \subseteq Jobs
    BY <1>0, <1>5, GoesType, Names DEF DesignCAD, TypeOK
  <2> QED BY <1>1, <1>5, <2>1, <2>2 DEF DesignCAD
<1>6. CASE GenerateCAD(j)
  BY <1>0, <1>1, <1>6, GoesType, Names DEF GenerateCAD, TypeOK
<1>7. CASE BeginStoring(j)
  BY <1>0, <1>1, <1>7, GoesType, JobCalls, Names DEF BeginStoring, TypeOK
<1>8. CASE CheckStoring(j)
  <2>1. CASE Leaves(j) \/ (Goes(j, "fail") /\ UNCHANGED slot)
    BY <1>0, <1>1, <1>8, <2>1, GoesType, Names DEF CheckStoring, TypeOK
  <2>2. CASE UNCHANGED slot /\ \E d \in Drafts(lib.job[j].request) :
               worker' = [worker EXCEPT ![j].pc = "write", ![j].draft = d]
    <3>1. PICK d \in Drafts(lib.job[j].request) :
               worker' = [worker EXCEPT ![j] = [worker[j] EXCEPT !.pc = "write", !.draft = d]]
      BY <2>2
    <3>2. lib.job[j].request \in Assets \cup {New}
      BY <1>0 DEF TypeOK, Index, Job
    <3>3. d \in Draft /\ d.asset \in Assets
      BY <1>0, <3>2, DraftsType
    <3>4. /\ [worker[j] EXCEPT !.pc = "write", !.draft = d] \in Worker
          /\ [worker[j] EXCEPT !.pc = "write", !.draft = d].draft = d
      BY <1>0, <3>3, Names DEF Worker
    <3>5. WorkerOK
      BY <3>1, <3>3, <3>4 DEF TypeInv, TypeOK, DraftsHaveAssets
    <3> QED BY <1>0, <1>1, <1>8, <2>2, <3>5 DEF CheckStoring, TypeOK
  <2> QED BY <1>8, <2>1, <2>2 DEF CheckStoring
<1>9. CASE WriteFails(j)
  <2>1. /\ [worker[j] EXCEPT !.pc = "fail", !.draft = NoDraft] \in Worker
        /\ [worker[j] EXCEPT !.pc = "fail", !.draft = NoDraft].pc = "fail"
    BY <1>0, IdleType, Names DEF Worker
  <2>2. worker' = [worker EXCEPT ![j] = [worker[j] EXCEPT !.pc = "fail", !.draft = NoDraft]]
    BY <1>0, <1>9 DEF WriteFails, TypeOK
  <2>3. WorkerOK
    BY <2>1, <2>2 DEF TypeInv, TypeOK, DraftsHaveAssets
  <2> QED BY <1>0, <1>1, <1>9, <2>3 DEF WriteFails, TypeOK
<1>10. CASE StoreVersion(j)
  <2> DEFINE d == worker[j].draft
  <2>1. PICK ok \in BOOLEAN :
          /\ persistLocked(ok)
          /\ worker' = [worker EXCEPT ![j].pc = IF ok THEN "recipe" ELSE "fail",
                                      ![j].draft = NoDraft, ![j].version = Inserted(d)]
    BY <1>10 DEF StoreVersion
  <2>2. d \in Draft /\ d.asset \in Assets /\ j \in Author /\ InsertVersion(d, j)
    BY <1>0, <1>10 DEF StoreVersion, Worker, TypeInv, DraftsHaveAssets, At, Author
  <2>3. StoreOK /\ Inserted(d) \in VersionId
    BY <1>0, <2>1, <2>2, InsertCall, Insertion
  <2>4. PICK s \in {"recipe", "fail"} :
          worker' = [worker EXCEPT ![j] =
            [worker[j] EXCEPT !.pc = s, !.draft = NoDraft, !.version = Inserted(d)]]
    BY <2>1
  <2>5. \A q \in {"recipe", "fail"} :
          /\ [worker[j] EXCEPT !.pc = q, !.draft = NoDraft, !.version = Inserted(d)] \in Worker
          /\ [worker[j] EXCEPT !.pc = q, !.draft = NoDraft, !.version = Inserted(d)].pc = q
    <3> HIDE DEF d
    <3> QED BY <1>0, <2>3, IdleType, Names DEF Worker
  <2>6. WorkerOK
    <3> HIDE DEF d
    <3> QED BY <2>4, <2>5 DEF TypeInv, TypeOK, DraftsHaveAssets
  <2> QED BY <1>0, <1>1, <1>10, <2>3, <2>6 DEF StoreVersion, TypeOK
<1>11. CASE StoreRecipe(j)
  <2>1. PICK ok \in BOOLEAN : persistLocked(ok) /\ Goes(j, IF ok THEN "validate" ELSE "fail")
    BY <1>11 DEF StoreRecipe
  <2>2. StoreOK
    BY <1>0, <1>11, <2>1, FlagCalls DEF StoreRecipe
  <2>3. WorkerOK
    BY <1>0, <2>1, GoesType, Names
  <2> QED BY <1>0, <1>1, <1>11, <2>2, <2>3 DEF StoreRecipe, TypeOK
<1>12. CASE StoreValidation(j)
  <2>1. PICK ok \in BOOLEAN : persistLocked(ok) /\ Goes(j, IF ok THEN "finish" ELSE "fail")
    BY <1>12 DEF StoreValidation
  <2>2. StoreOK
    BY <1>0, <1>12, <2>1, FlagCalls DEF StoreValidation
  <2>3. WorkerOK
    BY <1>0, <2>1, GoesType, Names
  <2> QED BY <1>0, <1>1, <1>12, <2>2, <2>3 DEF StoreValidation, TypeOK
<1>13. CASE CompleteJob(j)
  <2>1. worker[j].version \in VersionId \cup {None}
    BY <1>0 DEF Worker
  <2> QED BY <1>0, <1>1, <1>13, <2>1, GoesType, JobCalls, Names DEF CompleteJob
<1>14. CASE CheckFailure(j)
  BY <1>0, <1>1, <1>14, GoesType, Names DEF CheckFailure, TypeOK
<1>15. CASE RecordFailure(j)
  BY <1>0, <1>1, <1>15, GoesType, JobCalls, Names DEF RecordFailure
<1> QED BY <1>2, <1>3, <1>4, <1>5, <1>6, <1>7, <1>8, <1>9, <1>10, <1>11, <1>12, <1>13, <1>14, <1>15 DEF WorkerStep

\* The requests about generations.
LEMMA RequestType ==
  ASSUME TypeInv, NEW j \in Jobs, RequestStep(j)
  PROVE  TypeInv'
<1>0. TypeOK /\ worker[j] \in Worker /\ None \in VersionId \cup {None}
  BY GoesType DEF TypeInv
<1>1. CASE aiDesignSTEPAsset(j)
  <2>1. PICK request \in Assets \cup {New} :
          lib' = [lib EXCEPT !.job[j].status = "queued", !.job[j].request = request]
    BY <1>1 DEF aiDesignSTEPAsset
  <2>2. lib' \in Index
    BY <1>0, <2>1, JobChange, Names
  <2>3. StoreOK
    BY <1>0, <1>1, <2>2, Persisted DEF aiDesignSTEPAsset, StoreOK
  <2>4. Goes(j, "slot") \/ UNCHANGED worker
    BY <1>1 DEF aiDesignSTEPAsset
  <2>5. /\ worker' \in [Jobs -> Worker]
        /\ \A k \in Jobs : worker'[k].pc = "write" => worker'[k].draft.asset \in Assets
    BY <1>0, <2>4, GoesType, Names DEF TypeInv, TypeOK, DraftsHaveAssets
  <2> QED BY <1>1, <2>3, <2>5 DEF aiDesignSTEPAsset, StoreOK, TypeInv, TypeOK, DraftsHaveAssets, others
<1>2. CASE cancelAISTEPJob(j)
  BY <1>2, Names DEF cancelAISTEPJob, TypeInv, TypeOK, DraftsHaveAssets, libVars, others
<1>3. CASE SignalCancel(j)
  <2>1. /\ worker' = [worker EXCEPT ![j] = [worker[j] EXCEPT !.stopped = @ \/ Registered(j)]]
        /\ [worker[j] EXCEPT !.stopped = @ \/ Registered(j)] \in Worker
        /\ [worker[j] EXCEPT !.stopped = @ \/ Registered(j)].pc = worker[j].pc
        /\ [worker[j] EXCEPT !.stopped = @ \/ Registered(j)].draft = worker[j].draft
    BY <1>0, <1>3 DEF SignalCancel, Worker
  <2>2. /\ worker' \in [Jobs -> Worker]
        /\ \A k \in Jobs : worker'[k].pc = "write" => worker'[k].draft.asset \in Assets
    BY <1>0, <2>1 DEF TypeInv, TypeOK, DraftsHaveAssets
  <2> QED BY <1>3, <2>2, Names DEF SignalCancel, TypeInv, TypeOK, DraftsHaveAssets, libVars, others
<1>4. CASE MarkCancelled(j)
  <2>1. StoreOK
    BY <1>0, <1>4, JobCalls, Names DEF MarkCancelled
  <2> QED BY <1>4, <2>1, Names DEF MarkCancelled, StoreOK, TypeInv, TypeOK, DraftsHaveAssets, others
<1> QED BY <1>1, <1>2, <1>3, <1>4 DEF RequestStep

\* A version that can be named.
LEMMA ExistsType ==
  ASSUME TypeOK, NEW v \in Stored
  PROVE  v \in VersionId
<1>1. PICK b \in Assets : \E n \in DOMAIN lib.versions[b] : v = <<b, n>>
  BY DEF Stored
<1>2. lib.versions[b] \in Seq(Version)
  BY DEF TypeOK, Index
<1> QED BY <1>1, <1>2 DEF VersionId

LEMMA CheckType ==
  ASSUME TypeOK, NEW v \in VersionId, startSTEPValidation(v) \/ UNCHANGED checking
  PROVE  checking' \subseteq VersionId \X (1 .. MaxChecks)
<1>1. checking \subseteq VersionId \X (1 .. MaxChecks)
  BY DEF TypeOK
<1>2. CASE startSTEPValidation(v)
  <2>1. PICK k \in 1 .. MaxChecks : checking' = checking \cup {<<v, k>>}
    BY <1>2 DEF startSTEPValidation
  <2>2. <<v, k>> \in VersionId \X (1 .. MaxChecks)
    OBVIOUS
  <2> QED BY <1>1, <2>1, <2>2
<1> QED BY <1>1, <1>2

\* The uploads.
LEMMA UploadType ==
  ASSUME TypeInv, NEW u \in Uploads, UploadStep(u)
  PROVE  TypeInv'
<1>0. TypeOK /\ upload[u] \in Upload /\ NoDraft \in Draft
  BY IdleType DEF TypeInv, TypeOK
<1>1. CASE storeSTEPAssetUpload(u)
  <2>0. PICK request \in Assets \cup {New} : \E d \in Drafts(request) :
          upload' = [upload EXCEPT ![u] = [pc |-> "write", draft |-> d]]
    BY <1>1 DEF storeSTEPAssetUpload
  <2>1. PICK d \in Drafts(request) :
          upload' = [upload EXCEPT ![u] = [pc |-> "write", draft |-> d]]
    BY <2>0
  <2>2. d \in Draft /\ d.asset \in Assets
    BY <1>0, DraftsType
  <2>3. [pc |-> "write", draft |-> d] \in Upload
    BY <2>2 DEF Upload
  <2> QED BY <1>1, <2>1, <2>2, <2>3 DEF storeSTEPAssetUpload, TypeInv, TypeOK, DraftsHaveAssets, jobVars
<1>2. CASE RefuseUpload(u)
  BY <1>0, <1>2 DEF RefuseUpload, Upload, TypeInv, TypeOK, DraftsHaveAssets, jobVars
<1>3. CASE InsertUpload(u)
  <2> DEFINE d == upload[u].draft
  <2>1. d \in Draft /\ d.asset \in Assets /\ u \in Author /\ InsertVersion(d, u)
    BY <1>0, <1>3 DEF InsertUpload, Upload, TypeInv, DraftsHaveAssets, Author
  <2>2. StoreOK /\ Inserted(d) \in VersionId
    BY <1>0, <1>3, <2>1, InsertCall, Insertion DEF InsertUpload
  <2>3. checking' \subseteq VersionId \X (1 .. MaxChecks)
    <3>1. startSTEPValidation(Inserted(d)) \/ UNCHANGED checking
      BY <1>3 DEF InsertUpload
    <3> HIDE DEF d
    <3> QED BY <1>0, <2>2, <3>1, CheckType
  <2>4. upload' = [upload EXCEPT ![u] = [pc |-> "done", draft |-> NoDraft]]
    BY <1>3 DEF InsertUpload
  <2>5. [pc |-> "done", draft |-> NoDraft] \in Upload
    BY <1>0 DEF Upload
  <2> QED BY <1>3, <2>2, <2>3, <2>4, <2>5 DEF InsertUpload, StoreOK, TypeInv, TypeOK, DraftsHaveAssets, jobVars
<1> QED BY <1>1, <1>2, <1>3 DEF UploadStep

\* The validation of versions.
LEMMA ValidationType ==
  ASSUME TypeInv,
         \/ \E v \in Stored : validateSTEPAssetVersion(v)
         \/ \E c \in checking : FinishValidation(c)
  PROVE  TypeInv'
<1>0. TypeOK
  BY DEF TypeInv
<1>1. ASSUME NEW v \in Stored, validateSTEPAssetVersion(v) PROVE TypeInv'
  <2>1. StoreOK
    BY <1>0, <1>1, FlagCalls DEF validateSTEPAssetVersion
  <2>2. checking' \subseteq VersionId \X (1 .. MaxChecks)
    <3>1. startSTEPValidation(v) \/ UNCHANGED checking
      BY <1>1 DEF validateSTEPAssetVersion
    <3> QED BY <1>0, <3>1, ExistsType, CheckType
  <2> QED BY <1>1, <2>1, <2>2 DEF validateSTEPAssetVersion, StoreOK, TypeInv, TypeOK, DraftsHaveAssets, jobVars
<1>2. ASSUME NEW c \in checking, FinishValidation(c) PROVE TypeInv'
  <2>1. StoreOK
    BY <1>0, <1>2, FlagCalls DEF FinishValidation
  <2> QED BY <1>2, <2>1 DEF FinishValidation, StoreOK, TypeInv, TypeOK, DraftsHaveAssets, jobVars
<1> QED BY <1>1, <1>2

\* What a restart finds: the versions of the index, and its jobs, of which
\* the unfinished ones are recovering.
LEMMA RestartFacts ==
  ASSUME TypeOK, Restart
  PROVE  /\ StoreOK
         /\ lib'.versions = disk.versions
         /\ \A j \in Jobs : IF j \in RecoverAIJobs
                              THEN lib'.job[j].status = "recovering"
                              ELSE lib'.job[j] = disk.job[j] /\ worker'[j] = Idle
         /\ worker' \in [Jobs -> {Idle, [Idle EXCEPT !.pc = "slot"]}]
<1>1. disk \in [versions: [Assets -> Seq(Version)], job: [Jobs -> Job]]
  BY DEF TypeOK, Index
<1>2. \A j \in Jobs : [disk.job[j] EXCEPT !.status = "recovering"] \in Job
  BY <1>1 DEF Job, Live
<1>3. lib' = [disk EXCEPT !.job = [j \in Jobs |->
                IF j \in RecoverAIJobs THEN [disk.job[j] EXCEPT !.status = "recovering"]
                                       ELSE disk.job[j]]]
  BY DEF Restart
<1>4. lib' \in Index /\ lib'.versions = disk.versions
  BY <1>1, <1>2, <1>3 DEF Index
<1>5. ASSUME NEW j \in Jobs
      PROVE  IF j \in RecoverAIJobs THEN lib'.job[j].status = "recovering" ELSE lib'.job[j] = disk.job[j]
  <2>1. [disk.job[j] EXCEPT !.status = "recovering"].status = "recovering"
    BY <1>1 DEF Job
  <2> QED BY <1>1, <1>3, <2>1
<1>6. StoreOK
  BY <1>4, Persisted DEF Restart, StoreOK
<1>7. PICK ok \in BOOLEAN :
        worker' = [j \in Jobs |-> IF ok /\ j \in RecoverAIJobs THEN [Idle EXCEPT !.pc = "slot"]
                                                               ELSE Idle]
  BY DEF Restart
<1> QED BY <1>4, <1>5, <1>6, <1>7

LEMMA RestartType ==
  ASSUME TypeInv, Restart
  PROVE  TypeInv'
<1>0. TypeOK
  BY DEF TypeInv
<1>1. /\ worker' \in [Jobs -> Worker]
      /\ \A k \in Jobs : worker'[k].pc # "write"
  BY <1>0, RestartFacts, IdleType
<1>2. checking' \subseteq VersionId \X (1 .. MaxChecks)
  <2>1. \A b \in Assets : disk.versions[b] \in Seq(Version)
    BY <1>0 DEF TypeOK, Index
  <2>2. \A b \in Assets : \A n \in DOMAIN disk.versions[b] : <<<<b, n>>, 1>> \in VersionId \X (1 .. MaxChecks)
    BY <2>1, StepAssumption DEF StepAssumption, VersionId
  <2> QED BY <2>2 DEF Restart, resumeSTEPValidations
<1>3. /\ upload' \in [Uploads -> Upload]
      /\ \A u \in Uploads : upload'[u].pc # "write"
  BY <1>0, IdleType DEF Restart, TypeOK, Upload
<1>4. cancel' \in [Jobs -> Cancel] /\ slot' \subseteq Jobs
  BY Names DEF Restart
<1>5. crashes' \in 0 .. MaxCrashes
  BY <1>0, StepAssumption DEF StepAssumption, Restart, TypeOK
<1>6. StoreOK
  BY <1>0, RestartFacts
<1> QED BY <1>1, <1>2, <1>3, <1>4, <1>5, <1>6 DEF StoreOK, TypeInv, TypeOK, DraftsHaveAssets

LEMMA InitType ==
  ASSUME Init
  PROVE  TypeInv
<1>1. PICK stock \in SUBSET Assets : lib = Loaded(stock)
  BY DEF Init
<1>2. <<[number |-> 1, by |-> New, since |-> 0, recipe |-> FALSE, validation |-> "checked"]>> \in Seq(Version)
  BY StepAssumption DEF StepAssumption, Version
<1>3. Loaded(stock) \in Index
  BY <1>2 DEF Loaded, Index, Job
<1>4. worker \in [Jobs -> Worker] /\ \A j \in Jobs : worker[j].pc # "write"
  BY IdleType DEF Init
<1>5. upload \in [Uploads -> Upload] /\ \A u \in Uploads : upload[u].pc # "write"
  BY IdleType DEF Init, Upload
<1> QED BY <1>1, <1>3, <1>4, <1>5, Names, StepAssumption
        DEF StepAssumption, Init, TypeInv, TypeOK, DraftsHaveAssets

LEMMA TypeStep ==
  ASSUME TypeInv, [Next]_vars
  PROVE  TypeInv'
<1>1. CASE UNCHANGED vars
  BY <1>1 DEF vars, TypeInv, TypeOK, DraftsHaveAssets
<1>2. CASE Next
  BY <1>2, RestartType, RequestType, WorkerType, UploadType, ValidationType DEF Next
<1> QED BY <1>1, <1>2

\* The variables keep their types, for every set of jobs, uploads and assets.
THEOREM TypeCorrect == Spec => []TypeOK
<1>1. Init => TypeInv
  BY InitType
<1>2. TypeInv /\ [Next]_vars => TypeInv'
  BY TypeStep
<1>3. TypeInv => TypeOK
  BY DEF TypeInv
<1> QED BY <1>1, <1>2, <1>3, PTL DEF Spec

-----------------------------------------------------------------------------
(***************************************************************************)
(* The kinds of steps, as far as the library and the workers' progress are *)
(* concerned.                                                              *)
(***************************************************************************)
\* Where a worker is whose version is in the library.
Storing == {"recipe", "validate", "finish"}

Same(j) == worker'[j].pc = worker[j].pc /\ worker'[j].version = worker[j].version
Others(j) == \A k \in Jobs \ {j} : Same(k)
SameVersions == \A a \in Assets : DOMAIN lib'.versions[a] = DOMAIN lib.versions[a]

\* Nothing is stored; a worker at work and before its version may go on or leave.
QuietStep ==
  /\ UNCHANGED <<lib, disk, lost, crashes>>
  /\ \A j \in Jobs : \/ Same(j)
                     \/ worker[j].pc \notin Storing \cup {"idle"} /\ worker'[j].pc \notin Storing

Recorded(j, s) == StoreOK /\ Records(j, s) /\ crashes' = crashes /\ Others(j)

AskStep(j) ==
  Recorded(j, "queued") /\ StatusOf(j) = "none" /\ worker[j].pc = "idle" /\ worker'[j].pc \in {"idle", "slot"}
ReportStep(j) ==
  /\ Recorded(j, "running")
  /\ worker[j].pc \notin Storing \cup {"idle"} /\ worker'[j].pc \notin Storing \cup {"idle"}
StopStep(j) ==
  /\ \E s \in {"needs_input", "failed"} : Recorded(j, s)
  /\ worker[j].pc \notin Storing \cup {"idle"} /\ worker'[j].pc = "idle"
CompleteStep(j) ==
  /\ Recorded(j, "completed") /\ lib'.job[j].version = worker[j].version
  /\ worker[j].pc = "finish" /\ worker'[j].pc = "idle"
MarkStep(j) == Recorded(j, "cancelled") /\ cancel[j] = "mark" /\ Same(j)
RecordStep(j) == AskStep(j) \/ ReportStep(j) \/ StopStep(j) \/ CompleteStep(j) \/ MarkStep(j)

Grown == StoreOK /\ Keeps /\ crashes' = crashes

\* Flags change, and the worker of at most one job goes on.
FlagStep == Grown /\ SameVersions /\ \A j \in Jobs : Same(j)
CheckpointStep(j) ==
  /\ Grown /\ SameVersions /\ Others(j) /\ worker'[j].version = worker[j].version
  /\ worker[j].pc \in {"recipe", "validate"}
  /\ \/ worker'[j].pc = "fail" /\ lost' > 0
     \/ /\ worker[j].pc = "recipe" /\ worker'[j].pc = "validate"
        /\ \A a \in Assets : \A n \in DOMAIN lib.versions[a] :
             worker[j].version = <<a, n>> => lib'.versions[a][n].recipe
     \/ worker[j].pc = "validate" /\ worker'[j].pc = "finish"

\* A version is inserted.
NewBy(by) ==
  \A a \in Assets : \A n \in DOMAIN lib'.versions[a] :
    \/ n \in DOMAIN lib.versions[a]
    \/ /\ lib'.versions[a][n].number = n
       /\ lib'.versions[a][n].by = by
       /\ lib'.versions[a][n].since = crashes
UploadedStep(u) == Grown /\ NewBy(u) /\ \A j \in Jobs : Same(j)
VersionStep(j) ==
  /\ Grown /\ NewBy(j) /\ Others(j) /\ worker[j].pc = "write"
  /\ \/ worker'[j].pc = "fail" /\ lost' > 0
     \/ /\ worker'[j].pc = "recipe"
        /\ \E a \in Assets : \E n \in DOMAIN lib'.versions[a] :
             worker'[j].version = <<a, n>> /\ lib'.versions[a][n].by = j

\* How Goes and Leaves move the workers.
LEMMA Moves ==
  ASSUME TypeOK, NEW j \in Jobs
  PROVE  /\ \A s : Goes(j, s) =>
              Others(j) /\ worker'[j].pc = s /\ worker'[j].version = worker[j].version
         /\ Leaves(j) => Others(j) /\ worker'[j].pc = "idle"
<1>1. worker \in [Jobs -> Worker] /\ worker[j] \in Worker /\ Idle.pc = "idle"
  BY IdleType DEF TypeOK
<1>2. ASSUME NEW s, Goes(j, s)
      PROVE  Others(j) /\ worker'[j].pc = s /\ worker'[j].version = worker[j].version
  <2>1. worker' = [worker EXCEPT ![j] = [worker[j] EXCEPT !.pc = s]]
    BY <1>1, <1>2 DEF Goes
  <2>2. [worker[j] EXCEPT !.pc = s].pc = s /\ [worker[j] EXCEPT !.pc = s].version = worker[j].version
    BY <1>1 DEF Worker
  <2> QED BY <1>1, <2>1, <2>2 DEF Others, Same
<1>3. ASSUME Leaves(j) PROVE Others(j) /\ worker'[j].pc = "idle"
  BY <1>1, <1>3 DEF Leaves, Others, Same
<1> QED BY <1>2, <1>3

LEMMA WorkerKinds ==
  ASSUME TypeInv, NEW j \in Jobs, WorkerStep(j) \/ TakeSlot(j)
  PROVE  QuietStep \/ RecordStep(j) \/ CheckpointStep(j) \/ VersionStep(j)
<1>0. /\ TypeOK /\ worker \in [Jobs -> Worker] /\ worker[j] \in Worker
      /\ None \in VersionId \cup {None} /\ worker[j].version \in VersionId \cup {None}
  BY DEF TypeInv, TypeOK, Worker
<1>a. ASSUME UNCHANGED <<libVars, cancel, others>>, worker[j].pc \notin Storing \cup {"idle"},
             Leaves(j) \/ \E s \in Step \ Storing : Goes(j, s)
      PROVE  QuietStep
  <2>1. Others(j) /\ worker'[j].pc \notin Storing
    BY <1>0, <1>a, Moves DEF Storing
  <2> QED BY <1>a, <2>1 DEF QuietStep, Others, libVars, others
<1>b. ASSUME UpdateAIJob(j), UNCHANGED others, worker[j].pc \notin Storing \cup {"idle"},
             \E s \in Step \ (Storing \cup {"idle"}) : Goes(j, s)
      PROVE  RecordStep(j)
  BY <1>0, <1>b, Moves, JobCalls DEF RecordStep, ReportStep, Recorded, others
<1>c. ASSUME NEW s \in {"needs_input", "failed"}, FinishAIJob(j, s, None), Leaves(j), UNCHANGED others,
             worker[j].pc \notin Storing \cup {"idle"}
      PROVE  RecordStep(j)
  <2>1. s \in Status
    BY Names
  <2> QED BY <1>0, <1>c, <2>1, Moves, JobCalls DEF RecordStep, StopStep, Recorded, others
<1>2. CASE TakeSlot(j)
  BY <1>a, <1>2, Names DEF TakeSlot, At, Storing
<1>3. CASE RegisterCancel(j)
  BY <1>a, <1>3, Names DEF RegisterCancel, At, Storing
<1>4. CASE BeginDesign(j)
  BY <1>b, <1>4, Names DEF BeginDesign, At, Storing
<1>5. CASE DesignCAD(j)
  <2>1. CASE UpdateAIJob(j) /\ Goes(j, "generate")
    BY <1>b, <1>5, <2>1, Names DEF DesignCAD, At, Storing
  <2>2. CASE Leaves(j) /\ UNCHANGED libVars
    BY <1>a, <1>5, <2>2 DEF DesignCAD, At, Storing
  <2>3. CASE FinishAIJob(j, "needs_input", None) /\ Leaves(j)
    BY <1>c, <1>5, <2>3 DEF DesignCAD, At, Storing
  <2>4. CASE Goes(j, "fail") /\ UNCHANGED libVars
    BY <1>a, <1>5, <2>4, Names DEF DesignCAD, At, Storing
  <2> QED BY <1>5, <2>1, <2>2, <2>3, <2>4 DEF DesignCAD
<1>6. CASE GenerateCAD(j)
  BY <1>a, <1>6, Names DEF GenerateCAD, At, Storing
<1>7. CASE BeginStoring(j)
  BY <1>b, <1>7, Names DEF BeginStoring, At, Storing
<1>8. CASE CheckStoring(j)
  <2>1. CASE Leaves(j) \/ Goes(j, "fail")
    BY <1>a, <1>8, <2>1, Names DEF CheckStoring, At, Storing
  <2>2. CASE \E d \in Drafts(lib.job[j].request) :
               worker' = [worker EXCEPT ![j].pc = "write", ![j].draft = d]
    <3>1. Others(j) /\ worker'[j].pc = "write"
      BY <1>0, <2>2 DEF Others, Same, Worker
    <3>2. UNCHANGED libVars /\ UNCHANGED others /\ worker[j].pc = "ready"
      BY <1>8 DEF CheckStoring, At
    <3> QED BY <3>1, <3>2 DEF QuietStep, Others, Storing, libVars, others
  <2> QED BY <1>8, <2>1, <2>2 DEF CheckStoring
<1>9. CASE WriteFails(j)
  <2>1. Others(j) /\ worker'[j].pc = "fail"
    BY <1>0, <1>9 DEF WriteFails, Others, Same, Worker
  <2> QED BY <1>9, <2>1 DEF WriteFails, QuietStep, Others, Storing, At, libVars, others
<1>10. CASE StoreVersion(j)
  <2> DEFINE d == worker[j].draft
  <2>1. PICK ok \in BOOLEAN :
          /\ persistLocked(ok)
          /\ worker' = [worker EXCEPT ![j].pc = IF ok THEN "recipe" ELSE "fail",
                                      ![j].draft = NoDraft, ![j].version = Inserted(d)]
    BY <1>10 DEF StoreVersion
  <2>2. /\ d \in Draft /\ d.asset \in Assets /\ j \in Author /\ InsertVersion(d, j)
        /\ worker[j].pc = "write" /\ crashes' = crashes
    BY <1>0, <1>10 DEF StoreVersion, Worker, TypeInv, DraftsHaveAssets, At, Author, others
  <2>3. Grown /\ NewBy(j)
    BY <1>0, <2>1, <2>2, InsertCall, Insertion DEF Grown, NewBy
  <2>4. \E n \in DOMAIN lib'.versions[d.asset] :
          Inserted(d) = <<d.asset, n>> /\ lib'.versions[d.asset][n].by = j
    BY <1>0, <2>2, Insertion
  <2>5. /\ Others(j) /\ worker'[j].version = Inserted(d)
        /\ worker'[j].pc = IF ok THEN "recipe" ELSE "fail"
    <3> HIDE DEF d
    <3> QED BY <1>0, <2>1 DEF Others, Same, Worker
  <2>6. ~ok => lost' > 0
    BY <1>0, <2>1 DEF persistLocked, TypeOK
  <2>7. CASE ok
    BY <2>2, <2>3, <2>4, <2>5, <2>7 DEF VersionStep
  <2>8. CASE ~ok
    BY <2>2, <2>3, <2>5, <2>6, <2>8 DEF VersionStep
  <2> QED BY <2>7, <2>8
<1>11. CASE StoreRecipe(j)
  <2>1. PICK ok \in BOOLEAN : persistLocked(ok) /\ Goes(j, IF ok THEN "validate" ELSE "fail")
    BY <1>11 DEF StoreRecipe
  <2>2. Grown /\ SameVersions
    BY <1>0, <1>11, <2>1, FlagCalls DEF StoreRecipe, Grown, SameVersions, others
  <2>3. /\ Others(j) /\ worker'[j].version = worker[j].version /\ worker[j].pc = "recipe"
        /\ worker'[j].pc = IF ok THEN "validate" ELSE "fail"
    BY <1>0, <1>11, <2>1, Moves DEF StoreRecipe, At
  <2>4. ~ok => lost' > 0
    BY <1>0, <2>1 DEF persistLocked, TypeOK
  <2>5. ASSUME NEW a \in Assets, NEW n \in DOMAIN lib.versions[a], worker[j].version = <<a, n>>
        PROVE  lib'.versions[a][n].recipe
    <3>1. lib.versions[a] \in Seq(Version) /\ lib.versions[a][n] \in Version
      BY <1>0 DEF TypeOK, Index
    <3>2. lib' = [lib EXCEPT !.versions[a][n].recipe = TRUE]
      BY <1>11, <2>5 DEF StoreRecipe, SetGeometry
    <3> QED BY <1>0, <3>1, <3>2 DEF TypeOK, Index, Version
  <2> QED BY <2>2, <2>3, <2>4, <2>5 DEF CheckpointStep
<1>12. CASE StoreValidation(j)
  <2>1. PICK ok \in BOOLEAN : persistLocked(ok) /\ Goes(j, IF ok THEN "finish" ELSE "fail")
    BY <1>12 DEF StoreValidation
  <2>2. Grown /\ SameVersions
    BY <1>0, <1>12, <2>1, FlagCalls DEF StoreValidation, Grown, SameVersions, others
  <2>3. /\ Others(j) /\ worker'[j].version = worker[j].version /\ worker[j].pc = "validate"
        /\ worker'[j].pc = IF ok THEN "finish" ELSE "fail"
    BY <1>0, <1>12, <2>1, Moves DEF StoreValidation, At
  <2>4. ~ok => lost' > 0
    BY <1>0, <2>1 DEF persistLocked, TypeOK
  <2> QED BY <2>2, <2>3, <2>4 DEF CheckpointStep
<1>13. CASE CompleteJob(j)
  <2>1. StoreOK /\ Records(j, "completed") /\ lib'.job[j].version = worker[j].version
    BY <1>0, <1>13, JobCalls, Names DEF CompleteJob
  <2>2. Others(j) /\ worker'[j].pc = "idle" /\ worker[j].pc = "finish" /\ crashes' = crashes
    BY <1>0, <1>13, Moves DEF CompleteJob, At, others
  <2> QED BY <2>1, <2>2 DEF RecordStep, CompleteStep, Recorded
<1>14. CASE CheckFailure(j)
  BY <1>a, <1>14, Names DEF CheckFailure, At, Storing
<1>15. CASE RecordFailure(j)
  BY <1>c, <1>15 DEF RecordFailure, At, Storing
<1> QED BY <1>2, <1>3, <1>4, <1>5, <1>6, <1>7, <1>8, <1>9, <1>10, <1>11, <1>12, <1>13, <1>14, <1>15 DEF WorkerStep

AnyKind ==
  \/ QuietStep \/ FlagStep
  \/ \E j \in Jobs : RecordStep(j) \/ CheckpointStep(j) \/ VersionStep(j)
  \/ \E u \in Uploads : UploadedStep(u)

LEMMA RequestKinds ==
  ASSUME TypeInv, NEW j \in Jobs, RequestStep(j)
  PROVE  QuietStep \/ RecordStep(j)
<1>0. TypeOK /\ worker \in [Jobs -> Worker] /\ None \in VersionId \cup {None}
  BY DEF TypeInv, TypeOK
<1>1. CASE aiDesignSTEPAsset(j)
  <2>1. PICK request \in Assets \cup {New} :
          lib' = [lib EXCEPT !.job[j].status = "queued", !.job[j].request = request]
    BY <1>1 DEF aiDesignSTEPAsset
  <2>2. lib' \in Index /\ Records(j, "queued")
    BY <1>0, <2>1, JobChange, Names DEF Records
  <2>3. StoreOK
    BY <1>0, <1>1, <2>2, Persisted DEF aiDesignSTEPAsset, StoreOK
  <2>4. Others(j) /\ worker'[j].pc \in {"idle", "slot"} /\ worker[j].pc = "idle"
    BY <1>0, <1>1, Moves DEF aiDesignSTEPAsset, At, Others, Same
  <2> QED BY <1>1, <2>2, <2>3, <2>4 DEF aiDesignSTEPAsset, RecordStep, AskStep, Recorded, others
<1>2. CASE cancelAISTEPJob(j)
  BY <1>2 DEF cancelAISTEPJob, QuietStep, Same, libVars, others
<1>3. CASE SignalCancel(j)
  <2>1. \A k \in Jobs : Same(k)
    BY <1>0, <1>3 DEF SignalCancel, Same, Worker
  <2> QED BY <1>3, <2>1 DEF SignalCancel, QuietStep, libVars, others
<1>4. CASE MarkCancelled(j)
  <2>1. StoreOK /\ Records(j, "cancelled")
    BY <1>0, <1>4, JobCalls, Names DEF MarkCancelled
  <2> QED BY <1>4, <2>1 DEF MarkCancelled, RecordStep, MarkStep, Recorded, Same, Others, others
<1> QED BY <1>1, <1>2, <1>3, <1>4 DEF RequestStep

LEMMA UploadKinds ==
  ASSUME TypeInv, NEW u \in Uploads, UploadStep(u)
  PROVE  QuietStep \/ UploadedStep(u)
<1>0. TypeOK /\ upload[u] \in Upload
  BY DEF TypeInv, TypeOK
<1>1. CASE storeSTEPAssetUpload(u)
  BY <1>1 DEF storeSTEPAssetUpload, QuietStep, Same, jobVars
<1>2. CASE RefuseUpload(u)
  BY <1>2 DEF RefuseUpload, QuietStep, Same, jobVars
<1>3. CASE InsertUpload(u)
  <2> DEFINE d == upload[u].draft
  <2>1. d \in Draft /\ u \in Author /\ InsertVersion(d, u)
    BY <1>0, <1>3 DEF InsertUpload, Upload, Author
  <2>2. PICK ok \in BOOLEAN : persistLocked(ok) /\ crashes' = crashes /\ UNCHANGED jobVars
    BY <1>3 DEF InsertUpload
  <2> HIDE DEF d
  <2>3. Grown /\ NewBy(u)
    BY <1>0, <2>1, <2>2, InsertCall, Insertion DEF Grown, NewBy
  <2> QED BY <2>2, <2>3 DEF UploadedStep, Same, jobVars
<1> QED BY <1>1, <1>2, <1>3 DEF UploadStep

LEMMA Kinds ==
  ASSUME TypeInv, Next
  PROVE  Restart \/ AnyKind
<1>0. TypeOK
  BY DEF TypeInv
<1>1. ASSUME NEW v \in Stored, validateSTEPAssetVersion(v) PROVE FlagStep
  <2>1. StoreOK /\ Keeps /\ SameVersions
    BY <1>0, <1>1, FlagCalls DEF validateSTEPAssetVersion, SameVersions
  <2> QED BY <1>1, <2>1 DEF validateSTEPAssetVersion, FlagStep, Grown, Same, jobVars
<1>2. ASSUME NEW c \in checking, FinishValidation(c) PROVE FlagStep
  <2>1. StoreOK /\ Keeps /\ SameVersions
    BY <1>0, <1>2, FlagCalls DEF FinishValidation, SameVersions
  <2> QED BY <1>2, <2>1 DEF FinishValidation, FlagStep, Grown, Same, jobVars
<1> QED BY <1>1, <1>2, RequestKinds, WorkerKinds, UploadKinds DEF Next, AnyKind

-----------------------------------------------------------------------------
(***************************************************************************)
(* The numbers of versions.                                                *)
(***************************************************************************)
Numbered(index) ==
  \A a \in Assets : \A n \in DOMAIN index.versions[a] : index.versions[a][n].number = n

NumberInv == TypeInv /\ Numbered(lib) /\ Numbered(disk)

LEMMA NumberStep ==
  ASSUME NumberInv, [Next]_vars
  PROVE  NumberInv'
<1>1. TypeInv /\ TypeInv'
  BY TypeStep DEF NumberInv
<1>2. ASSUME Numbered(lib'), StoreOK PROVE Numbered(disk')
  BY <1>2 DEF StoreOK, NumberInv
<1>3. CASE UNCHANGED vars \/ QuietStep
  BY <1>1, <1>3 DEF NumberInv, Numbered, vars, QuietStep
<1>4. CASE Restart
  <2>1. lib'.versions = disk.versions /\ StoreOK
    BY <1>1, <1>4, RestartFacts DEF TypeInv
  <2>2. Numbered(lib')
    BY <2>1 DEF NumberInv, Numbered
  <2> QED BY <1>1, <1>2, <2>1, <2>2 DEF NumberInv, Numbered
<1>5. ASSUME NEW j \in Jobs, RecordStep(j) PROVE NumberInv'
  <2>1. lib'.versions = lib.versions /\ StoreOK
    BY <1>5 DEF RecordStep, AskStep, ReportStep, StopStep, CompleteStep, MarkStep, Recorded, Records
  <2>2. Numbered(lib')
    BY <2>1 DEF NumberInv, Numbered
  <2> QED BY <1>1, <1>2, <2>1, <2>2 DEF NumberInv, Numbered
<1>6. ASSUME Grown, SameVersions \/ \E by \in Author : NewBy(by) PROVE NumberInv'
  <2>1. Grows /\ StoreOK
    BY <1>6 DEF Grown, Keeps
  <2>2. Numbered(lib')
    BY <1>6, <2>1 DEF NumberInv, Numbered, Grows, SameVersions, NewBy
  <2> QED BY <1>1, <1>2, <2>1, <2>2 DEF NumberInv, Numbered
<1>7. ASSUME AnyKind PROVE NumberInv'
  BY <1>3, <1>5, <1>6, <1>7 DEF AnyKind, FlagStep, CheckpointStep, VersionStep, UploadedStep, Author
<1> QED BY <1>1, <1>3, <1>4, <1>7, Kinds

\* The versions of an asset are numbered in the order they came, whoever
\* adds them and whichever writes fail.
THEOREM VersionsNumbered == Spec => []VersionsAreNumbered
<1>1. Init => NumberInv
  <2> SUFFICES ASSUME Init PROVE NumberInv
    OBVIOUS
  <2>1. PICK stock \in SUBSET Assets : lib = Loaded(stock)
    BY DEF Init
  <2>2. lib.versions = [a \in Assets |-> IF a \in stock
                          THEN <<[number |-> 1, by |-> New, since |-> 0, recipe |-> FALSE,
                                  validation |-> "checked"]>>
                          ELSE <<>>]
    BY <2>1 DEF Loaded
  <2>3. ASSUME NEW a \in Assets, NEW n \in DOMAIN lib.versions[a]
        PROVE  lib.versions[a][n].number = n
    <3>1. CASE a \in stock
      BY <2>2, <2>3, <3>1
    <3>2. CASE a \notin stock
      BY <2>2, <2>3, <3>2
    <3> QED BY <3>1, <3>2
  <2> QED BY <2>3, InitType DEF Init, NumberInv, Numbered
<1>2. NumberInv /\ [Next]_vars => NumberInv'
  BY NumberStep
<1>3. NumberInv => VersionsAreNumbered
  BY DEF NumberInv, Numbered, VersionsAreNumbered
<1> QED BY <1>1, <1>2, <1>3, PTL DEF Spec

-----------------------------------------------------------------------------
(***************************************************************************)
(* What a job's status says of the library.                                *)
(***************************************************************************)
\* A worker at work has a job that only a cancellation can have ended.
WorkerOwnsJob ==
  \A j \in Jobs : worker[j].pc # "idle" => StatusOf(j) \in Live \cup {"cancelled"}

\* The version a worker has stored is there, with its recipe once it was set.
WorkerMadeVersion ==
  \A j \in Jobs : worker[j].pc \in Storing =>
    \E a \in Assets : \E n \in DOMAIN lib.versions[a] :
      /\ worker[j].version = <<a, n>>
      /\ lib.versions[a][n].by = j
      /\ worker[j].pc # "recipe" => lib.versions[a][n].recipe

DiskIsCurrent == lost = 0 => disk = lib

Completed(index) ==
  \A j \in Jobs : index.job[j].status = "completed" =>
    \E a \in Assets : \E n \in DOMAIN index.versions[a] :
      index.job[j].version = <<a, n>> /\ index.versions[a][n].by = j /\ index.versions[a][n].recipe

OwnInv == TypeInv /\ WorkerOwnsJob /\ DiskIsCurrent
JobInv == OwnInv /\ WorkerMadeVersion /\ Completed(lib) /\ Completed(disk)

LEMMA OwnStep ==
  ASSUME OwnInv, [Next]_vars
  PROVE  OwnInv'
<1>0. TypeInv /\ TypeInv' /\ lost \in Nat
  BY TypeStep, StepAssumption DEF StepAssumption, OwnInv, TypeInv, TypeOK
<1>1. ASSUME StoreOK PROVE DiskIsCurrent'
  BY <1>0, <1>1 DEF DiskIsCurrent, StoreOK
<1>2. CASE UNCHANGED vars
  BY <1>0, <1>2 DEF OwnInv, WorkerOwnsJob, DiskIsCurrent, vars, StatusOf
<1>3. CASE QuietStep
  BY <1>0, <1>3 DEF OwnInv, WorkerOwnsJob, DiskIsCurrent, QuietStep, Same, StatusOf
<1>4. CASE Restart
  <2>1. StoreOK /\ \A j \in Jobs : lib'.job[j].status = "recovering" \/ worker'[j] = Idle
    BY <1>0, <1>4, RestartFacts DEF TypeInv
  <2>2. WorkerOwnsJob'
    BY <2>1, IdleType DEF WorkerOwnsJob, StatusOf, Live
  <2> QED BY <1>0, <1>1, <2>1, <2>2 DEF OwnInv
<1>5. ASSUME NEW j \in Jobs, RecordStep(j) PROVE OwnInv'
  <2>1. PICK s \in Status : Recorded(j, s) /\ (worker'[j].pc # "idle" => s \in Live \cup {"cancelled"})
    BY <1>5, Names DEF RecordStep, AskStep, ReportStep, StopStep, CompleteStep, MarkStep, Live
  <2>2. WorkerOwnsJob'
    BY <2>1 DEF OwnInv, WorkerOwnsJob, Recorded, Records, Others, Same, StatusOf
  <2> QED BY <1>0, <1>1, <2>1, <2>2 DEF OwnInv, Recorded
<1>6. ASSUME Grown, \A j \in Jobs : worker'[j].pc # "idle" => worker[j].pc # "idle" PROVE OwnInv'
  <2>1. WorkerOwnsJob'
    BY <1>6 DEF OwnInv, WorkerOwnsJob, Grown, Keeps, StatusOf
  <2> QED BY <1>0, <1>1, <1>6, <2>1 DEF OwnInv, Grown
<1>7. ASSUME NEW j \in Jobs, CheckpointStep(j) \/ VersionStep(j) PROVE OwnInv'
  <2>1. Grown /\ \A k \in Jobs : worker'[k].pc # "idle" => worker[k].pc # "idle"
    BY <1>7 DEF CheckpointStep, VersionStep, Others, Same
  <2> QED BY <1>6, <2>1
<1>8. ASSUME FlagStep \/ \E u \in Uploads : UploadedStep(u) PROVE OwnInv'
  <2>1. Grown /\ \A k \in Jobs : worker'[k].pc # "idle" => worker[k].pc # "idle"
    BY <1>8 DEF FlagStep, UploadedStep, Same
  <2> QED BY <1>6, <2>1
<1> QED BY <1>0, <1>2, <1>3, <1>4, <1>5, <1>7, <1>8, Kinds DEF AnyKind

LEMMA OwnInit == ASSUME Init PROVE OwnInv
BY InitType, IdleType DEF Init, OwnInv, WorkerOwnsJob, DiskIsCurrent

\* Nothing but a cancellation on its way changes what a job became.
THEOREM OutcomesStay == Spec => OutcomeStays
<1>1. Init => OwnInv
  BY OwnInit
<1>2. OwnInv /\ [Next]_vars => OwnInv'
  BY OwnStep
<1>3. OwnInv /\ [Next]_vars =>
        [\A j \in Jobs : StatusOf(j) \in {"completed", "failed", "needs_input"} =>
           lib'.job[j] = lib.job[j] \/ cancel[j] = "mark" \/ lost > 0]_vars
  <2> SUFFICES ASSUME OwnInv, Next, NEW j \in Jobs,
                      StatusOf(j) \in {"completed", "failed", "needs_input"}, lost = 0
               PROVE  lib'.job[j] = lib.job[j] \/ cancel[j] = "mark"
    BY StepAssumption DEF StepAssumption, OwnInv, TypeInv, TypeOK
  <2>0. TypeInv /\ TypeOK /\ worker[j].pc = "idle" /\ disk = lib
    BY DEF OwnInv, TypeInv, WorkerOwnsJob, DiskIsCurrent, Live
  <2>1. CASE Restart
    BY <2>0, <2>1, RestartFacts DEF RecoverAIJobs, StatusOf, Live
  <2>2. CASE \E k \in Jobs : RecordStep(k)
    BY <2>0, <2>2 DEF RecordStep, AskStep, ReportStep, StopStep, CompleteStep, MarkStep, Recorded, Records
  <2>3. CASE \/ QuietStep \/ FlagStep
             \/ \E k \in Jobs : CheckpointStep(k) \/ VersionStep(k)
             \/ \E u \in Uploads : UploadedStep(u)
    BY <2>3 DEF QuietStep, FlagStep, CheckpointStep, VersionStep, UploadedStep, Grown, Keeps
  <2> QED BY <2>0, <2>1, <2>2, <2>3, Kinds DEF AnyKind
<1> QED BY <1>1, <1>2, <1>3, PTL DEF Spec, OutcomeStays

LEMMA JobStep ==
  ASSUME JobInv, [Next]_vars
  PROVE  JobInv'
<1>0. TypeInv /\ OwnInv' /\ TypeInv'
  BY OwnStep DEF JobInv, OwnInv
<1>1. ASSUME StoreOK, Completed(lib') PROVE Completed(disk')
  BY <1>1 DEF StoreOK, JobInv
<1>2. CASE UNCHANGED vars
  BY <1>0, <1>2 DEF JobInv, WorkerMadeVersion, Completed, vars
<1>3. CASE QuietStep
  BY <1>0, <1>3 DEF JobInv, WorkerMadeVersion, Completed, QuietStep, Same
<1>4. CASE Restart
  <2>1. /\ StoreOK /\ lib'.versions = disk.versions
        /\ \A j \in Jobs : lib'.job[j].status = "recovering" \/ lib'.job[j] = disk.job[j]
        /\ \A j \in Jobs : worker'[j].pc \in {"idle", "slot"}
    BY <1>0, <1>4, RestartFacts, IdleType DEF TypeInv
  <2>2. Completed(lib')
    BY <2>1 DEF JobInv, Completed
  <2>3. WorkerMadeVersion'
    BY <2>1 DEF WorkerMadeVersion, Storing
  <2> QED BY <1>0, <1>1, <2>1, <2>2, <2>3 DEF JobInv, Completed
<1>5. ASSUME NEW j \in Jobs, RecordStep(j) PROVE JobInv'
  <2>1. PICK s \in Status :
          /\ Recorded(j, s)
          /\ s = "completed" => lib'.job[j].version = worker[j].version /\ worker[j].pc = "finish"
    BY <1>5, Names DEF RecordStep, AskStep, ReportStep, StopStep, CompleteStep, MarkStep
  <2>2. lib'.versions = lib.versions /\ StoreOK
    BY <2>1 DEF Recorded, Records
  <2>3. Completed(lib')
    BY <2>1, <2>2 DEF JobInv, Completed, WorkerMadeVersion, Recorded, Records, Storing
  <2>4. \A k \in Jobs : Same(k) \/ worker'[k].pc \notin Storing
    BY <1>5 DEF RecordStep, AskStep, ReportStep, StopStep, CompleteStep, MarkStep, Recorded, Others, Storing
  <2>5. WorkerMadeVersion'
    BY <2>2, <2>4 DEF JobInv, WorkerMadeVersion, Same
  <2> QED BY <1>0, <1>1, <2>2, <2>3, <2>5 DEF JobInv, Completed
<1>6. ASSUME Grown,
             \A k \in Jobs : Same(k) \/ worker'[k].pc \notin Storing
               \/ \E a \in Assets : \E n \in DOMAIN lib'.versions[a] :
                    /\ worker'[k].version = <<a, n>>
                    /\ lib'.versions[a][n].by = k
                    /\ worker'[k].pc # "recipe" => lib'.versions[a][n].recipe
      PROVE  JobInv'
  <2>1. lib'.job = lib.job /\ Grows /\ StoreOK
    BY <1>6 DEF Grown, Keeps
  <2>2. Completed(lib')
    BY <2>1 DEF JobInv, Completed, Grows
  <2>3. WorkerMadeVersion'
    BY <1>6, <2>1 DEF JobInv, WorkerMadeVersion, Grows, Same
  <2> QED BY <1>0, <1>1, <2>1, <2>2, <2>3 DEF JobInv, Completed
<1>7. ASSUME NEW j \in Jobs, CheckpointStep(j) PROVE JobInv'
  <2>1. Grown /\ Others(j) /\ Grows
    BY <1>7 DEF CheckpointStep, Grown, Keeps
  <2>2. CASE worker'[j].pc = "fail"
    BY <1>6, <2>1, <2>2 DEF Others, Storing
  <2>3. CASE worker'[j].pc # "fail"
    <3>1. PICK a \in Assets : \E n \in DOMAIN lib.versions[a] :
            /\ worker[j].version = <<a, n>>
            /\ lib.versions[a][n].by = j
            /\ worker[j].pc # "recipe" => lib.versions[a][n].recipe
      BY <1>7 DEF CheckpointStep, JobInv, WorkerMadeVersion, Storing
    <3>2. PICK n \in DOMAIN lib.versions[a] :
            /\ worker[j].version = <<a, n>>
            /\ lib.versions[a][n].by = j
            /\ worker[j].pc # "recipe" => lib.versions[a][n].recipe
      BY <3>1
    <3>3. /\ n \in DOMAIN lib'.versions[a] /\ lib'.versions[a][n].by = j
          /\ lib'.versions[a][n].recipe /\ worker'[j].version = <<a, n>>
      BY <1>7, <2>1, <2>3, <3>2 DEF CheckpointStep, Grows
    <3> QED BY <1>6, <2>1, <3>3 DEF Others
  <2> QED BY <2>2, <2>3
<1>8. ASSUME NEW j \in Jobs, VersionStep(j) PROVE JobInv'
  BY <1>6, <1>8 DEF VersionStep, Others, Storing
<1>9. ASSUME FlagStep \/ \E u \in Uploads : UploadedStep(u) PROVE JobInv'
  BY <1>6, <1>9 DEF FlagStep, UploadedStep
<1> QED BY <1>0, <1>2, <1>3, <1>4, <1>5, <1>7, <1>8, <1>9, Kinds DEF AnyKind

\* A completed job has the version it names, and made it, with its recipe; in
\* memory and in the index that a restart will find.
THEOREM CompletedJobsHaveVersions == Spec => []CompletedHasVersion
<1>1. Init => JobInv
  <2> SUFFICES ASSUME Init PROVE JobInv
    OBVIOUS
  <2>1. PICK stock \in SUBSET Assets : lib = Loaded(stock)
    BY DEF Init
  <2>2. \A j \in Jobs : lib.job[j].status = "none"
    BY <2>1 DEF Loaded
  <2>3. Completed(lib) /\ disk = lib
    BY <2>2 DEF Completed, Init
  <2>4. WorkerMadeVersion
    BY IdleType DEF Init, WorkerMadeVersion, Storing
  <2> QED BY <2>3, <2>4, OwnInit DEF JobInv
<1>2. JobInv /\ [Next]_vars => JobInv'
  BY JobStep
<1>3. JobInv => CompletedHasVersion
  BY DEF JobInv, Completed, CompletedHasVersion
<1> QED BY <1>1, <1>2, <1>3, PTL DEF Spec

-----------------------------------------------------------------------------
(***************************************************************************)
(* What a failed job has left behind.                                      *)
(***************************************************************************)
\* While no write has failed, versions date from this run of the server or an
\* earlier one, and one that job j made in this run means that its worker is
\* at its last steps, or has ended and the job is completed (or cancelled).
FreshVersions ==
  lost = 0 =>
    \A a \in Assets : \A n \in DOMAIN lib.versions[a] :
      /\ lib.versions[a][n].since <= crashes
      /\ \A j \in Jobs : lib.versions[a][n].by = j /\ lib.versions[a][n].since = crashes =>
           \/ worker[j].pc \in Storing
           \/ worker[j].pc = "idle" /\ StatusOf(j) \in {"completed", "cancelled"}

FailInv == OwnInv /\ FreshVersions

LEMMA FailStep ==
  ASSUME FailInv, [Next]_vars
  PROVE  FailInv'
<1>0. /\ TypeInv /\ TypeOK /\ TypeInv' /\ OwnInv /\ OwnInv'
      /\ lost \in Nat /\ crashes \in Nat /\ lost' \in Nat
  BY OwnStep, StepAssumption DEF StepAssumption, FailInv, OwnInv, TypeInv, TypeOK
<1>2. CASE UNCHANGED vars
  BY <1>0, <1>2 DEF FailInv, FreshVersions, vars, StatusOf
<1>3. CASE QuietStep
  BY <1>0, <1>3 DEF FailInv, FreshVersions, QuietStep, Same, StatusOf
<1>4. CASE Restart
  <2> SUFFICES ASSUME lost' = 0 PROVE FreshVersions'
    BY <1>0 DEF FailInv, FreshVersions
  <2>1. lib'.versions = disk.versions /\ StoreOK /\ crashes' = crashes + 1
    BY <1>0, <1>4, RestartFacts DEF Restart
  <2>2. lost = 0 /\ disk = lib
    BY <1>0, <2>1 DEF StoreOK, OwnInv, DiskIsCurrent
  <2>3. ASSUME NEW a \in Assets, NEW n \in DOMAIN lib'.versions[a]
        PROVE  lib'.versions[a][n].since <= crashes /\ lib'.versions[a][n].since \in Int
    <3>1. lib.versions[a] \in Seq(Version) /\ n \in DOMAIN lib.versions[a]
      BY <1>0, <2>1, <2>2, <2>3 DEF TypeOK, Index
    <3>2. lib.versions[a][n] \in Version
      BY <3>1
    <3>3. lib.versions[a][n].since \in Int
      BY <3>2 DEF Version
    <3> QED BY <2>1, <2>2, <3>1, <3>3 DEF FailInv, FreshVersions
  <2> QED BY <1>0, <2>1, <2>3 DEF FreshVersions
<1>5. ASSUME NEW j \in Jobs, RecordStep(j) PROVE FailInv'
  <2> SUFFICES ASSUME lost' = 0 PROVE FreshVersions'
    BY <1>0 DEF FailInv, FreshVersions
  <2>1. PICK s \in Status :
          /\ Recorded(j, s)
          /\ \/ worker[j].pc = "idle" /\ StatusOf(j) = "none"
             \/ worker[j].pc \notin Storing \cup {"idle"}
             \/ worker'[j].pc = "idle" /\ s = "completed"
             \/ Same(j) /\ s = "cancelled"
    BY <1>5, Names DEF RecordStep, AskStep, ReportStep, StopStep, CompleteStep, MarkStep
  <2>2. lib'.versions = lib.versions /\ lost = 0 /\ crashes' = crashes
    BY <1>0, <2>1 DEF Recorded, Records, StoreOK
  <2>3. ASSUME NEW a \in Assets, NEW n \in DOMAIN lib.versions[a],
               lib.versions[a][n].by = j, lib.versions[a][n].since = crashes
        PROVE  \/ worker'[j].pc \in Storing
               \/ worker'[j].pc = "idle" /\ lib'.job[j].status \in {"completed", "cancelled"}
    <3>1. \/ worker[j].pc \in Storing
          \/ worker[j].pc = "idle" /\ StatusOf(j) \in {"completed", "cancelled"}
      BY <2>2, <2>3 DEF FailInv, FreshVersions
    <3> QED BY <2>1, <3>1 DEF Recorded, Records, Same, Storing
  <2>4. \A k \in Jobs \ {j} : Same(k) /\ lib'.job[k] = lib.job[k]
    BY <2>1 DEF Recorded, Records, Others
  <2> QED BY <2>2, <2>3, <2>4 DEF FailInv, FreshVersions, Same, StatusOf
<1>6. ASSUME Grown, lost' = 0 => \A j \in Jobs : Same(j) \/ worker'[j].pc \in Storing,
             \/ SameVersions
             \/ \E u \in Uploads : NewBy(u)
             \/ \E k \in Jobs : NewBy(k) /\ (lost' = 0 => worker'[k].pc \in Storing)
      PROVE  FailInv'
  <2> SUFFICES ASSUME lost' = 0 PROVE FreshVersions'
    BY <1>0 DEF FailInv, FreshVersions
  <2>1. lost = 0 /\ Grows /\ lib'.job = lib.job /\ crashes' = crashes
    BY <1>0, <1>6 DEF Grown, Keeps, StoreOK
  <2>2. ASSUME NEW a \in Assets, NEW n \in DOMAIN lib.versions[a]
        PROVE  /\ lib'.versions[a][n].since <= crashes
               /\ \A j \in Jobs : lib'.versions[a][n].by = j /\ lib'.versions[a][n].since = crashes =>
                    \/ worker'[j].pc \in Storing
                    \/ worker'[j].pc = "idle" /\ lib'.job[j].status \in {"completed", "cancelled"}
    BY <1>6, <2>1 DEF FailInv, FreshVersions, Grows, Same, StatusOf
  <2>3. ASSUME NEW a \in Assets, NEW n \in DOMAIN lib'.versions[a], n \notin DOMAIN lib.versions[a]
        PROVE  /\ lib'.versions[a][n].since <= crashes
               /\ \A j \in Jobs : lib'.versions[a][n].by = j => worker'[j].pc \in Storing
    BY <1>0, <1>6, <2>3, StepAssumption DEF StepAssumption, SameVersions, NewBy
  <2> QED BY <2>1, <2>2, <2>3 DEF FreshVersions, StatusOf
<1>7. ASSUME NEW j \in Jobs, CheckpointStep(j) \/ VersionStep(j) PROVE FailInv'
  <2>1. CASE CheckpointStep(j)
    BY <1>6, <2>1 DEF CheckpointStep, Others, Storing
  <2>2. CASE VersionStep(j)
    BY <1>6, <2>2 DEF VersionStep, Others, Storing
  <2> QED BY <1>7, <2>1, <2>2
<1>8. ASSUME FlagStep \/ \E u \in Uploads : UploadedStep(u) PROVE FailInv'
  BY <1>6, <1>8 DEF FlagStep, UploadedStep
<1> QED BY <1>0, <1>2, <1>3, <1>4, <1>5, <1>7, <1>8, Kinds DEF AnyKind

\* A job that failed, or asks for more information, has made no version in
\* this run of the server, unless a write of the index failed.
THEOREM FailedJobsMadeNothing == Spec => []FailedMadeNothing
<1>1. Init => FailInv
  <2> SUFFICES ASSUME Init PROVE FailInv
    OBVIOUS
  <2>1. PICK stock \in SUBSET Assets : lib = Loaded(stock)
    BY DEF Init
  <2>2. lib.versions = [a \in Assets |-> IF a \in stock
                          THEN <<[number |-> 1, by |-> New, since |-> 0, recipe |-> FALSE,
                                  validation |-> "checked"]>>
                          ELSE <<>>]
    BY <2>1 DEF Loaded
  <2>3. ASSUME NEW a \in Assets, NEW n \in DOMAIN lib.versions[a]
        PROVE  lib.versions[a][n].since = 0 /\ lib.versions[a][n].by = New
    <3>1. CASE a \in stock
      BY <2>2, <2>3, <3>1
    <3>2. CASE a \notin stock
      BY <2>2, <2>3, <3>2
    <3> QED BY <3>1, <3>2
  <2>4. crashes = 0 /\ New \notin Jobs
    BY StepAssumption DEF StepAssumption, Init
  <2> QED BY <2>3, <2>4, OwnInit DEF FailInv, FreshVersions
<1>2. FailInv /\ [Next]_vars => FailInv'
  BY FailStep
<1>3. FailInv => FailedMadeNothing
  <2> SUFFICES ASSUME FailInv, lost = 0, NEW j \in Jobs, StatusOf(j) \in {"failed", "needs_input"},
                      NEW a \in Assets, NEW n \in DOMAIN lib.versions[a], lib.versions[a][n].by = j
               PROVE  lib.versions[a][n].since < crashes
    BY DEF FailedMadeNothing
  <2>1. worker[j].pc = "idle"
    BY DEF FailInv, OwnInv, WorkerOwnsJob, Live
  <2>2. lib.versions[a][n].since <= crashes /\ lib.versions[a][n].since # crashes
    BY <2>1 DEF FailInv, FreshVersions, Storing
  <2>3. lib.versions[a][n] \in Version
    <3>1. lib.versions[a] \in Seq(Version)
      BY DEF FailInv, OwnInv, TypeInv, TypeOK, Index
    <3> QED BY <3>1
  <2>4. lib.versions[a][n].since \in Int /\ crashes \in Int
    BY <2>3 DEF Version, FailInv, OwnInv, TypeInv, TypeOK
  <2> QED BY <2>2, <2>4
<1> QED BY <1>1, <1>2, <1>3, PTL DEF Spec
=============================================================================
