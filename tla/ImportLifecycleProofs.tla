----------------------- MODULE ImportLifecycleProofs -----------------------
(***************************************************************************)
(* Proofs about ImportLifecycle for every set of imports and contents: the *)
(* types, that two imports of one content are never open together, that a  *)
(* submitted import records what was sent, and that a run is not undone.   *)
(*                                                                         *)
(* Then about ImportForm, the dialog that stages an import and runs it,    *)
(* for any imports and versions of the STEP library: the types, that it is *)
(* busy while a request of its own is under way, that what is billed was   *)
(* confirmed, and that a name its user has typed stays.                    *)
(*                                                                         *)
(* Then about the pages an import leads to: of ProjectResources, the page  *)
(* of a project's resources, the types, that the detail is that of the     *)
(* resource on screen, that its spinners are backed, that its URL needs no *)
(* second correction and that a session whose overlay was lifted is not    *)
(* covered again; of WorkspaceFolders, the tree of folders, that its       *)
(* spinners are backed, that a reload comes back to the folder on screen,  *)
(* and that the folder of the last visit never replaces one that was       *)
(* chosen.                                                                 *)
(***************************************************************************)
EXTENDS ImportLifecycle, Integers, Sequences, FiniteSets, Functions, FiniteSetTheorems, SequenceTheorems, Naturals, WellFoundedInduction, TLAPS

CONSTANTS FolderIds, RootFolder, FirstParents, FolderProjects, Queries, MaxWorkspaceSteps, NoFolder   \* of WorkspaceFolders
VARIABLES cloud, home, opened, reads
WF == INSTANCE WorkspaceFolders

CONSTANTS Depth, DraftSources, MaxTurns   \* of ProjectResources
VARIABLES look, asks
RS == INSTANCE ProjectResources

CONSTANTS ImportIds, ReadyVersions, AssetOf, MaxImportSteps, NoImport   \* of ImportForm
VARIABLES staged, importing, importCalls
IM == INSTANCE ImportForm

(***************************************************************************)
(* The inductive invariant is about one import at a time, but for the last *)
(* part: its content is recorded last and once, what was sent for it is    *)
(* nothing or what it records, the request that runs it owns it unless it  *)
(* was aborted, and a project was made when that request has succeeded.    *)
(***************************************************************************)
OneImport(i) ==
  /\ upload[i] \in {"next", "reading", "finalize"} => plan[i].content = NoContent
  /\ Exists(i) /\ runner[i].sent # NoContent => runner[i].sent = plan[i].content
  /\ runner[i].pc # "idle" => plan[i].status \in {"running", "gone"}
  /\ runner[i].pc = "record" /\ runner[i].result = "created" =>
       runner[i].sent # NoContent /\ projects[i] > 0
  /\ plan[i].status = "submitted" => runner[i].sent # NoContent /\ projects[i] > 0
  /\ plan[i].status = "none" => plan[i].content = NoContent /\ runner[i].sent = NoContent

Inv == TypeOK /\ (\A i \in Imports : OneImport(i)) /\ OneOpenExecution

StepOf(i) ==
  \/ Create(i) \/ UploadStep(i) \/ approveImport(i) \/ Start(i)
  \/ CreateProject(i) \/ RecordResult(i) \/ abortImport(i)

-----------------------------------------------------------------------------
LEMMA TypeInit == Init => TypeOK
BY ImportAssumption DEF ImportAssumption, Init, TypeOK, Plan, Status, Upload, Runner, Result

\* Each step writes well-typed records.
LEMMA TypeStep == TypeOK /\ [Next]_vars => TypeOK'
<1> SUFFICES ASSUME TypeOK, [Next]_vars PROVE TypeOK'
  OBVIOUS
<1> USE DEF TypeOK
<1>1. ASSUME NEW i \in Imports, NEW s \in Status PROVE SetStatus(i, s) => plan' \in [Imports -> Plan]
  BY <1>1 DEF SetStatus, Plan
<1>2. \A i \in Imports : \A c \in Contents :
        plan' = [plan EXCEPT ![i].content = c] => plan' \in [Imports -> Plan]
  BY DEF Plan
<1>3. [status |-> "gone", content |-> NoContent] \in Plan
  BY DEF Plan, Status
<1>4. {"draft", "approved", "running", "submitted", "failed"} \subseteq Status
  BY DEF Status
<1>5. ASSUME NEW i \in Imports, NEW pc \in Upload, Uploads(i, pc)
      PROVE  upload' \in [Imports -> Upload]
  BY <1>5 DEF Uploads
<1>6. {"idle", "next", "reading", "finalize", "abort"} \subseteq Upload
  BY DEF Upload
<1>7. CASE UNCHANGED vars
  BY <1>7 DEF vars
<1>8. CASE Cleanup
  BY <1>3, <1>8 DEF Cleanup
<1>9. CASE Crash
  <2>1. runner' \in [Imports -> Runner]
    BY <1>9 DEF Crash, Runner
  <2>2. crashes' \in 0 .. MaxCrashes
    BY <1>9, ImportAssumption DEF Crash, ImportAssumption
  <2> QED BY <1>6, <1>9, <2>1, <2>2 DEF Crash
<1>10. ASSUME NEW i \in Imports, StepOf(i) PROVE TypeOK'
  <2>1. CASE Create(i)
    BY <1>1, <1>4, <1>5, <1>6, <2>1 DEF Create
  <2>2. CASE AddFile(i)
    BY <1>5, <1>6, <2>2 DEF AddFile
  <2>3. CASE EndOfFile(i) \/ RejectUpload(i)
    BY <1>5, <1>6, <2>3 DEF EndOfFile, RejectUpload
  <2>4. CASE FinalizePlan(i)
    BY <1>2, <1>5, <1>6, <2>4 DEF FinalizePlan
  <2>5. CASE AbortUpload(i)
    BY <1>3, <1>5, <1>6, <2>5 DEF AbortUpload, Abort
  <2>6. CASE approveImport(i)
    BY <1>1, <1>4, <2>6 DEF approveImport
  <2>7. CASE Start(i)
    <3>1. [pc |-> "create", sent |-> plan[i].content, result |-> "none"] \in Runner
      BY DEF Plan, Runner, Result
    <3> QED BY <1>1, <1>4, <2>7, <3>1 DEF Start
  <2>8. CASE CreateProject(i)
    <3>1. \A r \in {"created", "unresolved", "refused"} :
            [runner[i] EXCEPT !.pc = "record", !.result = r] \in Runner
      BY DEF Runner, Result
    <3>2. \A made \in 0 .. 1 : projects[i] + made \in Nat
      OBVIOUS
    <3>3. runner' \in [Imports -> Runner]
      BY ZenonT(30), <2>8, <3>1 DEF CreateProject
    <3>4. projects' \in [Imports -> Nat]
      BY <2>8, <3>2 DEF CreateProject
    <3> QED BY <2>8, <3>3, <3>4 DEF CreateProject
  <2>9. CASE RecordResult(i)
    <3>1. [runner[i] EXCEPT !.pc = "idle"] \in Runner
      BY DEF Runner
    <3> QED BY <1>1, <1>4, <2>9, <3>1 DEF RecordResult
  <2>10. CASE abortImport(i)
    BY <1>3, <2>10 DEF abortImport, Abort
  <2> QED BY <1>10, <2>1, <2>2, <2>3, <2>4, <2>5, <2>6, <2>7, <2>8, <2>9, <2>10
       DEF StepOf, UploadStep
<1> QED BY <1>7, <1>8, <1>9, <1>10 DEF Next, StepOf

\* The plan records, the requests and the counters keep their types.
THEOREM TypeCorrect == Spec => []TypeOK
BY TypeInit, TypeStep, PTL DEF Spec

-----------------------------------------------------------------------------
(***************************************************************************)
(* What a step of import i may do to it: create it, go on with its upload, *)
(* record its content, remove it, approve it, start it, make its project,  *)
(* or record the result.                                                   *)
(***************************************************************************)
Keeps(i) == plan'[i].status = plan[i].status /\ plan'[i].content = plan[i].content
Sets(i, s) == plan'[i].status = s /\ plan'[i].content = plan[i].content

Created(i) == plan[i].status = "none" /\ Sets(i, "draft") /\ upload'[i] = "next" /\ runner' = runner
Uploading(i) == Keeps(i) /\ runner' = runner /\ upload[i] \in {"next", "reading"}
Finalized(i) ==
  /\ upload[i] = "finalize" /\ upload'[i] \in {"idle", "abort"} /\ runner' = runner
  /\ plan'[i].status = plan[i].status
  /\ plan'[i].content = plan[i].content \/ Exists(i)
Removed(i) ==
  /\ plan'[i] = [status |-> "gone", content |-> NoContent]
  /\ upload'[i] \in {upload[i], "idle"} /\ runner' = runner
Approved(i) == plan[i].status = "draft" /\ Sets(i, "approved") /\ upload' = upload /\ runner' = runner
Started(i) ==
  /\ plan[i].status \in {"approved", "failed"} /\ Sets(i, "running") /\ upload' = upload
  /\ ~duplicate(i)
  /\ runner'[i] = [pc |-> "create", sent |-> plan[i].content, result |-> "none"]
Made(i) ==
  /\ Keeps(i) /\ upload' = upload
  /\ runner[i].pc = "create" /\ runner'[i].pc = "record" /\ runner'[i].sent = runner[i].sent
  /\ runner'[i].result = "created" => runner[i].sent # NoContent /\ projects'[i] > 0
Recorded(i) ==
  /\ upload' = upload
  /\ runner[i].pc = "record" /\ runner'[i].pc = "idle" /\ runner'[i].sent = runner[i].sent
  /\ \/ Keeps(i) /\ ~Exists(i)
     \/ Exists(i) /\ Sets(i, "failed")
     \/ Exists(i) /\ Sets(i, "submitted") /\ runner[i].result = "created"

ImportEffect(i) ==
  /\ \A k \in Imports \ {i} : /\ plan'[k] = plan[k] /\ upload'[k] = upload[k]
                              /\ runner'[k] = runner[k] /\ projects'[k] = projects[k]
  /\ projects'[i] \in Nat /\ projects'[i] >= projects[i]
  /\ \/ Created(i) \/ Uploading(i) \/ Finalized(i) \/ Removed(i)
     \/ Approved(i) \/ Started(i) \/ Made(i) \/ Recorded(i)

LEMMA ImportEffects ==
  ASSUME TypeOK, NEW i \in Imports, StepOf(i)
  PROVE  ImportEffect(i)
<1> USE DEF TypeOK, ImportEffect, Keeps, Sets
<1>0. /\ plan[i] \in Plan /\ runner[i] \in Runner /\ projects[i] \in Nat
      /\ projects' = projects => projects'[i] \in Nat /\ projects'[i] >= projects[i]
  OBVIOUS
<1>1. \A s : SetStatus(i, s) =>
         /\ plan'[i].status = s /\ plan'[i].content = plan[i].content
         /\ \A k \in Imports \ {i} : plan'[k] = plan[k]
  BY <1>0 DEF SetStatus, Plan
<1>2. \A pc : Uploads(i, pc) => upload'[i] = pc /\ \A k \in Imports \ {i} : upload'[k] = upload[k]
  BY DEF Uploads
<1>3. Abort(i) => /\ plan'[i] = [status |-> "gone", content |-> NoContent]
                  /\ \A k \in Imports \ {i} : plan'[k] = plan[k]
  BY DEF Abort
<1>4. CASE Create(i)
  BY <1>0, <1>1, <1>2, <1>4 DEF Create, Created
<1>5. CASE AddFile(i) \/ EndOfFile(i) \/ RejectUpload(i)
  <2>1. CASE AddFile(i)
    BY <1>0, <1>2, <2>1 DEF AddFile, Uploading
  <2>2. CASE EndOfFile(i)
    BY <1>0, <1>2, <2>2 DEF EndOfFile, Uploading
  <2>3. CASE RejectUpload(i)
    BY <1>0, <1>2, <2>3 DEF RejectUpload, Uploading
  <2> QED BY <1>5, <2>1, <2>2, <2>3
<1>6. CASE FinalizePlan(i)
  <2>1. ASSUME NEW c \in Contents, plan' = [plan EXCEPT ![i].content = c]
        PROVE  /\ plan'[i].status = plan[i].status /\ plan'[i].content \in Contents
               /\ \A k \in Imports \ {i} : plan'[k] = plan[k]
    BY <1>0, <2>1 DEF Plan
  <2> QED BY <1>0, <1>2, <1>6, <2>1 DEF FinalizePlan, Finalized
<1>7. CASE AbortUpload(i) \/ abortImport(i)
  BY <1>0, <1>2, <1>3, <1>7 DEF AbortUpload, abortImport, Removed
<1>8. CASE approveImport(i)
  BY <1>0, <1>1, <1>8 DEF approveImport, Approved
<1>9. CASE Start(i)
  BY <1>0, <1>1, <1>9 DEF Start, Started
<1>10. CASE CreateProject(i)
  <2>1. PICK r \in {"created", "unresolved", "refused"}, made \in 0 .. 1 :
          /\ r \in {"created", "unresolved"} => made = 1
          /\ runner[i].sent = NoContent => r = "refused" /\ made = 0
          /\ runner' = [runner EXCEPT ![i].pc = "record", ![i].result = r]
          /\ projects' = [projects EXCEPT ![i] = @ + made]
    BY <1>10 DEF CreateProject
  <2>2. runner'[i] = [runner[i] EXCEPT !.pc = "record", !.result = r]
    BY <2>1
  <2>3. runner'[i].pc = "record" /\ runner'[i].result = r /\ runner'[i].sent = runner[i].sent
    BY <1>0, <2>2 DEF Runner
  <2>4. projects'[i] = projects[i] + made
    BY <2>1
  <2>5. \A k \in Imports \ {i} : runner'[k] = runner[k] /\ projects'[k] = projects[k]
    BY <2>1
  <2>6. plan' = plan /\ upload' = upload /\ runner[i].pc = "create"
    BY <1>10 DEF CreateProject
  <2> QED BY <1>0, <1>10, <2>1, <2>3, <2>4, <2>5, <2>6 DEF Made
<1>11. CASE RecordResult(i)
  <2>1. runner'[i].pc = "idle" /\ runner'[i].sent = runner[i].sent
    BY <1>0, <1>11 DEF RecordResult, Runner
  <2>2. \A k \in Imports \ {i} : runner'[k] = runner[k]
    BY <1>11 DEF RecordResult, Recorded
  <2> QED BY <1>0, <1>1, <1>11, <2>1, <2>2 DEF RecordResult, Recorded
<1> QED BY <1>4, <1>5, <1>6, <1>7, <1>8, <1>9, <1>10, <1>11 DEF StepOf, UploadStep

\* A step of an import keeps what is said of it alone, and of the others.
LEMMA OneImportStep ==
  ASSUME TypeOK, \A k \in Imports : OneImport(k), NEW i \in Imports, StepOf(i), NEW k \in Imports
  PROVE  OneImport(k)'
<1>1. ImportEffect(i)
  BY ImportEffects
<1>2. CASE k # i
  BY <1>1, <1>2 DEF ImportEffect, OneImport, Exists
<1>3. CASE k = i
  <2> USE <1>1, <1>3 DEF OneImport, Exists, Keeps, Sets
  <2>0. OneImport(i) /\ plan[i] \in Plan /\ projects[i] \in Nat
    BY DEF TypeOK
  <2>1. CASE Created(i)
    BY <2>0, <2>1 DEF Created, ImportEffect
  <2>2. CASE Uploading(i)
    BY <2>0, <2>2 DEF Uploading, ImportEffect
  <2>3. CASE Finalized(i)
    BY <2>0, <2>3 DEF Finalized, ImportEffect
  <2>4. CASE Removed(i)
    BY <2>0, <2>4 DEF Removed, ImportEffect
  <2>5. CASE Approved(i)
    BY <2>0, <2>5 DEF Approved, ImportEffect
  <2>6. CASE Started(i)
    BY <2>0, <2>6 DEF Started, ImportEffect
  <2>7. CASE Made(i)
    BY <2>0, <2>7 DEF Made, ImportEffect
  <2>8. CASE Recorded(i)
    BY <2>0, <2>8 DEF Recorded, ImportEffect
  <2> QED BY <2>1, <2>2, <2>3, <2>4, <2>5, <2>6, <2>7, <2>8 DEF ImportEffect
<1> QED BY <1>2, <1>3

\* Only Start opens an import, and only when no open one records the same
\* content; an open import records what was sent for it.
LEMMA OneOpenStep ==
  ASSUME Inv, NEW i \in Imports, StepOf(i)
  PROVE  OneOpenExecution'
<1>1. ImportEffect(i)
  BY ImportEffects DEF Inv
<1>2. ASSUME NEW k \in Imports, plan'[k].status \in Open, runner'[k].sent # NoContent
      PROVE  \/ k = i /\ Started(i) /\ runner'[k].sent = plan[i].content
             \/ plan[k].status \in Open /\ runner[k].sent = runner'[k].sent
  <2>1. CASE k # i
    BY <1>1, <1>2, <2>1 DEF ImportEffect
  <2>2. CASE k = i
    <3> USE <1>1, <1>2, <2>2 DEF Open, Sets, Keeps
    <3>1. CASE Created(i) \/ Approved(i) \/ Removed(i)
      BY <3>1 DEF Created, Approved, Removed
    <3>2. CASE Uploading(i) \/ Finalized(i) \/ Made(i)
      BY <3>2 DEF Uploading, Finalized, Made
    <3>3. CASE Started(i)
      BY <3>3 DEF Started
    <3>4. CASE Recorded(i)
      <4>1. plan[i].status \in {"running", "gone"}
        BY <3>4 DEF Recorded, Inv, OneImport
      <4> QED BY <3>4, <4>1 DEF Recorded, Exists
    <3> QED BY <3>1, <3>2, <3>3, <3>4 DEF ImportEffect
  <2> QED BY <2>1, <2>2
<1>3. ASSUME NEW k \in Imports \ {i}, plan[k].status \in Open, runner[k].sent = plan[i].content,
             plan[i].content # NoContent, Started(i)
      PROVE  FALSE
  <2>1. plan[k].content = plan[i].content
    BY <1>3 DEF Inv, OneImport, Exists, Open
  <2> QED BY <1>3, <2>1 DEF Started, duplicate
<1>4. ASSUME NEW j \in Imports, NEW k \in Imports,
             plan'[j].status \in Open, plan'[k].status \in Open,
             runner'[j].sent # NoContent, runner'[j].sent = runner'[k].sent
      PROVE  j = k
  BY <1>2, <1>3, <1>4 DEF Inv, OneOpenExecution
<1> QED BY <1>4 DEF OneOpenExecution

\* The cleanup and a crash keep the invariant, as each step of an import does.
LEMMA InvStep == Inv /\ [Next]_vars => Inv'
<1> SUFFICES ASSUME Inv, [Next]_vars PROVE Inv'
  OBVIOUS
<1>0. TypeOK'
  BY TypeStep DEF Inv
<1>1. CASE UNCHANGED vars
  BY <1>0, <1>1 DEF vars, Inv, OneImport, OneOpenExecution, Exists
<1>2. CASE Cleanup
  BY <1>0, <1>2 DEF Cleanup, Inv, OneImport, OneOpenExecution, Exists, Open
<1>3. CASE Crash
  <2>1. \A k \in Imports : runner'[k].pc = "idle" /\ runner'[k].sent = runner[k].sent
    BY <1>3 DEF Crash, Inv, TypeOK, Runner
  <2>2. plan' = plan /\ projects' = projects /\ \A k \in Imports : upload'[k] = "idle"
    BY <1>3 DEF Crash
  <2>3. ASSUME NEW k \in Imports PROVE OneImport(k)'
    <3>1. OneImport(k)
      BY DEF Inv
    <3> QED BY <2>1, <2>2, <3>1 DEF OneImport, Exists
  <2>4. OneOpenExecution'
    BY <2>1, <2>2 DEF Inv, OneOpenExecution
  <2> QED BY <1>0, <2>3, <2>4 DEF Inv
<1>4. ASSUME NEW i \in Imports, StepOf(i) PROVE Inv'
  BY <1>0, <1>4, OneImportStep, OneOpenStep DEF Inv
<1> QED BY <1>1, <1>2, <1>3, <1>4 DEF Next, StepOf

LEMMA InvInit == Init => Inv
BY TypeInit DEF Init, Inv, OneImport, OneOpenExecution, Exists, Open

\* Of the imports that were sent with one content at most one is running or
\* submitted, for any number of imports, early approvals and restarts.
THEOREM ExecutionsDiffer == Spec => []OneOpenExecution
<1>1. Inv => OneOpenExecution
  BY DEF Inv
<1> QED BY <1>1, InvInit, InvStep, PTL DEF Spec

\* A submitted import records what was sent, and a project was made from it.
THEOREM SubmissionsRecorded == Spec => []SubmittedAsRecorded
<1>1. Inv => SubmittedAsRecorded
  BY DEF Inv, OneImport, Exists, SubmittedAsRecorded
<1> QED BY <1>1, InvInit, InvStep, PTL DEF Spec

RunStays ==
  \A i \in Imports :
    /\ plan[i].status \in Open \cup {"failed"} => plan'[i].status \notin {"none", "draft", "approved"}
    /\ plan[i].status = "submitted" => plan'[i].status \in {"submitted", "gone"}

\* Only a request that owns an import, which is then running, or its removal
\* changes the status of one that has been run.
LEMMA RunStep == Inv /\ [Next]_vars => RunStays
<1> SUFFICES ASSUME Inv, [Next]_vars PROVE RunStays
  OBVIOUS
<1> USE DEF RunStays, Open
<1>1. CASE UNCHANGED vars \/ Cleanup \/ Crash
  BY <1>1 DEF vars, Cleanup, Crash, Inv, TypeOK
<1>2. ASSUME NEW i \in Imports, StepOf(i) PROVE RunStays
  <2>1. ImportEffect(i)
    BY <1>2, ImportEffects DEF Inv
  <2>2. ASSUME NEW k \in Imports \ {i} PROVE plan'[k].status = plan[k].status
    BY <2>1 DEF ImportEffect
  <2>3. \/ plan'[i].status \in {plan[i].status, "gone", "running"} /\ (plan'[i].status = "running" => plan[i].status # "submitted")
        \/ plan'[i].status \in {"submitted", "failed"} /\ plan[i].status # "submitted"
        \/ plan[i].status \in {"none", "draft"}
    BY <2>1 DEF ImportEffect, Created, Uploading, Finalized, Removed, Approved, Started, Made,
                Recorded, Keeps, Sets, Inv, OneImport
  <2> QED BY <2>2, <2>3
<1> QED BY <1>1, <1>2 DEF Next, StepOf

\* Once run, an import is never back before its approval, and once submitted
\* it stays so until it is removed.
THEOREM RunsStay == Spec => RunIsNotUndone
<1>1. Inv /\ [Next]_vars => [RunStays]_vars
  BY RunStep
<1> QED BY <1>1, InvInit, InvStep, PTL DEF Spec, RunIsNotUndone, RunStays

-----------------------------------------------------------------------------
(***************************************************************************)
(* ImportForm: the import dialog.                                          *)
(***************************************************************************)
PlanStatuses == {"none", "draft", "approved", "failed", "submitted", "gone"}
ImportFields == {"open", "panel", "plan", "status", "mode", "name", "files", "choices", "choice", "loading", "review",
                 "confirmed", "asking", "busy", "error", "drafts", "steps"}
ImportRequests == [kind : IM!Kinds, panel : Nat, plan : ImportIds \union ReadyVersions \union {NoImport}, live : BOOLEAN]

\* An open panel p: its last question is about what it shows and was confirmed.
ImportFits(p) ==
    /\ DOMAIN p = ImportFields /\ p.open = TRUE /\ p.panel \in Nat /\ p.steps \in Nat
    /\ p.plan \in ImportIds \union {NoImport} /\ p.drafts \subseteq ImportIds \X PlanStatuses
    /\ p.choices \in Seq(ReadyVersions) /\ p.choice \in IM!ToSet(p.choices) \union {NoImport}
    /\ {p.review, p.confirmed, p.asking, p.busy} \subseteq BOOLEAN
    /\ p.review => p.plan = NoImport
    /\ p.asking => p.confirmed /\ (p.review \/ p.plan # NoImport)

\* It waits for one request of its own; one that stages finds it on the form.
OwnOf(p, c) == c.panel = p.panel /\ c.kind \in IM!Changing
Awaited(p, cs) ==
    /\ p.busy <=> \E c \in cs : OwnOf(p, c)
    /\ \A c, d \in cs : OwnOf(p, c) /\ OwnOf(p, d) => c = d
    /\ \A c \in cs : OwnOf(p, c) /\ c.kind = "stage" => ~p.review
\* The requests cs are those of the panels 1 to n.
NumberedFrom(cs, n) == cs \subseteq ImportRequests /\ \A c \in cs : c.panel <= n

ImportInv ==
    /\ staged \in [ImportIds -> PlanStatuses]
    /\ importing.open \in BOOLEAN /\ importing.panel \in Nat /\ importing.steps \in Nat
    /\ NumberedFrom(importCalls, importing.panel)
    /\ importing.open => ImportFits(importing) /\ Awaited(importing, importCalls)
ImportStep == ImportInv' /\ IM!RunIsConfirmed /\ IM!NameIsKept

-----------------------------------------------------------------------------
\* The user's steps that send no request which changes anything.
SameChanging(cs) == \A c : c.kind \in IM!Changing => (c \in cs <=> c \in importCalls)
KeepsName(p) == \/ p.name = importing.name
                \/ importing.name # "typed"
                \/ p.steps > importing.steps /\ p.choice = importing.choice
LEMMA DialogStep ==
  ASSUME ImportInv, importing.open, NEW p, ImportFits(p), p.panel = importing.panel, p.busy = importing.busy,
         importing.busy => (p.review => importing.review), KeepsName(p),
         NEW cs, NumberedFrom(cs, importing.panel), SameChanging(cs), IM!Says(p, cs)
  PROVE  ImportStep
<1>1. importing' = p /\ importCalls' = cs /\ staged' = staged
  BY DEF IM!Says
<1>2. {p.review, importing.review, p.busy} \subseteq BOOLEAN
  BY DEF ImportInv, ImportFits
<1>3. Awaited(p, cs)
  <2>1. \A c : OwnOf(p, c) => (c \in cs <=> c \in importCalls) /\ OwnOf(importing, c)
    BY DEF OwnOf, SameChanging
  <2>2. \A c : OwnOf(importing, c) => OwnOf(p, c)
    BY DEF OwnOf
  <2> QED BY <1>2, <2>1, <2>2 DEF Awaited, ImportInv
<1>4. ImportInv'
  BY <1>1, <1>3 DEF ImportInv, ImportFits
<1>5. IM!RunIsConfirmed
  BY <1>1 DEF IM!RunIsConfirmed, SameChanging, IM!Changing
<1>6. IM!NameIsKept
  BY <1>1 DEF IM!NameIsKept, KeepsName
<1> QED BY <1>4, <1>5, <1>6 DEF ImportStep

\* A request of the panel's own that changes something is sent.
LEMMA AskStepped ==
  ASSUME ImportInv, importing.open, ~importing.busy, NEW p, ImportFits(p), p.panel = importing.panel, p.busy = TRUE,
         p.name = importing.name, NEW c \in ImportRequests, OwnOf(importing, c),
         c.kind = "stage" => ~p.review,
         c.kind \in {"approve", "run", "step"} =>
           /\ importing.confirmed /\ importing.asking
           /\ c.plan = IF importing.review THEN importing.choice ELSE importing.plan,
         IM!Says(p, importCalls \union {c})
  PROVE  ImportStep
<1>1. importing' = p /\ importCalls' = importCalls \union {c} /\ staged' = staged
  BY DEF IM!Says
<1>2. \A d \in importCalls : ~OwnOf(p, d)
  BY DEF ImportInv, Awaited, OwnOf
<1>3. OwnOf(p, c)
  BY DEF OwnOf
<1>4. Awaited(p, importCalls \union {c})
  BY <1>2, <1>3 DEF Awaited
<1>5. NumberedFrom(importCalls \union {c}, importing.panel)
  BY DEF NumberedFrom, ImportInv, OwnOf
<1>6. ImportInv'
  BY <1>1, <1>4, <1>5 DEF ImportInv, ImportFits
<1>7. IM!RunIsConfirmed
  BY <1>1 DEF IM!RunIsConfirmed
<1>8. IM!NameIsKept
  BY <1>1 DEF IM!NameIsKept
<1> QED BY <1>6, <1>7, <1>8 DEF ImportStep

\* An answer c, of this panel or of another.
LEMMA AnsweredStep ==
  ASSUME ImportInv, NEW c \in importCalls, NEW p,
         importCalls' = importCalls \ {c}, staged' \in [ImportIds -> PlanStatuses],
         importing' = IM!ForOpen(c, p),
         importing.open /\ importing.panel = c.panel =>
           /\ ImportFits(p) /\ p.panel = importing.panel /\ KeepsName(p) /\ (p.review => importing.review)
           /\ p.busy = IF c.kind \in IM!Changing THEN FALSE ELSE importing.busy
  PROVE  ImportStep
<1>1. NumberedFrom(importCalls', importing.panel)
  BY DEF ImportInv, NumberedFrom
<1>2. IM!RunIsConfirmed
  BY DEF IM!RunIsConfirmed
<1>3. CASE importing.open /\ importing.panel = c.panel
  <2>1. importing' = p
    BY <1>3 DEF IM!ForOpen
  <2>2. {p.review, importing.review, p.busy, importing.busy} \subseteq BOOLEAN
    BY <1>3 DEF ImportInv, ImportFits
  <2>3. \A d : OwnOf(p, d) <=> OwnOf(importing, d)
    BY <1>3 DEF OwnOf
  <2>4. OwnOf(importing, c) <=> c.kind \in IM!Changing
    BY <1>3 DEF OwnOf
  <2>5. Awaited(p, importCalls')
    BY <1>3, <2>2, <2>3, <2>4 DEF ImportInv, Awaited
  <2>6. ImportInv'
    BY <1>1, <1>3, <2>1, <2>5 DEF ImportInv, ImportFits
  <2> QED BY <1>2, <1>3, <2>1, <2>6 DEF ImportStep, IM!NameIsKept, KeepsName
<1>4. CASE ~(importing.open /\ importing.panel = c.panel)
  <2>1. importing' = importing
    BY <1>4 DEF IM!ForOpen
  <2>2. importing.open => Awaited(importing, importCalls')
    BY <1>4 DEF ImportInv, Awaited, OwnOf
  <2>3. ImportInv'
    BY <1>1, <2>1, <2>2 DEF ImportInv
  <2> QED BY <1>2, <2>1, <2>3 DEF ImportStep, IM!NameIsKept
<1> QED BY <1>3, <1>4

-----------------------------------------------------------------------------
LEMMA Settings ==
  ASSUME ImportInv, importing.open
  PROVE  /\ ImportFits(importing) /\ SameChanging(importCalls) /\ NumberedFrom(importCalls, importing.panel)
         /\ {importing.review, importing.confirmed, importing.asking, importing.busy} \subseteq BOOLEAN
         /\ importing.panel \in Nat
BY DEF ImportInv, ImportFits, SameChanging

LEMMA SteppedPanel ==
  ASSUME ImportInv, importing.open
  PROVE  LET p == IM!Stepped
         IN  /\ ImportFits(p) /\ p.panel = importing.panel /\ p.busy = importing.busy /\ p.review = importing.review
             /\ p.name = importing.name /\ p.choice = importing.choice /\ p.steps > importing.steps
             /\ p.asking = importing.asking /\ p.plan = importing.plan /\ p.choices = importing.choices
             /\ p.confirmed = importing.confirmed /\ p.drafts = importing.drafts
<1> DEFINE p == IM!Stepped
<1>1. /\ DOMAIN p = ImportFields /\ p.steps = importing.steps + 1
      /\ \A f \in ImportFields \ {"steps"} : p[f] = importing[f]
  BY DEF ImportInv, ImportFits, IM!Stepped, ImportFields
<1> HIDE DEF p
<1>2. /\ p.open = importing.open /\ p.panel = importing.panel /\ p.busy = importing.busy /\ p.review = importing.review
      /\ p.name = importing.name /\ p.choice = importing.choice
  BY <1>1 DEF ImportFields
<1>3. /\ p.asking = importing.asking /\ p.plan = importing.plan /\ p.choices = importing.choices
      /\ p.confirmed = importing.confirmed /\ p.drafts = importing.drafts
  BY <1>1 DEF ImportFields
<1>4. p.steps > importing.steps /\ p.steps \in Nat
  BY <1>1 DEF ImportInv
<1>5. ImportFits(p)
  BY <1>1, <1>2, <1>3, <1>4 DEF ImportInv, ImportFits
<1> QED BY <1>2, <1>3, <1>4, <1>5 DEF p

LEMMA DroppedCalls ==
  ASSUME ImportInv
  PROVE  NumberedFrom(IM!Dropped(importCalls), importing.panel) /\ SameChanging(IM!Dropped(importCalls))
<1>1. \A c \in importCalls : /\ [c EXCEPT !.live = FALSE] \in ImportRequests
                             /\ [c EXCEPT !.live = FALSE].panel = c.panel
                             /\ [c EXCEPT !.live = FALSE].kind = c.kind
  BY DEF ImportInv, NumberedFrom, ImportRequests
<1>2. NumberedFrom(IM!Dropped(importCalls), importing.panel)
  BY <1>1 DEF ImportInv, NumberedFrom, IM!Dropped
<1>3. SameChanging(IM!Dropped(importCalls))
  BY <1>1 DEF SameChanging, IM!Dropped, IM!Changing
<1> QED BY <1>2, <1>3

\* A panel whose form is filled in.
LEMMA SourceChosen ==
  ASSUME IM!ImportFormAssumption, ImportInv, IM!ChooseSource
  PROVE  ImportStep
<1> PICK mode \in {"upload", "library"} \ {importing.mode} :
      LET first == mode = "library" /\ importing.choices # <<>>
          p == [IM!Stepped EXCEPT !.mode = mode, !.files = "none", !.confirmed = FALSE, !.asking = FALSE,
                                  !.error = FALSE, !.review = FALSE,
                                  !.choice = IF first /\ @ = NoImport THEN importing.choices[1] ELSE @,
                                  !.name = IF first /\ @ = "" THEN AssetOf[importing.choices[1]] ELSE @]
      IN  IF mode = "library" /\ importing.choices = <<>> /\ ~importing.loading
          THEN IM!Says([p EXCEPT !.loading = TRUE], IM!Dropped(importCalls) \union {IM!Call("assets", NoImport)})
          ELSE IM!Says(p, IM!Dropped(importCalls))
  BY DEF IM!ChooseSource
<1>0. importing.open /\ importing.review = FALSE /\ importing.plan = NoImport
  BY Settings DEF IM!ChooseSource, IM!OnForm, IM!Step
<1> DEFINE first == mode = "library" /\ importing.choices # <<>>
           s == IM!Stepped
           a == [s EXCEPT !.mode = mode, !.files = "none", !.confirmed = FALSE, !.asking = FALSE]
           b == [a EXCEPT !.error = FALSE, !.review = FALSE]
           choice == IF first /\ s.choice = NoImport THEN importing.choices[1] ELSE s.choice
           name == IF first /\ s.name = "" THEN AssetOf[importing.choices[1]] ELSE s.name
           p == [b EXCEPT !.choice = choice, !.name = name]
           q == [p EXCEPT !.loading = TRUE]
           cs == IM!Dropped(importCalls) \union {IM!Call("assets", NoImport)}
<1>1. IM!Says(q, cs) \/ IM!Says(p, IM!Dropped(importCalls))
  OBVIOUS
<1>2. choice \in IM!ToSet(s.choices) \union {NoImport}
  <2>1. s.choices = importing.choices /\ s.choice \in IM!ToSet(s.choices) \union {NoImport}
    BY <1>0, SteppedPanel DEF ImportFits
  <2>2. importing.choices # <<>> => importing.choices[1] \in IM!ToSet(importing.choices)
    BY <1>0, Settings DEF ImportFits, IM!ToSet
  <2> QED BY <2>1, <2>2
<1>3. name = importing.name \/ importing.name # "typed"
  BY <1>0, SteppedPanel
<1> HIDE DEF choice, name
<1>4. /\ ImportFits(s) /\ s.panel = importing.panel /\ s.busy = importing.busy
      /\ s.plan = importing.plan
  BY <1>0, SteppedPanel
<1> HIDE DEF s
<1>5. /\ DOMAIN a = ImportFields /\ a.confirmed = FALSE /\ a.asking = FALSE
      /\ \A f \in ImportFields \ {"mode", "files", "confirmed", "asking"} : a[f] = s[f]
  BY <1>4 DEF ImportFits, ImportFields
<1> HIDE DEF a
<1>6. /\ DOMAIN b = ImportFields /\ b.confirmed = FALSE /\ b.asking = FALSE /\ b.review = FALSE
      /\ \A f \in ImportFields \ {"mode", "files", "confirmed", "asking", "error", "review"} : b[f] = s[f]
  BY <1>5 DEF ImportFields
<1> HIDE DEF b
<1>7. /\ DOMAIN p = ImportFields /\ p.confirmed = FALSE /\ p.asking = FALSE /\ p.review = FALSE
      /\ p.choice = choice /\ p.name = name
      /\ \A f \in {"open", "panel", "plan", "choices", "busy", "drafts", "steps"} : p[f] = s[f]
  BY <1>6 DEF ImportFields
<1> HIDE DEF p
<1>8. /\ DOMAIN q = ImportFields /\ q.confirmed = FALSE /\ q.asking = FALSE /\ q.review = FALSE
      /\ q.choice = choice /\ q.name = name
      /\ \A f \in {"open", "panel", "plan", "choices", "busy", "drafts", "steps"} : q[f] = s[f]
  BY <1>7 DEF ImportFields
<1> HIDE DEF q
<1>9. ASSUME NEW r, DOMAIN r = ImportFields, r.confirmed = FALSE, r.asking = FALSE, r.review = FALSE,
             r.choice = choice, r.name = name,
             \A f \in {"open", "panel", "plan", "choices", "busy", "drafts", "steps"} : r[f] = s[f]
      PROVE  ImportFits(r) /\ r.panel = importing.panel /\ r.busy = importing.busy /\ KeepsName(r)
  <2>1. /\ r.open = s.open /\ r.panel = s.panel /\ r.plan = s.plan /\ r.choices = s.choices /\ r.busy = s.busy
        /\ r.drafts = s.drafts /\ r.steps = s.steps
    BY <1>9
  <2> QED BY <1>2, <1>3, <1>4, <1>9, <2>1 DEF ImportFits, KeepsName
<1>10. NumberedFrom(cs, importing.panel) /\ SameChanging(cs)
  <2>1. LET c == IM!Call("assets", NoImport)
        IN  c \in ImportRequests /\ c.panel = importing.panel /\ c.kind \notin IM!Changing
    BY <1>0, Settings DEF IM!Call, ImportRequests, IM!Kinds, IM!Changing
  <2> HIDE DEF cs
  <2>2. cs = IM!Dropped(importCalls) \union {IM!Call("assets", NoImport)}
    BY DEF cs
  <2> QED BY <1>0, <2>1, <2>2, DroppedCalls, Settings DEF NumberedFrom, SameChanging
<1> HIDE DEF cs
<1>11. CASE IM!Says(q, cs)
  BY <1>0, <1>8, <1>9, <1>10, <1>11, DialogStep
<1>12. CASE IM!Says(p, IM!Dropped(importCalls))
  BY <1>0, <1>7, <1>9, <1>12, DialogStep, DroppedCalls
<1> QED BY <1>1, <1>11, <1>12

LEMMA DialogFilled ==
  ASSUME ImportInv, IM!FillForm
  PROVE  ImportStep
<1> DEFINE s == IM!Stepped
<1>0. importing.open
  BY DEF IM!FillForm, IM!OnForm, IM!Step
<1>1. /\ ImportFits(s) /\ s.panel = importing.panel /\ s.busy = importing.busy /\ s.review = importing.review
      /\ s.name = importing.name /\ s.choice = importing.choice /\ s.steps > importing.steps
  BY <1>0, SteppedPanel
<1>2. \/ \E name : IM!Says([s EXCEPT !.name = name], importCalls)
      \/ \E files : IM!Says([s EXCEPT !.files = files], importCalls)
  BY DEF IM!FillForm
<1> HIDE DEF s
<1>3. CASE \E name : IM!Says([s EXCEPT !.name = name], importCalls)
  <2> PICK name : IM!Says([s EXCEPT !.name = name], importCalls)
    BY <1>3
  <2> DEFINE p == [s EXCEPT !.name = name]
  <2>1. DOMAIN p = ImportFields /\ \A f \in ImportFields \ {"name"} : p[f] = s[f]
    BY <1>1 DEF ImportFits, ImportFields
  <2>2. IM!Says(p, importCalls)
    OBVIOUS
  <2> HIDE DEF p
  <2>3. ImportFits(p)
    BY <1>1, <2>1 DEF ImportFits, ImportFields
  <2>4. p.panel = s.panel /\ p.busy = s.busy /\ p.review = s.review /\ p.choice = s.choice /\ p.steps = s.steps
    BY <2>1 DEF ImportFields
  <2> QED BY <1>0, <1>1, <2>2, <2>3, <2>4, Settings, DialogStep DEF KeepsName
<1>4. CASE \E files : IM!Says([s EXCEPT !.files = files], importCalls)
  <2> PICK files : IM!Says([s EXCEPT !.files = files], importCalls)
    BY <1>4
  <2> DEFINE p == [s EXCEPT !.files = files]
  <2>1. DOMAIN p = ImportFields /\ \A f \in ImportFields \ {"files"} : p[f] = s[f]
    BY <1>1 DEF ImportFits, ImportFields
  <2>2. IM!Says(p, importCalls)
    OBVIOUS
  <2> HIDE DEF p
  <2>3. ImportFits(p)
    BY <1>1, <2>1 DEF ImportFits, ImportFields
  <2>4. p.panel = s.panel /\ p.busy = s.busy /\ p.review = s.review /\ p.name = s.name
    BY <2>1 DEF ImportFields
  <2> QED BY <1>0, <1>1, <2>2, <2>3, <2>4, Settings, DialogStep DEF KeepsName
<1> QED BY <1>2, <1>3, <1>4

\* The names of assets are not what a user has typed.
LEMMA VersionChosen ==
  ASSUME IM!ImportFormAssumption, ImportInv, IM!ChooseVersion
  PROVE  ImportStep
<1> DEFINE s == IM!Stepped
<1>0. importing.open
  BY DEF IM!ChooseVersion, IM!OnForm, IM!Step
<1>1. /\ ImportFits(s) /\ s.panel = importing.panel /\ s.busy = importing.busy /\ s.review = importing.review
      /\ s.name = importing.name /\ s.choices = importing.choices
  BY <1>0, SteppedPanel
<1> PICK v \in IM!ToSet(importing.choices) :
      IM!Says([s EXCEPT !.choice = v, !.name = IM!Renamed(@, v)], importCalls)
  BY DEF IM!ChooseVersion
<1> DEFINE name == IM!Renamed(s.name, v)
           p == [s EXCEPT !.choice = v, !.name = name]
<1>2. IM!ToSet(importing.choices) \subseteq ReadyVersions
  <2>1. importing.choices \in Seq(ReadyVersions)
    BY <1>0, Settings DEF ImportFits
  <2> QED BY <2>1 DEF IM!ToSet
<1>3. name = importing.name \/ importing.name # "typed"
  BY <1>1, <1>2 DEF IM!Renamed, IM!ImportFormAssumption
<1> HIDE DEF s, name
<1>4. DOMAIN p = ImportFields /\ p.choice = v /\ p.name = name /\ \A f \in ImportFields \ {"choice", "name"} : p[f] = s[f]
  BY <1>1 DEF ImportFits, ImportFields
<1>5. IM!Says(p, importCalls)
  BY DEF name
<1> HIDE DEF p
<1>6. /\ p.panel = s.panel /\ p.busy = s.busy /\ p.review = s.review /\ p.choices = s.choices
      /\ p.open = s.open /\ p.steps = s.steps /\ p.plan = s.plan /\ p.drafts = s.drafts
      /\ p.confirmed = s.confirmed /\ p.asking = s.asking
  BY <1>4 DEF ImportFields
<1>7. ImportFits(p)
  BY <1>1, <1>4, <1>6 DEF ImportFits
<1> QED BY <1>0, <1>1, <1>3, <1>4, <1>5, <1>6, <1>7, Settings, DialogStep DEF KeepsName

LEMMA Resumed ==
  ASSUME ImportInv, IM!Resume
  PROVE  ImportStep
<1> DEFINE s == IM!Stepped
<1>0. importing.open /\ importing.review = FALSE
  BY Settings DEF IM!Resume, IM!OnForm, IM!Step
<1>1. /\ ImportFits(s) /\ s.panel = importing.panel /\ s.busy = importing.busy /\ s.review = importing.review
      /\ s.name = importing.name /\ s.choices = importing.choices /\ s.drafts = importing.drafts
  BY <1>0, SteppedPanel
<1> PICK d \in importing.drafts :
      IM!Says([s EXCEPT !.plan = d[1], !.status = d[2], !.confirmed = FALSE, !.asking = FALSE, !.error = FALSE],
              importCalls)
  BY DEF IM!Resume
<1>2. d[1] \in ImportIds
  BY <1>1 DEF ImportFits
<1> HIDE DEF s
<1> DEFINE a == [s EXCEPT !.plan = d[1], !.status = d[2]]
           p == [a EXCEPT !.confirmed = FALSE, !.asking = FALSE, !.error = FALSE]
<1>3. DOMAIN a = ImportFields /\ a.plan = d[1] /\ \A f \in ImportFields \ {"plan", "status"} : a[f] = s[f]
  BY <1>1 DEF ImportFits, ImportFields
<1>4. IM!Says(p, importCalls)
  OBVIOUS
<1> HIDE DEF a
<1>5. /\ DOMAIN p = ImportFields /\ p.plan = d[1] /\ p.confirmed = FALSE /\ p.asking = FALSE
      /\ \A f \in ImportFields \ {"plan", "status", "confirmed", "asking", "error"} : p[f] = s[f]
  BY <1>3 DEF ImportFields
<1> HIDE DEF p
<1>6. /\ p.panel = s.panel /\ p.busy = s.busy /\ p.review = s.review /\ p.choices = s.choices
      /\ p.open = s.open /\ p.steps = s.steps /\ p.name = s.name /\ p.drafts = s.drafts
      /\ p.choice = s.choice
  BY <1>5 DEF ImportFields
<1>7. ImportFits(p)
  BY <1>0, <1>1, <1>2, <1>5, <1>6 DEF ImportFits
<1> QED BY <1>0, <1>1, <1>4, <1>6, <1>7, Settings, DialogStep DEF KeepsName

LEMMA DialogSubmitted ==
  ASSUME ImportInv, IM!SubmitForm
  PROVE  ImportStep
<1> DEFINE s == IM!Stepped
<1>0. importing.open /\ importing.review = FALSE /\ importing.busy = FALSE /\ importing.plan = NoImport
  BY Settings DEF IM!SubmitForm, IM!OnForm, IM!Step
<1>1. /\ ImportFits(s) /\ s.panel = importing.panel /\ s.busy = importing.busy /\ s.review = importing.review
      /\ s.name = importing.name /\ s.plan = importing.plan
  BY <1>0, SteppedPanel
<1>2. \/ IM!Says([s EXCEPT !.error = TRUE], importCalls)
      \/ IM!Says([s EXCEPT !.busy = TRUE, !.error = FALSE], importCalls \union {IM!Call("stage", NoImport)})
      \/ IM!Says([s EXCEPT !.confirmed = FALSE, !.error = FALSE, !.review = TRUE], importCalls)
  BY DEF IM!SubmitForm
<1>3. s.asking = FALSE
  BY <1>0, <1>1 DEF ImportFits
<1> HIDE DEF s
<1>4. CASE IM!Says([s EXCEPT !.error = TRUE], importCalls)
  <2> DEFINE p == [s EXCEPT !.error = TRUE]
  <2>1. DOMAIN p = ImportFields /\ \A f \in ImportFields \ {"error"} : p[f] = s[f]
    BY <1>1 DEF ImportFits, ImportFields
  <2>2. IM!Says(p, importCalls)
    BY <1>4
  <2> HIDE DEF p
  <2>3. ImportFits(p)
    BY <1>1, <2>1 DEF ImportFits, ImportFields
  <2>4. p.panel = s.panel /\ p.busy = s.busy /\ p.review = s.review /\ p.name = s.name
    BY <2>1 DEF ImportFields
  <2> QED BY <1>0, <1>1, <2>2, <2>3, <2>4, Settings, DialogStep DEF KeepsName
<1>5. CASE IM!Says([s EXCEPT !.busy = TRUE, !.error = FALSE], importCalls \union {IM!Call("stage", NoImport)})
  <2> DEFINE p == [s EXCEPT !.busy = TRUE, !.error = FALSE]
             c == IM!Call("stage", NoImport)
  <2>1. DOMAIN p = ImportFields /\ p.busy = TRUE /\ \A f \in ImportFields \ {"busy", "error"} : p[f] = s[f]
    BY <1>1 DEF ImportFits, ImportFields
  <2>2. IM!Says(p, importCalls \union {c})
    BY <1>5
  <2>3. c \in ImportRequests /\ c.kind = "stage" /\ OwnOf(importing, c)
    BY <1>0, Settings DEF IM!Call, ImportRequests, IM!Kinds, OwnOf, IM!Changing
  <2> HIDE DEF p, c
  <2>4. ImportFits(p)
    BY <1>1, <2>1 DEF ImportFits, ImportFields
  <2>5. p.panel = s.panel /\ p.review = s.review /\ p.name = s.name
    BY <2>1 DEF ImportFields
  <2> QED BY <1>0, <1>1, <2>1, <2>2, <2>3, <2>4, <2>5, AskStepped
<1>6. CASE IM!Says([s EXCEPT !.confirmed = FALSE, !.error = FALSE, !.review = TRUE], importCalls)
  <2> DEFINE p == [s EXCEPT !.confirmed = FALSE, !.error = FALSE, !.review = TRUE]
  <2>1. /\ DOMAIN p = ImportFields /\ p.confirmed = FALSE /\ p.review = TRUE
        /\ \A f \in ImportFields \ {"confirmed", "error", "review"} : p[f] = s[f]
    BY <1>1 DEF ImportFits, ImportFields
  <2>2. IM!Says(p, importCalls)
    BY <1>6
  <2> HIDE DEF p
  <2>3. /\ p.panel = s.panel /\ p.busy = s.busy /\ p.name = s.name /\ p.open = s.open /\ p.plan = s.plan
        /\ p.drafts = s.drafts /\ p.steps = s.steps /\ p.choices = s.choices /\ p.choice = s.choice
        /\ p.asking = s.asking
    BY <2>1 DEF ImportFields
  <2>4. ImportFits(p)
    BY <1>0, <1>1, <1>3, <2>1, <2>3 DEF ImportFits
  <2> QED BY <1>0, <1>1, <2>2, <2>3, <2>4, Settings, DialogStep DEF KeepsName
<1> QED BY <1>2, <1>4, <1>5, <1>6

-----------------------------------------------------------------------------
(* The review. *)
LEMMA ConfirmStep ==
  ASSUME ImportInv, IM!Confirm
  PROVE  ImportStep
<1> DEFINE s == IM!Stepped
           p == [s EXCEPT !.confirmed = ~@]
<1>0. importing.open /\ importing.asking = FALSE
  BY Settings DEF IM!Confirm, IM!Idle, IM!Step
<1>1. /\ ImportFits(s) /\ s.panel = importing.panel /\ s.busy = importing.busy /\ s.review = importing.review
      /\ s.name = importing.name /\ s.plan = importing.plan /\ s.asking = importing.asking
      /\ s.confirmed = importing.confirmed
  BY <1>0, SteppedPanel, Settings
<1>2. IM!Says(p, importCalls)
  BY DEF IM!Confirm
<1> HIDE DEF s
<1>3. DOMAIN p = ImportFields /\ p.confirmed = ~s.confirmed /\ \A f \in ImportFields \ {"confirmed"} : p[f] = s[f]
  BY <1>1 DEF ImportFits, ImportFields
<1> HIDE DEF p
<1>a. /\ p.open = s.open /\ p.steps = s.steps /\ p.plan = s.plan /\ p.drafts = s.drafts /\ p.panel = s.panel
      /\ p.choices = s.choices /\ p.choice = s.choice /\ p.busy = s.busy
  BY <1>3 DEF ImportFields
<1>b. /\ p.review \in {FALSE, s.review} /\ p.confirmed \in BOOLEAN /\ p.asking \in {FALSE, TRUE, s.asking}
      /\ p.asking => p.confirmed /\ (p.review \/ p.plan # NoImport)
  BY <1>0, <1>1, <1>3, Settings DEF ImportFits, ImportFields
<1>4. ImportFits(p)
  BY <1>1, <1>3, <1>a, <1>b DEF ImportFits
<1>5. p.panel = s.panel /\ p.busy = s.busy /\ p.name = s.name /\ (p.review => s.review)
  BY <1>3 DEF ImportFields
<1> QED BY <1>0, <1>1, <1>2, <1>4, <1>5, Settings, DialogStep DEF KeepsName

LEMMA RequestStep ==
  ASSUME ImportInv, IM!RequestExecute
  PROVE  ImportStep
<1> DEFINE s == IM!Stepped
           p == [s EXCEPT !.asking = TRUE]
<1>0. importing.open /\ importing.confirmed /\ (importing.plan # NoImport \/ importing.review)
  BY Settings DEF IM!RequestExecute, IM!Idle, IM!Step, IM!Reviewing
<1>1. /\ ImportFits(s) /\ s.panel = importing.panel /\ s.busy = importing.busy /\ s.review = importing.review
      /\ s.name = importing.name /\ s.plan = importing.plan /\ s.asking = importing.asking
      /\ s.confirmed = importing.confirmed
  BY <1>0, SteppedPanel, Settings
<1>2. IM!Says(p, importCalls)
  BY DEF IM!RequestExecute
<1> HIDE DEF s
<1>3. DOMAIN p = ImportFields /\ p.asking = TRUE /\ \A f \in ImportFields \ {"asking"} : p[f] = s[f]
  BY <1>1 DEF ImportFits, ImportFields
<1> HIDE DEF p
<1>a. /\ p.open = s.open /\ p.steps = s.steps /\ p.plan = s.plan /\ p.drafts = s.drafts /\ p.panel = s.panel
      /\ p.choices = s.choices /\ p.choice = s.choice /\ p.busy = s.busy
  BY <1>3 DEF ImportFields
<1>b. /\ p.review \in {FALSE, s.review} /\ p.confirmed \in BOOLEAN /\ p.asking \in {FALSE, TRUE, s.asking}
      /\ p.asking => p.confirmed /\ (p.review \/ p.plan # NoImport)
  BY <1>0, <1>1, <1>3, Settings DEF ImportFits, ImportFields
<1>4. ImportFits(p)
  BY <1>1, <1>3, <1>a, <1>b DEF ImportFits
<1>5. p.panel = s.panel /\ p.busy = s.busy /\ p.name = s.name /\ (p.review => s.review)
  BY <1>3 DEF ImportFields
<1> QED BY <1>0, <1>1, <1>2, <1>4, <1>5, Settings, DialogStep DEF KeepsName

LEMMA DeclineStep ==
  ASSUME ImportInv, IM!Decline
  PROVE  ImportStep
<1> DEFINE s == importing
           p == [s EXCEPT !.asking = FALSE]
<1>0. importing.open
  BY Settings DEF IM!Decline, IM!Idle
<1>1. /\ ImportFits(s) /\ s.panel = importing.panel /\ s.busy = importing.busy /\ s.review = importing.review
      /\ s.name = importing.name /\ s.plan = importing.plan /\ s.asking = importing.asking
      /\ s.confirmed = importing.confirmed
  BY <1>0, SteppedPanel, Settings
<1>2. IM!Says(p, importCalls)
  BY DEF IM!Decline
<1> HIDE DEF s
<1>3. DOMAIN p = ImportFields /\ p.asking = FALSE /\ \A f \in ImportFields \ {"asking"} : p[f] = s[f]
  BY <1>1 DEF ImportFits, ImportFields
<1> HIDE DEF p
<1>a. /\ p.open = s.open /\ p.steps = s.steps /\ p.plan = s.plan /\ p.drafts = s.drafts /\ p.panel = s.panel
      /\ p.choices = s.choices /\ p.choice = s.choice /\ p.busy = s.busy
  BY <1>3 DEF ImportFields
<1>b. /\ p.review \in {FALSE, s.review} /\ p.confirmed \in BOOLEAN /\ p.asking \in {FALSE, TRUE, s.asking}
      /\ p.asking => p.confirmed /\ (p.review \/ p.plan # NoImport)
  BY <1>0, <1>1, <1>3, Settings DEF ImportFits, ImportFields
<1>4. ImportFits(p)
  BY <1>1, <1>3, <1>a, <1>b DEF ImportFits
<1>5. p.panel = s.panel /\ p.busy = s.busy /\ p.name = s.name /\ (p.review => s.review)
  BY <1>3 DEF ImportFields
<1> QED BY <1>0, <1>1, <1>2, <1>4, <1>5, Settings, DialogStep DEF KeepsName

LEMMA BackStep ==
  ASSUME ImportInv, IM!Back
  PROVE  ImportStep
<1> DEFINE s == IM!Stepped
           p == [s EXCEPT !.review = FALSE, !.confirmed = FALSE, !.asking = FALSE, !.error = FALSE]
<1>0. importing.open
  BY Settings DEF IM!Back, IM!Idle, IM!Step
<1>1. /\ ImportFits(s) /\ s.panel = importing.panel /\ s.busy = importing.busy /\ s.review = importing.review
      /\ s.name = importing.name /\ s.plan = importing.plan /\ s.asking = importing.asking
      /\ s.confirmed = importing.confirmed
  BY <1>0, SteppedPanel, Settings
<1>2. IM!Says(p, importCalls)
  BY DEF IM!Back
<1> HIDE DEF s
<1>3. /\ DOMAIN p = ImportFields /\ p.review = FALSE /\ p.confirmed = FALSE /\ p.asking = FALSE
      /\ \A f \in ImportFields \ {"review", "confirmed", "asking", "error"} : p[f] = s[f]
  BY <1>1 DEF ImportFits, ImportFields
<1> HIDE DEF p
<1>a. /\ p.open = s.open /\ p.steps = s.steps /\ p.plan = s.plan /\ p.drafts = s.drafts /\ p.panel = s.panel
      /\ p.choices = s.choices /\ p.choice = s.choice /\ p.busy = s.busy
  BY <1>3 DEF ImportFields
<1>b. /\ p.review \in {FALSE, s.review} /\ p.confirmed \in BOOLEAN /\ p.asking \in {FALSE, TRUE, s.asking}
      /\ p.asking => p.confirmed /\ (p.review \/ p.plan # NoImport)
  BY <1>0, <1>1, <1>3, Settings DEF ImportFits, ImportFields
<1>4. ImportFits(p)
  BY <1>1, <1>3, <1>a, <1>b DEF ImportFits
<1>5. p.panel = s.panel /\ p.busy = s.busy /\ p.name = s.name /\ (p.review => s.review)
  BY <1>3 DEF ImportFields
<1> QED BY <1>0, <1>1, <1>2, <1>4, <1>5, Settings, DialogStep DEF KeepsName

\* What is billed was confirmed: it is asked for from an open last question.
LEMMA ExecuteStep ==
  ASSUME ImportInv, IM!Execute
  PROVE  ImportStep
<1> DEFINE p == [importing EXCEPT !.asking = FALSE, !.busy = TRUE, !.error = FALSE]
           c == IF importing.plan = NoImport THEN IM!Call("step", importing.choice)
                ELSE IM!Call(IF importing.status = "draft" THEN "approve" ELSE "run", importing.plan)
<1>0. importing.open /\ importing.asking /\ ~importing.busy
  BY DEF IM!Execute
<1>1. IM!Says(p, importCalls \union {c})
  BY DEF IM!Execute
<1>2. importing.confirmed /\ (importing.plan = NoImport <=> importing.review)
  BY <1>0, Settings DEF ImportFits
<1>3. /\ c.panel = importing.panel /\ c.live = TRUE /\ c.kind \in {"step", "approve", "run"}
      /\ c.plan = IF importing.plan = NoImport THEN importing.choice ELSE importing.plan
      /\ c = [kind |-> c.kind, panel |-> c.panel, plan |-> c.plan, live |-> c.live]
  <2>1. CASE importing.plan = NoImport
    BY <2>1 DEF IM!Call
  <2>2. CASE importing.plan # NoImport
    BY <2>2 DEF IM!Call
  <2> QED BY <2>1, <2>2
<1> HIDE DEF c
<1>4. DOMAIN p = ImportFields /\ p.asking = FALSE /\ p.busy = TRUE
      /\ \A f \in ImportFields \ {"asking", "busy", "error"} : p[f] = importing[f]
  BY <1>0, Settings DEF ImportFits, ImportFields
<1> HIDE DEF p
<1>5. ImportFits(p)
  BY <1>0, <1>4, Settings DEF ImportFits, ImportFields
<1>6. p.panel = importing.panel /\ p.name = importing.name
  BY <1>4 DEF ImportFields
<1>7. c.plan \in ImportIds \union ReadyVersions \union {NoImport}
  <2>1. importing.choice \in ReadyVersions \union {NoImport}
    <3>1. importing.choices \in Seq(ReadyVersions) /\ importing.choice \in IM!ToSet(importing.choices) \union {NoImport}
      BY <1>0, Settings DEF ImportFits
    <3> QED BY <3>1 DEF IM!ToSet
  <2>2. importing.plan \in ImportIds \union {NoImport}
    BY <1>0, Settings DEF ImportFits
  <2> QED BY <1>3, <2>1, <2>2
<1>8. c \in ImportRequests /\ OwnOf(importing, c)
  BY <1>0, <1>3, <1>7, Settings DEF ImportRequests, OwnOf, IM!Kinds, IM!Changing
<1>9. c.plan = IF importing.review THEN importing.choice ELSE importing.plan
  BY <1>2, <1>3
<1> QED BY <1>0, <1>1, <1>2, <1>3, <1>4, <1>5, <1>6, <1>8, <1>9, AskStepped

LEMMA AbortStep ==
  ASSUME ImportInv, IM!Abort
  PROVE  ImportStep
<1> DEFINE s == IM!Stepped
           p == [s EXCEPT !.busy = TRUE, !.error = FALSE]
           c == IM!Call("abort", importing.plan)
<1>0. importing.open /\ ~importing.busy
  BY DEF IM!Abort, IM!Idle, IM!Step
<1>1. /\ ImportFits(s) /\ s.panel = importing.panel /\ s.name = importing.name
  BY <1>0, SteppedPanel
<1>2. IM!Says(p, importCalls \union {c})
  BY DEF IM!Abort
<1> HIDE DEF s
<1>3. DOMAIN p = ImportFields /\ p.busy = TRUE /\ \A f \in ImportFields \ {"busy", "error"} : p[f] = s[f]
  BY <1>1 DEF ImportFits, ImportFields
<1> HIDE DEF p
<1>4. ImportFits(p)
  BY <1>1, <1>3 DEF ImportFits, ImportFields
<1>5. p.panel = importing.panel /\ p.name = importing.name
  BY <1>1, <1>3 DEF ImportFields
<1>6. c \in ImportRequests /\ OwnOf(importing, c) /\ c.kind = "abort"
  BY <1>0, Settings DEF IM!Call, ImportRequests, IM!Kinds, OwnOf, IM!Changing, ImportFits
<1> HIDE DEF c
<1> QED BY <1>0, <1>2, <1>3, <1>4, <1>5, <1>6, AskStepped

LEMMA CloseStep ==
  ASSUME ImportInv, IM!Close
  PROVE  ImportStep
<1>1. /\ importing' = IM!Closed(importing.steps) /\ importCalls' = IM!Dropped(importCalls) /\ staged' = staged
  BY DEF IM!Close, IM!Says
<1>2. importing'.open = FALSE /\ importing'.panel = importing.panel /\ importing'.steps = importing.steps
  BY <1>1 DEF IM!Closed
<1>3. ImportInv'
  BY <1>1, <1>2, DroppedCalls DEF ImportInv
<1>4. IM!RunIsConfirmed
  BY <1>1, DroppedCalls DEF IM!RunIsConfirmed, SameChanging, IM!Changing
<1> QED BY <1>2, <1>3, <1>4 DEF ImportStep, IM!NameIsKept

LEMMA OpenedPanel ==
  ASSUME NEW n \in Nat, NEW k \in Nat
  PROVE  LET p == IM!Opened(n, k) IN ImportFits(p) /\ p.panel = n /\ p.busy = FALSE
<1> DEFINE p == IM!Opened(n, k)
<1>1. /\ DOMAIN p = ImportFields /\ p.open = TRUE /\ p.panel = n /\ p.steps = k /\ p.plan = NoImport /\ p.drafts = {}
      /\ p.choices = <<>> /\ p.choice = NoImport /\ p.review = FALSE /\ p.confirmed = FALSE /\ p.asking = FALSE
      /\ p.busy = FALSE
  BY DEF IM!Opened, ImportFields
<1> HIDE DEF p
<1>2. <<>> \in Seq(ReadyVersions)
  OBVIOUS
<1>3. ImportFits(p)
  BY <1>1, <1>2 DEF ImportFits
<1> QED BY <1>1, <1>3 DEF p

LEMMA ReopenStep ==
  ASSUME ImportInv, IM!Reopen
  PROVE  ImportStep
<1> DEFINE p == IM!Opened(importing.panel + 1, importing.steps + 1)
           c == [kind |-> "drafts", panel |-> p.panel, plan |-> NoImport, live |-> TRUE]
<1>0. importing.panel \in Nat /\ importing.steps \in Nat /\ importing.open = FALSE
  BY DEF ImportInv, IM!Reopen
<1> DEFINE n == importing.panel + 1
           k == importing.steps + 1
<1>a. n \in Nat /\ k \in Nat
  BY <1>0
<1>1. ImportFits(p) /\ p.panel = importing.panel + 1 /\ p.busy = FALSE
  <2> HIDE DEF n, k
  <2>1. LET q == IM!Opened(n, k) IN ImportFits(q) /\ q.panel = n /\ q.busy = FALSE
    BY <1>a, OpenedPanel
  <2>2. p = IM!Opened(n, k)
    BY DEF n, k
  <2> HIDE DEF p
  <2> QED BY <2>1, <2>2 DEF n
<1>2. importing' = p /\ importCalls' = importCalls \union {c} /\ staged' = staged
  BY DEF IM!Reopen, IM!Says
<1> HIDE DEF p
<1>3. c \in ImportRequests /\ c.panel = importing.panel + 1 /\ c.kind = "drafts"
  BY <1>0, <1>1 DEF ImportRequests, IM!Kinds
<1> HIDE DEF c
<1>4. \A d \in importCalls \union {c} : ~OwnOf(p, d) /\ d.panel <= importing.panel + 1
  BY <1>0, <1>1, <1>3 DEF ImportInv, NumberedFrom, OwnOf, IM!Changing, ImportRequests
<1>5. Awaited(p, importCalls \union {c})
  BY <1>1, <1>4 DEF Awaited
<1>6. NumberedFrom(importCalls \union {c}, p.panel)
  BY <1>1, <1>3, <1>4 DEF ImportInv, NumberedFrom
<1>7. ImportInv'
  BY <1>1, <1>2, <1>5, <1>6 DEF ImportInv, ImportFits
<1> QED BY <1>0, <1>2, <1>3, <1>7 DEF ImportStep, IM!RunIsConfirmed, IM!NameIsKept

-----------------------------------------------------------------------------
(* The answers. *)
LEMMA DraftsArrived ==
  ASSUME ImportInv, IM!DraftsArrive
  PROVE  ImportStep
<1> PICK c \in importCalls :
      /\ c.kind = "drafts" /\ staged' = staged /\ importCalls' = importCalls \ {c}
      /\ \E found \in {{}, {<<i, staged[i]>> : i \in {j \in ImportIds : staged[j] \in {"draft", "failed"}}}} :
           importing' = IM!ForOpen(c, [importing EXCEPT !.drafts = found])
  BY DEF IM!DraftsArrive
<1> PICK found \in {{}, {<<i, staged[i]>> : i \in {j \in ImportIds : staged[j] \in {"draft", "failed"}}}} :
      importing' = IM!ForOpen(c, [importing EXCEPT !.drafts = found])
  OBVIOUS
<1> DEFINE p == [importing EXCEPT !.drafts = found]
<1>1. found \subseteq ImportIds \X PlanStatuses
  BY DEF ImportInv
<1>2. staged' \in [ImportIds -> PlanStatuses]
  BY DEF ImportInv
<1>3. importing' = IM!ForOpen(c, p)
  OBVIOUS
<1>4. importing.open => /\ DOMAIN p = ImportFields /\ p.drafts = found
                        /\ \A f \in ImportFields \ {"drafts"} : p[f] = importing[f]
  BY Settings DEF ImportFits, ImportFields
<1> HIDE DEF p
<1>5. importing.open => ImportFits(p) /\ p.panel = importing.panel /\ KeepsName(p) /\ p.review = importing.review
                        /\ p.busy = importing.busy
  BY <1>1, <1>4, Settings DEF ImportFits, ImportFields, KeepsName
<1>6. c.kind \notin IM!Changing
  BY DEF IM!Changing
<1> QED BY <1>2, <1>3, <1>5, <1>6, AnsweredStep

\* The library's versions as a list: what it holds are versions.
LEMMA VersionsListed ==
  ASSUME IM!ImportFormAssumption
  PROVE  IM!SetToSeq(ReadyVersions) \in Seq(ReadyVersions)
<1> DEFINE n == Cardinality(ReadyVersions)
<1>1. IsFiniteSet(ReadyVersions)
  BY DEF IM!ImportFormAssumption, IM!IsFiniteSet, IsFiniteSet
<1>2. n \in Nat /\ ExistsBijection(1..n, ReadyVersions)
  BY <1>1, FS_CardinalityType
<1>3. IM!Cardinality(ReadyVersions) = n
  BY DEF IM!Cardinality, Cardinality
<1> HIDE DEF n
<1>4. \E f \in [1..n -> ReadyVersions] : \A a, b \in 1..n : f[a] = f[b] => a = b
  BY <1>2 DEF ExistsBijection, Bijection, Injection, IsInjective
<1>5. \E f \in [1..n -> ReadyVersions] : IM!IsInjective(f)
  BY <1>4 DEF IM!IsInjective
<1>6. IM!SetToSeq(ReadyVersions) \in [1..n -> ReadyVersions]
  BY <1>3, <1>5 DEF IM!SetToSeq
<1> QED BY <1>2, <1>6

LEMMA AssetsArrived ==
  ASSUME IM!ImportFormAssumption, ImportInv, IM!AssetsArrive
  PROVE  ImportStep
<1> PICK c \in importCalls, vs \in {<<>>, IM!SetToSeq(ReadyVersions)} :
      LET kept == importing.choice \in IM!ToSet(vs)
          p == [importing EXCEPT !.loading = FALSE, !.choices = vs,
                   !.choice = IF kept THEN @ ELSE IF vs = <<>> THEN NoImport ELSE Head(vs),
                   !.name = IF @ = "" /\ vs # <<>> THEN AssetOf[Head(vs)] ELSE @]
          failed == [importing EXCEPT !.loading = FALSE]
      IN  /\ c.kind = "assets" /\ staged' = staged /\ importCalls' = importCalls \ {c}
          /\ importing' \in {IM!ForOpen(c, IF c.live THEN p ELSE importing),
                             IM!ForOpen(c, IF c.live THEN failed ELSE importing)}
  BY DEF IM!AssetsArrive
<1> DEFINE choice == IF importing.choice \in IM!ToSet(vs) THEN importing.choice
                     ELSE IF vs = <<>> THEN NoImport ELSE Head(vs)
           name == IF importing.name = "" /\ vs # <<>> THEN AssetOf[Head(vs)] ELSE importing.name
           p == [importing EXCEPT !.loading = FALSE, !.choices = vs, !.choice = choice, !.name = name]
           failed == [importing EXCEPT !.loading = FALSE]
<1>0. c.kind = "assets" /\ staged' = staged /\ importCalls' = importCalls \ {c}
  OBVIOUS
<1>1. \/ importing' = IM!ForOpen(c, p) \/ importing' = IM!ForOpen(c, failed) \/ importing' = IM!ForOpen(c, importing)
  OBVIOUS
<1>2. vs \in Seq(ReadyVersions)
  <2>1. <<>> \in Seq(ReadyVersions)
    OBVIOUS
  <2> QED BY <2>1, VersionsListed
<1>3. choice \in IM!ToSet(vs) \union {NoImport}
  BY <1>2 DEF IM!ToSet
<1>4. name = importing.name \/ importing.name # "typed"
  OBVIOUS
<1>5. staged' \in [ImportIds -> PlanStatuses] /\ c.kind \notin IM!Changing
  BY <1>0 DEF ImportInv, IM!Changing
<1> HIDE DEF choice, name
<1>6. importing.open => /\ DOMAIN p = ImportFields /\ p.choices = vs /\ p.choice = choice /\ p.name = name
                        /\ \A f \in ImportFields \ {"loading", "choices", "choice", "name"} : p[f] = importing[f]
  BY Settings DEF ImportFits, ImportFields
<1>7. importing.open => /\ DOMAIN failed = ImportFields
                        /\ \A f \in ImportFields \ {"loading"} : failed[f] = importing[f]
  BY Settings DEF ImportFits, ImportFields
<1> HIDE DEF p, failed
<1>8. importing.open => /\ p.open = importing.open /\ p.panel = importing.panel /\ p.steps = importing.steps
                        /\ p.plan = importing.plan /\ p.drafts = importing.drafts /\ p.review = importing.review
                        /\ p.confirmed = importing.confirmed /\ p.asking = importing.asking /\ p.busy = importing.busy
  BY <1>6 DEF ImportFields
<1>9. importing.open => ImportFits(p)
  BY <1>2, <1>3, <1>6, <1>8, Settings DEF ImportFits
<1>10. CASE importing' = IM!ForOpen(c, p)
  BY <1>0, <1>4, <1>5, <1>6, <1>8, <1>9, <1>10, AnsweredStep DEF KeepsName
<1>11. CASE importing' = IM!ForOpen(c, failed)
  <2>1. importing.open => /\ ImportFits(failed) /\ failed.panel = importing.panel /\ failed.name = importing.name
                          /\ failed.review = importing.review /\ failed.busy = importing.busy
    BY <1>7, Settings DEF ImportFits, ImportFields
  <2> QED BY <1>0, <1>5, <1>11, <2>1, AnsweredStep DEF KeepsName
<1>12. CASE importing' = IM!ForOpen(c, importing)
  BY <1>0, <1>5, <1>12, Settings, AnsweredStep DEF KeepsName
<1> QED BY <1>1, <1>10, <1>11, <1>12

LEMMA StagedStep ==
  ASSUME IM!ImportFormAssumption, ImportInv, IM!Staged
  PROVE  ImportStep
<1> PICK c \in importCalls, i \in ImportIds :
      /\ c.kind = "stage" /\ importCalls' = importCalls \ {c} /\ staged' = [staged EXCEPT ![i] = "draft"]
      /\ IM!Settled(c, [importing EXCEPT !.plan = i, !.status = "draft"])
  BY DEF IM!Staged
<1> DEFINE a == [importing EXCEPT !.plan = i, !.status = "draft"]
           p == [a EXCEPT !.busy = FALSE]
<1>1. importing' = IM!ForOpen(c, p)
  BY DEF IM!Settled
<1>2. staged' \in [ImportIds -> PlanStatuses]
  BY DEF ImportInv, PlanStatuses
<1>3. ASSUME importing.open, importing.panel = c.panel
      PROVE  ~importing.review
  <2>1. Awaited(importing, importCalls) /\ OwnOf(importing, c)
    BY <1>3 DEF ImportInv, OwnOf, IM!Changing
  <2> QED BY <2>1 DEF Awaited
<1>4. importing.open => /\ DOMAIN a = ImportFields /\ a.plan = i
                        /\ \A f \in ImportFields \ {"plan", "status"} : a[f] = importing[f]
  BY Settings DEF ImportFits, ImportFields
<1> HIDE DEF a
<1>5. importing.open => /\ DOMAIN p = ImportFields /\ p.plan = i /\ p.busy = FALSE
                        /\ \A f \in ImportFields \ {"plan", "status", "busy"} : p[f] = importing[f]
  BY <1>4 DEF ImportFields
<1> HIDE DEF p
<1>6. importing.open => /\ p.open = importing.open /\ p.panel = importing.panel /\ p.steps = importing.steps
                        /\ p.drafts = importing.drafts /\ p.review = importing.review /\ p.name = importing.name
                        /\ p.choices = importing.choices /\ p.choice = importing.choice
                        /\ p.confirmed = importing.confirmed /\ p.asking = importing.asking
  BY <1>5 DEF ImportFields
<1>7. importing.open /\ importing.panel = c.panel => ImportFits(p)
  <2>1. i # NoImport
    BY DEF IM!ImportFormAssumption
  <2> QED BY <1>3, <1>5, <1>6, <2>1, Settings DEF ImportFits
<1>8. c.kind \in IM!Changing
  BY DEF IM!Changing
<1> QED BY <1>1, <1>2, <1>5, <1>6, <1>7, <1>8, AnsweredStep DEF KeepsName

\* A plan that is approved is asked for again, now to run.
LEMMA ApprovedStep ==
  ASSUME ImportInv, IM!Approved
  PROVE  ImportStep
<1> PICK c \in importCalls :
      /\ c.kind = "approve" /\ staged' = [staged EXCEPT ![c.plan] = "approved"]
      /\ importCalls' = (importCalls \ {c}) \union {[c EXCEPT !.kind = "run"]}
      /\ importing' = importing
  BY DEF IM!Approved
<1> DEFINE d == [c EXCEPT !.kind = "run"]
<1>1. c \in ImportRequests /\ c.panel <= importing.panel
  BY DEF ImportInv, NumberedFrom
<1>2. d \in ImportRequests /\ d.panel = c.panel /\ d.kind = "run" /\ [d EXCEPT !.kind = "approve"] = c
  BY <1>1 DEF ImportRequests, IM!Kinds
<1>3. importCalls' = (importCalls \ {c}) \union {d}
  OBVIOUS
<1> HIDE DEF d
<1>4. staged' \in [ImportIds -> PlanStatuses]
  BY DEF ImportInv, PlanStatuses
<1>5. NumberedFrom(importCalls', importing.panel)
  BY <1>1, <1>2, <1>3 DEF ImportInv, NumberedFrom
<1>6. importing.open => Awaited(importing, importCalls')
  <2>1. OwnOf(importing, d) <=> OwnOf(importing, c)
    BY <1>2 DEF OwnOf, IM!Changing
  <2> QED BY <1>2, <1>3, <2>1 DEF ImportInv, Awaited
<1>7. ImportInv'
  BY <1>4, <1>5, <1>6 DEF ImportInv
<1>8. IM!RunIsConfirmed
  BY <1>2, <1>3 DEF IM!RunIsConfirmed
<1> QED BY <1>7, <1>8 DEF ImportStep, IM!NameIsKept

\* The page goes to the project that was made, from whichever panel is open.
LEMMA LeftStep ==
  ASSUME IM!ImportFormAssumption, ImportInv, NEW c \in importCalls, importCalls' = importCalls \ {c},
         staged' \in [ImportIds -> PlanStatuses], IM!Leaves
  PROVE  ImportStep
<1>1. importing'.open = FALSE /\ importing'.panel = importing.panel /\ importing'.steps = MaxImportSteps
  BY DEF IM!Leaves, IM!Closed
<1>2. ImportInv'
  BY <1>1 DEF ImportInv, NumberedFrom, IM!ImportFormAssumption
<1> QED BY <1>1, <1>2 DEF ImportStep, IM!RunIsConfirmed, IM!NameIsKept

\* A request that fails leaves the panel as it was, with an error.
LEMMA FailedStep ==
  ASSUME ImportInv, NEW c \in importCalls, importCalls' = importCalls \ {c}, c.kind \in IM!Changing,
         staged' \in [ImportIds -> PlanStatuses], IM!Settled(c, [importing EXCEPT !.error = TRUE])
  PROVE  ImportStep
<1> DEFINE a == [importing EXCEPT !.error = TRUE]
           p == [a EXCEPT !.busy = FALSE]
<1>1. importing' = IM!ForOpen(c, p)
  BY DEF IM!Settled
<1>2. importing.open => DOMAIN a = ImportFields /\ \A f \in ImportFields \ {"error"} : a[f] = importing[f]
  BY Settings DEF ImportFits, ImportFields
<1> HIDE DEF a
<1>3. importing.open => /\ DOMAIN p = ImportFields /\ p.busy = FALSE
                        /\ \A f \in ImportFields \ {"error", "busy"} : p[f] = importing[f]
  BY <1>2 DEF ImportFields
<1> HIDE DEF p
<1>4. importing.open => ImportFits(p) /\ p.panel = importing.panel /\ p.review = importing.review
                        /\ p.name = importing.name
  BY <1>3, Settings DEF ImportFits, ImportFields
<1> QED BY <1>1, <1>3, <1>4, AnsweredStep DEF KeepsName

LEMMA RanStep ==
  ASSUME IM!ImportFormAssumption, ImportInv, IM!Ran
  PROVE  ImportStep
<1> PICK c \in importCalls :
      /\ c.kind = "run" /\ importCalls' = importCalls \ {c}
      /\ \/ staged' = [staged EXCEPT ![c.plan] = "submitted"] /\ IM!Leaves
         \/ staged' = [staged EXCEPT ![c.plan] = "failed"] /\ IM!Settled(c, [importing EXCEPT !.error = TRUE])
  BY DEF IM!Ran
<1>1. staged' \in [ImportIds -> PlanStatuses] /\ c.kind \in IM!Changing
  BY DEF ImportInv, PlanStatuses, IM!Changing
<1> QED BY <1>1, LeftStep, FailedStep

LEMMA CreatedStep ==
  ASSUME IM!ImportFormAssumption, ImportInv, IM!CreatedFromSTEP
  PROVE  ImportStep
<1> PICK c \in importCalls : importCalls' = importCalls \ {c} /\ staged' = staged /\ IM!Leaves
  BY DEF IM!CreatedFromSTEP
<1>1. staged' \in [ImportIds -> PlanStatuses]
  BY DEF ImportInv
<1> QED BY <1>1, LeftStep

LEMMA RefusedStep ==
  ASSUME ImportInv, IM!Refused
  PROVE  ImportStep
<1> PICK c \in importCalls :
      /\ c.kind \in {"stage", "approve", "run", "step", "abort"} /\ staged' = staged
      /\ importCalls' = importCalls \ {c} /\ IM!Settled(c, [importing EXCEPT !.error = TRUE])
  BY DEF IM!Refused
<1>1. staged' \in [ImportIds -> PlanStatuses] /\ c.kind \in IM!Changing
  BY DEF ImportInv, IM!Changing
<1> QED BY <1>1, FailedStep

LEMMA AbortedStep ==
  ASSUME ImportInv, IM!Aborted
  PROVE  ImportStep
<1> PICK c \in importCalls :
      /\ c.kind = "abort" /\ importCalls' = importCalls \ {c} /\ staged' = [staged EXCEPT ![c.plan] = "gone"]
      /\ IM!Settled(c, [importing EXCEPT !.plan = NoImport, !.status = "none", !.files = "none",
                          !.confirmed = FALSE, !.asking = FALSE, !.drafts = {d \in @ : d[1] # c.plan}])
  BY DEF IM!Aborted
<1> DEFINE left == {d \in importing.drafts : d[1] # c.plan}
           a == [importing EXCEPT !.plan = NoImport, !.status = "none", !.files = "none"]
           b == [a EXCEPT !.confirmed = FALSE, !.asking = FALSE, !.drafts = left]
           p == [b EXCEPT !.busy = FALSE]
<1>1. importing' = IM!ForOpen(c, p)
  BY DEF IM!Settled
<1>2. staged' \in [ImportIds -> PlanStatuses] /\ c.kind \in IM!Changing
  BY DEF ImportInv, PlanStatuses, IM!Changing
<1>3. importing.open => left \subseteq ImportIds \X PlanStatuses
  BY Settings DEF ImportFits
<1> HIDE DEF left
<1>4. importing.open => /\ DOMAIN a = ImportFields /\ a.plan = NoImport
                        /\ \A f \in ImportFields \ {"plan", "status", "files"} : a[f] = importing[f]
  BY Settings DEF ImportFits, ImportFields
<1> HIDE DEF a
<1>5. importing.open => /\ DOMAIN b = ImportFields /\ b.plan = NoImport /\ b.confirmed = FALSE /\ b.asking = FALSE
                        /\ b.drafts = left
                        /\ \A f \in {"open", "panel", "name", "choices", "choice", "review", "steps"} :
                             b[f] = importing[f]
  BY <1>4 DEF ImportFields
<1> HIDE DEF b
<1>6. importing.open => /\ DOMAIN p = ImportFields /\ p.plan = NoImport /\ p.confirmed = FALSE /\ p.asking = FALSE
                        /\ p.drafts = left /\ p.busy = FALSE
                        /\ \A f \in {"open", "panel", "name", "choices", "choice", "review", "steps"} :
                             p[f] = importing[f]
  BY <1>5 DEF ImportFields
<1> HIDE DEF p
<1>7. importing.open => /\ p.open = importing.open /\ p.panel = importing.panel /\ p.name = importing.name
                        /\ p.choices = importing.choices /\ p.choice = importing.choice
                        /\ p.review = importing.review /\ p.steps = importing.steps
  BY <1>6
<1>8. importing.open => ImportFits(p)
  BY <1>3, <1>6, <1>7, Settings DEF ImportFits
<1> QED BY <1>1, <1>2, <1>6, <1>7, <1>8, AnsweredStep DEF KeepsName

-----------------------------------------------------------------------------
LEMMA ImportInit == IM!Init => ImportInv
<1> SUFFICES ASSUME IM!Init PROVE ImportInv
  OBVIOUS
<1> DEFINE p == IM!Opened(1, 0)
           c == [kind |-> "drafts", panel |-> 1, plan |-> NoImport, live |-> TRUE]
<1>1. ImportFits(p) /\ p.panel = 1 /\ p.busy = FALSE
  BY OpenedPanel
<1>2. staged = [i \in ImportIds |-> "none"] /\ importing = p /\ importCalls = {c}
  BY DEF IM!Init
<1> HIDE DEF p
<1>3. c \in ImportRequests /\ c.panel = 1 /\ c.kind \notin IM!Changing
  BY DEF ImportRequests, IM!Kinds, IM!Changing
<1> HIDE DEF c
<1>4. Awaited(p, {c})
  BY <1>1, <1>3 DEF Awaited, OwnOf
<1>5. NumberedFrom(importCalls, importing.panel)
  BY <1>1, <1>2, <1>3 DEF NumberedFrom
<1>6. staged \in [ImportIds -> PlanStatuses]
  BY <1>2 DEF PlanStatuses
<1>7. importing.open \in BOOLEAN /\ importing.panel \in Nat /\ importing.steps \in Nat
  BY <1>1, <1>2 DEF ImportFits
<1> QED BY <1>2, <1>1, <1>4, <1>5, <1>6, <1>7 DEF ImportInv

LEMMA ImportSteps ==
  ASSUME IM!ImportFormAssumption, ImportInv, [IM!Next]_<<staged, importing, importCalls>>
  PROVE  ImportStep
<1>1. CASE UNCHANGED <<staged, importing, importCalls>>
  BY <1>1 DEF ImportStep, ImportInv, IM!RunIsConfirmed, IM!NameIsKept
<1>2. CASE IM!DraftsArrive \/ IM!AssetsArrive
  BY <1>2, DraftsArrived, AssetsArrived
<1>3. CASE IM!ChooseSource \/ IM!FillForm \/ IM!ChooseVersion \/ IM!Resume \/ IM!SubmitForm
  BY <1>3, SourceChosen, DialogFilled, VersionChosen, Resumed, DialogSubmitted
<1>4. CASE IM!Confirm \/ IM!RequestExecute \/ IM!Decline \/ IM!Back \/ IM!Execute \/ IM!Abort
  BY <1>4, ConfirmStep, RequestStep, DeclineStep, BackStep, ExecuteStep, AbortStep
<1>5. CASE IM!Close \/ IM!Reopen
  BY <1>5, CloseStep, ReopenStep
<1>6. CASE IM!Staged \/ IM!Approved \/ IM!Ran \/ IM!CreatedFromSTEP \/ IM!Aborted \/ IM!Refused
  BY <1>6, StagedStep, ApprovedStep, RanStep, CreatedStep, AbortedStep, RefusedStep
<1> QED BY <1>1, <1>2, <1>3, <1>4, <1>5, <1>6 DEF IM!Next

LEMMA ImportAlways ==
  IM!ImportFormAssumption =>
    (IM!Spec => [](ImportInv) /\ [][IM!RunIsConfirmed /\ IM!NameIsKept]_<<staged, importing, importCalls>>)
<1> SUFFICES ASSUME IM!ImportFormAssumption
             PROVE  IM!Spec => [](ImportInv)
                      /\ [][IM!RunIsConfirmed /\ IM!NameIsKept]_<<staged, importing, importCalls>>
  OBVIOUS
<1>1. ImportInv /\ [IM!Next]_<<staged, importing, importCalls>> => ImportInv'
  BY ImportSteps DEF ImportStep
<1>2. ImportInv /\ [IM!Next]_<<staged, importing, importCalls>>
        => [IM!RunIsConfirmed /\ IM!NameIsKept]_<<staged, importing, importCalls>>
  BY ImportSteps DEF ImportStep
<1> QED BY <1>1, <1>2, ImportInit, PTL DEF IM!Spec, IM!vars

\* The types of ImportForm: what waits is a request of the dialog, about a
\* plan or a version, and the version that is chosen is one of those listed.
THEOREM ImportTyped == IM!ImportFormAssumption => (IM!Spec => []IM!TypeOK)
<1> SUFFICES ASSUME IM!ImportFormAssumption PROVE IM!Spec => []IM!TypeOK
  OBVIOUS
<1>1. ImportInv => IM!TypeOK
  BY DEF ImportInv, IM!TypeOK, NumberedFrom, ImportRequests, PlanStatuses, ImportFits
<1> QED BY <1>1, ImportAlways, PTL

\* ImportPanel's `busy`: however often the dialog is closed under a request
\* and opened again, it is busy while exactly one request of its own can
\* change something, and never because of the request of an earlier dialog.
THEOREM ImportIsBacked == IM!ImportFormAssumption => (IM!Spec => []IM!BusyIsBacked)
<1> SUFFICES ASSUME IM!ImportFormAssumption PROVE IM!Spec => []IM!BusyIsBacked
  OBVIOUS
<1>1. ImportInv => IM!BusyIsBacked
  <2> SUFFICES ASSUME ImportInv, importing.open
               PROVE  IM!Cardinality({c \in importCalls : c.panel = importing.panel /\ c.kind \in IM!Changing})
                        = IF importing.busy THEN 1 ELSE 0
    BY DEF IM!BusyIsBacked
  <2> DEFINE own == {c \in importCalls : c.panel = importing.panel /\ c.kind \in IM!Changing}
  <2>1. IM!Cardinality(own) = Cardinality(own)
    BY DEF IM!Cardinality, Cardinality
  <2>2. Awaited(importing, importCalls)
    BY DEF ImportInv
  <2>3. CASE importing.busy
    <3>1. PICK c \in importCalls : OwnOf(importing, c)
      BY <2>2, <2>3 DEF Awaited
    <3>2. own = {c}
      BY <2>2, <3>1 DEF Awaited, OwnOf
    <3> HIDE DEF own
    <3>3. Cardinality(own) = 1
      BY <3>2, FS_Singleton
    <3> QED BY <2>1, <2>3, <3>3 DEF own
  <2>4. CASE ~importing.busy
    <3>1. own = {}
      BY <2>2, <2>4 DEF Awaited, OwnOf
    <3> HIDE DEF own
    <3>2. Cardinality(own) = 0
      BY <3>1, FS_EmptySet
    <3> QED BY <2>1, <2>4, <3>2 DEF own
  <2> QED BY <2>3, <2>4
<1> QED BY <1>1, ImportAlways, PTL

\* execute and executeSTEP: a request that is billed is sent only from the
\* last question about the plan or version that is shown, once it was
\* confirmed; nothing that changes what is shown leaves the question open.
THEOREM BilledIsConfirmed ==
  IM!ImportFormAssumption => (IM!Spec => [][IM!RunIsConfirmed]_<<staged, importing, importCalls>>)
<1> SUFFICES ASSUME IM!ImportFormAssumption
             PROVE  IM!Spec => [][IM!RunIsConfirmed]_<<staged, importing, importCalls>>
  OBVIOUS
<1>1. [IM!RunIsConfirmed /\ IM!NameIsKept]_<<staged, importing, importCalls>>
        => [IM!RunIsConfirmed]_<<staged, importing, importCalls>>
  OBVIOUS
<1> QED BY <1>1, ImportAlways, PTL

\* setName: the library, whether it arrives or is chosen from, names a project
\* that has no name, and never replaces a name that its user has typed.
THEOREM NameStays ==
  IM!ImportFormAssumption => (IM!Spec => [][IM!NameIsKept]_<<staged, importing, importCalls>>)
<1> SUFFICES ASSUME IM!ImportFormAssumption
             PROVE  IM!Spec => [][IM!NameIsKept]_<<staged, importing, importCalls>>
  OBVIOUS
<1>1. [IM!RunIsConfirmed /\ IM!NameIsKept]_<<staged, importing, importCalls>>
        => [IM!NameIsKept]_<<staged, importing, importCalls>>
  OBVIOUS
<1> QED BY <1>1, ImportAlways, PTL

-----------------------------------------------------------------------------
(***************************************************************************)
(* The page of a project.  Its URL is as the redirects leave it, a request *)
(* that counts is for the resource on screen, and an overlay that covers a *)
(* finished session is about to hide.                                      *)
(***************************************************************************)
Page == [resource : 0 .. Depth, view : 0 .. Depth, draft : DraftSources \cup {0}, known : SUBSET RS!Resources,
         inventory : {"loading", "shown", "failed"}, detail : 0 .. Depth, ended : BOOLEAN, detailLoading : BOOLEAN,
         detailError : BOOLEAN, viewerOf : 0 .. Depth, viewerSettled : BOOLEAN, turns : Nat,
         overlay : [visible : BOOLEAN, session : 0 .. Depth, done : BOOLEAN, hide : BOOLEAN]]
Ask == [of : RS!Resources, cacheOnly : BOOLEAN, current : BOOLEAN]

UrlIsRight(l) ==
  /\ l.inventory = "shown" /\ l.draft # 0 => l.resource = 1
  /\ RS!ActiveStage(l) # 0 => RS!ActiveStage(l) = IF l.view = 0 THEN RS!Selected(l) ELSE l.view
DetailIsRight(l, as) ==
  /\ l.detail # 0 /\ RS!ActiveStage(l) # 0 => l.detail = RS!ActiveStage(l)
  /\ \A a \in as : a.current /\ RS!ActiveStage(l) # 0 => a.of = RS!ActiveStage(l)
  /\ l.detailLoading => \E a \in as : a.current
Hides(o) == o.visible => o.hide \/ ~o.done
PageInv ==
  /\ look \in Page /\ asks \subseteq Ask /\ UrlIsRight(look) /\ DetailIsRight(look, asks)
  /\ Hides(look.overlay) /\ RS!LoadingIsBacked

-----------------------------------------------------------------------------
\* The highest of some places of the branch.
LEMMA Highest ==
  ASSUME RS!ProjectResourcesAssumption, NEW S \in SUBSET RS!Resources, S # {}
  PROVE  RS!Max(S) \in S
<1>1. Depth \in Nat /\ \A x \in S : x \in 1 .. Depth
  BY DEF RS!ProjectResourcesAssumption, RS!Resources
<1> DEFINE Below == {Depth - x : x \in S}
<1>2. Below \subseteq Nat /\ Below # {}
  BY <1>1
<1>3. PICK least \in Below : \A y \in Below : ~ (<<y, least>> \in OpToRel(<, Nat))
  BY <1>2, NatLessThanWellFounded, WFMin
<1>4. \A y \in Below : least <= y
  <2> HIDE DEF Below
  <2>1. \A y \in Below : ~ (y < least)
    BY <1>2, <1>3 DEF OpToRel
  <2> QED BY <1>2, <2>1
<1>5. PICK x \in S : least = Depth - x
  OBVIOUS
<1>6. \A y \in S : x >= y
  <2> TAKE y \in S
  <2>1. Depth - x <= Depth - y
    BY <1>4, <1>5
  <2> QED BY <1>1, <2>1
<1> QED BY <1>6 DEF RS!Max

-----------------------------------------------------------------------------
\* Where a URL leads.
LEMMA Stages ==
  ASSUME RS!ProjectResourcesAssumption, NEW l \in Page
  PROVE  /\ RS!Selected(l) \in RS!Resources /\ RS!Resources \subseteq 0 .. Depth /\ 0 \notin RS!Resources
         /\ RS!Available(l) \subseteq RS!Resources
         /\ RS!DefaultStage(l) \in RS!Available(l) \cup {0}
         /\ RS!ActiveStage(l) \in RS!Available(l) \cup {0}
         /\ l.inventory # "shown" => RS!ActiveStage(l) = 0
         /\ RS!SessionKey(l) \in 0 .. Depth
<1>1. Depth \in Nat \ {0} /\ RS!Resources = 1 .. Depth /\ DraftSources \subseteq RS!Resources
  BY DEF RS!ProjectResourcesAssumption, RS!Resources
<1>2. l.resource \in 0 .. Depth /\ l.draft \in DraftSources \cup {0}
  BY DEF Page
<1>3. RS!Selected(l) \in RS!Resources
  BY <1>1, <1>2 DEF RS!Selected
<1>4. RS!ResourceStageLinks(l) \subseteq RS!Resources
  <2>1. \A n \in 1 .. Depth : 1 .. n \subseteq 1 .. Depth
    BY <1>1
  <2>2. l.draft # 0 => {l.draft} \subseteq RS!Resources
    BY <1>1, <1>2
  <2> QED BY <1>1, <1>3, <2>1, <2>2 DEF RS!ResourceStageLinks
<1>5. RS!Available(l) \subseteq RS!Resources
  BY <1>4 DEF RS!Available
<1>6. RS!DefaultStage(l) \in RS!Available(l) \cup {0}
  <2>1. RS!Available(l) # {} => RS!Max(RS!Available(l)) \in RS!Available(l)
    BY <1>5, Highest
  <2> QED BY <2>1 DEF RS!DefaultStage
<1>7. RS!ActiveStage(l) \in RS!Available(l) \cup {0}
  BY <1>6 DEF RS!ActiveStage
<1>8. RS!Resources \subseteq 0 .. Depth /\ 0 \notin RS!Resources
  BY <1>1
<1> QED BY <1>2, <1>3, <1>5, <1>6, <1>7, <1>8 DEF RS!ActiveStage, RS!SessionKey

\* Only the URL and the inventory decide.
LEMMA SameStages ==
  ASSUME NEW l, NEW m, l.resource = m.resource, l.view = m.view, l.draft = m.draft, l.known = m.known,
         l.inventory = m.inventory
  PROVE  /\ RS!Selected(l) = RS!Selected(m) /\ RS!Available(l) = RS!Available(m)
         /\ RS!ActiveStage(l) = RS!ActiveStage(m) /\ UrlIsRight(l) = UrlIsRight(m)
<1>1. RS!Selected(l) = RS!Selected(m)
  BY DEF RS!Selected
<1>2. RS!ResourceStageLinks(l) = RS!ResourceStageLinks(m)
  BY <1>1 DEF RS!ResourceStageLinks
<1>3. RS!Available(l) = RS!Available(m)
  BY <1>2 DEF RS!Available
<1>4. RS!ActiveStage(l) = RS!ActiveStage(m)
  BY <1>1, <1>3 DEF RS!ActiveStage, RS!DefaultStage
<1> QED BY <1>1, <1>3, <1>4 DEF UrlIsRight

\* A URL that is right is left alone, and a redirect makes it right.
LEMMA RightUrlStays ==
  ASSUME RS!ProjectResourcesAssumption, NEW l \in Page, UrlIsRight(l)
  PROVE  RS!Redirect(l) = l
<1>1. RS!AtRoot(l) = l
  BY DEF UrlIsRight, RS!AtRoot
<1>2. RS!WithStage(l) = l
  BY Stages DEF UrlIsRight, RS!WithStage
<1> QED BY <1>1, <1>2 DEF RS!Redirect

LEMMA Redirected ==
  ASSUME RS!ProjectResourcesAssumption, NEW l \in Page
  PROVE  /\ RS!Redirect(l) \in Page /\ UrlIsRight(RS!Redirect(l))
         /\ RS!Redirect(l).detail = l.detail /\ RS!Redirect(l).detailLoading = l.detailLoading
         /\ RS!Redirect(l).overlay = l.overlay
<1>1. PICK m : m = RS!AtRoot(l)
  OBVIOUS
<1>2. /\ m \in Page /\ m.detail = l.detail /\ m.detailLoading = l.detailLoading /\ m.overlay = l.overlay
      /\ m.inventory = "shown" /\ m.draft # 0 => m.resource = 1
  <2>1. 0 \in 0 .. Depth /\ 1 \in 0 .. Depth
    BY DEF RS!ProjectResourcesAssumption
  <2> QED BY <1>1, <2>1 DEF RS!AtRoot, Page
<1>3. RS!Redirect(l) = RS!WithStage(m)
  BY <1>1 DEF RS!Redirect
<1>4. CASE RS!ActiveStage(m) # 0 /\ (IF m.view = 0 THEN RS!Selected(m) # RS!ActiveStage(m) ELSE m.view # RS!ActiveStage(m))
  <2> DEFINE n == [m EXCEPT !.resource = RS!Selected(m), !.view = RS!ActiveStage(m)]
             stage == RS!ActiveStage(m)
             chosen == RS!Selected(m)
  <2>1. RS!Redirect(l) = n
    BY <1>3, <1>4 DEF RS!WithStage
  <2>2. chosen \in RS!Resources /\ stage \in RS!Available(m) /\ stage \in 0 .. Depth /\ chosen \in 0 .. Depth /\ stage # 0
        /\ m.inventory = "shown"
    BY <1>2, <1>4, Stages
  <2>3. n = [m EXCEPT !.resource = chosen, !.view = stage]
    OBVIOUS
  <2> HIDE DEF n, stage, chosen
  <2>4. /\ n \in Page /\ n.resource = chosen /\ n.view = stage /\ n.draft = m.draft /\ n.known = m.known
        /\ n.inventory = m.inventory /\ n.detail = m.detail /\ n.detailLoading = m.detailLoading /\ n.overlay = m.overlay
    BY <1>2, <2>2, <2>3 DEF Page
  <2>5. RS!Selected(n) = chosen
    BY <2>2, <2>4 DEF RS!Selected
  <2>6. RS!Available(n) = RS!Available(m)
    <3>1. RS!ResourceStageLinks(n) = RS!ResourceStageLinks(m)
      BY <2>4, <2>5 DEF RS!ResourceStageLinks, chosen
    <3> QED BY <2>4, <3>1 DEF RS!Available
  <2>7. RS!ActiveStage(n) = stage
    BY <2>2, <2>4, <2>6 DEF RS!ActiveStage
  <2>8. n.draft # 0 => n.resource = 1
    <3>1. m.draft # 0 => chosen = 1
      BY <1>2, <2>2 DEF RS!Selected, chosen
    <3> QED BY <2>4, <3>1
  <2> QED BY <1>2, <2>1, <2>2, <2>4, <2>7, <2>8 DEF UrlIsRight
<1>5. CASE ~(RS!ActiveStage(m) # 0 /\ (IF m.view = 0 THEN RS!Selected(m) # RS!ActiveStage(m) ELSE m.view # RS!ActiveStage(m)))
  <2>1. RS!Redirect(l) = m
    BY <1>3, <1>5 DEF RS!WithStage
  <2> QED BY <1>2, <1>5, <2>1 DEF UrlIsRight
<1> QED BY <1>4, <1>5

\* The overlay: it covers a session once, and is about to hide when it is done.
LEMMA OverlayIs ==
  ASSUME NEW o \in [visible : BOOLEAN, session : 0 .. Depth, done : BOOLEAN, hide : BOOLEAN], Hides(o),
         NEW session \in 0 .. Depth, NEW active \in BOOLEAN
  PROVE  LET p == RS!Overlay(o, session, active)
         IN  /\ p \in [visible : BOOLEAN, session : 0 .. Depth, done : BOOLEAN, hide : BOOLEAN] /\ Hides(p)
             /\ p.visible => p.hide \/ (active /\ ~p.done)
             /\ o.done /\ ~o.visible /\ p.session = o.session => ~p.visible
<1> DEFINE c == IF session = o.session THEN o ELSE [o EXCEPT !.session = session, !.done = FALSE, !.hide = FALSE]
           p == RS!Overlay(o, session, active)
<1>1. /\ c \in [visible : BOOLEAN, session : 0 .. Depth, done : BOOLEAN, hide : BOOLEAN] /\ Hides(c)
      /\ c.session = session /\ (session = o.session => c = o) /\ (session # o.session => ~c.done)
  BY DEF Hides
<1>2. p = IF active /\ c.done THEN o
          ELSE IF active THEN [c EXCEPT !.visible = TRUE, !.hide = FALSE]
          ELSE IF ~c.visible \/ c.done THEN c
          ELSE [c EXCEPT !.done = TRUE, !.hide = TRUE]
  BY DEF RS!Overlay
<1> HIDE DEF c, p
<1>3. CASE active /\ c.done
  BY <1>1, <1>2, <1>3 DEF Hides, p
<1>4. CASE active /\ ~c.done
  BY <1>1, <1>2, <1>4 DEF Hides, p
<1>5. CASE ~active /\ (~c.visible \/ c.done)
  BY <1>1, <1>2, <1>5 DEF Hides, p
<1>6. CASE ~active /\ ~(~c.visible \/ c.done)
  BY <1>1, <1>2, <1>6 DEF Hides, p
<1> QED BY <1>3, <1>4, <1>5, <1>6

\* A render that covers the page: what it shows and waits for is what was asked.
LEMMA CoveredPage ==
  ASSUME RS!ProjectResourcesAssumption, PageInv, NEW l \in Page, look' = RS!Covered(l), l.overlay = look.overlay,
         UrlIsRight(l), asks' \subseteq Ask, DetailIsRight(l, asks')
  PROVE  PageInv' /\ RS!OverlayOnce
<1> DEFINE o == RS!Overlay(l.overlay, RS!SessionKey(l), RS!TransitionActive(l))
<1>1. RS!SessionKey(l) \in 0 .. Depth /\ RS!TransitionActive(l) \in BOOLEAN
  BY Stages DEF RS!TransitionActive
<1>2. /\ o \in [visible : BOOLEAN, session : 0 .. Depth, done : BOOLEAN, hide : BOOLEAN] /\ Hides(o)
      /\ o.visible => o.hide \/ (RS!TransitionActive(l) /\ ~o.done)
      /\ look.overlay.done /\ ~look.overlay.visible /\ o.session = look.overlay.session => ~o.visible
  <2>1. l.overlay \in [visible : BOOLEAN, session : 0 .. Depth, done : BOOLEAN, hide : BOOLEAN] /\ Hides(l.overlay)
    BY DEF PageInv, Page
  <2> QED BY <1>1, <2>1, OverlayIs
<1>3. look' = [l EXCEPT !.overlay = o]
  BY DEF RS!Covered
<1> HIDE DEF o
<1>4. /\ look' \in Page /\ look'.overlay = o /\ look'.resource = l.resource /\ look'.view = l.view /\ look'.draft = l.draft
      /\ look'.known = l.known /\ look'.inventory = l.inventory
      /\ look'.detail = l.detail /\ look'.detailLoading = l.detailLoading /\ look'.detailError = l.detailError
      /\ look'.viewerOf = l.viewerOf /\ look'.viewerSettled = l.viewerSettled
  BY <1>2, <1>3 DEF Page
<1>5. PICK m : m = look'
  OBVIOUS
<1>6. RS!ActiveStage(m) = RS!ActiveStage(l) /\ UrlIsRight(m)
  BY <1>4, <1>5, SameStages
<1>7. RS!TransitionActive(m) = RS!TransitionActive(l)
  BY <1>4, <1>5, <1>6 DEF RS!TransitionActive, RS!DetailReady
<1>8. DetailIsRight(m, asks')
  BY <1>4, <1>5, <1>6 DEF DetailIsRight
<1>9. PageInv'
  <2>1. UrlIsRight(look)' /\ DetailIsRight(look, asks)' /\ RS!TransitionActive(look)' = RS!TransitionActive(l)
    <3>1. UrlIsRight(look)' = UrlIsRight(m)
      BY <1>5 DEF UrlIsRight, RS!ActiveStage, RS!Selected, RS!DefaultStage, RS!Available, RS!ResourceStageLinks
    <3>2. DetailIsRight(look, asks)' = DetailIsRight(m, asks')
      BY <1>5 DEF DetailIsRight, RS!ActiveStage, RS!Selected, RS!DefaultStage, RS!Available, RS!ResourceStageLinks
    <3>3. RS!TransitionActive(look)' = RS!TransitionActive(m)
      BY <1>5 DEF RS!TransitionActive, RS!DetailReady, RS!ActiveStage, RS!Selected, RS!DefaultStage, RS!Available, RS!ResourceStageLinks
    <3> QED BY <1>6, <1>7, <1>8, <3>1, <3>2, <3>3
  <2>2. RS!LoadingIsBacked'
    BY <1>2, <1>4, <2>1 DEF RS!LoadingIsBacked, DetailIsRight
  <2> QED BY <1>2, <1>4, <2>1, <2>2 DEF PageInv
<1>10. RS!OverlayOnce
  BY <1>2, <1>4 DEF RS!OverlayOnce
<1> QED BY <1>9, <1>10

\* Loading the detail of the stage on screen.
LEMMA Loads ==
  ASSUME RS!ProjectResourcesAssumption, PageInv, NEW l \in Page, l.overlay = look.overlay, UrlIsRight(l),
         l.detailLoading = look.detailLoading, NEW first \in BOOLEAN, RS!LoadDetail(l, asks, first)
  PROVE  PageInv' /\ RS!OverlayOnce
<1>1. RS!ActiveStage(l) \in RS!Resources \cup {0} /\ asks \subseteq Ask
  BY Stages DEF PageInv
<1>2. CASE RS!ActiveStage(l) = 0
  <2>1. look' = RS!Covered(l) /\ asks' = asks
    BY <1>2 DEF RS!LoadDetail
  <2>2. DetailIsRight(l, asks')
    BY <1>2, <2>1 DEF DetailIsRight, PageInv
  <2> QED BY <1>1, <2>1, <2>2, CoveredPage
<1>3. CASE RS!ActiveStage(l) # 0
  <2> DEFINE m == [l EXCEPT !.detail = 0, !.detailLoading = TRUE, !.detailError = FALSE]
             a == [of |-> RS!ActiveStage(l), cacheOnly |-> first, current |-> TRUE]
  <2>1. look' = RS!Covered(m) /\ asks' = RS!Outdated(asks) \cup {a}
    BY <1>3 DEF RS!LoadDetail
  <2>2. /\ m \in Page /\ m.overlay = l.overlay /\ m.detail = 0 /\ m.resource = l.resource /\ m.view = l.view
        /\ m.draft = l.draft /\ m.known = l.known /\ m.inventory = l.inventory
    <3>1. 0 \in 0 .. Depth
      BY DEF RS!ProjectResourcesAssumption
    <3> QED BY <3>1 DEF Page
  <2>3. a \in Ask /\ a.current /\ a.of = RS!ActiveStage(l)
    BY <1>1, <1>3 DEF Ask
  <2>4. RS!Outdated(asks) \subseteq Ask /\ \A b \in RS!Outdated(asks) : ~b.current
    BY <1>1 DEF RS!Outdated, Ask
  <2> HIDE DEF m, a
  <2>5. RS!ActiveStage(m) = RS!ActiveStage(l) /\ UrlIsRight(m)
    BY <2>2, SameStages
  <2>6. DetailIsRight(m, asks')
    BY <2>1, <2>2, <2>3, <2>4, <2>5 DEF DetailIsRight
  <2> QED BY <2>1, <2>2, <2>3, <2>4, <2>5, <2>6, CoveredPage
<1> QED BY <1>2, <1>3

\* A render after a move or a load of the inventory.
LEMMA Renders ==
  ASSUME RS!ProjectResourcesAssumption, PageInv, NEW l \in Page, l.overlay = look.overlay, l.detail = look.detail,
         l.detailLoading = look.detailLoading, NEW reloaded \in BOOLEAN, RS!Render(l, reloaded)
  PROVE  PageInv' /\ RS!OverlayOnce
<1>1. PICK r : r = RS!Redirect(l)
  OBVIOUS
<1>2. /\ r \in Page /\ UrlIsRight(r) /\ r.overlay = look.overlay /\ r.detail = look.detail
      /\ r.detailLoading = look.detailLoading
  BY <1>1, Redirected
<1>3. CASE reloaded \/ RS!ActiveStage(r) # RS!ActiveStage(look)
  <2>1. RS!LoadDetail(r, asks, TRUE)
    BY <1>1, <1>3 DEF RS!Render
  <2> QED BY <1>2, <2>1, Loads
<1>4. CASE ~(reloaded \/ RS!ActiveStage(r) # RS!ActiveStage(look))
  <2>1. look' = RS!Covered(r) /\ asks' = asks
    BY <1>1, <1>4 DEF RS!Render
  <2>2. DetailIsRight(r, asks')
    BY <1>2, <1>4, <2>1 DEF PageInv, DetailIsRight
  <2> QED BY <1>2, <2>1, <2>2, CoveredPage DEF PageInv
<1> QED BY <1>3, <1>4

LEMMA InventoryStep ==
  ASSUME RS!ProjectResourcesAssumption, PageInv, RS!InventoryArrives
  PROVE  PageInv' /\ RS!OverlayOnce
<1>1. look \in Page
  BY DEF PageInv
<1>2. ASSUME NEW known \in SUBSET RS!Resources, RS!Render([look EXCEPT !.inventory = "shown", !.known = known], TRUE)
      PROVE  PageInv' /\ RS!OverlayOnce
  <2> DEFINE l == [look EXCEPT !.inventory = "shown", !.known = known]
  <2>1. /\ l \in Page /\ l.overlay = look.overlay /\ l.detail = look.detail /\ l.detailLoading = look.detailLoading
    BY <1>1 DEF Page
  <2> HIDE DEF l
  <2> QED BY <1>2, <2>1, Renders DEF l
<1>3. ASSUME RS!Render([look EXCEPT !.inventory = "failed"], FALSE)
      PROVE  PageInv' /\ RS!OverlayOnce
  <2> DEFINE l == [look EXCEPT !.inventory = "failed"]
  <2>1. /\ l \in Page /\ l.overlay = look.overlay /\ l.detail = look.detail /\ l.detailLoading = look.detailLoading
    BY <1>1 DEF Page
  <2> HIDE DEF l
  <2> QED BY <1>3, <2>1, Renders DEF l
<1> QED BY <1>2, <1>3 DEF RS!InventoryArrives

LEMMA TurnStep ==
  ASSUME RS!ProjectResourcesAssumption, PageInv,
         RS!selectResource \/ RS!selectCapability \/ RS!openDraftContext \/ RS!OpenURL
  PROVE  PageInv' /\ RS!OverlayOnce
<1>1. look \in Page /\ RS!Resources \subseteq 0 .. Depth /\ RS!Selected(look) \in RS!Resources
      /\ RS!Available(look) \subseteq RS!Resources /\ 0 \in 0 .. Depth /\ 1 \in 0 .. Depth
  BY Stages DEF PageInv, RS!ProjectResourcesAssumption
<1> DEFINE Turns(l) == /\ l \in Page /\ l.overlay = look.overlay /\ l.detail = look.detail
                       /\ l.detailLoading = look.detailLoading /\ RS!Turn(l)
<1>2. ASSUME NEW r \in 0 .. Depth, NEW v \in 0 .. Depth, NEW d \in DraftSources \cup {0}
      PROVE  LET l == [look EXCEPT !.resource = r, !.view = v, !.draft = d]
             IN  /\ l \in Page /\ l.overlay = look.overlay /\ l.detail = look.detail /\ l.detailLoading = look.detailLoading
  BY <1>1 DEF Page
<1>3. ASSUME NEW r \in 0 .. Depth, NEW v \in 0 .. Depth
      PROVE  LET l == [look EXCEPT !.resource = r, !.view = v]
             IN  /\ l \in Page /\ l.overlay = look.overlay /\ l.detail = look.detail /\ l.detailLoading = look.detailLoading
  BY <1>1 DEF Page
<1>4. ASSUME RS!selectResource PROVE \E l : Turns(l)
  <2>1. PICK r \in RS!Resources : RS!Turn([look EXCEPT !.resource = r, !.view = 0])
    BY <1>4 DEF RS!selectResource
  <2> QED BY <1>1, <1>3, <2>1
<1>5. ASSUME RS!selectCapability PROVE \E l : Turns(l)
  <2>1. PICK s \in RS!Available(look) : RS!Turn([look EXCEPT !.resource = RS!Selected(look), !.view = s])
    BY <1>5 DEF RS!selectCapability
  <2> QED BY <1>1, <1>3, <2>1
<1>6. ASSUME RS!openDraftContext PROVE \E l : Turns(l)
  <2>1. PICK d \in DraftSources : RS!Turn([look EXCEPT !.resource = 1, !.view = 0, !.draft = d])
    BY <1>6 DEF RS!openDraftContext
  <2> QED BY <1>1, <1>2, <2>1
<1>7. ASSUME RS!OpenURL PROVE \E l : Turns(l)
  <2>1. PICK r \in 0 .. Depth, v \in 0 .. Depth, d \in DraftSources \cup {0} :
          RS!Turn([look EXCEPT !.resource = r, !.view = v, !.draft = d])
    BY <1>7 DEF RS!OpenURL
  <2> QED BY <1>2, <2>1
<1>8. PICK l : Turns(l)
  BY <1>4, <1>5, <1>6, <1>7
<1> DEFINE m == [l EXCEPT !.turns = @ + 1]
<1>9. RS!Render(m, FALSE)
  BY <1>8 DEF RS!Turn
<1>10. m \in Page /\ m.overlay = look.overlay /\ m.detail = look.detail /\ m.detailLoading = look.detailLoading
  BY <1>8 DEF Page
<1> HIDE DEF m
<1> QED BY <1>9, <1>10, Renders

LEMMA RefreshStep ==
  ASSUME RS!ProjectResourcesAssumption, PageInv, RS!RefreshDetail
  PROVE  PageInv' /\ RS!OverlayOnce
BY Loads DEF PageInv, RS!RefreshDetail

LEMMA ReportStep ==
  ASSUME RS!ProjectResourcesAssumption, PageInv, RS!ViewerReports
  PROVE  PageInv' /\ RS!OverlayOnce
<1> DEFINE stage == RS!ActiveStage(look)
<1>1. look \in Page /\ stage \in 0 .. Depth /\ UNCHANGED asks
  BY Stages DEF PageInv, RS!ViewerReports
<1>2. PICK settled \in BOOLEAN : look' = RS!Covered([look EXCEPT !.viewerOf = stage, !.viewerSettled = settled])
  BY DEF RS!ViewerReports
<1> DEFINE l == [look EXCEPT !.viewerOf = stage, !.viewerSettled = settled]
<1> HIDE DEF stage
<1>3. /\ l \in Page /\ l.overlay = look.overlay /\ l.detail = look.detail /\ l.detailLoading = look.detailLoading
      /\ l.resource = look.resource /\ l.view = look.view /\ l.draft = look.draft /\ l.known = look.known
      /\ l.inventory = look.inventory
  BY <1>1 DEF Page
<1>4. look' = RS!Covered(l)
  BY <1>2
<1> HIDE DEF l
<1>5. RS!ActiveStage(l) = RS!ActiveStage(look) /\ UrlIsRight(l)
  BY <1>3, SameStages DEF PageInv
<1>6. DetailIsRight(l, asks')
  BY <1>1, <1>3, <1>5 DEF PageInv, DetailIsRight
<1> QED BY <1>1, <1>3, <1>4, <1>5, <1>6, CoveredPage DEF PageInv

\* A detail, or nothing, is put on the page by the request that counts.
LEMMA AnswerIsShown ==
  ASSUME RS!ProjectResourcesAssumption, PageInv, NEW a \in asks, NEW l \in Page, look' = RS!Covered(l),
         l.detail = look.detail \/ (a.current /\ l.detail = a.of),
         l.detailLoading = look.detailLoading \/ ~l.detailLoading,
         l.overlay = look.overlay, l.resource = look.resource, l.view = look.view, l.draft = look.draft,
         l.known = look.known, l.inventory = look.inventory,
         \/ asks' = asks \ {a} /\ (a.current => ~l.detailLoading)
         \/ asks' = (asks \ {a}) \cup {[a EXCEPT !.cacheOnly = FALSE]}
  PROVE  PageInv' /\ RS!OverlayOnce
<1>1. RS!ActiveStage(l) = RS!ActiveStage(look) /\ UrlIsRight(l)
  BY SameStages DEF PageInv
<1>2. a \in Ask /\ asks \subseteq Ask
  BY DEF PageInv
<1> DEFINE b == [a EXCEPT !.cacheOnly = FALSE]
<1>3. b \in Ask /\ b.current = a.current /\ b.of = a.of
  BY <1>2 DEF Ask
<1>4. (asks' = asks \ {a} /\ (a.current => ~l.detailLoading)) \/ asks' = (asks \ {a}) \cup {b}
  OBVIOUS
<1> HIDE DEF b
<1>5. asks' \subseteq Ask
  BY <1>2, <1>3, <1>4
<1>6. DetailIsRight(l, asks')
  BY <1>1, <1>2, <1>3, <1>4 DEF PageInv, DetailIsRight
<1> QED BY <1>1, <1>5, <1>6, CoveredPage

LEMMA SnapshotStep ==
  ASSUME RS!ProjectResourcesAssumption, PageInv, NEW a \in asks, RS!SnapshotArrives(a)
  PROVE  PageInv' /\ RS!OverlayOnce
<1>1. look \in Page /\ a.of \in 0 .. Depth
  BY Stages DEF PageInv, Ask
<1>2. PICK hit \in BOOLEAN, ended \in BOOLEAN, whole \in BOOLEAN :
         LET shown == IF hit /\ a.current
                      THEN [look EXCEPT !.detail = a.of, !.ended = ended] ELSE look
             rest == asks \ {a}
         IN  IF hit /\ ended /\ whole
             THEN /\ look' = RS!Covered(IF a.current THEN [shown EXCEPT !.detailLoading = FALSE] ELSE shown)
                  /\ asks' = rest
             ELSE /\ look' = RS!Covered(shown)
                  /\ asks' = rest \union {[a EXCEPT !.cacheOnly = FALSE]}
  BY DEF RS!SnapshotArrives
<1> DEFINE shown == IF hit /\ a.current THEN [look EXCEPT !.detail = a.of, !.ended = ended] ELSE look
           settled == IF a.current THEN [shown EXCEPT !.detailLoading = FALSE] ELSE shown
           Same(l) == /\ l.overlay = look.overlay /\ l.resource = look.resource /\ l.view = look.view /\ l.draft = look.draft
                      /\ l.known = look.known /\ l.inventory = look.inventory /\ l \in Page
                      /\ l.detail = look.detail \/ (a.current /\ l.detail = a.of)
<1>3. Same(shown) /\ shown.detailLoading = look.detailLoading
  BY <1>1 DEF Page
<1>4. IF hit /\ ended /\ whole THEN look' = RS!Covered(settled) /\ asks' = asks \ {a}
      ELSE look' = RS!Covered(shown) /\ asks' = (asks \ {a}) \cup {[a EXCEPT !.cacheOnly = FALSE]}
  BY <1>2
<1> HIDE DEF shown
<1>5. Same(settled) /\ (a.current => ~settled.detailLoading) /\ (~a.current => settled.detailLoading = look.detailLoading)
  BY <1>3 DEF Page
<1> HIDE DEF settled
<1>6. CASE hit /\ ended /\ whole
  BY <1>4, <1>5, <1>6, AnswerIsShown
<1>7. CASE ~(hit /\ ended /\ whole)
  BY <1>3, <1>4, <1>7, AnswerIsShown
<1> QED BY <1>6, <1>7

LEMMA DetailStep ==
  ASSUME RS!ProjectResourcesAssumption, PageInv, NEW a \in asks, RS!DetailArrives(a)
  PROVE  PageInv' /\ RS!OverlayOnce
<1>1. look \in Page /\ a.of \in 0 .. Depth /\ a \in Ask
  BY Stages DEF PageInv, Ask
<1>2. PICK ok \in BOOLEAN, ended \in BOOLEAN :
         look' = IF ~a.current THEN look
                 ELSE RS!Covered([look EXCEPT !.detailLoading = FALSE,
                                              !.detail = IF ok THEN a.of ELSE @,
                                              !.ended = IF ok THEN ended ELSE @,
                                              !.detailError = ~ok /\ look.detail = 0])
  BY DEF RS!DetailArrives
<1>3. asks' = asks \ {a}
  BY DEF RS!DetailArrives
<1>4. CASE a.current
  <2> DEFINE error == ~ok /\ look.detail = 0
             shown == IF ok THEN a.of ELSE look.detail
             end == IF ok THEN ended ELSE look.ended
             l == [look EXCEPT !.detailLoading = FALSE, !.detail = shown, !.ended = end, !.detailError = error]
  <2>1. error \in BOOLEAN /\ end \in BOOLEAN /\ shown \in 0 .. Depth /\ (shown = look.detail \/ shown = a.of)
    BY <1>1 DEF Page
  <2>2. look' = RS!Covered(l)
    BY <1>2, <1>4
  <2> HIDE DEF error, shown, end
  <2>3. /\ l.overlay = look.overlay /\ l.resource = look.resource /\ l.view = look.view /\ l.draft = look.draft
        /\ l.known = look.known /\ l.inventory = look.inventory /\ l \in Page
        /\ l.detail = shown /\ ~l.detailLoading
    BY <1>1, <2>1 DEF Page
  <2> HIDE DEF l
  <2> QED BY <1>3, <1>4, <2>1, <2>2, <2>3, AnswerIsShown
<1>5. CASE ~a.current
  <2>1. look' = look
    BY <1>2, <1>5
  <2>2. DetailIsRight(look, asks')
    BY <1>3, <1>5 DEF DetailIsRight, PageInv
  <2>3. PageInv'
    <3>1. UrlIsRight(look)' /\ DetailIsRight(look, asks)' /\ RS!TransitionActive(look)' = RS!TransitionActive(look)
      <4>1. UrlIsRight(look)' = UrlIsRight(look)
        BY <2>1 DEF UrlIsRight, RS!ActiveStage, RS!Selected, RS!DefaultStage, RS!Available, RS!ResourceStageLinks
      <4>2. DetailIsRight(look, asks)' = DetailIsRight(look, asks')
        BY <2>1 DEF DetailIsRight, RS!ActiveStage, RS!Selected, RS!DefaultStage, RS!Available, RS!ResourceStageLinks
      <4>3. RS!TransitionActive(look)' = RS!TransitionActive(look)
        BY <2>1 DEF RS!TransitionActive, RS!DetailReady, RS!ActiveStage, RS!Selected, RS!DefaultStage, RS!Available, RS!ResourceStageLinks
      <4> QED BY <2>2, <4>1, <4>2, <4>3 DEF PageInv
    <3>2. RS!LoadingIsBacked'
      BY <2>1, <3>1 DEF PageInv, RS!LoadingIsBacked, DetailIsRight
    <3> QED BY <1>3, <2>1, <3>1, <3>2 DEF PageInv
  <2>4. RS!OverlayOnce
    BY <2>1 DEF RS!OverlayOnce
  <2> QED BY <2>3, <2>4
<1> QED BY <1>4, <1>5

\* The overlay's own timers.
LEMMA TimerSteps ==
  ASSUME RS!ProjectResourcesAssumption, PageInv, RS!OverlayTimesOut \/ RS!OverlayHides
  PROVE  PageInv' /\ RS!OverlayOnce
<1>1. PICK o \in [visible : BOOLEAN, session : 0 .. Depth, done : BOOLEAN, hide : BOOLEAN] :
        /\ look' = [look EXCEPT !.overlay = o] /\ asks' = asks /\ (o.visible => o.hide)
        /\ look.overlay.done /\ ~look.overlay.visible => ~o.visible
  <2>1. look.overlay \in [visible : BOOLEAN, session : 0 .. Depth, done : BOOLEAN, hide : BOOLEAN]
    BY DEF PageInv, Page
  <2>2. CASE RS!OverlayTimesOut
    <3> DEFINE o == [look.overlay EXCEPT !.done = TRUE, !.hide = TRUE]
    <3>1. /\ o \in [visible : BOOLEAN, session : 0 .. Depth, done : BOOLEAN, hide : BOOLEAN] /\ o.hide
          /\ ~look.overlay.done
      BY <2>1, <2>2 DEF RS!OverlayTimesOut
    <3>2. look' = [look EXCEPT !.overlay = o] /\ asks' = asks
      BY <2>2 DEF RS!OverlayTimesOut
    <3> HIDE DEF o
    <3> QED BY <3>1, <3>2
  <2>3. CASE RS!OverlayHides
    <3> DEFINE o == [look.overlay EXCEPT !.visible = FALSE, !.hide = FALSE]
    <3>1. o \in [visible : BOOLEAN, session : 0 .. Depth, done : BOOLEAN, hide : BOOLEAN] /\ ~o.visible
      BY <2>1
    <3>2. look' = [look EXCEPT !.overlay = o] /\ asks' = asks
      BY <2>3 DEF RS!OverlayHides
    <3> HIDE DEF o
    <3> QED BY <3>1, <3>2
  <2> QED BY <2>2, <2>3
<1>2. /\ look' \in Page /\ look'.overlay = o /\ look'.resource = look.resource /\ look'.view = look.view
      /\ look'.draft = look.draft /\ look'.known = look.known /\ look'.inventory = look.inventory
      /\ look'.detail = look.detail /\ look'.detailLoading = look.detailLoading
  BY <1>1 DEF PageInv, Page
<1>3. PICK m : m = look'
  OBVIOUS
<1>4. RS!ActiveStage(m) = RS!ActiveStage(look) /\ UrlIsRight(m)
  BY <1>2, <1>3, SameStages DEF PageInv
<1>5. DetailIsRight(m, asks')
  BY <1>1, <1>2, <1>3, <1>4 DEF DetailIsRight, PageInv
<1>6. UrlIsRight(look)' /\ DetailIsRight(look, asks)'
  <2>1. UrlIsRight(look)' = UrlIsRight(m)
    BY <1>3 DEF UrlIsRight, RS!ActiveStage, RS!Selected, RS!DefaultStage, RS!Available, RS!ResourceStageLinks
  <2>2. DetailIsRight(look, asks)' = DetailIsRight(m, asks')
    BY <1>3 DEF DetailIsRight, RS!ActiveStage, RS!Selected, RS!DefaultStage, RS!Available, RS!ResourceStageLinks
  <2> QED BY <1>4, <1>5, <2>1, <2>2
<1>7. Hides(look.overlay)' /\ RS!LoadingIsBacked'
  BY <1>1, <1>2, <1>6 DEF Hides, RS!LoadingIsBacked, DetailIsRight
<1> QED BY <1>1, <1>2, <1>6, <1>7 DEF PageInv, RS!OverlayOnce

LEMMA PageInit == RS!ProjectResourcesAssumption /\ RS!Init => PageInv
<1> SUFFICES ASSUME RS!ProjectResourcesAssumption, RS!Init PROVE PageInv
  OBVIOUS
<1>1. PICK r \in 0 .. Depth, d \in DraftSources \cup {0} :
         look = [resource |-> r, view |-> 0, draft |-> d, known |-> {}, inventory |-> "loading",
                 detail |-> 0, ended |-> FALSE, detailLoading |-> FALSE, detailError |-> FALSE,
                 viewerOf |-> 0, viewerSettled |-> FALSE, turns |-> 0,
                 overlay |-> [visible |-> TRUE, session |-> r, done |-> FALSE, hide |-> FALSE]]
  BY DEF RS!Init
<1>2. 0 \in 0 .. Depth /\ asks = {}
  BY DEF RS!Init, RS!ProjectResourcesAssumption
<1>3. /\ look \in Page /\ look.inventory = "loading" /\ look.detail = 0 /\ look.detailLoading = FALSE
      /\ look.overlay.visible = TRUE /\ look.overlay.done = FALSE
  BY <1>1, <1>2 DEF Page
<1>4. RS!ActiveStage(look) = 0
  BY <1>3 DEF RS!ActiveStage
<1>5. UrlIsRight(look) /\ DetailIsRight(look, asks) /\ Hides(look.overlay)
  BY <1>2, <1>3, <1>4 DEF UrlIsRight, DetailIsRight, Hides
<1>6. RS!LoadingIsBacked
  BY <1>3 DEF RS!LoadingIsBacked, RS!TransitionActive
<1> QED BY <1>2, <1>3, <1>5, <1>6 DEF PageInv

LEMMA PageNext ==
  RS!ProjectResourcesAssumption /\ PageInv /\ [RS!Next]_RS!lookVars => PageInv' /\ [RS!OverlayOnce]_RS!lookVars
<1> SUFFICES ASSUME RS!ProjectResourcesAssumption, PageInv, [RS!Next]_RS!lookVars
             PROVE  PageInv' /\ [RS!OverlayOnce]_RS!lookVars
  OBVIOUS
<1>1. CASE RS!Next
  BY <1>1, InventoryStep, RefreshStep, ReportStep, TimerSteps, SnapshotStep, DetailStep, TurnStep DEF RS!Next
<1>2. CASE UNCHANGED RS!lookVars
  <2>1. look' = look /\ asks' = asks
    BY <1>2 DEF RS!lookVars
  <2> QED BY <1>2, <2>1 DEF PageInv, UrlIsRight, DetailIsRight, Hides, RS!LoadingIsBacked, RS!TransitionActive, RS!DetailReady,
                            RS!ActiveStage, RS!Selected, RS!DefaultStage, RS!Available, RS!ResourceStageLinks
<1> QED BY <1>1, <1>2

LEMMA PageAlways == RS!ProjectResourcesAssumption => (RS!Spec => []PageInv)
<1> SUFFICES ASSUME RS!ProjectResourcesAssumption PROVE RS!Spec => []PageInv
  OBVIOUS
<1> QED BY PageInit, PageNext, PTL DEF RS!Spec

\* The page of a project and its requests keep their types.
THEOREM PageTyped == RS!ProjectResourcesAssumption => (RS!Spec => []RS!TypeOK)
<1> SUFFICES ASSUME RS!ProjectResourcesAssumption PROVE RS!Spec => []RS!TypeOK
  OBVIOUS
<1>1. PageInv => RS!TypeOK
  BY DEF PageInv, Page, Ask, RS!TypeOK
<1> QED BY <1>1, PageAlways, PTL

\* The detail on screen is that of the resource on screen, although requests
\* overlap when resources are selected, refreshed or reloaded meanwhile.
THEOREM DetailIsOnScreen == RS!ProjectResourcesAssumption => (RS!Spec => []RS!DetailIsOfResource)
<1> SUFFICES ASSUME RS!ProjectResourcesAssumption PROVE RS!Spec => []RS!DetailIsOfResource
  OBVIOUS
<1>1. PageInv => RS!DetailIsOfResource
  BY DEF PageInv, DetailIsRight, RS!DetailIsOfResource
<1> QED BY <1>1, PageAlways, PTL

\* The detail is loading only while the request that counts is under way, and
\* what covers the page has a timer or a transition that uncovers it.
THEOREM PageIsBacked == RS!ProjectResourcesAssumption => (RS!Spec => []RS!LoadingIsBacked)
<1> SUFFICES ASSUME RS!ProjectResourcesAssumption PROVE RS!Spec => []RS!LoadingIsBacked
  OBVIOUS
<1>1. PageInv => RS!LoadingIsBacked
  BY DEF PageInv
<1> QED BY <1>1, PageAlways, PTL

\* The effects that correct the URL do not chase each other: once an inventory
\* is shown, the URL is as they would leave it.
THEOREM UrlNeedsNoCorrection == RS!ProjectResourcesAssumption => (RS!Spec => []RS!RedirectsSettle)
<1> SUFFICES ASSUME RS!ProjectResourcesAssumption PROVE RS!Spec => []RS!RedirectsSettle
  OBVIOUS
<1>1. PageInv => RS!RedirectsSettle
  BY RightUrlStays DEF PageInv, RS!RedirectsSettle
<1> QED BY <1>1, PageAlways, PTL

\* A session that was uncovered is not covered again, by a refresh or a report
\* of the viewer.
THEOREM OverlayCoversOnce == RS!ProjectResourcesAssumption => (RS!Spec => [][RS!OverlayOnce]_RS!lookVars)
<1> SUFFICES ASSUME RS!ProjectResourcesAssumption PROVE RS!Spec => [][RS!OverlayOnce]_RS!lookVars
  OBVIOUS
<1> QED BY PageAlways, PageNext, PTL DEF RS!Spec

-----------------------------------------------------------------------------
(***************************************************************************)
(* The tree of folders and its dialogs.  A folder that is selected was     *)
(* stored and ends the search for that of the last visit, and a dialog     *)
(* that is busy has its very request out.                                  *)
(***************************************************************************)
HomeFields == {"tree", "loading", "stored", "restored", "selected", "projects", "listing", "expanded", "query", "menu", "steps"}
ReadFields == {"of", "folder", "at", "have", "then"}
BoxFields == {"mode", "target", "parent", "confirmed", "busy"}
Listed(s) == Len(s) \in Nat /\ s = [i \in 1..Len(s) |-> s[i]]
HomeHolds(h) ==
  /\ DOMAIN h = HomeFields /\ h.steps \in Nat
  /\ h.selected # NoFolder => h.stored = h.selected /\ h.restored
ReadsHold(rs) == Listed(rs) /\ \A i \in 1..Len(rs) : DOMAIN rs[i] = ReadFields
Reading(rs, of) == \E i \in 1..Len(rs) : rs[i].of = of
SpinnersHold(h, rs) == (h.loading => Reading(rs, "folders")) /\ (h.listing => Reading(rs, "projects"))
BoxHolds(o) ==
  /\ DOMAIN o = {"dialog", "sent"} /\ DOMAIN o.dialog = BoxFields /\ Listed(o.sent)
  /\ o.dialog.busy => \E i \in 1..Len(o.sent) : o.sent[i].mode = o.dialog.mode /\ o.sent[i].target = o.dialog.target
FoldersInv == HomeHolds(home) /\ ReadsHold(reads) /\ SpinnersHold(home, reads) /\ BoxHolds(opened)

-----------------------------------------------------------------------------
LEMMA ListIs ==
  ASSUME NEW s, Listed(s)
  PROVE  s \in Seq({s[i] : i \in 1..Len(s)}) /\ DOMAIN s = 1..Len(s)
<1> DEFINE n == Len(s)  S == {s[i] : i \in 1..n}
<1>1. n \in Nat /\ s = [i \in 1..n |-> s[i]]  BY DEF Listed
<1>2. \A i \in 1..n : s[i] \in S  OBVIOUS
<1> HIDE DEF n, S
<1>3. s \in [1..n -> S]  BY <1>1, <1>2
<1>4. s \in Seq(S)  BY <1>1, <1>3, SeqDef
<1>5. DOMAIN s = 1..n  BY <1>1
<1> QED BY <1>4, <1>5 DEF n, S

LEMMA SeqIsListed ==
  ASSUME NEW S, NEW s \in Seq(S)
  PROVE  Listed(s)
  BY DEF Listed

\* One more at the end.
LEMMA OneMore ==
  ASSUME NEW s, Listed(s), NEW x
  PROVE  /\ Listed(Append(s, x)) /\ Len(Append(s, x)) = Len(s) + 1 /\ Append(s, x)[Len(s) + 1] = x
         /\ \A i \in 1..Len(s) : Append(s, x)[i] = s[i]
<1> DEFINE S == {s[i] : i \in 1..Len(s)} \cup {x}
<1>1. s \in Seq(S) /\ x \in S
  <2>1. s \in Seq({s[i] : i \in 1..Len(s)})  BY ListIs
  <2> DEFINE T == {s[i] : i \in 1..Len(s)}
  <2>2. T \subseteq S  OBVIOUS
  <2>3. s \in Seq(T)  BY <2>1
  <2> HIDE DEF T, S
  <2>4. s \in Seq(S)  BY <2>2, <2>3
  <2> QED BY <2>4 DEF S
<1> HIDE DEF S
<1>2. /\ Append(s, x) \in Seq(S) /\ Len(Append(s, x)) = Len(s) + 1 /\ Append(s, x)[Len(s) + 1] = x
      /\ \A i \in 1..Len(s) : Append(s, x)[i] = s[i]
  BY <1>1, AppendProperties
<1> QED BY <1>2, SeqIsListed

\* One less: what was at i is gone, the others are there.
LEMMA OneLess ==
  ASSUME NEW s, Listed(s), NEW i \in 1..Len(s)
  PROVE  /\ Listed(WF!RemoveAt(s, i)) /\ Len(WF!RemoveAt(s, i)) = Len(s) - 1
         /\ \A j \in 1..Len(s) : j # i => \E k \in 1..Len(s) - 1 : WF!RemoveAt(s, i)[k] = s[j]
         /\ \A k \in 1..Len(s) - 1 : \E j \in 1..Len(s) : WF!RemoveAt(s, i)[k] = s[j]
<1> DEFINE S == {s[j] : j \in 1..Len(s)}  n == Len(s)
           front == SubSeq(s, 1, i - 1)  back == SubSeq(s, i + 1, n)  q == front \o back
<1>1. n \in Nat /\ i \in 1..n /\ \A j \in 1..n : s[j] \in S
  BY DEF Listed
<1> HIDE DEF S, n
<1>2. front \in Seq(S) /\ Len(front) = i - 1 /\ \A j \in 1..i - 1 : front[j] = s[j]
  <2>1. 1 \in Int /\ i - 1 \in Int /\ \A j \in 1..i - 1 : s[j] \in S  BY <1>1
  <2>2. /\ front \in Seq(S) /\ Len(front) = IF 1 <= i - 1 THEN i - 1 - 1 + 1 ELSE 0
        /\ \A j \in 1..i - 1 - 1 + 1 : front[j] = s[1 + j - 1]
    BY <2>1, SubSeqProperties
  <2> HIDE DEF front
  <2>3. Len(front) = i - 1  BY <1>1, <2>2
  <2>4. ASSUME NEW j \in 1..i - 1 PROVE front[j] = s[j]
    <3>1. j \in 1..i - 1 - 1 + 1 /\ 1 + j - 1 = j  BY <1>1
    <3> QED BY <2>2, <3>1
  <2> QED BY <2>2, <2>3, <2>4
<1>3. back \in Seq(S) /\ Len(back) = n - i /\ \A j \in 1..n - i : back[j] = s[i + j]
  <2>1. i + 1 \in Int /\ n \in Int /\ \A j \in i + 1..n : s[j] \in S  BY <1>1
  <2>2. /\ back \in Seq(S) /\ Len(back) = IF i + 1 <= n THEN n - (i + 1) + 1 ELSE 0
        /\ \A j \in 1..n - (i + 1) + 1 : back[j] = s[(i + 1) + j - 1]
    BY <2>1, SubSeqProperties
  <2> HIDE DEF back
  <2>3. Len(back) = n - i  BY <1>1, <2>2
  <2>4. ASSUME NEW j \in 1..n - i PROVE back[j] = s[i + j]
    <3>1. j \in 1..n - (i + 1) + 1 /\ (i + 1) + j - 1 = i + j  BY <1>1
    <3> QED BY <2>2, <3>1
  <2> QED BY <2>2, <2>3, <2>4
<1> HIDE DEF front, back
<1>4. /\ q \in Seq(S) /\ Len(q) = n - 1
      /\ \A k \in 1..n - 1 : q[k] = IF k <= i - 1 THEN front[k] ELSE back[k - (i - 1)]
  <2>1. /\ q \in Seq(S) /\ Len(q) = Len(front) + Len(back)
        /\ \A k \in 1..Len(front) + Len(back) : q[k] = IF k <= Len(front) THEN front[k] ELSE back[k - Len(front)]
    BY <1>2, <1>3, ConcatProperties
  <2> HIDE DEF q
  <2>2. Len(front) + Len(back) = n - 1  BY <1>1, <1>2, <1>3
  <2> QED BY <1>2, <2>1, <2>2
<1> HIDE DEF q
<1>5. ASSUME NEW j \in 1..n, j # i PROVE \E k \in 1..n - 1 : q[k] = s[j]
  <2>1. CASE j < i
    <3>1. j \in 1..n - 1 /\ j <= i - 1 /\ j \in 1..i - 1  BY <1>1, <2>1
    <3> QED BY <1>2, <1>4, <3>1
  <2>2. CASE ~(j < i)
    <3>1. j - 1 \in 1..n - 1 /\ ~(j - 1 <= i - 1) /\ (j - 1) - (i - 1) = j - i /\ j - i \in 1..n - i /\ i + (j - i) = j
      BY <1>1, <1>5, <2>2
    <3>2. q[j - 1] = s[j]  BY <1>3, <1>4, <3>1
    <3> QED BY <3>1, <3>2
  <2> QED BY <2>1, <2>2
<1>6. ASSUME NEW k \in 1..n - 1 PROVE \E j \in 1..n : q[k] = s[j]
  <2>1. CASE k <= i - 1
    <3>1. k \in 1..n /\ k \in 1..i - 1  BY <1>1, <2>1
    <3> QED BY <1>2, <1>4, <2>1, <3>1
  <2>2. CASE ~(k <= i - 1)
    <3>1. k - (i - 1) \in 1..n - i /\ i + (k - (i - 1)) = k + 1 /\ k + 1 \in 1..n  BY <1>1, <2>2
    <3>2. q[k] = s[k + 1]  BY <1>3, <1>4, <2>2, <3>1
    <3> QED BY <3>1, <3>2
  <2> QED BY <2>1, <2>2
<1>7. q = WF!RemoveAt(s, i)  BY DEF q, front, back, n, WF!RemoveAt
<1> QED BY <1>4, <1>5, <1>6, <1>7, SeqIsListed DEF n

\* The reads that wait, with one more, one answered by the cache, and one less.
LEMMA ReadAdded ==
  ASSUME NEW rs, ReadsHold(rs), NEW r, DOMAIN r = ReadFields
  PROVE  /\ ReadsHold(Append(rs, r)) /\ Reading(Append(rs, r), r.of)
         /\ \A of \in {"folders", "projects"} : Reading(rs, of) => Reading(Append(rs, r), of)
<1> DEFINE q == Append(rs, r)
<1>1. Listed(rs) /\ Len(rs) \in Nat /\ \A i \in 1..Len(rs) : DOMAIN rs[i] = ReadFields  BY DEF ReadsHold, Listed
<1>2. Listed(q) /\ Len(q) = Len(rs) + 1 /\ q[Len(rs) + 1] = r /\ \A i \in 1..Len(rs) : q[i] = rs[i]
  BY <1>1, OneMore
<1> HIDE DEF q
<1>3. \A i \in 1..Len(q) : i \in 1..Len(rs) \/ i = Len(rs) + 1  BY <1>1, <1>2
<1>4. 1..Len(rs) \subseteq 1..Len(q) /\ Len(rs) + 1 \in 1..Len(q)  BY <1>1, <1>2
<1>5. ReadsHold(q)  BY <1>1, <1>2, <1>3 DEF ReadsHold
<1>6. Reading(q, r.of)  BY <1>2, <1>4 DEF Reading
<1>7. \A of \in {"folders", "projects"} : Reading(rs, of) => Reading(q, of)  BY <1>2, <1>4 DEF Reading
<1> QED BY <1>5, <1>6, <1>7 DEF q

LEMMA ReadMarked ==
  ASSUME NEW rs, ReadsHold(rs), NEW i \in 1..Len(rs), NEW r, DOMAIN r = ReadFields, r.of = rs[i].of
  PROVE  /\ ReadsHold([rs EXCEPT ![i] = r])
         /\ \A of \in {"folders", "projects"} : Reading(rs, of) => Reading([rs EXCEPT ![i] = r], of)
<1> DEFINE q == [rs EXCEPT ![i] = r]  n == Len(rs)
<1>1. Listed(rs) /\ n \in Nat /\ \A j \in 1..n : DOMAIN rs[j] = ReadFields  BY DEF ReadsHold, Listed
<1>2. DOMAIN rs = 1..n  BY <1>1, ListIs
<1>3. DOMAIN q = 1..n /\ q[i] = r /\ \A j \in 1..n : j # i => q[j] = rs[j]  BY <1>2
<1>4. q = [j \in 1..n |-> q[j]]  BY <1>2
<1> HIDE DEF q, n
<1> DEFINE S == {q[j] : j \in 1..n}
<1>5. \A j \in 1..n : q[j] \in S  OBVIOUS
<1> HIDE DEF S
<1>6. q \in [1..n -> S]  BY <1>4, <1>5
<1>7. q \in Seq(S)  BY <1>1, <1>6, SeqDef
<1>8. Len(q) = n  BY <1>1, <1>3, <1>7
<1>9. Listed(q)  BY <1>7, SeqIsListed
<1>10. \A j \in 1..n : DOMAIN q[j] = ReadFields /\ q[j].of = rs[j].of
  <2> SUFFICES ASSUME NEW j \in 1..n PROVE DOMAIN q[j] = ReadFields /\ q[j].of = rs[j].of
    OBVIOUS
  <2>1. CASE j = i  BY <1>3, <2>1
  <2>2. CASE j # i  BY <1>1, <1>3, <2>2
  <2> QED BY <2>1, <2>2
<1>11. ReadsHold(q)  BY <1>8, <1>9, <1>10 DEF ReadsHold
<1>12. \A of \in {"folders", "projects"} : Reading(rs, of) => Reading(q, of)  BY <1>8, <1>10 DEF Reading, n
<1> QED BY <1>11, <1>12 DEF q

LEMMA ReadTaken ==
  ASSUME NEW rs, ReadsHold(rs), NEW i \in 1..Len(rs)
  PROVE  /\ ReadsHold(WF!RemoveAt(rs, i))
         /\ \A of \in {"folders", "projects"} : of # rs[i].of /\ Reading(rs, of) => Reading(WF!RemoveAt(rs, i), of)
<1> DEFINE q == WF!RemoveAt(rs, i)
<1>1. Listed(rs) /\ Len(rs) \in Nat /\ \A j \in 1..Len(rs) : DOMAIN rs[j] = ReadFields  BY DEF ReadsHold, Listed
<1>2. /\ Listed(q) /\ Len(q) = Len(rs) - 1
      /\ \A j \in 1..Len(rs) : j # i => \E k \in 1..Len(rs) - 1 : q[k] = rs[j]
      /\ \A k \in 1..Len(rs) - 1 : \E j \in 1..Len(rs) : q[k] = rs[j]
  BY <1>1, OneLess
<1> HIDE DEF q
<1>3. ReadsHold(q)
  <2> SUFFICES ASSUME NEW k \in 1..Len(q) PROVE DOMAIN q[k] = ReadFields
    BY <1>2 DEF ReadsHold
  <2>1. \E j \in 1..Len(rs) : q[k] = rs[j]  BY <1>2
  <2> QED BY <1>1, <2>1
<1>4. \A of \in {"folders", "projects"} : of # rs[i].of /\ Reading(rs, of) => Reading(q, of)
  <2> SUFFICES ASSUME NEW of \in {"folders", "projects"}, of # rs[i].of, Reading(rs, of) PROVE Reading(q, of)
    OBVIOUS
  <2>1. PICK j \in 1..Len(rs) : rs[j].of = of  BY DEF Reading
  <2>2. PICK k \in 1..Len(rs) - 1 : q[k] = rs[j]  BY <1>2, <2>1
  <2> QED BY <1>2, <2>1, <2>2 DEF Reading
<1> QED BY <1>3, <1>4 DEF q

LEMMA ReadsAre ==
  ASSUME NEW b, NEW f
  PROVE  /\ DOMAIN WF!FoldersRead(b) = ReadFields /\ WF!FoldersRead(b).of = "folders"
         /\ DOMAIN WF!ProjectsRead(f, b) = ReadFields /\ WF!ProjectsRead(f, b).of = "projects"
  BY DEF WF!FoldersRead, WF!ProjectsRead, ReadFields

LEMMA SelectIs ==
  ASSUME NEW h, DOMAIN h = HomeFields, h.steps \in Nat, NEW f
  PROVE  /\ HomeHolds(WF!Select(h, f)) /\ WF!Select(h, f).selected = f /\ WF!Select(h, f).listing = TRUE
         /\ WF!Select(h, f).loading = h.loading /\ WF!Select(h, f).steps = h.steps
<1> DEFINE p == WF!Select(h, f)
<1>1. /\ DOMAIN p = HomeFields /\ p.restored = TRUE /\ p.stored = f /\ p.selected = f /\ p.listing = TRUE
      /\ p.loading = h.loading /\ p.steps = h.steps
  BY DEF WF!Select, HomeFields
<1> HIDE DEF p
<1>2. HomeHolds(p)  BY <1>1 DEF HomeHolds
<1> QED BY <1>1, <1>2 DEF p

LEMMA ExpandedIs ==
  ASSUME NEW h, HomeHolds(h)
  PROVE  /\ HomeHolds(WF!Expanded(h)) /\ WF!Expanded(h).selected = h.selected /\ WF!Expanded(h).listing = h.listing
         /\ WF!Expanded(h).loading = h.loading /\ WF!Expanded(h).steps = h.steps
<1> DEFINE p == WF!Expanded(h)
<1>1. DOMAIN h = HomeFields  BY DEF HomeHolds
<1>2. DOMAIN p = HomeFields /\ \A x \in HomeFields \ {"expanded"} : p[x] = h[x]
  <2>1. CASE h.tree # NoFolder /\ h.selected # home.selected
    <3>1. p = [h EXCEPT !.expanded = h.expanded \union WF!AncestorIds(h.tree, h.selected)]  BY <2>1 DEF WF!Expanded
    <3> HIDE DEF p
    <3> QED BY <1>1, <3>1
  <2>2. CASE ~(h.tree # NoFolder /\ h.selected # home.selected)
    <3>1. p = h  BY <2>2 DEF WF!Expanded
    <3> HIDE DEF p
    <3> QED BY <1>1, <3>1
  <2> QED BY <2>1, <2>2
<1> HIDE DEF p
<1>3. /\ p.selected = h.selected /\ p.stored = h.stored /\ p.restored = h.restored /\ p.listing = h.listing
      /\ p.loading = h.loading /\ p.steps = h.steps
  BY <1>2 DEF HomeFields
<1>4. HomeHolds(p)  BY <1>2, <1>3 DEF HomeHolds
<1> QED BY <1>3, <1>4 DEF p

\* The page as it is drawn: what was chosen stays, and a folder of the last
\* visit that is found is read.
LEMMA PageIs ==
  ASSUME NEW h, NEW rs, HomeHolds(h), ReadsHold(rs), SpinnersHold(h, rs), WF!Page(h, rs)
  PROVE  /\ HomeHolds(home') /\ ReadsHold(reads') /\ SpinnersHold(home', reads') /\ home'.steps = h.steps
         /\ h.selected # NoFolder => home'.selected = h.selected
<1>1. CASE WF!Restores(h)
  <2> DEFINE p == WF!Select(h, h.stored)  r == WF!ProjectsRead(h.stored, TRUE)
  <2>1. home' = WF!Expanded(p) /\ reads' = Append(rs, r)  BY <1>1 DEF WF!Page
  <2>2. HomeHolds(p) /\ p.listing = TRUE /\ p.loading = h.loading /\ p.steps = h.steps
    BY SelectIs DEF HomeHolds
  <2>3. DOMAIN r = ReadFields /\ r.of = "projects"  BY ReadsAre
  <2> HIDE DEF p, r
  <2>4. HomeHolds(home') /\ home'.listing = TRUE /\ home'.loading = h.loading /\ home'.steps = h.steps
    BY <2>1, <2>2, ExpandedIs
  <2>5. /\ ReadsHold(reads') /\ Reading(reads', "projects")
        /\ Reading(rs, "folders") => Reading(reads', "folders")
    BY <2>1, <2>3, ReadAdded
  <2>6. h.selected = NoFolder  BY <1>1 DEF WF!Restores, HomeHolds
  <2> QED BY <2>4, <2>5, <2>6 DEF SpinnersHold
<1>2. CASE ~WF!Restores(h)
  <2> DEFINE p == IF h.tree # NoFolder /\ h.stored = NoFolder THEN [h EXCEPT !.restored = TRUE] ELSE h
  <2>1. home' = WF!Expanded(p) /\ reads' = rs  BY <1>2 DEF WF!Page
  <2>2. HomeHolds(p) /\ p.selected = h.selected /\ p.listing = h.listing /\ p.loading = h.loading /\ p.steps = h.steps
    <3>1. CASE h.tree # NoFolder /\ h.stored = NoFolder
      <4>1. p = [h EXCEPT !.restored = TRUE]  BY <3>1
      <4> HIDE DEF p
      <4>2. /\ DOMAIN p = HomeFields /\ p.restored = TRUE /\ p.selected = h.selected /\ p.stored = h.stored
            /\ p.listing = h.listing /\ p.loading = h.loading /\ p.steps = h.steps
        BY <4>1 DEF HomeHolds, HomeFields
      <4> QED BY <4>2 DEF HomeHolds
    <3>2. CASE ~(h.tree # NoFolder /\ h.stored = NoFolder)  BY <3>2
    <3> QED BY <3>1, <3>2
  <2> HIDE DEF p
  <2>3. /\ HomeHolds(home') /\ home'.selected = h.selected /\ home'.listing = h.listing /\ home'.loading = h.loading
        /\ home'.steps = h.steps
    BY <2>1, <2>2, ExpandedIs
  <2> QED BY <2>1, <2>3 DEF SpinnersHold
<1> QED BY <1>1, <1>2

\* A page that keeps what was chosen, and one on which something was done.
LEMMA PageKeeps ==
  ASSUME FoldersInv, NEW h, NEW rs, HomeHolds(h), ReadsHold(rs), SpinnersHold(h, rs), WF!Page(h, rs), BoxHolds(opened'),
         \/ h.selected = home.selected
         \/ h.steps > home.steps
         \/ opened'.sent # opened.sent
         \/ h.selected # NoFolder /\ \E r \in WF!ToSet(reads) : r.then = h.selected
  PROVE  FoldersInv' /\ WF!RestoreKeepsChoice
<1>1. /\ HomeHolds(home') /\ ReadsHold(reads') /\ SpinnersHold(home', reads') /\ home'.steps = h.steps
      /\ h.selected # NoFolder => home'.selected = h.selected
  BY PageIs
<1>2. FoldersInv'  BY <1>1 DEF FoldersInv
<1>3. WF!RestoreKeepsChoice  BY <1>1 DEF WF!RestoreKeepsChoice
<1> QED BY <1>2, <1>3

\* The page after a click, and with its spinners ended.
LEMMA SteppedIs ==
  ASSUME FoldersInv
  PROVE  /\ HomeHolds(WF!Stepped) /\ WF!Stepped.steps > home.steps /\ WF!Stepped.loading = home.loading
         /\ WF!Stepped.listing = home.listing /\ SpinnersHold(WF!Stepped, reads)
<1> DEFINE p == WF!Stepped
<1>1. HomeHolds(home) /\ SpinnersHold(home, reads)  BY DEF FoldersInv
<1>2. /\ DOMAIN p = HomeFields /\ p.steps = home.steps + 1 /\ p.restored = home.restored /\ p.selected = home.selected
      /\ p.stored = home.stored /\ p.listing = home.listing /\ p.loading = home.loading
  BY <1>1 DEF WF!Stepped, HomeHolds, HomeFields
<1> HIDE DEF p
<1>3. HomeHolds(p) /\ p.steps > home.steps  BY <1>1, <1>2 DEF HomeHolds
<1>4. SpinnersHold(p, reads)  BY <1>1, <1>2 DEF SpinnersHold
<1> QED BY <1>2, <1>3, <1>4 DEF p

-----------------------------------------------------------------------------
LEMMA FoldersArriveKeeps ==
  ASSUME FoldersInv, WF!FoldersArrive
  PROVE  FoldersInv' /\ WF!RestoreKeepsChoice
<1>0. HomeHolds(home) /\ ReadsHold(reads) /\ SpinnersHold(home, reads) /\ BoxHolds(opened)  BY DEF FoldersInv
<1>1. DOMAIN reads = 1..Len(reads)  BY <1>0, ListIs DEF ReadsHold
<1>2. PICK i \in 1..Len(reads) :
        LET r == reads[i]
            rest == WF!RemoveAt(reads, i)
            next == IF r.then = NoFolder THEN rest ELSE Append(rest, WF!ProjectsRead(r.then, TRUE))
            Shown(h) == IF r.then = NoFolder THEN [h EXCEPT !.loading = FALSE]
                        ELSE WF!Select([h EXCEPT !.loading = FALSE], r.then)
        IN  /\ r.of = "folders" /\ UNCHANGED opened
            /\ \/ /\ r.at = "cache" /\ UNCHANGED cloud
                  /\ \/ /\ cloud.cachedTree # NoFolder
                        /\ WF!Page([WF!Redrawn(cloud.cachedTree) EXCEPT !.loading = FALSE],
                                   [reads EXCEPT ![i].at = "live", ![i].have = TRUE])
                     \/ /\ cloud.cachedTree = NoFolder
                        /\ WF!Page(home, [reads EXCEPT ![i].at = "live"])
               \/ /\ r.at = "live"
                  /\ cloud' = [cloud EXCEPT !.cachedTree = cloud.tree]
                  /\ WF!Page(Shown(WF!Redrawn(cloud.tree)), next)
               \/ r.at = "live" /\ UNCHANGED cloud /\ WF!Page(Shown(home), next)
  BY <1>1 DEF WF!FoldersArrive
<1> DEFINE r == reads[i]
           rest == WF!RemoveAt(reads, i)
           next == IF r.then = NoFolder THEN rest ELSE Append(rest, WF!ProjectsRead(r.then, TRUE))
           Shown(h) == IF r.then = NoFolder THEN [h EXCEPT !.loading = FALSE]
                       ELSE WF!Select([h EXCEPT !.loading = FALSE], r.then)
           hit == [reads EXCEPT ![i].at = "live", ![i].have = TRUE]
           miss == [reads EXCEPT ![i].at = "live"]
<1>3. r.of = "folders" /\ opened' = opened /\ DOMAIN r = ReadFields /\ r \in WF!ToSet(reads)
  BY <1>0, <1>1, <1>2 DEF ReadsHold, WF!ToSet
<1>4. \E tree : \/ WF!Page([WF!Redrawn(tree) EXCEPT !.loading = FALSE], hit)
                \/ WF!Page(home, miss)
                \/ WF!Page(Shown(WF!Redrawn(tree)), next)
                \/ WF!Page(Shown(home), next)
  BY <1>2
<1>5. PICK tree : \/ WF!Page([WF!Redrawn(tree) EXCEPT !.loading = FALSE], hit)
                  \/ WF!Page(home, miss)
                  \/ WF!Page(Shown(WF!Redrawn(tree)), next)
                  \/ WF!Page(Shown(home), next)
  BY <1>4
<1>6. /\ HomeHolds(WF!Redrawn(tree)) /\ WF!Redrawn(tree).selected = home.selected
      /\ WF!Redrawn(tree).listing = home.listing /\ WF!Redrawn(tree).steps = home.steps
  <2> DEFINE p == WF!Redrawn(tree)
  <2>1. /\ DOMAIN p = HomeFields /\ p.selected = home.selected /\ p.stored = home.stored /\ p.restored = home.restored
        /\ p.listing = home.listing /\ p.loading = home.loading /\ p.steps = home.steps
    BY <1>0 DEF WF!Redrawn, HomeHolds, HomeFields
  <2> HIDE DEF p
  <2>2. HomeHolds(p)  BY <1>0, <2>1 DEF HomeHolds
  <2> QED BY <2>1, <2>2 DEF p
<1>7. ASSUME NEW h, HomeHolds(h)
      PROVE  LET q == [h EXCEPT !.loading = FALSE]
             IN  HomeHolds(q) /\ q.loading = FALSE /\ q.selected = h.selected /\ q.listing = h.listing /\ q.steps = h.steps
  <2> DEFINE q == [h EXCEPT !.loading = FALSE]
  <2>1. /\ DOMAIN q = HomeFields /\ q.selected = h.selected /\ q.stored = h.stored /\ q.restored = h.restored
        /\ q.listing = h.listing /\ q.loading = FALSE /\ q.steps = h.steps
    BY <1>7 DEF HomeHolds, HomeFields
  <2> HIDE DEF q
  <2>2. HomeHolds(q)  BY <1>7, <2>1 DEF HomeHolds
  <2> QED BY <2>1, <2>2 DEF q
<1>8. /\ ReadsHold(hit) /\ (Reading(reads, "folders") => Reading(hit, "folders"))
      /\ (Reading(reads, "projects") => Reading(hit, "projects"))
  <2> DEFINE m == [r EXCEPT !.at = "live", !.have = TRUE]
  <2>1. DOMAIN m = ReadFields /\ m.of = r.of  BY <1>3 DEF ReadFields
  <2>2. hit = [reads EXCEPT ![i] = m]  BY <1>1
  <2> HIDE DEF m, hit
  <2> QED BY <1>0, <2>1, <2>2, ReadMarked
<1>9. /\ ReadsHold(miss) /\ (Reading(reads, "folders") => Reading(miss, "folders"))
      /\ (Reading(reads, "projects") => Reading(miss, "projects"))
  <2> DEFINE m == [r EXCEPT !.at = "live"]
  <2>1. DOMAIN m = ReadFields /\ m.of = r.of  BY <1>3 DEF ReadFields
  <2>2. miss = [reads EXCEPT ![i] = m]  BY <1>1
  <2> HIDE DEF m, miss
  <2> QED BY <1>0, <2>1, <2>2, ReadMarked
<1>10. /\ ReadsHold(next) /\ (Reading(reads, "projects") => Reading(next, "projects"))
       /\ r.then # NoFolder => Reading(next, "projects")
  <2>1. ReadsHold(rest) /\ (Reading(reads, "projects") => Reading(rest, "projects"))  BY <1>0, <1>3, ReadTaken
  <2> DEFINE m == WF!ProjectsRead(r.then, TRUE)
  <2>2. DOMAIN m = ReadFields /\ m.of = "projects"  BY ReadsAre
  <2> HIDE DEF m, rest
  <2>3. ReadsHold(Append(rest, m)) /\ Reading(Append(rest, m), "projects")  BY <2>1, <2>2, ReadAdded
  <2>4. CASE r.then = NoFolder
    <3>1. next = rest  BY <2>4
    <3> QED BY <2>1, <2>4, <3>1
  <2>5. CASE r.then # NoFolder
    <3>1. next = Append(rest, m)  BY <2>5 DEF m
    <3> QED BY <2>3, <3>1
  <2> QED BY <2>4, <2>5
<1>11. ASSUME NEW h, HomeHolds(h), h.selected = home.selected, h.listing = home.listing, WF!Page(Shown(h), next)
       PROVE  FoldersInv' /\ WF!RestoreKeepsChoice
  <2> DEFINE q == [h EXCEPT !.loading = FALSE]
  <2>1. HomeHolds(q) /\ q.loading = FALSE /\ q.selected = h.selected /\ q.listing = h.listing  BY <1>7, <1>11
  <2> HIDE DEF q
  <2>2. CASE r.then = NoFolder
    <3>1. WF!Page(q, next)  BY <1>11, <2>2 DEF q
    <3> HIDE DEF next
    <3>2. SpinnersHold(q, next)  BY <1>0, <1>10, <1>11, <2>1 DEF SpinnersHold
    <3> QED BY <1>0, <1>3, <1>10, <1>11, <2>1, <3>1, <3>2, PageKeeps
  <2>3. CASE r.then # NoFolder
    <3> DEFINE p == WF!Select(q, r.then)
    <3>1. WF!Page(p, next)  BY <1>11, <2>3 DEF q
    <3>2. HomeHolds(p) /\ p.selected = r.then /\ p.loading = FALSE  BY <2>1, SelectIs DEF HomeHolds
    <3> HIDE DEF next, p
    <3>3. SpinnersHold(p, next)  BY <1>10, <2>3, <3>2 DEF SpinnersHold
    <3>4. p.selected # NoFolder /\ \E x \in WF!ToSet(reads) : x.then = p.selected  BY <1>3, <2>3, <3>2
    <3> QED BY <1>0, <1>3, <1>10, <3>1, <3>2, <3>3, <3>4, PageKeeps
  <2> QED BY <2>2, <2>3
<1>12. CASE WF!Page([WF!Redrawn(tree) EXCEPT !.loading = FALSE], hit)
  <2> DEFINE h == WF!Redrawn(tree)  q == [h EXCEPT !.loading = FALSE]
  <2> HIDE DEF h
  <2>1. HomeHolds(q) /\ q.loading = FALSE /\ q.selected = home.selected /\ q.listing = home.listing  BY <1>6, <1>7 DEF h
  <2>2. WF!Page(q, hit)  BY <1>12 DEF h
  <2> HIDE DEF q, hit
  <2>3. SpinnersHold(q, hit)  BY <1>0, <1>8, <2>1 DEF SpinnersHold
  <2> QED BY <1>0, <1>3, <1>8, <2>1, <2>2, <2>3, PageKeeps
<1>13. CASE WF!Page(home, miss)
  <2> HIDE DEF miss
  <2>1. SpinnersHold(home, miss)  BY <1>0, <1>9 DEF SpinnersHold
  <2> QED BY <1>0, <1>3, <1>9, <1>13, <2>1, PageKeeps
<1>14. CASE WF!Page(Shown(WF!Redrawn(tree)), next)
  <2> DEFINE h == WF!Redrawn(tree)
  <2>1. HomeHolds(h) /\ h.selected = home.selected /\ h.listing = home.listing /\ WF!Page(Shown(h), next)  BY <1>6, <1>14
  <2> HIDE DEF h, Shown, next
  <2> QED BY <1>11, <2>1
<1>15. CASE WF!Page(Shown(home), next)
  <2> HIDE DEF Shown, next
  <2> QED BY <1>0, <1>11, <1>15
<1> HIDE DEF Shown, next, hit, miss
<1> QED BY <1>5, <1>12, <1>13, <1>14, <1>15

\* The first answer of a list shows it, the last one ends its spinner.
LEMMA ProjectsArriveKeeps ==
  ASSUME FoldersInv, WF!ProjectsArrive
  PROVE  FoldersInv' /\ WF!RestoreKeepsChoice
<1>0. HomeHolds(home) /\ ReadsHold(reads) /\ SpinnersHold(home, reads) /\ BoxHolds(opened)  BY DEF FoldersInv
<1>1. DOMAIN reads = 1..Len(reads)  BY <1>0, ListIs DEF ReadsHold
<1>2. PICK i \in 1..Len(reads) :
        LET r == reads[i]
            f == r.folder
            Lists(ps) == [home EXCEPT !.projects = ps, !.listing = FALSE]
        IN  /\ r.of = "projects" /\ UNCHANGED opened
            /\ \/ /\ r.at = "cache" /\ UNCHANGED cloud
                  /\ IF f \in DOMAIN cloud.cached
                     THEN WF!Page(Lists(cloud.cached[f]), [reads EXCEPT ![i].at = "live", ![i].have = TRUE])
                     ELSE WF!Page(home, [reads EXCEPT ![i].at = "live"])
               \/ /\ r.at = "live"
                  /\ cloud' = [cloud EXCEPT !.cached =
                       [g \in DOMAIN @ \union {f} |-> IF g = f THEN WF!ProjectsOf(f) ELSE @[g]]]
                  /\ WF!Page(Lists(WF!ProjectsOf(f)), WF!RemoveAt(reads, i))
               \/ /\ r.at = "live" /\ UNCHANGED cloud
                  /\ WF!Page(IF r.have THEN [home EXCEPT !.listing = FALSE] ELSE Lists({}), WF!RemoveAt(reads, i))
  BY <1>1 DEF WF!ProjectsArrive
<1> DEFINE r == reads[i]  rest == WF!RemoveAt(reads, i)
           Lists(ps) == [home EXCEPT !.projects = ps, !.listing = FALSE]
           ended == [home EXCEPT !.listing = FALSE]
           hit == [reads EXCEPT ![i].at = "live", ![i].have = TRUE]
           miss == [reads EXCEPT ![i].at = "live"]
<1>3. r.of = "projects" /\ opened' = opened /\ DOMAIN r = ReadFields
  BY <1>0, <1>2 DEF ReadsHold
<1>4. \E ps : WF!Page(Lists(ps), hit) \/ WF!Page(home, miss) \/ WF!Page(Lists(ps), rest) \/ WF!Page(ended, rest)
  BY <1>2
<1>5. PICK ps : WF!Page(Lists(ps), hit) \/ WF!Page(home, miss) \/ WF!Page(Lists(ps), rest) \/ WF!Page(ended, rest)
  BY <1>4
<1> DEFINE shown == Lists(ps)
<1>6. HomeHolds(shown) /\ shown.selected = home.selected /\ shown.listing = FALSE /\ shown.loading = home.loading
  <2>1. /\ DOMAIN shown = HomeFields /\ shown.selected = home.selected /\ shown.stored = home.stored
        /\ shown.restored = home.restored /\ shown.listing = FALSE /\ shown.loading = home.loading /\ shown.steps = home.steps
    BY <1>0 DEF HomeHolds, HomeFields
  <2> HIDE DEF shown
  <2> QED BY <1>0, <2>1 DEF HomeHolds
<1>7. HomeHolds(ended) /\ ended.selected = home.selected /\ ended.listing = FALSE /\ ended.loading = home.loading
  <2>1. /\ DOMAIN ended = HomeFields /\ ended.selected = home.selected /\ ended.stored = home.stored
        /\ ended.restored = home.restored /\ ended.listing = FALSE /\ ended.loading = home.loading /\ ended.steps = home.steps
    BY <1>0 DEF HomeHolds, HomeFields
  <2> HIDE DEF ended
  <2> QED BY <1>0, <2>1 DEF HomeHolds
<1>8. /\ ReadsHold(hit) /\ (Reading(reads, "folders") => Reading(hit, "folders"))
      /\ (Reading(reads, "projects") => Reading(hit, "projects"))
  <2> DEFINE m == [r EXCEPT !.at = "live", !.have = TRUE]
  <2>1. DOMAIN m = ReadFields /\ m.of = r.of  BY <1>3 DEF ReadFields
  <2>2. hit = [reads EXCEPT ![i] = m]  BY <1>1
  <2> HIDE DEF m, hit
  <2> QED BY <1>0, <2>1, <2>2, ReadMarked
<1>9. /\ ReadsHold(miss) /\ (Reading(reads, "folders") => Reading(miss, "folders"))
      /\ (Reading(reads, "projects") => Reading(miss, "projects"))
  <2> DEFINE m == [r EXCEPT !.at = "live"]
  <2>1. DOMAIN m = ReadFields /\ m.of = r.of  BY <1>3 DEF ReadFields
  <2>2. miss = [reads EXCEPT ![i] = m]  BY <1>1
  <2> HIDE DEF m, miss
  <2> QED BY <1>0, <2>1, <2>2, ReadMarked
<1>10. ReadsHold(rest) /\ (Reading(reads, "folders") => Reading(rest, "folders"))
  BY <1>0, <1>3, ReadTaken
<1>11. WF!Page(shown, hit) \/ WF!Page(home, miss) \/ WF!Page(shown, rest) \/ WF!Page(ended, rest)  BY <1>5
<1> HIDE DEF shown, ended, hit, miss, rest
<1>12. CASE WF!Page(shown, hit)
  <2>1. SpinnersHold(shown, hit)  BY <1>0, <1>6, <1>8 DEF SpinnersHold
  <2> QED BY <1>0, <1>3, <1>6, <1>8, <1>12, <2>1, PageKeeps
<1>13. CASE WF!Page(home, miss)
  <2>1. SpinnersHold(home, miss)  BY <1>0, <1>9 DEF SpinnersHold
  <2> QED BY <1>0, <1>3, <1>9, <1>13, <2>1, PageKeeps
<1>14. CASE WF!Page(shown, rest)
  <2>1. SpinnersHold(shown, rest)  BY <1>0, <1>6, <1>10 DEF SpinnersHold
  <2> QED BY <1>0, <1>3, <1>6, <1>10, <1>14, <2>1, PageKeeps
<1>15. CASE WF!Page(ended, rest)
  <2>1. SpinnersHold(ended, rest)  BY <1>0, <1>7, <1>10 DEF SpinnersHold
  <2> QED BY <1>0, <1>3, <1>7, <1>10, <1>15, <2>1, PageKeeps
<1> QED BY <1>11, <1>12, <1>13, <1>14, <1>15

\* A step on the page that reads nothing and chooses nothing.
LEMMA ClickKeeps ==
  ASSUME FoldersInv, NEW p, DOMAIN p = HomeFields,
         \A x \in {"selected", "stored", "restored", "listing", "loading", "steps"} : p[x] = WF!Stepped[x],
         WF!Page(p, reads), BoxHolds(opened')
  PROVE  FoldersInv' /\ WF!RestoreKeepsChoice
<1>1. /\ HomeHolds(WF!Stepped) /\ WF!Stepped.steps > home.steps /\ SpinnersHold(WF!Stepped, reads) /\ ReadsHold(reads)
  BY SteppedIs DEF FoldersInv
<1> DEFINE s == WF!Stepped
<1> HIDE DEF s
<1>2. p.selected = s.selected /\ p.stored = s.stored /\ p.restored = s.restored /\ p.listing = s.listing
      /\ p.loading = s.loading /\ p.steps = s.steps
  BY DEF s
<1>3. HomeHolds(p) /\ p.steps > home.steps  BY <1>1, <1>2 DEF HomeHolds, s
<1>4. SpinnersHold(p, reads)  BY <1>1, <1>2 DEF SpinnersHold, s
<1> QED BY <1>1, <1>3, <1>4, PageKeeps

LEMMA PageClicksKeep ==
  ASSUME FoldersInv, WF!OpenFolder \/ WF!Refresh \/ WF!UseTree
  PROVE  FoldersInv' /\ WF!RestoreKeepsChoice
<1>0. HomeHolds(home) /\ ReadsHold(reads) /\ SpinnersHold(home, reads) /\ BoxHolds(opened)  BY DEF FoldersInv
<1>1. /\ HomeHolds(WF!Stepped) /\ WF!Stepped.steps > home.steps /\ WF!Stepped.loading = home.loading
      /\ WF!Stepped.listing = home.listing /\ SpinnersHold(WF!Stepped, reads)
  BY SteppedIs
<1>2. CASE WF!OpenFolder
  <2>1. PICK f : WF!Page(WF!Select(WF!Stepped, f), Append(reads, WF!ProjectsRead(f, TRUE)))
    BY <1>2 DEF WF!OpenFolder
  <2>2. opened' = opened  BY <1>2 DEF WF!OpenFolder
  <2> DEFINE p == WF!Select(WF!Stepped, f)  r == WF!ProjectsRead(f, TRUE)
  <2>3. HomeHolds(p) /\ p.loading = home.loading /\ p.steps > home.steps  BY <1>1, SelectIs DEF HomeHolds
  <2>4. DOMAIN r = ReadFields /\ r.of = "projects"  BY ReadsAre
  <2>5. WF!Page(p, Append(reads, r))  BY <2>1
  <2> HIDE DEF p, r
  <2>6. /\ ReadsHold(Append(reads, r)) /\ Reading(Append(reads, r), "projects")
        /\ Reading(reads, "folders") => Reading(Append(reads, r), "folders")
    BY <1>0, <2>4, ReadAdded
  <2>7. SpinnersHold(p, Append(reads, r))  BY <1>0, <2>3, <2>6 DEF SpinnersHold
  <2> QED BY <1>0, <2>2, <2>3, <2>5, <2>6, <2>7, PageKeeps
<1>3. CASE WF!Refresh
  <2>1. opened' = opened  BY <1>3 DEF WF!Refresh
  <2>2. CASE WF!Page([WF!Stepped EXCEPT !.loading = TRUE], Append(reads, WF!FoldersRead(TRUE)))
    <3> DEFINE p == [WF!Stepped EXCEPT !.loading = TRUE]  r == WF!FoldersRead(TRUE)
    <3>1. /\ DOMAIN p = HomeFields /\ p.steps = WF!Stepped.steps /\ p.listing = home.listing
          /\ p.selected = WF!Stepped.selected /\ p.stored = WF!Stepped.stored /\ p.restored = WF!Stepped.restored
      BY <1>1 DEF HomeHolds, HomeFields
    <3>2. DOMAIN r = ReadFields /\ r.of = "folders"  BY ReadsAre
    <3>3. WF!Page(p, Append(reads, r))  BY <2>2
    <3> HIDE DEF p, r
    <3>4. HomeHolds(p) /\ p.steps > home.steps  BY <1>1, <3>1 DEF HomeHolds
    <3>5. /\ ReadsHold(Append(reads, r)) /\ Reading(Append(reads, r), "folders")
          /\ Reading(reads, "projects") => Reading(Append(reads, r), "projects")
      BY <1>0, <3>2, ReadAdded
    <3>6. SpinnersHold(p, Append(reads, r))  BY <1>0, <3>1, <3>5 DEF SpinnersHold
    <3> QED BY <1>0, <2>1, <3>3, <3>4, <3>5, <3>6, PageKeeps
  <2>3. CASE WF!Page([WF!Stepped EXCEPT !.listing = TRUE], Append(reads, WF!ProjectsRead(home.selected, TRUE)))
    <3> DEFINE p == [WF!Stepped EXCEPT !.listing = TRUE]  r == WF!ProjectsRead(home.selected, TRUE)
    <3>1. /\ DOMAIN p = HomeFields /\ p.steps = WF!Stepped.steps /\ p.loading = home.loading
          /\ p.selected = WF!Stepped.selected /\ p.stored = WF!Stepped.stored /\ p.restored = WF!Stepped.restored
      BY <1>1 DEF HomeHolds, HomeFields
    <3>2. DOMAIN r = ReadFields /\ r.of = "projects"  BY ReadsAre
    <3>3. WF!Page(p, Append(reads, r))  BY <2>3
    <3> HIDE DEF p, r
    <3>4. HomeHolds(p) /\ p.steps > home.steps  BY <1>1, <3>1 DEF HomeHolds
    <3>5. /\ ReadsHold(Append(reads, r)) /\ Reading(Append(reads, r), "projects")
          /\ Reading(reads, "folders") => Reading(Append(reads, r), "folders")
      BY <1>0, <3>2, ReadAdded
    <3>6. SpinnersHold(p, Append(reads, r))  BY <1>0, <3>1, <3>5 DEF SpinnersHold
    <3> QED BY <1>0, <2>1, <3>3, <3>4, <3>5, <3>6, PageKeeps
  <2> QED BY <1>3, <2>2, <2>3 DEF WF!Refresh
<1>4. CASE WF!UseTree
  <2>1. opened' = opened  BY <1>4 DEF WF!UseTree
  <2>2. ASSUME NEW p, DOMAIN p = HomeFields, WF!Page(p, reads),
               \A x \in {"selected", "stored", "restored", "listing", "loading", "steps"} : p[x] = WF!Stepped[x]
        PROVE  FoldersInv' /\ WF!RestoreKeepsChoice
    BY <1>0, <2>1, <2>2, ClickKeeps
  <2>3. DOMAIN WF!Stepped = HomeFields  BY <1>1 DEF HomeHolds
  <2>4. ASSUME NEW e, WF!Page([WF!Stepped EXCEPT !.expanded = e], reads)
        PROVE  FoldersInv' /\ WF!RestoreKeepsChoice
    <3> DEFINE p == [WF!Stepped EXCEPT !.expanded = e]
    <3>1. DOMAIN p = HomeFields /\ \A x \in {"selected", "stored", "restored", "listing", "loading", "steps"} : p[x] = WF!Stepped[x]
      BY <2>3 DEF HomeFields
    <3>2. WF!Page(p, reads)  BY <2>4
    <3> HIDE DEF p
    <3> QED BY <2>2, <3>1, <3>2
  <2>5. ASSUME NEW e, WF!Page([WF!Stepped EXCEPT !.menu = e], reads)
        PROVE  FoldersInv' /\ WF!RestoreKeepsChoice
    <3> DEFINE p == [WF!Stepped EXCEPT !.menu = e]
    <3>1. DOMAIN p = HomeFields /\ \A x \in {"selected", "stored", "restored", "listing", "loading", "steps"} : p[x] = WF!Stepped[x]
      BY <2>3 DEF HomeFields
    <3>2. WF!Page(p, reads)  BY <2>5
    <3> HIDE DEF p
    <3> QED BY <2>2, <3>1, <3>2
  <2>6. ASSUME NEW e, WF!Page([WF!Stepped EXCEPT !.query = e], reads)
        PROVE  FoldersInv' /\ WF!RestoreKeepsChoice
    <3> DEFINE p == [WF!Stepped EXCEPT !.query = e]
    <3>1. DOMAIN p = HomeFields /\ \A x \in {"selected", "stored", "restored", "listing", "loading", "steps"} : p[x] = WF!Stepped[x]
      BY <2>3 DEF HomeFields
    <3>2. WF!Page(p, reads)  BY <2>6
    <3> HIDE DEF p
    <3> QED BY <2>2, <3>1, <3>2
  <2>7. \/ \E f : \/ WF!Page([WF!Stepped EXCEPT !.expanded = IF f \in @ THEN @ \ {f} ELSE @ \union {f}], reads)
                  \/ WF!Page([WF!Stepped EXCEPT !.menu = IF @ = f THEN NoFolder ELSE f], reads)
        \/ \E q : WF!Page([WF!Stepped EXCEPT !.query = q], reads)
    BY <1>4 DEF WF!UseTree
  <2>8. CASE \E f : WF!Page([WF!Stepped EXCEPT !.expanded = IF f \in @ THEN @ \ {f} ELSE @ \union {f}], reads)
    BY <2>4, <2>8
  <2>9. CASE \E f : WF!Page([WF!Stepped EXCEPT !.menu = IF @ = f THEN NoFolder ELSE f], reads)
    BY <2>5, <2>9
  <2>10. CASE \E q : WF!Page([WF!Stepped EXCEPT !.query = q], reads)
    BY <2>6, <2>10
  <2> QED BY <2>7, <2>8, <2>9, <2>10
<1> QED BY <1>2, <1>3, <1>4

LEMMA OpenDialogKeeps ==
  ASSUME FoldersInv, WF!OpenDialog
  PROVE  FoldersInv' /\ WF!RestoreKeepsChoice
<1>0. BoxHolds(opened) /\ DOMAIN WF!Stepped = HomeFields  BY SteppedIs DEF FoldersInv, HomeHolds
<1>1. ASSUME NEW d, DOMAIN d = BoxFields, ~d.busy, opened' = [opened EXCEPT !.dialog = d]
      PROVE  BoxHolds(opened')
  <2>1. DOMAIN opened' = {"dialog", "sent"} /\ opened'.dialog = d /\ opened'.sent = opened.sent
    BY <1>0, <1>1 DEF BoxHolds
  <2> QED BY <1>0, <1>1, <2>1 DEF BoxHolds
<1>2. ASSUME NEW mode, NEW target, NEW parent, NEW d,
             d = [WF!NoDialog EXCEPT !.mode = mode, !.target = target, !.parent = parent]
      PROVE  DOMAIN d = BoxFields /\ ~d.busy
  BY <1>2 DEF WF!NoDialog, BoxFields
<1>3. \/ /\ \E mode, parent : opened' = [opened EXCEPT !.dialog = [WF!NoDialog EXCEPT !.mode = mode, !.target = home.menu, !.parent = parent]]
         /\ WF!Page([WF!Stepped EXCEPT !.menu = NoFolder], reads)
      \/ /\ opened' = [opened EXCEPT !.dialog =
              [WF!NoDialog EXCEPT !.mode = "create", !.target = RootFolder, !.parent = RootFolder]]
         /\ WF!Page(WF!Stepped, reads)
      \/ \E p : /\ opened' = [opened EXCEPT !.dialog = [WF!NoDialog EXCEPT !.mode = "deleteProject", !.target = p]]
                /\ WF!Page(WF!Stepped, reads)
  BY DEF WF!OpenDialog
<1>4. CASE /\ \E mode, parent : opened' = [opened EXCEPT !.dialog = [WF!NoDialog EXCEPT !.mode = mode, !.target = home.menu, !.parent = parent]]
           /\ WF!Page([WF!Stepped EXCEPT !.menu = NoFolder], reads)
  <2>1. BoxHolds(opened')
    <3>1. PICK mode, parent : opened' = [opened EXCEPT !.dialog = [WF!NoDialog EXCEPT !.mode = mode, !.target = home.menu, !.parent = parent]]
      BY <1>4
    <3> DEFINE d == [WF!NoDialog EXCEPT !.mode = mode, !.target = home.menu, !.parent = parent]
    <3>2. DOMAIN d = BoxFields /\ ~d.busy  BY <1>2
    <3>3. opened' = [opened EXCEPT !.dialog = d]  BY <3>1
    <3> HIDE DEF d
    <3> QED BY <1>1, <3>2, <3>3
  <2> DEFINE p == [WF!Stepped EXCEPT !.menu = NoFolder]
  <2>2. DOMAIN p = HomeFields /\ \A x \in {"selected", "stored", "restored", "listing", "loading", "steps"} : p[x] = WF!Stepped[x]
    BY <1>0 DEF HomeFields
  <2>3. WF!Page(p, reads)  BY <1>4
  <2> HIDE DEF p
  <2> QED BY <2>1, <2>2, <2>3, ClickKeeps
<1>5. CASE /\ opened' = [opened EXCEPT !.dialog =
                [WF!NoDialog EXCEPT !.mode = "create", !.target = RootFolder, !.parent = RootFolder]]
           /\ WF!Page(WF!Stepped, reads)
  <2>1. BoxHolds(opened')  BY <1>1, <1>2, <1>5
  <2> QED BY <1>0, <1>5, <2>1, ClickKeeps
<1>6. CASE \E p : /\ opened' = [opened EXCEPT !.dialog = [WF!NoDialog EXCEPT !.mode = "deleteProject", !.target = p]]
                  /\ WF!Page(WF!Stepped, reads)
  <2>1. PICK p : opened' = [opened EXCEPT !.dialog = [WF!NoDialog EXCEPT !.mode = "deleteProject", !.target = p]]
    BY <1>6
  <2> DEFINE d == [WF!NoDialog EXCEPT !.mode = "deleteProject", !.target = p]
  <2>2. DOMAIN d = BoxFields /\ ~d.busy  BY DEF WF!NoDialog, BoxFields
  <2>3. opened' = [opened EXCEPT !.dialog = d]  BY <2>1
  <2> HIDE DEF d
  <2>4. BoxHolds(opened')  BY <1>1, <2>2, <2>3
  <2> QED BY <1>0, <1>6, <2>4, ClickKeeps
<1> QED BY <1>3, <1>4, <1>5, <1>6

\* The dialog alone is changed, or its request is sent or refused.
LEMMA DialogKeeps ==
  ASSUME FoldersInv, WF!EditDialog \/ WF!CloseDialog \/ WF!Submit \/ WF!MutationFails
  PROVE  FoldersInv' /\ WF!RestoreKeepsChoice
<1>0. BoxHolds(opened) /\ Listed(opened.sent) /\ Len(opened.sent) \in Nat  BY DEF FoldersInv, BoxHolds, Listed
<1> DEFINE d == opened.dialog
<1>1. home' = home /\ reads' = reads
  BY DEF WF!EditDialog, WF!CloseDialog, WF!Submit, WF!MutationFails
<1>2. WF!RestoreKeepsChoice  BY <1>1 DEF WF!RestoreKeepsChoice
<1>3. BoxHolds(opened')
  <2>1. CASE WF!EditDialog
    <3>1. CASE \E p : opened' = [opened EXCEPT !.dialog.parent = p]
      <4>1. PICK p : opened' = [opened EXCEPT !.dialog.parent = p]  BY <3>1
      <4>2. /\ DOMAIN opened' = {"dialog", "sent"} /\ opened'.sent = opened.sent /\ DOMAIN opened'.dialog = BoxFields
            /\ opened'.dialog.mode = d.mode /\ opened'.dialog.target = d.target /\ opened'.dialog.busy = d.busy
        BY <1>0, <4>1 DEF BoxHolds, BoxFields
      <4> QED BY <1>0, <4>2 DEF BoxHolds
    <3>2. CASE opened' = [opened EXCEPT !.dialog.confirmed = ~@]
      <4>2. /\ DOMAIN opened' = {"dialog", "sent"} /\ opened'.sent = opened.sent /\ DOMAIN opened'.dialog = BoxFields
            /\ opened'.dialog.mode = d.mode /\ opened'.dialog.target = d.target /\ opened'.dialog.busy = d.busy
        BY <1>0, <3>2 DEF BoxHolds, BoxFields
      <4> QED BY <1>0, <4>2 DEF BoxHolds
    <3> QED BY <2>1, <3>1, <3>2 DEF WF!EditDialog
  <2>2. CASE WF!CloseDialog
    <3>1. opened' = [opened EXCEPT !.dialog = WF!NoDialog]  BY <2>2 DEF WF!CloseDialog
    <3>2. /\ DOMAIN opened' = {"dialog", "sent"} /\ opened'.sent = opened.sent /\ DOMAIN opened'.dialog = BoxFields
          /\ ~opened'.dialog.busy
      BY <1>0, <3>1 DEF BoxHolds, BoxFields, WF!NoDialog
    <3> QED BY <1>0, <3>2 DEF BoxHolds
  <2>3. CASE WF!Submit
    <3> DEFINE s == [mode |-> d.mode, target |-> d.target, parent |-> d.parent, selected |-> home.selected]
               e == [d EXCEPT !.busy = TRUE]
    <3>1. opened' = [dialog |-> e, sent |-> Append(opened.sent, s)]  BY <2>3 DEF WF!Submit
    <3>2. DOMAIN e = BoxFields /\ e.mode = d.mode /\ e.target = d.target  BY <1>0 DEF BoxHolds, BoxFields
    <3>3. s.mode = d.mode /\ s.target = d.target  OBVIOUS
    <3> HIDE DEF e, s
    <3>4. DOMAIN opened' = {"dialog", "sent"} /\ opened'.dialog = e /\ opened'.sent = Append(opened.sent, s)
      BY <3>1
    <3>5. /\ Listed(opened'.sent) /\ Len(opened'.sent) = Len(opened.sent) + 1
          /\ opened'.sent[Len(opened.sent) + 1] = s
      BY <1>0, <3>4, OneMore
    <3>6. Len(opened.sent) + 1 \in 1..Len(opened'.sent)  BY <1>0, <3>5
    <3>7. \E i \in 1..Len(opened'.sent) : opened'.sent[i].mode = e.mode /\ opened'.sent[i].target = e.target
      BY <3>2, <3>3, <3>5, <3>6
    <3> QED BY <3>2, <3>4, <3>5, <3>7 DEF BoxHolds
  <2>4. CASE WF!MutationFails
    <3>1. DOMAIN opened.sent = 1..Len(opened.sent)  BY <1>0, ListIs
    <3>2. PICK i \in 1..Len(opened.sent) :
            opened' = [dialog |-> IF d.mode = opened.sent[i].mode /\ d.target = opened.sent[i].target THEN [d EXCEPT !.busy = FALSE] ELSE d,
                       sent |-> WF!RemoveAt(opened.sent, i)]
      BY <2>4, <3>1 DEF WF!MutationFails
    <3> DEFINE s == opened.sent[i]  q == WF!RemoveAt(opened.sent, i)
               e == IF d.mode = s.mode /\ d.target = s.target THEN [d EXCEPT !.busy = FALSE] ELSE d
    <3>3. DOMAIN e = BoxFields /\ e.mode = d.mode /\ e.target = d.target
          /\ (e.busy => d.busy /\ ~ (d.mode = s.mode /\ d.target = s.target))
      BY <1>0 DEF BoxHolds, BoxFields
    <3>4. DOMAIN opened' = {"dialog", "sent"} /\ opened'.dialog = e /\ opened'.sent = q  BY <3>2
    <3> HIDE DEF e, q
    <3>5. /\ Listed(q) /\ Len(q) = Len(opened.sent) - 1
          /\ \A j \in 1..Len(opened.sent) : j # i => \E k \in 1..Len(opened.sent) - 1 : q[k] = opened.sent[j]
      BY <1>0, OneLess DEF q
    <3>6. ASSUME e.busy PROVE \E k \in 1..Len(q) : q[k].mode = e.mode /\ q[k].target = e.target
      <4>1. PICK j \in 1..Len(opened.sent) : opened.sent[j].mode = d.mode /\ opened.sent[j].target = d.target
        BY <1>0, <3>3, <3>6 DEF BoxHolds
      <4>2. j # i  BY <3>3, <3>6, <4>1
      <4>3. PICK k \in 1..Len(opened.sent) - 1 : q[k] = opened.sent[j]  BY <3>5, <4>2
      <4> QED BY <3>3, <3>5, <4>1, <4>3
    <3> QED BY <3>3, <3>4, <3>5, <3>6 DEF BoxHolds
  <2> QED BY <2>1, <2>2, <2>3, <2>4
<1> QED BY <1>1, <1>2, <1>3 DEF FoldersInv

\* A change that was made closes the dialog and reads anew.
LEMMA MutationSucceedsKeeps ==
  ASSUME FoldersInv, WF!MutationSucceeds
  PROVE  FoldersInv' /\ WF!RestoreKeepsChoice
<1>0. /\ HomeHolds(home) /\ ReadsHold(reads) /\ SpinnersHold(home, reads) /\ BoxHolds(opened) /\ DOMAIN home = HomeFields
      /\ Listed(opened.sent) /\ Len(opened.sent) \in Nat
  BY DEF FoldersInv, BoxHolds, Listed, HomeHolds
<1>1. DOMAIN opened.sent = 1..Len(opened.sent)  BY <1>0, ListIs
<1>sent. PICK i \in 1..Len(opened.sent) : \E f :
        LET s == opened.sent[i]
            gone == s.mode = "delete" /\ s.selected = f
            h == IF gone THEN [home EXCEPT !.selected = NoFolder, !.projects = {}, !.stored = NoFolder]
                 ELSE home
        IN  /\ opened' = [dialog |-> WF!NoDialog, sent |-> WF!RemoveAt(opened.sent, i)]
            /\ IF s.mode = "deleteProject"
               THEN IF s.selected = NoFolder THEN WF!Page([home EXCEPT !.projects = @ \ {f}], reads)
                    ELSE WF!Page([WF!Select(home, s.selected) EXCEPT !.projects = @ \ {f}],
                                 Append(reads, WF!ProjectsRead(s.selected, FALSE)))
               ELSE WF!Page([h EXCEPT !.loading = TRUE],
                            Append(reads, [WF!FoldersRead(FALSE) EXCEPT
                                             !.then = IF s.mode = "create" THEN f ELSE NoFolder]))
  BY <1>1 DEF WF!MutationSucceeds
<1>2. PICK f :
        LET s == opened.sent[i]
            gone == s.mode = "delete" /\ s.selected = f
            h == IF gone THEN [home EXCEPT !.selected = NoFolder, !.projects = {}, !.stored = NoFolder]
                 ELSE home
        IN  /\ opened' = [dialog |-> WF!NoDialog, sent |-> WF!RemoveAt(opened.sent, i)]
            /\ IF s.mode = "deleteProject"
               THEN IF s.selected = NoFolder THEN WF!Page([home EXCEPT !.projects = @ \ {f}], reads)
                    ELSE WF!Page([WF!Select(home, s.selected) EXCEPT !.projects = @ \ {f}],
                                 Append(reads, WF!ProjectsRead(s.selected, FALSE)))
               ELSE WF!Page([h EXCEPT !.loading = TRUE],
                            Append(reads, [WF!FoldersRead(FALSE) EXCEPT
                                             !.then = IF s.mode = "create" THEN f ELSE NoFolder]))
  BY <1>sent
<1> DEFINE s == opened.sent[i]  q == WF!RemoveAt(opened.sent, i)
           gone == s.mode = "delete" /\ s.selected = f
           h == IF gone THEN [home EXCEPT !.selected = NoFolder, !.projects = {}, !.stored = NoFolder] ELSE home
           p1 == [home EXCEPT !.projects = @ \ {f}]
           p2 == [WF!Select(home, s.selected) EXCEPT !.projects = @ \ {f}]
           p3 == [h EXCEPT !.loading = TRUE]
           r2 == WF!ProjectsRead(s.selected, FALSE)
           r3 == [WF!FoldersRead(FALSE) EXCEPT !.then = IF s.mode = "create" THEN f ELSE NoFolder]
<1>3. Listed(q) /\ Len(q) = Len(opened.sent) - 1  BY <1>0, OneLess
<1>4. BoxHolds(opened') /\ opened'.sent # opened.sent
  <2>1. DOMAIN opened' = {"dialog", "sent"} /\ opened'.dialog = WF!NoDialog /\ opened'.sent = q  BY <1>2
  <2>2. DOMAIN WF!NoDialog = BoxFields /\ ~WF!NoDialog.busy  BY DEF WF!NoDialog, BoxFields
  <2> HIDE DEF q
  <2>3. q # opened.sent  BY <1>0, <1>3
  <2> QED BY <1>3, <2>1, <2>2, <2>3 DEF BoxHolds
<1>5. WF!Page(p1, reads) \/ WF!Page(p2, Append(reads, r2)) \/ WF!Page(p3, Append(reads, r3))  BY <1>2
<1>6. HomeHolds(p1) /\ p1.listing = home.listing /\ p1.loading = home.loading
  <2>1. /\ DOMAIN p1 = HomeFields /\ p1.selected = home.selected /\ p1.stored = home.stored
        /\ p1.restored = home.restored /\ p1.listing = home.listing /\ p1.loading = home.loading /\ p1.steps = home.steps
    BY <1>0 DEF HomeFields
  <2> HIDE DEF p1
  <2> QED BY <1>0, <2>1 DEF HomeHolds
<1>7. HomeHolds(p2) /\ p2.loading = home.loading
  <2> DEFINE x == WF!Select(home, s.selected)
  <2>1. HomeHolds(x) /\ x.loading = home.loading /\ DOMAIN x = HomeFields  BY <1>0, SelectIs DEF HomeHolds
  <2> HIDE DEF x
  <2>2. /\ p2 = [x EXCEPT !.projects = x.projects \ {f}]
    BY <2>1 DEF x
  <2> HIDE DEF p2
  <2>3. /\ DOMAIN p2 = HomeFields /\ p2.selected = x.selected /\ p2.stored = x.stored
        /\ p2.restored = x.restored /\ p2.loading = x.loading /\ p2.steps = x.steps
    BY <2>1, <2>2 DEF HomeFields
  <2> QED BY <2>1, <2>3 DEF HomeHolds
<1>8. HomeHolds(p3) /\ p3.listing = home.listing
  <2>1. HomeHolds(h) /\ DOMAIN h = HomeFields /\ h.listing = home.listing
    <3>1. CASE gone
      <4>1. h = [home EXCEPT !.selected = NoFolder, !.projects = {}, !.stored = NoFolder]  BY <3>1
      <4> HIDE DEF h
      <4>2. DOMAIN h = HomeFields /\ h.selected = NoFolder /\ h.listing = home.listing /\ h.steps = home.steps
        BY <1>0, <4>1 DEF HomeFields
      <4> QED BY <1>0, <4>2 DEF HomeHolds
    <3>2. CASE ~gone
      <4>1. h = home  BY <3>2
      <4> HIDE DEF h
      <4> QED BY <1>0, <4>1
    <3> QED BY <3>1, <3>2
  <2> HIDE DEF h
  <2>2. /\ DOMAIN p3 = HomeFields /\ p3.selected = h.selected /\ p3.stored = h.stored
        /\ p3.restored = h.restored /\ p3.listing = h.listing /\ p3.steps = h.steps
    BY <2>1 DEF HomeFields
  <2> HIDE DEF p3
  <2> QED BY <2>1, <2>2 DEF HomeHolds
<1>9. DOMAIN r2 = ReadFields /\ r2.of = "projects"  BY ReadsAre
<1>10. DOMAIN r3 = ReadFields /\ r3.of = "folders"
  <2>1. DOMAIN WF!FoldersRead(FALSE) = ReadFields /\ WF!FoldersRead(FALSE).of = "folders"  BY ReadsAre
  <2> QED BY <2>1 DEF ReadFields
<1> HIDE DEF p1, p2, p3, r2, r3
<1>11. CASE WF!Page(p1, reads)
  <2>1. SpinnersHold(p1, reads)  BY <1>0, <1>6 DEF SpinnersHold
  <2> QED BY <1>0, <1>4, <1>6, <1>11, <2>1, PageKeeps
<1>12. CASE WF!Page(p2, Append(reads, r2))
  <2>1. /\ ReadsHold(Append(reads, r2)) /\ Reading(Append(reads, r2), "projects")
        /\ Reading(reads, "folders") => Reading(Append(reads, r2), "folders")
    BY <1>0, <1>9, ReadAdded
  <2>2. SpinnersHold(p2, Append(reads, r2))  BY <1>0, <1>7, <2>1 DEF SpinnersHold
  <2> QED BY <1>4, <1>7, <1>12, <2>1, <2>2, PageKeeps
<1>13. CASE WF!Page(p3, Append(reads, r3))
  <2>1. /\ ReadsHold(Append(reads, r3)) /\ Reading(Append(reads, r3), "folders")
        /\ Reading(reads, "projects") => Reading(Append(reads, r3), "projects")
    BY <1>0, <1>10, ReadAdded
  <2>2. SpinnersHold(p3, Append(reads, r3))  BY <1>0, <1>8, <2>1 DEF SpinnersHold
  <2> QED BY <1>4, <1>8, <1>13, <2>1, <2>2, PageKeeps
<1> QED BY <1>5, <1>11, <1>12, <1>13

-----------------------------------------------------------------------------
LEMMA FoldersInitially ==
  ASSUME WF!Init
  PROVE  FoldersInv
<1>1. PICK stored \in {NoFolder} \union DOMAIN FirstParents :
         home = [tree |-> NoFolder, loading |-> TRUE, stored |-> stored, restored |-> FALSE,
                 selected |-> NoFolder, projects |-> {}, listing |-> FALSE, expanded |-> {RootFolder},
                 query |-> {}, menu |-> NoFolder, steps |-> 0]
  BY DEF WF!Init
<1>2. opened = [dialog |-> WF!NoDialog, sent |-> <<>>] /\ reads = <<WF!FoldersRead(TRUE)>>  BY DEF WF!Init
<1>3. HomeHolds(home) /\ ~home.listing  BY <1>1 DEF HomeHolds, HomeFields
<1> DEFINE r == WF!FoldersRead(TRUE)
<1>4. DOMAIN r = ReadFields /\ r.of = "folders"  BY ReadsAre
<1> HIDE DEF r
<1>5. Len(<<r>>) = 1 /\ <<r>>[1] = r /\ <<r>> \in Seq({r})  OBVIOUS
<1>6. Listed(<<r>>)  BY <1>5, SeqIsListed
<1>7. ReadsHold(<<r>>) /\ Reading(<<r>>, "folders")
  <2>1. \A i \in 1..Len(<<r>>) : i = 1  BY <1>5
  <2>2. 1 \in 1..Len(<<r>>)  BY <1>5
  <2> QED BY <1>4, <1>5, <1>6, <2>1, <2>2 DEF ReadsHold, Reading
<1>8. BoxHolds(opened)
  <2>1. DOMAIN WF!NoDialog = BoxFields /\ ~WF!NoDialog.busy  BY DEF WF!NoDialog, BoxFields
  <2>2. DOMAIN opened = {"dialog", "sent"} /\ opened.dialog = WF!NoDialog /\ opened.sent = <<>>  BY <1>2
  <2>3. Listed(<<>>)  BY DEF Listed
  <2> QED BY <2>1, <2>2, <2>3 DEF BoxHolds
<1> QED BY <1>2, <1>3, <1>7, <1>8 DEF FoldersInv, SpinnersHold, r

LEMMA FoldersStep ==
  ASSUME FoldersInv, [WF!Next]_WF!vars
  PROVE  FoldersInv' /\ [WF!RestoreKeepsChoice]_WF!vars
<1>1. CASE WF!FoldersArrive  BY <1>1, FoldersArriveKeeps
<1>2. CASE WF!ProjectsArrive  BY <1>2, ProjectsArriveKeeps
<1>3. CASE WF!OpenFolder \/ WF!Refresh \/ WF!UseTree  BY <1>3, PageClicksKeep
<1>4. CASE WF!OpenDialog  BY <1>4, OpenDialogKeeps
<1>5. CASE WF!EditDialog \/ WF!CloseDialog \/ WF!Submit \/ WF!MutationFails  BY <1>5, DialogKeeps
<1>6. CASE WF!MutationSucceeds  BY <1>6, MutationSucceedsKeeps
<1>7. CASE UNCHANGED WF!vars
  <2>1. cloud' = cloud /\ home' = home /\ opened' = opened /\ reads' = reads  BY <1>7 DEF WF!vars
  <2> QED BY <1>7, <2>1 DEF FoldersInv
<1> QED BY <1>1, <1>2, <1>3, <1>4, <1>5, <1>6, <1>7 DEF WF!Next

LEMMA FoldersAlways == WF!Spec => []FoldersInv
<1>1. WF!Init => FoldersInv  BY FoldersInitially
<1>2. FoldersInv /\ [WF!Next]_WF!vars => FoldersInv'  BY FoldersStep
<1> QED BY <1>1, <1>2, PTL DEF WF!Spec

(***************************************************************************)
(* The spinners of the tree, of the list and of a dialog each wait for a   *)
(* request, although no read is cancelled and Escape closes a dialog whose *)
(* request is out (loadFolders, loadProjects and the mutation dialogs).    *)
(***************************************************************************)
THEOREM FoldersSpinnersBacked == WF!Spec => []WF!BusyIsBacked
<1>1. FoldersInv => WF!BusyIsBacked
  <2> SUFFICES ASSUME FoldersInv PROVE WF!BusyIsBacked  OBVIOUS
  <2>1. DOMAIN reads = 1..Len(reads) /\ DOMAIN opened.sent = 1..Len(opened.sent)
    BY ListIs DEF FoldersInv, ReadsHold, BoxHolds
  <2> QED BY <2>1 DEF FoldersInv, SpinnersHold, Reading, BoxHolds, WF!BusyIsBacked, WF!ToSet
<1> QED BY <1>1, FoldersAlways, PTL

(***************************************************************************)
(* A reload of the page comes back to the folder that is shown (the        *)
(* selection kept in sessionStorage by WorkspacePage).                     *)
(***************************************************************************)
THEOREM ReloadComesBack == WF!Spec => []WF!SelectedIsStored
<1>1. FoldersInv => WF!SelectedIsStored  BY DEF FoldersInv, HomeHolds, WF!SelectedIsStored
<1> QED BY <1>1, FoldersAlways, PTL

(***************************************************************************)
(* The folder of the last visit, found in a tree that arrives late, never  *)
(* replaces one that was chosen meanwhile (restoredFolderSelection in      *)
(* WorkspacePage).                                                         *)
(***************************************************************************)
THEOREM ChoiceOutlivesRestore == WF!Spec => [][WF!RestoreKeepsChoice]_WF!vars
<1>1. FoldersInv /\ [WF!Next]_WF!vars => [WF!RestoreKeepsChoice]_WF!vars  BY FoldersStep
<1> QED BY <1>1, FoldersAlways, PTL DEF WF!Spec

=============================================================================
