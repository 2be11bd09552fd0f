-------------------------- MODULE ImportLifecycle --------------------------
(***************************************************************************)
(* Creating Flow360 projects from uploaded files: the plan store of        *)
(* internal/imports and, around it, the requests of internal/server that   *)
(* stage, approve, run and abort an import, and the cleanup loop.          *)
(*                                                                         *)
(* An import is visible, and can be approved and run, as soon as it is     *)
(* created; its files and its content hash are recorded when the upload    *)
(* ends.  A content stands for the files and all creation options, so that *)
(* equal contents are what sameExecution calls the same execution.  Each   *)
(* method of the store is one critical section of its mutex, except that   *)
(* AddFile keeps the mutex while it reads from the client.                 *)
(*                                                                         *)
(* Bounds: Imports, Contents, MaxProjects, MaxCrashes.  A second file of   *)
(* an upload repeats the first one's steps and is left out.                *)
(***************************************************************************)
EXTENDS Integers, FiniteSets

CONSTANTS
  Imports,       \* ids: random, never used twice
  Contents,      \* what is uploaded, with which options
  NoContent,     \* before the upload ends: no files, an empty hash
  MaxProjects,   \* projects made from one import, at most
  MaxCrashes

ASSUME ImportAssumption ==
  /\ NoContent \notin Contents
  /\ MaxProjects \in Nat
  /\ MaxCrashes \in Nat

VARIABLES
  plan,      \* the plan.json of each import
  upload,    \* where the request that stages it is
  lock,      \* the import whose upload holds the mutex
  runner,    \* the request that runs it, and what it last sent
  projects,  \* projects that Flow360 made from it
  crashes

vars == <<plan, upload, lock, runner, projects, crashes>>

Status == {"none", "draft", "approved", "running", "submitted", "failed", "gone"}
Open == {"running", "submitted"}
Plan == [status: Status, content: Contents \cup {NoContent}]
Upload == {"idle", "next", "reading", "finalize", "abort"}
Result == {"none", "created", "unresolved", "refused"}
Runner == [pc: {"idle", "create", "record"}, sent: Contents \cup {NoContent}, result: Result]

Init ==
  /\ plan = [i \in Imports |-> [status |-> "none", content |-> NoContent]]
  /\ upload = [i \in Imports |-> "idle"]
  /\ lock = {}
  /\ runner = [i \in Imports |-> [pc |-> "idle", sent |-> NoContent, result |-> "none"]]
  /\ projects = [i \in Imports |-> 0]
  /\ crashes = 0

-----------------------------------------------------------------------------
Unlocked == lock = {}
Exists(i) == plan[i].status \notin {"none", "gone"}
SetStatus(i, s) == plan' = [plan EXCEPT ![i].status = s]
Uploads(i, pc) == upload' = [upload EXCEPT ![i] = pc]

\* Removing what is not there is no error.
Abort(i) ==
  plan' = [plan EXCEPT ![i] = [status |-> "gone", content |-> NoContent]]

(***************************************************************************)
(* stageImport: create the plan, read the files, record them.  Whatever    *)
(* goes wrong on the way aborts the import.                                *)
(***************************************************************************)
Create(i) ==
  /\ Unlocked
  /\ plan[i].status = "none"
  /\ SetStatus(i, "draft")
  /\ Uploads(i, "next")
  /\ UNCHANGED <<lock, runner, projects, crashes>>

\* The file is opened under the mutex, in a directory that may be gone.
AddFile(i) ==
  /\ Unlocked
  /\ upload[i] = "next"
  /\ IF Exists(i) THEN Uploads(i, "reading") /\ lock' = {i}
                  ELSE Uploads(i, "abort") /\ UNCHANGED lock
  /\ UNCHANGED <<plan, runner, projects, crashes>>

\* The client has sent the file, or a limit or the connection ended it.
EndOfFile(i) ==
  /\ upload[i] = "reading"
  /\ \E pc \in {"finalize", "abort"} : Uploads(i, pc)
  /\ lock' = lock \ {i}
  /\ UNCHANGED <<plan, runner, projects, crashes>>

\* No part, or one with an extension that is not allowed.
RejectUpload(i) ==
  /\ upload[i] = "next"
  /\ Uploads(i, "abort")
  /\ UNCHANGED <<plan, lock, runner, projects, crashes>>

FinalizeStale(i) ==                                   \* mutant: writes the plan it created
  /\ Unlocked
  /\ upload[i] = "finalize"
  /\ \E c \in Contents : plan' = [plan EXCEPT ![i] = [status |-> "draft", content |-> c]]
  /\ Uploads(i, "idle")
  /\ UNCHANGED <<lock, runner, projects, crashes>>

\* The plan is read again: it may have been approved and run meanwhile.  It
\* may also be gone, or the write fails.
FinalizePlan(i) ==
  /\ Unlocked
  /\ upload[i] = "finalize"
  /\ \/ /\ Exists(i)
        /\ \E c \in Contents : plan' = [plan EXCEPT ![i].content = c]
        /\ Uploads(i, "idle")
     \/ Uploads(i, "abort") /\ UNCHANGED plan
  /\ UNCHANGED <<lock, runner, projects, crashes>>

AbortUpload(i) ==
  /\ Unlocked
  /\ upload[i] = "abort"
  /\ Abort(i)
  /\ Uploads(i, "idle")
  /\ UNCHANGED <<lock, runner, projects, crashes>>

-----------------------------------------------------------------------------
approveImport(i) ==
  /\ Unlocked
  /\ plan[i].status = "draft"
  /\ SetStatus(i, "approved")
  /\ UNCHANGED <<upload, lock, runner, projects, crashes>>

duplicateSubmittedOnly(i) ==                          \* mutant: runs in progress forgotten
  \E k \in Imports \ {i} : /\ plan[k].status = "submitted"
                           /\ plan[k].content # NoContent /\ plan[k].content = plan[i].content

\* Another import that is running or submitted is the same execution.
duplicate(i) ==
  \E k \in Imports \ {i} : /\ plan[k].status \in Open
                           /\ plan[k].content # NoContent /\ plan[k].content = plan[i].content

Start(i) ==
  /\ Unlocked
  /\ plan[i].status \in {"approved", "failed"}
  /\ ~duplicate(i)
  /\ projects[i] < MaxProjects
  /\ SetStatus(i, "running")
  /\ runner' = [runner EXCEPT ![i] = [pc |-> "create", sent |-> plan[i].content, result |-> "none"]]
  /\ UNCHANGED <<upload, lock, projects, crashes>>

\* The call and the lookup of the project's root: both succeed; the project
\* is made but its root is not found; no project; or a project although the
\* call has failed, the request having ended or timed out.  The command is
\* refused without files.
CreateProject(i) ==
  /\ runner[i].pc = "create"
  /\ \E r \in {"created", "unresolved", "refused"}, made \in 0 .. 1 :
       /\ r \in {"created", "unresolved"} => made = 1
       /\ runner[i].sent = NoContent => r = "refused" /\ made = 0
       /\ runner' = [runner EXCEPT ![i].pc = "record", ![i].result = r]
       /\ projects' = [projects EXCEPT ![i] = @ + made]
  /\ UNCHANGED <<plan, upload, lock, crashes>>

RecordSuccessOnly(i) ==                               \* mutant: returns early on an error
  /\ Unlocked
  /\ runner[i].pc = "record"
  /\ IF Exists(i) /\ runner[i].result = "created" THEN SetStatus(i, "submitted")
                                                  ELSE UNCHANGED plan
  /\ runner' = [runner EXCEPT ![i].pc = "idle"]
  /\ UNCHANGED <<upload, lock, projects, crashes>>

RecordRawResult(i) ==                                 \* mutant: the result as the status
  /\ Unlocked
  /\ runner[i].pc = "record"
  /\ IF Exists(i) THEN SetStatus(i, runner[i].result) ELSE UNCHANGED plan
  /\ runner' = [runner EXCEPT ![i].pc = "idle"]
  /\ UNCHANGED <<upload, lock, projects, crashes>>

RecordWithoutResult(i) ==                             \* mutant: an error counts as submitted
  /\ Unlocked
  /\ runner[i].pc = "record"
  /\ IF Exists(i) THEN SetStatus(i, "submitted") ELSE UNCHANGED plan
  /\ runner' = [runner EXCEPT ![i].pc = "idle"]
  /\ UNCHANGED <<upload, lock, projects, crashes>>

\* An import that was aborted meanwhile stays aborted: the error is dropped.
RecordResult(i) ==
  /\ Unlocked
  /\ runner[i].pc = "record"
  /\ IF Exists(i) THEN SetStatus(i, IF runner[i].result = "created" THEN "submitted" ELSE "failed")
                  ELSE UNCHANGED plan
  /\ runner' = [runner EXCEPT ![i].pc = "idle"]
  /\ UNCHANGED <<upload, lock, projects, crashes>>

abortImport(i) ==
  /\ Unlocked
  /\ Exists(i)
  /\ Abort(i)
  /\ UNCHANGED <<upload, lock, runner, projects, crashes>>

\* One pass removes the drafts and failed imports that nobody has changed
\* for 24 hours.
Cleanup ==
  /\ Unlocked
  /\ \E expired \in SUBSET {i \in Imports : plan[i].status \in {"draft", "failed"}} :
       /\ expired # {}
       /\ plan' = [i \in Imports |-> IF i \in expired
                     THEN [status |-> "gone", content |-> NoContent] ELSE plan[i]]
  /\ UNCHANGED <<upload, lock, runner, projects, crashes>>

\* The process ends and is started again: no request survives, every
\* plan.json does, for it is replaced by a rename.
Crash ==
  /\ crashes < MaxCrashes
  /\ crashes' = crashes + 1
  /\ upload' = [i \in Imports |-> "idle"]
  /\ lock' = {}
  /\ runner' = [i \in Imports |-> [runner[i] EXCEPT !.pc = "idle"]]
  /\ UNCHANGED <<plan, projects>>

-----------------------------------------------------------------------------
UploadStep(i) == AddFile(i) \/ EndOfFile(i) \/ RejectUpload(i) \/ FinalizePlan(i) \/ AbortUpload(i)

Next ==
  \/ Cleanup \/ Crash
  \/ \E i \in Imports : \/ Create(i) \/ UploadStep(i) \/ approveImport(i) \/ Start(i)
                        \/ CreateProject(i) \/ RecordResult(i) \/ abortImport(i)

Spec == Init /\ [][Next]_vars

(***************************************************************************)
(* Fairness.  The call for a project has a timeout; a Go mutex is handed   *)
(* to a goroutine that has waited long enough.  Nothing makes a client     *)
(* send the rest of its file: the server sets no read timeout.             *)
(***************************************************************************)
FairSpec ==
  /\ Spec
  /\ \A i \in Imports : WF_vars(CreateProject(i)) /\ SF_vars(RecordResult(i))

-----------------------------------------------------------------------------
TypeOK ==
  /\ plan \in [Imports -> Plan]
  /\ upload \in [Imports -> Upload]
  /\ lock \subseteq Imports
  /\ runner \in [Imports -> Runner]
  /\ projects \in [Imports -> Nat]
  /\ crashes \in 0 .. MaxCrashes

\* Start "rejects another running or submitted import" with the same
\* content: of the imports that were sent with one content, at most one is
\* running or submitted, although a content is recorded under imports that
\* are approved, or even run, before their upload ends.
OneOpenExecution ==
  \A i, k \in Imports :
    /\ plan[i].status \in Open /\ plan[k].status \in Open
    /\ runner[i].sent # NoContent /\ runner[i].sent = runner[k].sent
    => i = k

\* A submitted import describes the project it has made: what it records is
\* what was sent, and there is a project.
SubmittedAsRecorded ==
  \A i \in Imports : plan[i].status = "submitted" =>
    /\ plan[i].content # NoContent
    /\ runner[i].sent = plan[i].content
    /\ projects[i] > 0

\* An import that has been run is not offered for approval again by the end
\* of its upload or by anything else, and a submitted one never runs again.
RunIsNotUndone ==
  [][\A i \in Imports :
       /\ plan[i].status \in Open \cup {"failed"} => plan'[i].status \notin {"none", "draft", "approved"}
       /\ plan[i].status = "submitted" => plan'[i].status \in {"submitted", "gone"}]_vars

\* Unless a client keeps the store locked for good, or the process ends, an
\* import does not stay running.
RunSettles ==
  []<>Unlocked =>
    \A i \in Imports : (plan[i].status = "running") ~> (plan[i].status # "running" \/ crashes > 0)
=============================================================================
