------------------------ MODULE GeometryDiagnostics ------------------------
(***************************************************************************)
(* Diagnostics of a Geometry: the server's job store and workers, and the  *)
(* two panels of the Geometry workspace that start a job, poll it, cancel  *)
(* it, compare versions, locate a finding in the viewer and make a plan of *)
(* what was found.                                                         *)
(*                                                                         *)
(* One action is one task of the browser (a click, an answer, a timer) or  *)
(* one critical section of the server's job store.                         *)
(***************************************************************************)
EXTENDS Naturals, Sequences, FiniteSets

CONSTANTS
    Ratios,       \* the thresholds a diagnostic can be run with
    Versions,     \* other synchronized versions of the Geometry
    MaxJobs,      \* bound on the diagnostic jobs of a behaviour
    MaxDiagGestures, \* bound on the clicks of a behaviour
    Nothing       \* no report or version

GeometryDiagnosticsAssumption ==
    /\ Ratios # {} /\ Nothing \notin Ratios \union Versions
    /\ MaxJobs \in Nat /\ MaxDiagGestures \in Nat

VARIABLES
    jobs,    \* the server's diagnostic jobs, the oldest first
    diag,    \* the workspace, as far as diagnostics go
    asked    \* requests and timers under way

(***************************************************************************)
(* Jobs of the server.                                                     *)
(***************************************************************************)
JobStates == {"queued", "running", "completed", "failed", "cancelled"}
Terminal == {"completed", "failed", "cancelled"}

Completed == {j \in DOMAIN jobs : jobs[j].st = "completed"}

\* JobStore.change, with the check that Update, Complete, Fail and Cancel make
ChangeAnyJob(j, st) == jobs' = [jobs EXCEPT ![j].st = st]
ChangeJob(j, st) ==
    /\ jobs[j].st \notin IF st \in {"completed", "failed"} THEN {"cancelled"} ELSE Terminal
    /\ jobs' = [jobs EXCEPT ![j].st = st,
                            ![j].ended = @ \/ st \in {"completed", "failed"},
                            ![j].rank = IF st = "completed" THEN 1 + Cardinality(Completed) ELSE @]

\* runGeometryDiagnosticsJob: its worker ends with Complete or Fail, after a
\* last look at IsCancelled that does not hold the mutex.
Worker == /\ \E j \in DOMAIN jobs :
               /\ ~jobs[j].ended
               /\ \/ jobs[j].st = "queued" /\ ChangeJob(j, "running")
                  \/ jobs[j].st # "queued" /\ \E st \in {"completed", "failed"} : ChangeJob(j, st)
          /\ UNCHANGED <<diag, asked>>

\* NewJobStore after a restart: nobody works on what was unfinished
Restart ==
    /\ \E j \in DOMAIN jobs : jobs[j].st \notin Terminal
    /\ jobs' = [j \in DOMAIN jobs |->
                  IF jobs[j].st \in Terminal THEN [jobs[j] EXCEPT !.ended = TRUE]
                  ELSE [jobs[j] EXCEPT !.st = "failed", !.ended = TRUE]]
    /\ UNCHANGED <<diag, asked>>

(***************************************************************************)
(* The panels.                                                             *)
(***************************************************************************)
NewDiagnostics ==
    [manifest |-> FALSE, located |-> FALSE, focus |-> FALSE, panel |-> "none",
     busyWith |-> {}, ratio |-> CHOOSE r \in Ratios : TRUE,
     token |-> 1, busy |-> FALSE, job |-> 0, jobSaw |-> "none", report |-> Nothing,
     compareTo |-> Nothing, comparison |-> Nothing, gestures |-> 0]

Call(op, token) == [op |-> op, token |-> token, job |-> 0, ratio |-> Nothing,
                    version |-> Nothing]
Loop == {"start", "poll", "wait"}

TypeOK ==
    /\ jobs \in Seq([st : JobStates, ratio : Ratios, ended : BOOLEAN, rank : Nat])
    /\ diag.panel \in {"none", "diagnostics", "health"} /\ diag.job \in 0..Len(jobs)
    /\ {diag.manifest, diag.located, diag.focus, diag.busy} \subseteq BOOLEAN
    /\ diag.busyWith \subseteq {"advanced", "comparison"}
    /\ diag.ratio \in Ratios /\ diag.report \in Ratios \union {Nothing}
    /\ {diag.compareTo, diag.comparison} \subseteq Versions \union {Nothing}

Init == /\ jobs = <<>>
        /\ diag = NewDiagnostics
        /\ asked = {Call("preview", 1), Call("latest", 1)}   \* effects of its opening

\* What the columns and the two panels offer.  A panel is modal.
DiagnosticsOffers(op) ==
    /\ diag.panel = "diagnostics"
    /\ \/ op \in {"panel", "ratio"}
       \/ op = "run" /\ ~diag.busy
       \/ op = "cancel" /\ diag.busy /\ diag.job # 0
       \/ op \in {"focus", "version"} /\ diag.report # Nothing
       \/ op = "compare" /\ diag.report # Nothing /\ diag.compareTo # Nothing
                         /\ "comparison" \notin diag.busyWith
       \/ op = "advanced" /\ diag.report # Nothing /\ "advanced" \notin diag.busyWith
HealthOffers(op) ==
    /\ diag.panel = "health"
    /\ \/ op = "panel"
       \/ op = "run" /\ ~diag.busy
       \/ op = "cancel" /\ diag.busy /\ diag.job # 0
       \/ op = "focus" /\ diag.report # Nothing

Offers(op) == \/ diag.panel = "none" /\ op = "panel"
              \/ DiagnosticsOffers(op) \/ HealthOffers(op)

Gesture(op) == Offers(op) /\ diag.gestures < MaxDiagGestures
Clicked(g) == diag' = [g EXCEPT !.gestures = @ + 1]

TogglePanel == /\ Gesture("panel")
               /\ \E p \in IF diag.panel = "none" THEN {"diagnostics", "health"} ELSE {"none"} :
                     Clicked([diag EXCEPT !.panel = p])
               /\ UNCHANGED <<jobs, asked>>

(* Plans and comparisons: a button is disabled while its request is out. *)
Submit(op, work) ==
    /\ Gesture(op)
    /\ Clicked([diag EXCEPT !.busyWith = @ \union {work}])
    /\ asked' = asked \union {[Call(work, 0) EXCEPT !.version = diag.compareTo]}
    /\ UNCHANGED jobs
createAdvancedPlan == Submit("advanced", "advanced")
runComparison == Submit("compare", "comparison")

chooseVersion == /\ Gesture("version")
                 /\ \E v \in Versions : Clicked([diag EXCEPT !.compareTo = v, !.comparison = Nothing])
                 /\ UNCHANGED <<jobs, asked>>

\* The finally of the three: the comparison that arrives is the one to show.
WorkEnds(c) ==
    /\ c.op \in {"semantic", "advanced", "comparison"}
    /\ \E ok \in BOOLEAN :
          diag' = [diag EXCEPT !.busyWith = @ \ {c.op},
                             !.comparison = IF c.op # "comparison" THEN @
                                            ELSE IF ok THEN c.version ELSE Nothing]
    /\ asked' = asked \ {c}
    /\ UNCHANGED jobs

(* Locating a finding in the viewer, now or when the surfaces are there. *)
focusDiagnostic ==
    /\ Gesture("focus")
    /\ \E present \in BOOLEAN :        \* the surface may not be rendered
          Clicked(IF diag.manifest THEN [diag EXCEPT !.located = present, !.focus = FALSE]
                  ELSE [diag EXCEPT !.focus = TRUE])
    /\ UNCHANGED <<jobs, asked>>

PreviewArrives(c) ==
    /\ c.op = "preview"
    /\ \/ diag' = [diag EXCEPT !.manifest = TRUE, !.focus = FALSE, !.located = @ \/ diag.focus]
       \/ diag' = [diag EXCEPT !.manifest = TRUE, !.focus = FALSE]
       \/ UNCHANGED diag
    /\ asked' = asked \ {c}
    /\ UNCHANGED jobs

(***************************************************************************)
(* Diagnostics.                                                            *)
(***************************************************************************)
chooseRatio == /\ Gesture("ratio")
               /\ \E r \in Ratios \ {diag.ratio} :
                     Clicked([diag EXCEPT !.ratio = r, !.report = Nothing])
               /\ UNCHANGED <<jobs, asked>>

runDiagnostics ==
    /\ Gesture("run")
    /\ Clicked([diag EXCEPT !.token = @ + 1, !.busy = TRUE, !.job = 0, !.jobSaw = "none"])
    /\ asked' = asked \union {[Call("start", diag.token + 1) EXCEPT !.ratio = diag.ratio]}
    /\ UNCHANGED jobs

cancelDiagnostics ==
    /\ Gesture("cancel")
    /\ Clicked([diag EXCEPT !.token = @ + 1, !.busy = FALSE])
    /\ asked' = asked \union {[Call("cancel", 0) EXCEPT !.job = diag.job]}
    /\ UNCHANGED jobs

LatestCompleted == IF Completed = {} THEN 0
                   ELSE CHOOSE j \in Completed : \A k \in Completed : jobs[k].rank <= jobs[j].rank

Queued(ratio) == [st |-> "queued", ratio |-> ratio, ended |-> FALSE, rank |-> 0]

\* the catch of runDiagnostics, which every run reaches, also one given up
RunFails(c) ==
    /\ c.op \in {"start", "poll"}
    /\ \/ c.op = "start" /\ Len(jobs) < MaxJobs /\ jobs' = Append(jobs, Queued(c.ratio))
       \/ UNCHANGED jobs                    \* the answer is lost, or the request
    /\ diag' = [diag EXCEPT !.report = Nothing, !.busy = @ /\ c.token # diag.token]
    /\ asked' = asked \ {c}
    
StartArrives(c) ==
    /\ c.op = "start" /\ Len(jobs) < MaxJobs
    /\ jobs' = Append(jobs, Queued(c.ratio))
    /\ IF c.token # diag.token THEN diag' = diag /\ asked' = asked \ {c}
       ELSE /\ diag' = [diag EXCEPT !.job = Len(jobs) + 1, !.jobSaw = "queued"]
            /\ asked' = (asked \ {c}) \union {[c EXCEPT !.op = "wait", !.job = Len(jobs) + 1]}
    
\* One turn of the loop with the job it was answered.  Nothing looks at the
\* token of the run before the end.
PollArrives(c) ==
    /\ c.op = "poll"
    /\ LET st == jobs[c.job].st
           over == st \in Terminal
       IN  /\ diag' = [diag EXCEPT !.job = c.job, !.jobSaw = st,
                                !.busy = @ /\ ~(over /\ c.token = diag.token),
                                !.report = CASE st = "completed" -> jobs[c.job].ratio
                                             [] st = "failed" -> Nothing
                                             [] OTHER -> @]
           /\ asked' = (asked \ {c}) \union IF over THEN {} ELSE {[c EXCEPT !.op = "wait"]}
    /\ UNCHANGED jobs

TimerFires(c) ==
    /\ c.op = "wait"
    /\ asked' = (asked \ {c}) \union
          IF c.token = diag.token THEN {[c EXCEPT !.op = "poll"]} ELSE {}
    /\ UNCHANGED <<jobs, diag>>

\* the report that was there before this page ran any, whenever it comes
LatestArrives(c) ==
    /\ c.op = "latest"
    /\ diag' \in {diag} \union
          IF LatestCompleted = 0 THEN {}
          ELSE {[diag EXCEPT !.job = LatestCompleted, !.jobSaw = "completed",
                            !.report = jobs[LatestCompleted].ratio]}
    /\ asked' = asked \ {c}
    /\ UNCHANGED jobs

CancelArrives(c) ==
    /\ c.op = "cancel"
    /\ \/ /\ ChangeJob(c.job, "cancelled")
          /\ diag' = [diag EXCEPT !.job = c.job, !.jobSaw = "cancelled"]
       \/ UNCHANGED <<jobs, diag>>           \* it has ended, or the request is lost
    /\ asked' = asked \ {c}
    
Next == \/ TogglePanel \/ createAdvancedPlan \/ runComparison \/ chooseVersion
        \/ focusDiagnostic \/ chooseRatio \/ runDiagnostics \/ cancelDiagnostics
        \/ \E c \in asked : \/ WorkEnds(c) \/ PreviewArrives(c) \/ StartArrives(c)
                            \/ PollArrives(c) \/ RunFails(c) \/ TimerFires(c)
                            \/ LatestArrives(c) \/ CancelArrives(c)
        \/ Worker \/ Restart

(***************************************************************************)
(* Properties.                                                             *)
(***************************************************************************)
\* "Analyzing" is shown only while the run it is about is asked for, awaited
\* or polled, and one loop polls for it.
BusyIsBacked ==
    diag.busy => Cardinality({c \in asked : c.op \in Loop /\ c.token = diag.token}) = 1

\* A job that was cancelled is never completed, whatever its worker was doing.
CancelledStays == \A j \in DOMAIN jobs : jobs[j].st = "cancelled" => jobs'[j].st = "cancelled"
=============================================================================
