-------------------------- MODULE ProjectInventory --------------------------
(***************************************************************************)
(* Opening a project: ProjectPage reads the snapshot the server keeps,     *)
(* asks for a synchronization, polls its manifest, and in the end reads    *)
(* the snapshot again or the live project.  The route is not keyed by the  *)
(* project: going back or forward in the history changes the project under *)
(* the page, and what was asked for the former project still answers.      *)
(*                                                                         *)
(* One action is one answer, timer or click in the browser.                *)
(***************************************************************************)
EXTENDS Naturals, FiniteSets

CONSTANTS
    Projects,     \* the projects of the browser's history
    MaxMoves,     \* bound on the clicks and navigations of a behaviour
    NoProject     \* nothing is shown yet

ProjectInventoryAssumption ==
    Projects # {} /\ NoProject \notin Projects /\ MaxMoves \in Nat

VARIABLES
    opened,    \* the page
    tasks      \* runs of synchronize and loadProject that wait for something

(***************************************************************************)
(* A task is of a project and a query (whether a Draft is asked for);      *)
(* `live' is ~cancelled and `have' is inventoryLoaded.  A run that is      *)
(* cancelled while it waits for a manifest or its timer does nothing more, *)
(* and is dropped at once.                                                 *)
(***************************************************************************)
Stages == {"first", "start", "again", "wait", "status", "cache", "live"}

Synchronize(o) == [project |-> o.project, query |-> o.query, at |-> "first",
                   live |-> TRUE, have |-> FALSE]

\* The synchronization effect: its cleanup clears the timer and cancels.
Effect(o, ts) ==
    /\ opened' = [o EXCEPT !.loading = TRUE, !.error = FALSE, !.syncError = FALSE]
    /\ tasks' = {[t EXCEPT !.live = FALSE] : t \in {u \in ts : u.at \notin {"start", "wait", "status"}}}
                \union {Synchronize(o)}

\* A render runs the effect when what it depends on has changed.
Render(o, ts) ==
    IF <<o.project, o.query>> = <<opened.project, opened.query>>
       THEN opened' = o /\ tasks' = ts
       ELSE Effect(o, ts)

Init == \E p \in Projects :
          LET o == [project |-> p, resource |-> FALSE, query |-> FALSE, shown |-> NoProject,
                    loading |-> TRUE, syncing |-> TRUE, error |-> FALSE, syncError |-> FALSE,
                    moves |-> 0]
          IN  opened = o /\ tasks = {Synchronize(o)}

Tasks == [project : Projects, query : BOOLEAN, at : Stages, live : BOOLEAN, have : BOOLEAN]
TypeOK ==
    /\ opened.project \in Projects /\ opened.shown \in Projects \union {NoProject}
    /\ tasks \subseteq Tasks
    /\ Cardinality({t \in tasks : t.live}) <= 1

(* loadProject *)
Begin(o, showLoading) ==
    [o EXCEPT !.error = FALSE, !.loading = @ \/ showLoading]

\* An inventory arrived: a page without a resource goes to the root of it.
Show(o, t, showLoading) ==
    LET s == [o EXCEPT !.shown = t.project, !.loading = @ /\ ~showLoading]
    IN  IF o.resource THEN s
        ELSE [s EXCEPT !.project = t.project, !.query = t.query, !.resource = TRUE]

Hidden(o, showLoading) == [o EXCEPT !.loading = @ /\ ~showLoading]

At(t, stage) == [t EXCEPT !.at = stage]
Rest(t) == tasks \ {t}

(* synchronize: the loop, and its finally *)
Loop(o, t, total, ts) ==
    IF ~t.have /\ total
    THEN Render(Begin(o, TRUE), ts \union {At(t, "again")})
    ELSE Render(o, ts \union {At(t, "wait")})

Finally(o, t, ts) ==
    Render([Begin(o, ~t.have) EXCEPT !.syncing = FALSE], ts \union {At(t, "cache")})

FirstArrives(t) ==
    /\ t.at = "first"
    /\ \E hit \in BOOLEAN :
         LET o == IF hit THEN Show(opened, t, TRUE) ELSE Hidden(opened, TRUE)
         IN  IF t.live
             THEN Render([o EXCEPT !.syncing = ~hit],
                         Rest(t) \union {[At(t, "start") EXCEPT !.have = hit]})
             ELSE Render(o, Rest(t))

\* The manifest that a start or a status request answers with; no answer at all
\* counts as a failure.  The server may report any state: a restart of it
\* leaves a manifest syncing for ever.
ManifestArrives(t) ==
    /\ t.at \in {"start", "status"}
    /\ \/ \E total \in BOOLEAN : Loop(opened, t, total, Rest(t))
       \/ \E failed \in BOOLEAN :
            Finally([opened EXCEPT !.syncError = @ \/ failed], t, Rest(t))

\* loadProject inside the loop: it does not look at cancelled; a cancelled run
\* arms its timer after the cleanup and ends when that fires.
AgainArrives(t) ==
    /\ t.at = "again"
    /\ \E hit \in BOOLEAN :
         LET o == IF hit THEN [Show(opened, t, TRUE) EXCEPT !.syncing = FALSE]
                  ELSE Hidden(opened, TRUE)
         IN  Render(o, Rest(t) \union (IF t.live THEN {[At(t, "wait") EXCEPT !.have = hit]} ELSE {}))

TimerFires(t) == /\ t.at = "wait"
                 /\ Render(opened, Rest(t) \union {At(t, "status")})
             
\* The last load of a synchronization, and the load after a plan was submitted:
\* with an inventory the snapshot has to do, without one the live project is read.
CacheArrives(t) ==
    /\ t.at = "cache"
    /\ \E hit \in BOOLEAN :
         IF hit THEN Render(Show(opened, t, ~t.have), Rest(t))
         ELSE IF t.have THEN Render(opened, Rest(t))
         ELSE Render(opened, Rest(t) \union {At(t, "live")})

LiveArrives(t) ==
    /\ t.at = "live"
    /\ \/ Render(Show(opened, t, TRUE), Rest(t))
       \/ Render([Hidden(opened, TRUE) EXCEPT !.error = TRUE], Rest(t))

(* The user. *)
Move(o) == [o EXCEPT !.moves = @ + 1]
CanMove == opened.moves < MaxMoves

\* back and forward, a link to the project, another Draft of the project
Navigate ==
    /\ CanMove
    /\ \E p \in Projects, r, q \in BOOLEAN :
         /\ <<p, q>> # <<opened.project, opened.query>>
         /\ Render(Move([opened EXCEPT !.project = p, !.resource = r, !.query = q]), tasks)

\* the Sync button and the retries: they count up syncNonce
RetryOffered == (~opened.loading /\ ~opened.syncing)
                \/ (~opened.syncing /\ opened.syncError)
SyncNow == /\ CanMove /\ RetryOffered
           /\ Effect(Move(opened), tasks)
       
\* PlanPanel's onSubmitted
PlanSubmitted ==
    /\ CanMove /\ opened.shown # NoProject
    /\ Render(Move(Begin(opened, TRUE)),
              tasks \union {[At(Synchronize(opened), "cache") EXCEPT !.live = FALSE]})

Next == \/ \E t \in tasks : \/ FirstArrives(t) \/ ManifestArrives(t) \/ TimerFires(t)
                            \/ AgainArrives(t) \/ CacheArrives(t) \/ LiveArrives(t)
        \/ Navigate \/ SyncNow \/ PlanSubmitted

vars == <<opened, tasks>>
Spec == Init /\ [][Next]_vars

(***************************************************************************)
(* Properties.                                                             *)
(***************************************************************************)
Loads(t) == t.at \in {"first", "again", "live"} \/ (t.at = "cache" /\ ~t.have)

\* The page says that it loads or synchronizes only while something is under
\* way that will say otherwise, however often the project changes meanwhile.
BusyIsBacked ==
    /\ opened.loading => \E t \in tasks : Loads(t)
    /\ opened.syncing => \E t \in tasks : t.live /\ t.at # "cache"

\* When nothing is under way any more the page shows an inventory, or an error
\* with a retry: it is never left blank (ProjectPage, the two load states).
SettledShows ==
    tasks = {} => opened.shown # NoProject \/ opened.error
=============================================================================
