----------------------------- MODULE ViewerTools -----------------------------
(***************************************************************************)
(* The measuring tools of a viewer and the annotations of a project.  Two  *)
(* tool sessions, the distance's and the basic tools', collect picked      *)
(* points, compute a result and save it; the annotations controller keeps  *)
(* the project's list, changes it before the server has agreed and takes a *)
(* refused change back.  The server (internal/annotations) serves a        *)
(* request in one step and its answer arrives in a later one, or never.    *)
(* Coordinates are whole numbers: a length is kept as its square.          *)
(***************************************************************************)
EXTENDS Integers, Sequences, FiniteSets, SequencesExt, TLC

CONSTANTS
    PickSpots,      \* the positions that can be picked, <<x, y, z>>
    MeasuredSpots,  \* the positions the results are computed from
    ToolKinds,      \* the basic tools that are tried
    ToolViews,      \* what the viewer can show: [project, resource, asset]
    MaxToolPoints,  \* bound on the points of a tool that takes any number
    MaxToolSteps,   \* bound on the user's steps of a behaviour, the picks aside
    FirstNotes,     \* the annotations the projects have at first
    NoSpot          \* the pointer is over nothing

\* How many points a tool takes: a fixed number, or at least a number.
Completion ==
    [point |-> [open |-> FALSE, count |-> 1], line |-> [open |-> FALSE, count |-> 2],
     sphere |-> [open |-> FALSE, count |-> 2], polyline |-> [open |-> TRUE, count |-> 2],
     angle |-> [open |-> FALSE, count |-> 3], circle |-> [open |-> FALSE, count |-> 3],
     area |-> [open |-> TRUE, count |-> 3], box |-> [open |-> FALSE, count |-> 2],
     distance |-> [open |-> FALSE, count |-> 2]]

ViewerToolsAssumption ==
    /\ PickSpots \cup MeasuredSpots \subseteq Int \X Int \X Int /\ ToolKinds \subseteq DOMAIN Completion \ {"distance"}
    /\ \A v \in ToolViews : DOMAIN v = {"project", "resource", "asset"}
    /\ MaxToolPoints \in Nat /\ MaxToolSteps \in Nat
    /\ \A i \in DOMAIN FirstNotes : FirstNotes[i].id = i /\ FirstNotes[i].kind \in DOMAIN Completion

VARIABLES
    tools,  \* the viewer: what it shows, the tool chosen, the two sessions
    notes,  \* the annotations controller
    noteStore, \* the server: the annotations of each project, the next identifier
    noteCalls     \* the requests that are out: the list's, and the changes'

(***************************************************************************)
(* Results                                                                 *)
(***************************************************************************)
Minus(u, v) == <<u[1] - v[1], u[2] - v[2], u[3] - v[3]>>
Plus(u, v) == <<u[1] + v[1], u[2] + v[2], u[3] + v[3]>>
Times(u, k) == <<u[1] * k, u[2] * k, u[3] * k>>
Inner(u, v) == u[1] * v[1] + u[2] * v[2] + u[3] * v[3]
Cross(u, v) == <<u[2] * v[3] - u[3] * v[2], u[3] * v[1] - u[1] * v[3], u[1] * v[2] - u[2] * v[1]>>
Zero == <<0, 0, 0>>
Least(a, b) == IF a < b THEN a ELSE b
Greatest(a, b) == IF a > b THEN a ELSE b
Corner(u, v, Op(_, _)) == [i \in 1..3 |-> Op(u[i], v[i])]

Normal(pts) == Cross(Minus(pts[2], pts[1]), Minus(pts[3], pts[1]))
\* The centre of a circle through three points, as offset / over from the first.
Centre(pts) ==
    LET first == Minus(pts[2], pts[1])
        second == Minus(pts[3], pts[1])
        n == Normal(pts)
    IN  [offset |-> Plus(Times(Cross(second, n), Inner(first, first)),
                         Times(Cross(n, first), Inner(second, second))),
         over |-> 2 * Inner(n, n)]
\* Twice the area of a closed polygon, as a vector.
AreaVector(pts) ==
    FoldLeft(LAMBDA sum, i : Plus(sum, Cross(pts[i], pts[(i % Len(pts)) + 1])),
             Zero, [i \in DOMAIN pts |-> i])
Box(pts) ==
    LET low == Corner(pts[1], pts[2], Least)
        high == Corner(pts[1], pts[2], Greatest)
        size == Minus(high, low)
    IN  [low |-> low, high |-> high, volume |-> size[1] * size[2] * size[3]]
\* Three points on a line have no circle; every other result can be computed.
Computable(kind, pts) == kind = "circle" => Normal(pts) # Zero

(***************************************************************************)
(* A tool session                                                          *)
(***************************************************************************)
NoNote == [id |-> 0, project |-> "none"]
Idle == [status |-> "idle", points |-> <<>>, hover |-> NoSpot, cause |-> "none", note |-> NoNote]
Armed == [Idle EXCEPT !.status = "armed"]
Capturing(s) == s.status \in {"armed", "collecting"}
IsActive(s) == Capturing(s) \/ s.status \in {"complete-draft", "saving", "error"}
Collecting(pts) == [Idle EXCEPT !.status = "collecting", !.points = pts]
\* A result that cannot be computed leaves nothing to go back to.
DraftFrom(kind, pts) ==
    IF Computable(kind, pts) THEN [Idle EXCEPT !.status = "complete-draft", !.points = pts]
    ELSE [Idle EXCEPT !.status = "error", !.cause = "compute"]

Activated(s) == IF s.status \in {"idle", "cancelled", "saved"} THEN Armed ELSE s
Cancelled(s) == IF s.status = "idle" THEN s ELSE [Idle EXCEPT !.status = "cancelled"]
\* As Picked, one point late.
PickedLate(kind, s, spot) ==
    IF ~Capturing(s) THEN s
    ELSE IF ~Completion[kind].open /\ Len(s.points) = Completion[kind].count THEN DraftFrom(kind, s.points)
    ELSE Collecting(Append(s.points, spot))
Picked(kind, s, spot) ==
    LET pts == Append(s.points, spot)
    IN  IF ~Capturing(s) THEN s
        ELSE IF ~Completion[kind].open /\ Len(pts) = Completion[kind].count THEN DraftFrom(kind, pts)
        ELSE IF ~Completion[kind].open /\ Len(pts) > Completion[kind].count THEN s
        ELSE Collecting(pts)
Replaced(kind, s, i, spot) ==
    LET draft == DraftFrom(kind, [s.points EXCEPT ![i] = spot])
    IN  IF s.status \notin {"complete-draft", "saved"} \/ i \notin DOMAIN s.points THEN s
        ELSE IF draft.status = "complete-draft" /\ s.status = "saved"
             THEN [s EXCEPT !.points = draft.points]
        ELSE draft
Hovered(s, spot) == IF Capturing(s) THEN [s EXCEPT !.hover = spot] ELSE s
Finished(kind, s) ==
    IF s.status = "collecting" /\ Completion[kind].open /\ Len(s.points) >= Completion[kind].count
    THEN DraftFrom(kind, s.points) ELSE s
UndoneLast(s) ==
    IF s.status \notin {"collecting", "complete-draft"} THEN s
    ELSE IF Len(s.points) < 2 THEN Armed
    ELSE Collecting(Front(s.points))
Resumed(s) ==
    IF s.status = "error" /\ s.cause = "save" THEN [s EXCEPT !.status = "complete-draft", !.cause = "none"]
    ELSE IF s.status \in {"complete-draft", "saved", "error"} THEN Armed
    ELSE s
\* "Retry" of a refused save goes back to the draft and clears it.
Retried(s) == IF s.status = "error" /\ s.cause = "save" THEN Resumed(Resumed(s)) ELSE Resumed(s)
SaveStarted(s) == IF s.status = "complete-draft" THEN [s EXCEPT !.status = "saving"] ELSE s
SaveSucceeded(s, note) ==
    IF s.status = "saving"
    THEN [s EXCEPT !.status = "saved", !.note = [id |-> note.id, project |-> note.project]]
    ELSE s
SaveFailed(s) == IF s.status = "saving" THEN [s EXCEPT !.status = "error", !.cause = "save"] ELSE s

Hooks == {"basic", "distance"}
KindOf(h) == IF h = "basic" THEN tools.kind ELSE "distance"
\* The workspace gives the viewer the basic tools' input while one is active.
Installed == IF IsActive(tools.basic) THEN "basic" ELSE "distance"

(***************************************************************************)
(* The annotations controller                                              *)
(***************************************************************************)
Projects == {v.project : v \in ToolViews}
NoFetch == [project |-> "none", reply |-> "none", list |-> <<>>]
Fetch(p) == [NoFetch EXCEPT !.project = p]
Create == 0 \* the key under which a creation is listed as being saved
Index(list, id) ==
    LET at == {i \in DOMAIN list : list[i].id = id}
    IN  IF at = {} THEN 0 ELSE CHOOSE i \in at : \A j \in at : i <= j
WithNote(list, note) == [i \in DOMAIN list |-> IF list[i].id = note.id THEN note ELSE list[i]]
WithoutNote(list, id) == SelectSeq(list, LAMBDA n : n.id # id)
\* A change is a function on the fields it sets.
Change(note, change) == change @@ note
Published(n, list) == [n EXCEPT !.list = list, !.cache[n.project] = list]
Settled(n, key) ==
    [n EXCEPT !.saving = @ \ {key},
              !.tokens = IF key = Create THEN @ ELSE [k \in DOMAIN @ \ {key} |-> @[k]]]
\* As ForProject, the list of the former project left.
ForProjectWithList(n, p) ==
    [n EXCEPT !.project = p, !.loading = TRUE, !.error = FALSE, !.saving = {}, !.tokens = [k \in {} |-> 0]]
\* setProject: the answers to earlier changes no longer count.
ForProject(n, p) ==
    [n EXCEPT !.project = p, !.list = n.cache[p], !.loading = TRUE, !.stale = n.cache[p] # <<>>,
              !.error = FALSE, !.saving = {}, !.tokens = [k \in {} |-> 0]]
IsCurrent(r) ==
    /\ r.project = notes.project
    /\ r.id \in DOMAIN notes.tokens /\ notes.tokens[r.id] = r.nr
NewCall(type, id, change, previous, at, hook) ==
    [type |-> type, nr |-> notes.changes + 1, project |-> notes.project, id |-> id,
     change |-> change, previous |-> previous, at |-> at, hook |-> hook, reply |-> "none", answer |-> NoNote]
NoChange == [f \in {} |-> 0]
\* An optimistic change of a listed annotation.
Changing(n, id, list) ==
    [n EXCEPT !.list = list, !.error = FALSE, !.saving = @ \cup {id}, !.changes = @ + 1,
              !.tokens = (id :> n.changes + 1) @@ @]

Init ==
    /\ \E v \in ToolViews, k \in ToolKinds :
          /\ tools = [view |-> v, kind |-> k, basic |-> Idle, distance |-> Idle, steps |-> 0]
          /\ notes = [project |-> v.project, list |-> <<>>, cache |-> [p \in Projects |-> <<>>],
                      loading |-> TRUE, stale |-> FALSE, error |-> FALSE, saving |-> {},
                      tokens |-> [i \in {} |-> 0], changes |-> 0]
          /\ noteCalls = [fetch |-> Fetch(v.project), sent |-> {}]
    /\ noteStore = [next |-> Len(FirstNotes) + 1,
                    of |-> [p \in Projects |-> SelectSeq(FirstNotes, LAMBDA n : n.project = p)]]

(***************************************************************************)
(* The user's steps in the viewer                                          *)
(***************************************************************************)
SetSession(h, s) == tools' = [tools EXCEPT ![h] = s]
Step == tools.steps < MaxToolSteps
\* A user's step that leaves the sessions as they are, or changes one.
Stepped == tools' = [tools EXCEPT !.steps = @ + 1]
UserSets(h, s) == Step /\ tools' = [tools EXCEPT ![h] = s, !.steps = @ + 1]
ToolsOnly == UNCHANGED <<notes, noteStore, noteCalls>>

ActivateBasic(kind) ==
    /\ Step /\ tools' = [tools EXCEPT !.steps = @ + 1, !.kind = kind, !.basic = Armed, !.distance = Cancelled(@)]
    /\ ToolsOnly
ActivateDistance ==
    /\ Step /\ tools' = [tools EXCEPT !.steps = @ + 1, !.basic = Cancelled(@), !.distance = Activated(@)]
    /\ ToolsOnly
CloseActive ==
    /\ \E h \in Hooks : tools[h].status \notin {"idle", "cancelled"}
    /\ Step /\ tools' = [tools EXCEPT !.steps = @ + 1, !.basic = Cancelled(@), !.distance = Cancelled(@)]
    /\ ToolsOnly
Escape(h) ==
    /\ IF h = "basic" THEN Capturing(tools[h]) ELSE IsActive(tools[h])
    /\ UserSets(h, Cancelled(tools[h]))
    /\ ToolsOnly
Pick(spot) ==
    /\ Capturing(tools[Installed])
    /\ Completion[KindOf(Installed)].open => Len(tools[Installed].points) < MaxToolPoints
    /\ SetSession(Installed, Picked(KindOf(Installed), tools[Installed], spot))
    /\ ToolsOnly
Hover(spot) ==
    /\ Capturing(tools[Installed])
    /\ UserSets(Installed, Hovered(tools[Installed], spot))
    /\ ToolsOnly
\* Enter, or a double click.
FinishOpen ==
    /\ Capturing(tools.basic)
    /\ UserSets("basic", Finished(tools.kind, tools.basic))
    /\ ToolsOnly
UndoLast ==
    /\ Capturing(tools.basic) /\ Completion[tools.kind].open
    /\ UserSets("basic", UndoneLast(tools.basic))
    /\ ToolsOnly
Retry(h) ==
    /\ tools[h].status \in {"complete-draft", "error"} \/ (h = "distance" /\ tools[h].status = "saved")
    /\ UserSets(h, Retried(tools[h]))
    /\ ToolsOnly
ResumeDraft(h) ==
    /\ tools[h].status = "error" /\ tools[h].cause = "save"
    /\ UserSets(h, Resumed(tools[h]))
    /\ ToolsOnly
DragPoint(i, spot) ==
    LET h == Installed
    IN  /\ tools[h].status \in {"complete-draft", "saved"} /\ i \in DOMAIN tools[h].points
        /\ UserSets(h, Replaced(KindOf(h), tools[h], i, spot))
        /\ ToolsOnly
\* The viewer shows another resource: both sessions end, and another project
\* is read.
ShowView(v) ==
    /\ v # tools.view
    /\ Step /\ tools' = [tools EXCEPT !.steps = @ + 1, !.view = v, !.basic = Idle, !.distance = Cancelled(@)]
    /\ IF v.project = tools.view.project THEN UNCHANGED <<notes, noteCalls>>
       ELSE /\ notes' = ForProject(notes, v.project)
            /\ noteCalls' = [noteCalls EXCEPT !.fetch = Fetch(v.project)]
    /\ UNCHANGED noteStore

(***************************************************************************)
(* Requests                                                                *)
(***************************************************************************)
Send(r) == noteCalls' = [noteCalls EXCEPT !.sent = @ \cup {r}]
Save(h) ==
    LET s == tools[h]
        made == [id |-> 0, project |-> tools.view.project, resource |-> tools.view.resource,
                 frame |-> tools.view.asset, kind |-> KindOf(h), points |-> s.points,
                 name |-> "made", visible |-> TRUE]
    IN  /\ s.status = "complete-draft"
        /\ UserSets(h, SaveStarted(s))
        /\ notes' = [notes EXCEPT !.saving = @ \cup {Create}, !.error = FALSE, !.changes = @ + 1]
        /\ Send(NewCall("create", Create, NoChange, made, 0, h))
        /\ UNCHANGED noteStore
UpdateNote(id, change) ==
    LET at == Index(notes.list, id)
        previous == notes.list[at]
    IN  /\ at > 0
        /\ notes' = Changing(notes, id, WithNote(notes.list, Change(previous, change)))
        /\ Send(NewCall("patch", id, change, previous, at, "none"))
        /\ UNCHANGED noteStore
\* A dragged point of a saved distance is let go: the annotation follows.
CommitPoint(i, spot) ==
    LET s == tools.distance
    IN  /\ Installed = "distance" /\ s.status = "saved" /\ i \in DOMAIN s.points
        /\ UserSets("distance", Replaced("distance", s, i, spot))
        /\ UpdateNote(s.note.id, "points" :> [s.points EXCEPT ![i] = spot])
\* The panel's buttons are off while a change of the annotation is being saved.
SetVisible(id) ==
    /\ id \notin notes.saving /\ Index(notes.list, id) > 0
    /\ UpdateNote(id, "visible" :> ~notes.list[Index(notes.list, id)].visible)
    /\ Step /\ Stepped
Rename(id) ==
    /\ id \notin notes.saving
    /\ UpdateNote(id, "name" :> "renamed")
    /\ Step /\ Stepped
RemoveNote(id) ==
    LET at == Index(notes.list, id)
    IN  /\ at > 0 /\ id \notin notes.saving
        /\ notes' = Changing(notes, id, WithoutNote(notes.list, id))
        /\ Send(NewCall("delete", id, NoChange, notes.list[at], at, "none"))
        /\ Step /\ Stepped
        /\ UNCHANGED noteStore
\* The button of the error message.
RetryLoad ==
    /\ notes.error
    /\ notes' = [notes EXCEPT !.loading = TRUE, !.stale = @ \/ notes.list # <<>>, !.error = FALSE]
    /\ noteCalls' = [noteCalls EXCEPT !.fetch = Fetch(notes.project)]
    /\ Step /\ Stepped
    /\ UNCHANGED noteStore

(***************************************************************************)
(* The server, and its answers                                             *)
(***************************************************************************)
Serve(r) ==
    LET stored == noteStore.of[r.project]
        i == Index(stored, r.id)
        made == [r.previous EXCEPT !.id = noteStore.next]
        answer == CASE r.type = "create" -> made
                    [] r.type = "patch" -> Change(stored[i], r.change)
                    [] r.type = "delete" -> stored[i]
        after == CASE r.type = "create" -> Append(stored, made)
                   [] r.type = "patch" -> WithNote(stored, answer)
                   [] r.type = "delete" -> WithoutNote(stored, r.id)
    IN  /\ r.reply = "none" /\ (r.type = "create" \/ i > 0)
        /\ noteStore' = [next |-> noteStore.next + (IF r.type = "create" THEN 1 ELSE 0),
                         of |-> [noteStore.of EXCEPT ![r.project] = after]]
        /\ noteCalls' = [noteCalls EXCEPT !.sent = (@ \ {r}) \cup {[r EXCEPT !.reply = "ok", !.answer = answer]}]
        /\ UNCHANGED <<tools, notes>>
\* A request that never reaches the server, one that it refuses, and one whose
\* answer is lost after it was served.
Lose(r) ==
    /\ r.reply # "failed"
    /\ noteCalls' = [noteCalls EXCEPT !.sent = (@ \ {r}) \cup {[r EXCEPT !.reply = "failed", !.answer = NoNote]}]
    /\ UNCHANGED <<tools, notes, noteStore>>
ServeList(ok) ==
    /\ noteCalls.fetch.project # "none" /\ noteCalls.fetch.reply = "none"
    /\ noteCalls' = [noteCalls EXCEPT !.fetch.reply = IF ok THEN "ok" ELSE "failed",
                                      !.fetch.list = IF ok THEN noteStore.of[noteCalls.fetch.project] ELSE <<>>]
    /\ UNCHANGED <<tools, notes, noteStore>>

ListAnswered ==
    LET f == noteCalls.fetch
        mine == SelectSeq(f.list, LAMBDA n : n.project = f.project)
    IN  /\ f.reply # "none" /\ f.project = notes.project
        /\ notes' = IF f.reply = "ok"
                    THEN [Published(notes, mine) EXCEPT !.loading = FALSE, !.stale = FALSE, !.error = FALSE]
                    ELSE [notes EXCEPT !.loading = FALSE, !.stale = notes.list # <<>>, !.error = TRUE]
        /\ noteCalls' = [noteCalls EXCEPT !.fetch = NoFetch]
        /\ UNCHANGED <<tools, noteStore>>
Answered(r) == r.reply # "none" /\ noteCalls' = [noteCalls EXCEPT !.sent = @ \ {r}]
\* What a creation's answer adds to the list, if its project is still shown.
Created(r) ==
    LET taken == r.reply = "ok" /\ r.answer.project = notes.project
        done == IF taken THEN Published(notes, Append(notes.list, r.answer))
                ELSE [notes EXCEPT !.error = r.reply = "failed" \/ @]
    IN  IF r.project = notes.project THEN Settled(done, Create) ELSE notes
CreateAnswered(r) ==
    LET s == tools[r.hook]
    IN  /\ r.type = "create" /\ Answered(r)
        /\ notes' = Created(r)
        /\ SetSession(r.hook, IF r.reply = "ok" /\ r.project = notes.project
                              THEN SaveSucceeded(s, r.answer) ELSE SaveFailed(s))
        /\ UNCHANGED noteStore
PatchAnswered(r) ==
    /\ r.type = "patch" /\ Answered(r)
    /\ notes' = IF ~IsCurrent(r) THEN notes
                ELSE Settled(IF r.reply = "ok" THEN Published(notes, WithNote(notes.list, r.answer))
                             ELSE [Published(notes, WithNote(notes.list, r.previous)) EXCEPT !.error = TRUE],
                             r.id)
    /\ UNCHANGED <<tools, noteStore>>
\* A refused removal puts the annotation back where it was.
DeleteAnswered(r) ==
    LET at == Least(r.at, Len(notes.list) + 1)
    IN  /\ r.type = "delete" /\ Answered(r)
        /\ notes' = IF ~IsCurrent(r) THEN notes
                    ELSE Settled(IF r.reply = "ok" THEN Published(notes, notes.list)
                                 ELSE [Published(notes, InsertAt(notes.list, at, r.previous)) EXCEPT !.error = TRUE],
                                 r.id)
        /\ UNCHANGED <<tools, noteStore>>

Next ==
    \/ \E k \in ToolKinds : ActivateBasic(k)
    \/ ActivateDistance \/ CloseActive \/ FinishOpen \/ UndoLast \/ RetryLoad
    \/ \E h \in Hooks : Escape(h) \/ Retry(h) \/ ResumeDraft(h) \/ Save(h)
    \/ \E spot \in PickSpots : Pick(spot) \/ Hover(spot)
    \/ \E i \in 1..MaxToolPoints, spot \in PickSpots : DragPoint(i, spot) \/ CommitPoint(i, spot)
    \/ \E v \in ToolViews : ShowView(v)
    \/ \E i \in DOMAIN notes.list :
          SetVisible(notes.list[i].id) \/ Rename(notes.list[i].id) \/ RemoveNote(notes.list[i].id)
    \/ \E ok \in BOOLEAN : ServeList(ok)
    \/ ListAnswered
    \/ \E r \in noteCalls.sent :
          Serve(r) \/ Lose(r) \/ CreateAnswered(r) \/ PatchAnswered(r) \/ DeleteAnswered(r)

viewerToolsVars == <<tools, notes, noteStore, noteCalls>>
Spec == Init /\ [][Next]_viewerToolsVars

(***************************************************************************)
(* What is drawn                                                           *)
(***************************************************************************)
Shape(key, shape, hover) == [key |-> key, shape |-> shape, hover |-> hover]
Marks(pts) == [i \in DOMAIN pts |-> Shape(<<"point", i>>, "point", FALSE)]
If(condition, shapes) == IF condition THEN shapes ELSE <<>>
\* createOverlays of each tool: the points, what joins them, the labels of the
\* result, and what follows the pointer.
HoverBand(pts, hover) ==
    If(pts # <<>> /\ hover # NoSpot,
       <<Shape(<<"hover-rubber-band", 0>>, "polyline", TRUE), Shape(<<"hover-point", 0>>, "point", TRUE)>>)
Joined(pts, key) == If(Len(pts) >= 2, <<Shape(<<key, 0>>, "polyline", FALSE)>>)
Labelled(done, key) == If(done, <<Shape(<<key, 0>>, "label", FALSE)>>)
FigurePrimitives(kind, pts, done) ==
    CASE kind = "angle" -> Joined(pts, "angle-rays") \o Labelled(done, "angle-label")
      [] kind = "circle" -> If(done, <<Shape(<<"circle", 0>>, "polyline", FALSE)>>) \o Labelled(done, "circle-radius")
      [] kind = "area" -> Joined(pts, "area-outline") \o Labelled(done, "area-label")
      [] kind = "box" -> If(done, [i \in 1..12 |-> Shape(<<"box-edge", i>>, "polyline", FALSE)]) \o Labelled(done, "box-label")
Primitives(kind, pts, hover, done) ==
    LET n == Len(pts)
        labels == [i \in 1..(n - 1) |-> Shape(<<"segment-label", i>>, "label", FALSE)]
        hovered == <<Shape(<<"hover-radius-label", 0>>, "label", TRUE)>>
                   \o If(hover # pts[1], <<Shape(<<"hover-sphere", 0>>, "sphere", TRUE)>>)
        own == CASE kind = "line" -> Joined(pts, "line")
                 [] kind = "distance" -> Joined(pts, "line") \o Labelled(done, "distance-label")
                 [] kind = "polyline" -> Joined(pts, "polyline") \o If(done, labels) \o Labelled(done, "total-label")
                 [] kind = "sphere" ->
                        If(done /\ pts[1] # pts[n], <<Shape(<<"sphere", 0>>, "sphere", FALSE)>>) \o Labelled(done, "radius-label")
                        \o If(~done /\ n = 1 /\ hover # NoSpot, hovered)
                 [] OTHER -> FigurePrimitives(kind, pts, done)
    IN  IF kind = "point"
        THEN IF n > 0 THEN Marks(pts) ELSE If(hover # NoSpot, <<Shape(<<"hover-point", 0>>, "point", TRUE)>>)
        ELSE Marks(pts) \o own \o HoverBand(pts, hover)

\* The saved annotations that fit what is shown.  A viewer that renders another
\* resource's geometry shows every annotation made on that geometry.
Fits(note) ==
    /\ note.visible /\ note.project = tools.view.project /\ note.frame = tools.view.asset
    /\ tools.view.asset = tools.view.resource => note.resource = tools.view.resource
SavedOverlays ==
    LET fitting == SelectSeq(notes.list, Fits)
        drawn(note) == [owner |-> <<"saved", note.id>>, frame |-> note.frame,
                        shapes |-> Primitives(note.kind, note.points, NoSpot, TRUE)]
    IN  [i \in DOMAIN fitting |-> drawn(fitting[i])]
SessionOverlays(h) ==
    LET s == tools[h]
        all == Primitives(KindOf(h), s.points, s.hover, s.points # <<>> /\ ~Capturing(s))
        one(owner, hover) ==
            LET shapes == SelectSeq(all, LAMBDA p : p.hover = hover)
            IN  If(shapes # <<>>, <<[owner |-> <<owner, 0>>, frame |-> tools.view.asset, shapes |-> shapes]>>)
    IN  IF ~IsActive(s) \/ (h = "distance" /\ s.points = <<>>) THEN <<>>
        ELSE one("draft", FALSE) \o one("hover", TRUE)
Overlays == SavedOverlays \o SessionOverlays(Installed)
\* ViewerOverlayLayer.update: by annotation and primitive, the first one wins,
\* and only what is in the frame of the resource shown.
Drawn ==
    LET inFrame == {i \in DOMAIN Overlays : Overlays[i].frame = tools.view.asset}
        of(i) == {[owner |-> Overlays[i].owner, shape |-> Overlays[i].shapes[j]] : j \in DOMAIN Overlays[i].shapes}
    IN  UNION {of(i) : i \in inFrame}

(***************************************************************************)
(* Properties                                                              *)
(***************************************************************************)
Statuses == {"idle", "armed", "collecting", "complete-draft", "saving", "saved", "error", "cancelled"}
\* The shape of the state: sessions, the controller, the server and the
\* requests (useViewerTools, useDistanceTool, ProjectAnnotationsController).
TypeOK ==
    /\ tools.view \in ToolViews /\ tools.kind \in ToolKinds
    /\ \A h \in Hooks : /\ tools[h].status \in Statuses
                        /\ \A i \in DOMAIN tools[h].points : tools[h].points[i] \in PickSpots
                        /\ tools[h].hover \in PickSpots \cup {NoSpot}
    /\ notes.project = tools.view.project
    /\ \A i \in DOMAIN notes.list : notes.list[i].id \in 1..(noteStore.next - 1)
    /\ notes.loading \in BOOLEAN /\ notes.stale \in BOOLEAN /\ notes.error \in BOOLEAN
    /\ notes.saving \subseteq 0..(noteStore.next - 1) /\ DOMAIN notes.tokens \subseteq notes.saving
    /\ \A r \in noteCalls.sent : r.type \in {"create", "patch", "delete"}

\* The list shown, what is kept for every project and what a session saved
\* belong to the project they are shown under, whatever order the answers of
\* the project left and of the project entered come in.
ListsAreOfProject ==
    /\ \A i \in DOMAIN notes.list : notes.list[i].project = tools.view.project
    /\ \A p \in Projects : \A i \in DOMAIN notes.cache[p] : notes.cache[p][i].project = p
    /\ \A h \in Hooks : tools[h].status = "saved" => tools[h].note.project = tools.view.project

\* A mark of something going on has a request behind it: the list's spinner, a
\* row that is being saved, a session that is saving.
BusyIsBacked ==
    /\ notes.loading => noteCalls.fetch.project = notes.project
    /\ \A id \in notes.saving \ {Create} :
          \E r \in noteCalls.sent : IsCurrent(r) /\ r.id = id
    /\ Create \in notes.saving =>
          \E r \in noteCalls.sent : r.type = "create" /\ r.project = notes.project
    /\ \A h \in Hooks : tools[h].status = "saving" =>
          \E r \in noteCalls.sent : r.type = "create" /\ r.hook = h

\* What can be saved is complete: the points the tool asks for, never on a line
\* for a circle; a session that collects still lacks one or may be finished.
DraftIsComplete ==
    \A h \in Hooks :
        LET s == tools[h]
            c == Completion[KindOf(h)]
            n == Len(s.points)
        IN  /\ s.status \in {"complete-draft", "saving", "saved"} \/ s.cause = "save" =>
                 /\ IF c.open THEN n >= c.count ELSE n = c.count
                 /\ Computable(KindOf(h), s.points)
            /\ s.status = "collecting" => n > 0 /\ (~c.open => n < c.count)

Squared(u) == Inner(u, u)
FarFromCentre(pts, i) ==
    Squared(Minus(Times(Minus(pts[i], pts[1]), Centre(pts).over), Centre(pts).offset))
\* The results are right for every choice of points: a circle's centre is as far
\* from each of the three, an area does not depend on the point it is measured
\* from, a box holds both its corners (basic-tools/geometry.ts).
ResultsAreSound ==
    \A pts \in [1..3 -> MeasuredSpots] :
        /\ Computable("circle", pts) =>
              \A i \in 2..3 : Centre(pts).over > 0 /\ FarFromCentre(pts, 1) = FarFromCentre(pts, i)
        /\ AreaVector(pts) = AreaVector(Append(Tail(pts), Head(pts)))
        /\ Box(pts).volume >= 0
        /\ \A i \in 1..2, k \in 1..3 : Box(pts).low[k] <= pts[i][k] /\ pts[i][k] <= Box(pts).high[k]

\* The distance tool and a basic tool are never active at once: one of them
\* would keep its draft while the viewer's clicks go to the other.
OneToolAtATime == ~(IsActive(tools.basic) /\ IsActive(tools.distance))

\* The overlay keeps one object for each annotation and key, so no two
\* different shapes may have the same: one of them would never be drawn.
ShapesAreDistinct ==
    /\ \A a, b \in Drawn : a.owner = b.owner /\ a.shape.key = b.shape.key => a = b
    /\ \A i \in DOMAIN Overlays : IsInjective(Overlays[i].shapes)
==============================================================================
