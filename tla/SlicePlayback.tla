---------------------------- MODULE SlicePlayback ----------------------------
(***************************************************************************)
(* The player of a time-series archive: the panel that has the archive     *)
(* prepared and follows the preparation by polling, and the playback of    *)
(* the frames that are ready, several sequences at a time.  The playback   *)
(* advances by the clock, skipping frames, but only from a frame the       *)
(* viewer has loaded.  The server answers a request when it is sent, the   *)
(* answer arrives later or fails, in any order.                            *)
(***************************************************************************)
EXTENDS Integers, Sequences, FiniteSets, SequencesExt, FiniteSetsExt, TLC

CONSTANTS
    Archive,        \* the frames, in the order they are prepared: [track, step, low, high]
    NoStep,         \* the step of a frame that has none
    MaxPrepared,    \* how many preparations are started at most
    MaxPolls,       \* how many polls are out at most
    MaxPlayerSteps  \* bound on the user's clicks of a behaviour

SlicePlaybackAssumption ==
    /\ Archive \in Seq({Archive[i] : i \in DOMAIN Archive})
    /\ \A i \in DOMAIN Archive : /\ Archive[i].step = NoStep \/ Archive[i].step \in Nat
                                 /\ Archive[i].low <= Archive[i].high
    /\ NoStep \notin Nat /\ {MaxPrepared, MaxPolls, MaxPlayerSteps} \subseteq Nat

VARIABLES
    prepared,   \* the server: its preparations, each [status, made]
    player,     \* the panel: loading, busy, the preparation it shows
    playing,    \* the playback, when there is something to play
    polls       \* the requests that are out, with the answers they will bring

playerVars == <<prepared, player, playing, polls>>

(***************************************************************************)
(* The timeline                                                            *)
(***************************************************************************)
TracksOf(frames) == {frames[i].track : i \in DOMAIN frames}
\* The sequences that can be played, by name.
slicePlaybackTrackNames(frames) ==
    SetToSortSeq({t \in TracksOf(frames) : Cardinality({i \in DOMAIN frames : frames[i].track = t}) > 1}, <)
\* A frame without a step comes after those that have one.
StepOrder(frames, i, j) ==
    IF frames[i].step = frames[j].step THEN i < j
    ELSE frames[j].step = NoStep \/ (frames[i].step # NoStep /\ frames[i].step < frames[j].step)
TrackFrames(frames, t) ==
    SetToSortSeq({i \in DOMAIN frames : frames[i].track = t}, LAMBDA i, j : StepOrder(frames, i, j))
StepsOf(frames, track) == {frames[track[k]].step : k \in DOMAIN track} \ {NoStep}
\* Of the frames of one step the last one counts.
AtStep(frames, track, step) == track[Max({k \in DOMAIN track : frames[track[k]].step = step})]
\* The moments to play: a frame of every sequence at each step they share, or,
\* when they share none, their frames in order.
slicePlaybackTimeline(frames, tracks) ==
    LET kept == SelectSeq([k \in DOMAIN tracks |-> TrackFrames(frames, tracks[k])], LAMBDA track : track # <<>>)
        common == {s \in UNION {StepsOf(frames, kept[k]) : k \in DOMAIN kept} : \A k \in DOMAIN kept : s \in StepsOf(frames, kept[k])}
        steps == SetToSortSeq(common, <)
    IN  IF kept = <<>> THEN <<>>
        ELSE IF steps # <<>>
             THEN [n \in DOMAIN steps |-> [k \in DOMAIN kept |-> AtStep(frames, kept[k], steps[n])]]
             ELSE [n \in 1..Min({Len(kept[k]) : k \in DOMAIN kept}) |-> [k \in DOMAIN kept |-> kept[k][n]]]
\* The range of the field over all frames of the sequences: <<>> if there is none.
selectedSliceFieldRange(frames, tracks) ==
    LET chosen == {i \in DOMAIN frames : frames[i].track \in ToSet(tracks)}
    IN  IF chosen = {} THEN <<>>
        ELSE <<Min({frames[i].low : i \in chosen}), Max({frames[i].high : i \in chosen})>>
\* The frame the clock asks for, elapsed frames after the first.
slicePlaybackFrameAtTime(start, elapsed, count) == ((start - 1 + elapsed) % count) + 1

(***************************************************************************)
(* The playback                                                            *)
(***************************************************************************)
NoJob == [id |-> 0, status |-> "none", made |-> 0]
FramesOf(job) == SubSeq(Archive, 1, job.made)
slicePlayerPartialPlaybackReady(job) == job.status # "completed" /\ job.made > 0
\* Where the playback is: the two places are not the same component.
Phase(job) ==
    IF slicePlayerPartialPlaybackReady(job) THEN "partial"
    ELSE IF job.status = "completed" /\ job.made > 0 THEN "whole" ELSE "none"
NoPlayback == [phase |-> "none", tracks |-> <<>>, index |-> 1, on |-> FALSE, moving |-> FALSE, start |-> 1, ready |-> <<>>]
Mounted(job) ==
    [NoPlayback EXCEPT !.phase = Phase(job),
                       !.tracks = LET names == slicePlaybackTrackNames(FramesOf(job)) IN SubSeq(names, 1, IF names = <<>> THEN 0 ELSE 1)]
Timeline == slicePlaybackTimeline(FramesOf(player.job), playing.tracks)
FrameKey(p, job) ==
    LET line == slicePlaybackTimeline(FramesOf(job), p.tracks)
    IN  IF p.index \in DOMAIN line THEN <<job.id, p.on, line[p.index]>> ELSE <<>>
CurrentKey == FrameKey(playing, player.job)
Shown == playing.phase # "none" /\ playing.index \in DOMAIN Timeline
slicePlaybackAdvancing == Shown /\ playing.on /\ ~playing.moving

\* The playback, once the panel shows the preparation: it is made anew where it
\* moves to the other place.
PlaybackWith(job) ==
    IF Phase(job) = "none" THEN NoPlayback ELSE IF Phase(job) = playing.phase THEN playing ELSE Mounted(job)

Click == player.clicks > 0
Clicks(p) == [p EXCEPT !.clicks = @ - 1]

\* Playing starts the clock where the playback is.
TogglePlaying ==
    /\ Shown /\ Click /\ Len(Timeline) > 1
    /\ playing' = [playing EXCEPT !.on = ~@, !.start = playing.index] /\ player' = Clicks(player)
    /\ UNCHANGED <<prepared, polls>>
\* First, next, or any frame: playing stops.
MoveTo(target) ==
    /\ Shown /\ Click /\ target \in DOMAIN Timeline
    /\ playing' = [playing EXCEPT !.on = FALSE, !.index = target] /\ player' = Clicks(player)
    /\ UNCHANGED <<prepared, polls>>
ToggleTrack(track) ==
    /\ Shown /\ Click /\ track \in ToSet(slicePlaybackTrackNames(FramesOf(player.job)))
    /\ playing.tracks # <<track>>
    /\ playing' = [playing EXCEPT !.tracks = IF track \in ToSet(@) THEN SelectSeq(@, LAMBDA t : t # track) ELSE Append(@, track),
                                  !.index = 1, !.on = FALSE]
    /\ player' = Clicks(player) /\ UNCHANGED <<prepared, polls>>
\* The camera starts or stops moving: the clock stops, or starts anew.
SetCameraNavigating ==
    /\ Shown /\ Click
    /\ playing' = [playing EXCEPT !.moving = ~@, !.start = playing.index] /\ player' = Clicks(player)
    /\ UNCHANGED <<prepared, polls>>
Tick(elapsed) ==
    /\ slicePlaybackAdvancing /\ Len(Timeline) > 1 /\ playing.ready = CurrentKey
    /\ LET target == slicePlaybackFrameAtTime(playing.start, elapsed, Len(Timeline))
       IN  target # playing.index /\ playing' = [playing EXCEPT !.index = target]
    /\ UNCHANGED <<prepared, player, polls>>
\* The viewer has loaded the frame it was given last.
handleAssetReady ==
    /\ Shown /\ playing.ready # CurrentKey
    /\ playing' = [playing EXCEPT !.ready = CurrentKey] /\ UNCHANGED <<prepared, player, polls>>

(***************************************************************************)
(* The panel                                                               *)
(***************************************************************************)
JobNow(id) == [id |-> id, status |-> prepared[id].status, made |-> prepared[id].made]
Sends(kind, job) == polls' = polls \cup {[kind |-> kind, job |-> job, n |-> IF polls = {} THEN 1 ELSE Max({c.n : c \in polls}) + 1]}
Running(job) == job.status \in {"queued", "running"}

\* The preparation is followed while it is shown as running.
Poll ==
    /\ Running(player.job) /\ Cardinality({c \in polls : c.kind = "poll"}) < MaxPolls
    /\ Sends("poll", JobNow(player.job.id)) /\ UNCHANGED <<prepared, player, playing>>
Prepare ==
    /\ ~player.loading /\ ~player.busy /\ Click /\ player.job.status \in {"none", "failed", "cancelled"}
    /\ Len(prepared) < MaxPrepared
    /\ prepared' = Append(prepared, [status |-> "queued", made |-> 0])
    /\ Sends("act", [id |-> Len(prepared) + 1, status |-> "queued", made |-> 0])
    /\ player' = [Clicks(player) EXCEPT !.busy = TRUE] /\ UNCHANGED playing
\* The server refuses to cancel what has ended: the answer is a failure.
CancelPreparation ==
    /\ ~player.busy /\ Click /\ Running(player.job)
    /\ LET id == player.job.id
           live == Running(JobNow(id))
       IN  /\ prepared' = IF live THEN [prepared EXCEPT ![id].status = "cancelled"] ELSE prepared
           /\ Sends("act", IF live THEN [JobNow(id) EXCEPT !.status = "cancelled"] ELSE NoJob)
    /\ player' = [Clicks(player) EXCEPT !.busy = TRUE] /\ UNCHANGED playing

\* An answer arrives, or the request failed.
Arrives(call, ok) ==
    /\ call \in polls /\ polls' = polls \ {call}
    /\ LET ended == CASE call.kind = "latest" -> [player EXCEPT !.loading = FALSE]
                      [] call.kind = "act" -> [player EXCEPT !.busy = FALSE]
                      [] OTHER -> player
       IN  IF ok /\ call.job # NoJob
           THEN player' = [ended EXCEPT !.job = call.job] /\ playing' = PlaybackWith(call.job)
           ELSE player' = ended /\ UNCHANGED playing
    /\ UNCHANGED prepared

(***************************************************************************)
(* The server, as its answers show it                                      *)
(***************************************************************************)
PublishPartial(id) ==
    /\ id \in DOMAIN prepared /\ Running(prepared[id]) /\ prepared[id].made < Len(Archive)
    /\ prepared' = [prepared EXCEPT ![id] = [status |-> "running", made |-> @.made + 1]]
    /\ UNCHANGED <<player, playing, polls>>
Ends(id, how) ==
    /\ id \in DOMAIN prepared /\ Running(prepared[id])
    /\ prepared' = [prepared EXCEPT ![id] = IF how = "completed" THEN [status |-> how, made |-> Len(Archive)] ELSE [@ EXCEPT !.status = how]]
    /\ UNCHANGED <<player, playing, polls>>

\* The panel is opened: it asks for the latest preparation of its archive.
Init ==
    /\ prepared \in {<<>>, << [status |-> "running", made |-> 0] >>, << [status |-> "completed", made |-> Len(Archive)] >>}
    /\ player = [loading |-> TRUE, busy |-> FALSE, job |-> NoJob, clicks |-> MaxPlayerSteps]
    /\ playing = NoPlayback
    /\ polls = {[kind |-> "latest", n |-> 1, job |-> IF prepared = <<>> THEN NoJob ELSE [id |-> 1, status |-> prepared[1].status, made |-> prepared[1].made]]}

Next ==
    \/ TogglePlaying \/ SetCameraNavigating \/ handleAssetReady \/ Poll \/ Prepare \/ CancelPreparation
    \/ \E target \in DOMAIN Archive : MoveTo(target) \/ Tick(target)
    \/ \E track \in TracksOf(Archive) : ToggleTrack(track)
    \/ \E call \in polls, ok \in BOOLEAN : Arrives(call, ok)
    \/ \E id \in DOMAIN prepared : PublishPartial(id) \/ Ends(id, "completed") \/ Ends(id, "failed")

Spec == Init /\ [][Next]_playerVars

(***************************************************************************)
(* Properties                                                              *)
(***************************************************************************)
\* The state is well formed.
TypeOK ==
    /\ \A id \in DOMAIN prepared : prepared[id].status \in {"queued", "running", "completed", "failed", "cancelled"}
    /\ player.job.id \in 0..Len(prepared) /\ {player.loading, player.busy, playing.on, playing.moving} \subseteq BOOLEAN
    /\ playing.phase \in {"none", "partial", "whole"} /\ ToSet(playing.tracks) \subseteq TracksOf(Archive)

\* The panel reads or acts only while a request is out that ends it.
BusyIsBacked ==
    /\ player.loading <=> \E c \in polls : c.kind = "latest"
    /\ player.busy <=> \E c \in polls : c.kind = "act"

\* What is shown is never ahead of the server: a preparation shown as ended has
\* ended, with the frames that are shown (every answer replaces the record as a
\* whole), and the playback belongs to what is shown.
ShownIsPrepared ==
    /\ player.job # NoJob => /\ player.job.made <= prepared[player.job.id].made
                             /\ Running(player.job) \/ player.job = JobNow(player.job.id)
    /\ playing.phase = Phase(player.job)

\* The clock moves the playback only from a frame the viewer has loaded at the
\* quality of playing, never while the camera moves (slicePlaybackAdvancing and
\* the key of the frame that is ready).
AdvancesWhenReady ==
    (playing'.index # playing.index /\ player'.clicks = player.clicks /\ playing'.tracks = playing.tracks /\ playing'.phase = playing.phase)
        => playing.on /\ ~playing.moving /\ playing.ready = CurrentKey

\* For every part of the archive that is prepared and every choice of sequences:
\* the frames of a moment are of different sequences and, where the sequences
\* share steps, of one step, no shared step missing; and the colours' range
\* holds every frame that is played.
TimelineIsSynchronous ==
    \A made \in 0..Len(Archive), tracks \in UNION {[1..n -> TracksOf(Archive)] : n \in 1..Cardinality(TracksOf(Archive))} :
      LET frames == SubSeq(Archive, 1, made)
          line == slicePlaybackTimeline(frames, tracks)
          steps(n) == {frames[line[n][k]].step : k \in DOMAIN line[n]}
          shared == {s \in Nat \cap {frames[i].step : i \in DOMAIN frames} :
                       \A t \in ToSet(tracks) \cap TracksOf(frames) : \E i \in DOMAIN frames : frames[i].track = t /\ frames[i].step = s}
          range == selectedSliceFieldRange(frames, tracks)
      IN  IsInjective(tracks) =>
            /\ \A n \in DOMAIN line : \A j, k \in DOMAIN line[n] : j # k => frames[line[n][j]].track # frames[line[n][k]].track
            /\ shared # {} /\ line # <<>> => /\ \A n \in DOMAIN line : Cardinality(steps(n)) = 1
                                             /\ UNION {steps(n) : n \in DOMAIN line} = shared
            /\ \A n \in DOMAIN line : \A k \in DOMAIN line[n] : range[1] <= frames[line[n][k]].low /\ frames[line[n][k]].high <= range[2]
=============================================================================
