---------------------------- MODULE ResultReview ----------------------------
(***************************************************************************)
(* ResultTablePreview and what it holds: the preview of a result file with *)
(* its chart, the files it is compared with, which three workers look for, *)
(* and the dialog that has the file interpreted, over the server's store   *)
(* of interpretations.                                                     *)
(*                                                                         *)
(* A request is answered, or fails, any time later; an interpretation is   *)
(* read when the server takes the request and written when the model has   *)
(* answered.  Closing the preview unmounts it: what it asked for is lost,  *)
(* except that the server still writes.                                    *)
(***************************************************************************)
EXTENDS ResultTables

CONSTANTS
    Listing,        \* the result files of the Case, in order
    MaxTalk,        \* questions a conversation keeps
    MaxResultSteps, \* bound on the user's steps of a behaviour
    NoFile          \* "none": no file, no column, nothing stored

ResultReviewAssumption ==
    /\ ToSet(Listing) \subseteq Files /\ IsInjective(Listing) /\ NoFile \notin Files
    /\ MaxResultSteps \in Nat /\ MaxTalk \in Nat

VARIABLES
    dataview,    \* the preview; its path is NoFile while it is closed
    talk,        \* the dialog
    memory,      \* the server: the questions answered of each file, NoFile if there is no interpretation
    resultCalls  \* requests under way

resultVars == <<dataview, talk, memory, resultCalls>>
Workers == 3

(***************************************************************************)
(* The preview                                                             *)
(***************************************************************************)
Shows(v) == v.path # NoFile /\ v.status = "content"
Datasets(v) == <<v.path>> \o v.extra
TablesShown(v) == [k \in DOMAIN Datasets(v) |-> Tables[Datasets(v)[k]]]
Recommended(v) == recommendResultChart(Tables[v.path])
\* comparisonCandidates
Candidates(v) == SelectSeq(Listing, LAMBDA f : f # v.path)

\* The columns of the first table that all have.
CommonColumns(v) ==
    {p \in ToSet(Recommended(v).profiles) : \A t \in ToSet(TablesShown(v)) : p.name \in ToSet(t.headers)}
NoChart == [x |-> NoFile, y |-> <<>>]
\* The effect of the chart panel when the datasets change.
ChartSettled(v, chart) ==
    LET numeric == {p.name : p \in {q \in CommonColumns(v) : q.numeric}}
        kept == SelectSeq(chart.y, LAMBDA name : name \in numeric)
    IN  [x |-> IF chart.x \in {p.name : p \in CommonColumns(v)} THEN chart.x ELSE NoFile,
         y |-> IF kept # <<>> THEN kept ELSE SelectSeq(Recommended(v).y, LAMBDA name : name \in numeric)]
\* The panel is there with the chart only; it begins with what is recommended.
Charted(v, before) ==
    IF ~Shows(v) \/ v.mode = "table" THEN [v EXCEPT !.chart = NoChart]
    ELSE [v EXCEPT !.chart = ChartSettled(v, IF Shows(before) /\ before.mode = "chart" THEN before.chart
                                             ELSE [x |-> NoFile, y |-> Recommended(v).y])]

\* preloadCompatibleResultCandidates: each worker takes the next file.
ScanOf(v) ==
    LET count == Len(Candidates(v))
    IN  [on |-> Shows(v) /\ count > 0, next |-> Min({Workers, count}) + 1,
         reading |-> IF Shows(v) THEN 1..Min({Workers, count}) ELSE {}, found |-> {}, failed |-> {}]
Compatible(v) == SelectSeq(Candidates(v), LAMBDA f : ~v.scan.on /\ f \in v.scan.found)

\* No preview, after so many clicks.
Unopened(clicks) ==
    [path |-> NoFile, status |-> "none", extra |-> <<>>, tableOf |-> NoFile, mode |-> "chart", chart |-> NoChart,
     scan |-> [on |-> FALSE, next |-> 1, reading |-> {}, found |-> {}, failed |-> {}], ai |-> FALSE, input |-> NoFile,
     preparing |-> FALSE, notes |-> NoFile, clicks |-> clicks]
\* Another file or another state of it is put into the preview: a preview of
\* another file forgets what belonged to the one before, and a table that is
\* new has its candidates looked for.
Previewed(v, f, status) ==
    LET other == IF v.path = f THEN v
                 ELSE [v EXCEPT !.extra = <<>>, !.tableOf = f, !.ai = FALSE, !.input = NoFile, !.notes = NoFile]
        w == [other EXCEPT !.path = f, !.status = status]
        x == IF Shows(w) /\ Recommended(w).y = <<>> THEN [w EXCEPT !.mode = "table"] ELSE w
    IN  IF v.path = f /\ v.status = status THEN v
        ELSE Charted([x EXCEPT !.scan = ScanOf(x)], v)

\* The dialog of a preview that is opened after so many clicks (which only
\* QuestionsAreInOrder needs to know).
FreshTalk(clicks) ==
    [loaded |-> NoFile, of |-> NoFile, answered |-> <<>>, pending |-> FALSE, busy |-> FALSE, failed |-> FALSE,
     last |-> "load", asked |-> 0, since |-> clicks]

Click == dataview.clicks < MaxResultSteps
Clicked(v) == [v EXCEPT !.clicks = @ + 1]
Init ==
    /\ dataview = Unopened(0)
    /\ talk = FreshTalk(0)
    /\ memory = [f \in Files |-> NoFile]
    /\ resultCalls = {}

\* openResultPreview; the preview is in front of the list while it is open.
OpenPreview(f) ==
    /\ Click /\ dataview.path = NoFile /\ f \in ToSet(Listing)
    /\ dataview' = Clicked(Previewed(dataview, f, "loading"))
    /\ resultCalls' = resultCalls \union {[kind |-> "preview", of |-> f]}
    /\ UNCHANGED <<talk, memory>>
PreviewArrives(call, status) ==
    /\ call.kind = "preview"
    /\ dataview' = Previewed(dataview, call.of, status)
    /\ resultCalls' = resultCalls \ {call}
    /\ UNCHANGED <<talk, memory>>
\* What the dialog has asked is still written by the server; answers to the
\* preview itself are no longer of use.
ClosePreview ==
    /\ dataview.path # NoFile
    /\ dataview' = Unopened(dataview.clicks)
    /\ talk' = FreshTalk(dataview.clicks)
    /\ resultCalls' = {c \in resultCalls : c.kind = "preview"}
                      \union {[c EXCEPT !.awaited = FALSE] : c \in {d \in resultCalls : d.kind = "interpret"}}
    /\ UNCHANGED memory

\* A candidate is read or cannot be read, and its worker takes the next one.
CandidateRead(k, ok) ==
    LET files == Candidates(dataview)
        s == dataview.scan
        rest == IF s.next > Len(files) THEN s.reading \ {k} ELSE (s.reading \ {k}) \union {s.next}
        fits == ok /\ datasetCompatibility(Tables[dataview.path], Tables[files[k]])
    IN  /\ k \in s.reading
        /\ dataview' = [dataview EXCEPT
             !.scan = [on |-> rest # {}, next |-> Min({s.next, Len(files)}) + 1, reading |-> rest,
                       found |-> IF fits THEN s.found \union {files[k]} ELSE s.found,
                       failed |-> IF ok THEN s.failed ELSE s.failed \union {files[k]}]]
        /\ UNCHANGED <<talk, memory, resultCalls>>
AddDataset(f) ==
    /\ Click /\ Shows(dataview) /\ dataview.mode = "chart"
    /\ Len(Datasets(dataview)) < 3 /\ f \in ToSet(Compatible(dataview)) \ ToSet(dataview.extra)
    /\ dataview' = Clicked(Charted([dataview EXCEPT !.extra = Append(@, f)], dataview))
    /\ UNCHANGED <<talk, memory, resultCalls>>
RemoveDataset(f) ==
    /\ Click /\ Shows(dataview) /\ dataview.mode = "chart" /\ f \in ToSet(dataview.extra)
    /\ dataview' = Clicked(Charted([dataview EXCEPT !.extra = Remove(@, f),
                                                    !.tableOf = IF @ = f THEN dataview.path ELSE @], dataview))
    /\ UNCHANGED <<talk, memory, resultCalls>>
SetView(mode) ==
    /\ Click /\ Shows(dataview) /\ mode # dataview.mode
    /\ mode = "chart" => Recommended(dataview).y # <<>>
    /\ dataview' = Clicked(Charted([dataview EXCEPT !.mode = mode], dataview))
    /\ UNCHANGED <<talk, memory, resultCalls>>
SelectTable(f) ==
    /\ Click /\ Shows(dataview) /\ dataview.mode = "table" /\ Len(Datasets(dataview)) > 1
    /\ f \in ToSet(Datasets(dataview)) \ {dataview.tableOf}
    /\ dataview' = Clicked([dataview EXCEPT !.tableOf = f])
    /\ UNCHANGED <<talk, memory, resultCalls>>
\* At most four series; the axis is not offered as one.
ToggleSeries(name) ==
    LET y == dataview.chart.y
        toggled == IF name \in ToSet(y) THEN Remove(y, name) ELSE IF Len(y) < 4 THEN Append(y, name) ELSE y
    IN  /\ Click /\ Shows(dataview) /\ dataview.mode = "chart" /\ name # dataview.chart.x
        /\ name \in {p.name : p \in {q \in CommonColumns(dataview) : q.numeric}}
        /\ dataview' = Clicked([dataview EXCEPT !.chart.y = toggled])
        /\ UNCHANGED <<talk, memory, resultCalls>>
SetAxis(name) ==
    /\ Click /\ Shows(dataview) /\ dataview.mode = "chart" /\ name # dataview.chart.x
    /\ name \in {p.name : p \in CommonColumns(dataview)} \union {NoFile}
    /\ dataview' = Clicked(Charted([dataview EXCEPT !.chart.x = name], [dataview EXCEPT !.chart.x = name]))
    /\ UNCHANGED <<talk, memory, resultCalls>>

(***************************************************************************)
(* The interpretation                                                      *)
(***************************************************************************)
\* request: nothing while another one is under way, or without a summary.
Requested(t, mode, question) == [t EXCEPT !.busy = TRUE, !.failed = FALSE, !.last = mode, !.asked = question]
CallOf(f, mode, question) ==
    [kind |-> "interpret", of |-> f, mode |-> mode, question |-> question, awaited |-> TRUE,
     read |-> NoFile, stage |-> "sent"]
Request(t, v, mode, question) ==
    IF t.busy \/ v.input = NoFile THEN talk' = t /\ UNCHANGED resultCalls
    ELSE /\ talk' = Requested(t, mode, question)
         /\ resultCalls' = resultCalls \union {CallOf(v.input, mode, question)}
\* The dialog, open with a summary, loads each file once.
Loading(v, calls) ==
    IF ~v.ai \/ v.input = NoFile \/ talk.loaded = v.input THEN UNCHANGED talk /\ resultCalls' = calls
    ELSE LET t == [talk EXCEPT !.loaded = v.input, !.of = NoFile, !.answered = <<>>, !.pending = FALSE, !.failed = FALSE]
         IN  IF t.busy THEN talk' = t /\ resultCalls' = calls
             ELSE talk' = Requested(t, "load", 0) /\ resultCalls' = calls \union {CallOf(v.input, "load", 0)}

\* openInterpretation
OpenAI ==
    LET opened == Clicked([dataview EXCEPT !.ai = TRUE, !.preparing = @ \/ dataview.input = NoFile])
    IN  /\ Click /\ Shows(dataview) /\ ~dataview.preparing /\ Tables[dataview.path].rows # <<>>
        /\ dataview.input # NoFile => ~dataview.ai
        /\ dataview' = opened
        /\ Loading(opened, resultCalls \union
             (IF opened.preparing THEN {[kind |-> "fingerprint", of |-> dataview.path]} ELSE {}))
        /\ UNCHANGED memory
\* The fingerprint is made of the content there was when it was asked for.
Fingerprinted(call) ==
    LET prepared == [dataview EXCEPT !.preparing = FALSE, !.input = call.of]
    IN  /\ call.kind = "fingerprint"
        /\ dataview' = prepared /\ Loading(prepared, resultCalls \ {call}) /\ UNCHANGED memory
CloseAI ==
    /\ dataview.ai /\ dataview' = [dataview EXCEPT !.ai = FALSE]
    /\ UNCHANGED <<talk, memory, resultCalls>>
Submit ==
    /\ Click /\ dataview.ai /\ talk.of # NoFile /\ ~talk.busy /\ ~talk.pending
    /\ dataview' = Clicked(dataview)
    /\ Request([talk EXCEPT !.pending = TRUE], dataview, "ask", dataview'.clicks)
    /\ UNCHANGED memory
\* Regenerate, or clear the conversation; both are confirmed.
StartAgain(mode) ==
    /\ Click /\ dataview.ai /\ talk.of # NoFile /\ ~talk.busy /\ mode \in {"regenerate", "clear"}
    /\ mode = "clear" => talk.answered # <<>>
    /\ dataview' = Clicked(dataview)
    /\ Request([talk EXCEPT !.pending = FALSE], dataview, mode, 0)
    /\ UNCHANGED memory
RetryRequest ==
    /\ Click /\ dataview.ai /\ talk.failed /\ ~talk.busy
    /\ dataview' = Clicked(dataview)
    /\ Request(talk, dataview, talk.last, talk.asked)
    /\ UNCHANGED memory

\* What the dialog makes of an answer; the preview marks what was diagnosed.
Answered(call, ok, messages) ==
    IF ~call.awaited THEN UNCHANGED <<dataview, talk>>
    ELSE IF ok
         THEN /\ talk' = [talk EXCEPT !.busy = FALSE, !.of = call.of, !.answered = messages,
                                      !.pending = @ /\ call.mode # "ask"]
              /\ dataview' = [dataview EXCEPT !.notes = call.of]
         ELSE talk' = [talk EXCEPT !.busy = FALSE, !.failed = TRUE] /\ UNCHANGED dataview
\* interpretResult: what is stored is answered, or cleared, at once; for the
\* rest the model is asked.
ServerTakes(call) ==
    LET stored == memory[call.of]
        AtOnce(ok, messages) == Answered(call, ok, messages) /\ resultCalls' = resultCalls \ {call}
        AsksModel == /\ resultCalls' = (resultCalls \ {call}) \union {[call EXCEPT !.stage = "thinking", !.read = stored]}
                     /\ UNCHANGED <<dataview, talk, memory>>
    IN  /\ call.kind = "interpret" /\ call.stage = "sent"
        /\ CASE call.mode = "clear" /\ stored # NoFile ->
                  AtOnce(TRUE, <<>>) /\ memory' = [memory EXCEPT ![call.of] = <<>>]
             [] call.mode = "load" /\ stored # NoFile -> AtOnce(TRUE, stored) /\ UNCHANGED memory
             [] call.mode \in {"ask", "clear"} /\ stored = NoFile -> AtOnce(FALSE, <<>>) /\ UNCHANGED memory
             [] OTHER -> AsksModel
\* The model answers: the conversation goes on from what was read, its last
\* questions are kept; without a question it begins anew.  That it is stored may
\* not be heard of.
Continued(call) ==
    LET longer == Append(call.read, call.question)
    IN  IF call.mode = "ask" THEN SubSeq(longer, Max({1, Len(longer) - MaxTalk + 1}), Len(longer)) ELSE <<>>
ModelAnswers(call, ok, heard) ==
    /\ call.kind = "interpret" /\ call.stage = "thinking"
    /\ resultCalls' = resultCalls \ {call}
    /\ Answered(call, ok /\ heard, IF ok THEN Continued(call) ELSE <<>>)
    /\ memory' = IF ok THEN [memory EXCEPT ![call.of] = Continued(call)] ELSE memory

Next ==
    \/ \E f \in Files : OpenPreview(f) \/ AddDataset(f) \/ RemoveDataset(f) \/ SelectTable(f)
    \/ \E call \in resultCalls :
        \/ \E status \in {"content", "error"} : PreviewArrives(call, status)
        \/ Fingerprinted(call) \/ ServerTakes(call)
        \/ \E ok, heard \in BOOLEAN : ModelAnswers(call, ok, heard)
    \/ ClosePreview \/ OpenAI \/ CloseAI \/ Submit \/ RetryRequest
    \/ \E k \in dataview.scan.reading, ok \in BOOLEAN : CandidateRead(k, ok)
    \/ \E mode \in {"chart", "table"} : SetView(mode)
    \/ \E name \in UNION {ToSet(Tables[f].headers) : f \in Files} \union {NoFile} : ToggleSeries(name) \/ SetAxis(name)
    \/ \E mode \in {"regenerate", "clear"} : StartAgain(mode)
Spec == Init /\ [][Next]_resultVars

(***************************************************************************)
(* Properties                                                              *)
(***************************************************************************)
TypeOK ==
    /\ dataview.path \in Files \union {NoFile} /\ dataview.status \in {"none", "loading", "content", "error"}
    /\ dataview.mode \in {"chart", "table"} /\ Len(dataview.extra) <= 2 /\ dataview.clicks \in 0..MaxResultSteps
    /\ talk.last \in {"load", "ask", "regenerate", "clear"} /\ {talk.pending, talk.busy, talk.failed} \subseteq BOOLEAN
    /\ \A f \in Files : memory[f] = NoFile \/ Len(memory[f]) <= MaxTalk
    /\ \A call \in resultCalls : call.kind \in {"preview", "fingerprint", "interpret"} /\ call.of \in Files

\* A spinner has a request behind it that will end it: of the preview, of the
\* fingerprint, of the dialog, and a search for candidates is of the file shown.
BusyIsBacked ==
    /\ dataview.status = "loading" => [kind |-> "preview", of |-> dataview.path] \in resultCalls
    /\ dataview.preparing => \E call \in resultCalls : call.kind = "fingerprint"
    /\ talk.busy => Cardinality({c \in resultCalls : c.kind = "interpret" /\ c.awaited}) = 1
    /\ dataview.scan.on => /\ Shows(dataview) /\ dataview.scan.reading # {}
                           /\ dataview.scan.reading \subseteq DOMAIN Candidates(dataview)

\* When the search is over every other file of the list has been read once:
\* the files offered are those that can be charted with the one shown, in the
\* order of the list, whatever the order in which they arrived; and what has
\* been added is of that kind and there once.
CandidatesAreComplete ==
    Shows(dataview) =>
        /\ ~dataview.scan.on =>
             Compatible(dataview) = SelectSeq(Candidates(dataview), LAMBDA f :
                 f \notin dataview.scan.failed /\ datasetCompatibility(Tables[dataview.path], Tables[f]))
        /\ IsInjective(Datasets(dataview)) /\ dataview.tableOf \in ToSet(Datasets(dataview))
        /\ \A f \in ToSet(dataview.extra) : datasetCompatibility(Tables[dataview.path], Tables[f])

\* The chart shows columns that all its files have, each once, and never more
\* than four; when they share one that is recommended, it shows at least one
\* unless the user has taken the last away.
ChartIsOfAllFiles ==
    Shows(dataview) /\ dataview.mode = "chart" =>
        /\ Len(dataview.chart.y) <= 4
        /\ \A t \in ToSet(TablesShown(dataview)) :
             ToSet(dataview.chart.y) \union ({dataview.chart.x} \ {NoFile}) \subseteq ToSet(t.headers)

\* A conversation holds what one dialog has asked in the order it was asked,
\* however late the model answers and whatever is still written for dialogs that
\* were closed meanwhile; only a question whose answer was not heard of can be
\* there again.
QuestionsAreInOrder ==
    \A f \in Files : memory[f] # NoFile =>
        \A i, j \in DOMAIN memory[f] : i < j /\ memory[f][i] > talk.since /\ memory[f][j] > talk.since
                                     => memory[f][i] <= memory[f][j]
=============================================================================
