--------------------------- MODULE ResourceDetails ---------------------------
(***************************************************************************)
(* The panel with the details of a resource: its tabs, the log with a      *)
(* cache per resource and length, previews and downloads of result files,  *)
(* and the convergence assessment of a Case.  The panel stays mounted when *)
(* the history changes the resource under it.                              *)
(***************************************************************************)
EXTENDS Naturals, FiniteSets

CONSTANTS
    Cases,        \* resources whose details are looked at
    Tails,        \* lengths of log
    MaxDetailSteps, \* bound on the clicks and navigations of a behaviour
    NoContent     \* nothing to show

ResourceDetailsAssumption ==
    Cases # {} /\ Tails # {} /\ NoContent \notin Cases /\ MaxDetailSteps \in Nat

VARIABLES
    details,   \* the panel
    reading    \* requests under way

LogKeys == [of : Cases, tail : Tails]
LogKey(d) == [of |-> d.of, tail |-> d.tail]
LogRequest(d) == [op |-> "log", of |-> d.of, tail |-> d.tail]

TypeOK ==
    /\ details.of \in Cases /\ details.tail \in Tails
    /\ details.log \in LogKeys \union {NoContent} /\ details.cache \subseteq LogKeys
    /\ details.preview \in Cases \union {NoContent}
    /\ details.convergence \in Cases \union {NoContent}
    /\ {details.logLoading, details.acting, details.assessing} \subseteq BOOLEAN
    /\ reading \subseteq [op : {"log", "preview", "download", "convergence", "aborted"},
                          of : Cases, tail : Tails]

Ask(op, d) == [op |-> op, of |-> d.of, tail |-> d.tail]

Init == \E c \in Cases, n \in Tails :
          LET d == [of |-> c, tail |-> n, tab |-> "overview", log |-> NoContent, cache |-> {},
                    logLoading |-> FALSE, logError |-> FALSE, preview |-> NoContent, acting |-> FALSE,
                    convergence |-> NoContent, assessing |-> TRUE, steps |-> 0]
          IN  details = d /\ reading = {Ask("convergence", d)}

\* loadLogs
ReadLog(d, rs) ==
    /\ details' = [d EXCEPT !.logLoading = TRUE, !.logError = FALSE, !.log = NoContent]
    /\ reading' = rs \union {LogRequest(d)}
LoadLogs(d, rs) ==
    IF LogKey(d) \in d.cache
    THEN details' = [d EXCEPT !.log = LogKey(d), !.logError = FALSE] /\ reading' = rs
    ELSE ReadLog(d, rs)

\* A render: the log is loaded again when the tab opens and when the resource,
\* the length or the cache changes, the cache being new after every answer.
Render(d, rs, cached) ==
    IF d.tab = "logs" /\ (cached \/ details.tab # "logs" \/ LogKey(d) # LogKey(details))
    THEN LoadLogs(d, rs) ELSE details' = d /\ reading' = rs

Step(d, rs) == details.steps < MaxDetailSteps /\ Render([d EXCEPT !.steps = @ + 1], rs, FALSE)

OpenTab == \E tab \in {"overview", "logs", "results"} \ {details.tab} :
             Step([details EXCEPT !.tab = tab], reading)
ChangeTail == \E n \in Tails \ {details.tail} :
                /\ details.tab = "logs"
                /\ Step([details EXCEPT !.tail = n, !.log = NoContent], reading)
ReloadLog == /\ details.tab = "logs" /\ ~details.logLoading /\ details.steps < MaxDetailSteps
             /\ ReadLog([details EXCEPT !.steps = @ + 1], reading)

\* Another resource: the panel forgets what it shows of the former one, not
\* what it has asked, and aborts its assessment.  In that render the log tab is
\* still open, so a log is loaded for the new resource.
Aborted(rs) == {IF r.op = "convergence" THEN [r EXCEPT !.op = "aborted"] ELSE r : r \in rs}
ChangeResource ==
    \E c \in Cases \ {details.of} :
      LET d == [details EXCEPT !.of = c, !.log = NoContent, !.logError = FALSE,
                               !.preview = NoContent, !.acting = FALSE, !.assessing = TRUE,
                               !.steps = @ + 1]
          rs == Aborted(reading) \union {Ask("convergence", d)}
          closed == [d EXCEPT !.tab = "overview"]
      IN  /\ details.steps < MaxDetailSteps
          /\ IF details.tab # "logs" THEN details' = closed /\ reading' = rs
             ELSE IF LogKey(d) \in d.cache
             THEN details' = [closed EXCEPT !.log = LogKey(d)] /\ reading' = rs
             ELSE ReadLog(closed, rs)

\* previewResult, downloadResult: one at a time, as far as the panel knows
ResultAction == \E op \in {"preview", "download"} :
                  /\ details.tab = "results" /\ ~details.acting
                  /\ Step([details EXCEPT !.acting = TRUE], reading \union {Ask(op, details)})

\* useConvergenceAssessment.load
Refetch == /\ ~details.assessing
           /\ Step([details EXCEPT !.assessing = TRUE],
                   Aborted(reading) \union {Ask("convergence", details)})

(* Answers. *)
LogArrives(r) ==
    /\ r.op = "log"
    /\ LET key == [of |-> r.of, tail |-> r.tail]
           d == [details EXCEPT !.logLoading = FALSE]
       IN  \/ Render([d EXCEPT !.log = key, !.cache = @ \union {key}], reading \ {r}, TRUE)
           \/ Render([d EXCEPT !.logError = TRUE], reading \ {r}, FALSE)

ResultArrives(r) ==
    /\ r.op \in {"preview", "download"}
    /\ \E ok \in BOOLEAN :
         Render([details EXCEPT !.acting = FALSE,
                                !.preview = IF ok /\ r.op = "preview" THEN r.of ELSE @],
                reading \ {r}, FALSE)

\* An aborted request still ends its own try, and with it the spinner.
ConvergenceArrives(r) ==
    /\ r.op \in {"convergence", "aborted"}
    /\ \E ok \in BOOLEAN :
         Render([details EXCEPT !.assessing = FALSE,
                                !.convergence = IF ok /\ r.op = "convergence" THEN r.of ELSE @],
                reading \ {r}, FALSE)

Next == \/ OpenTab \/ ChangeTail \/ ReloadLog \/ ChangeResource \/ ResultAction \/ Refetch
        \/ \E r \in reading : LogArrives(r) \/ ResultArrives(r) \/ ConvergenceArrives(r)

vars == <<details, reading>>
Spec == Init /\ [][Next]_vars

(***************************************************************************)
(* Properties.                                                             *)
(***************************************************************************)
\* A spinner of the panel turns only while something it stands for is under way.
BusyIsBacked ==
    /\ details.logLoading => \E r \in reading : r.op = "log"
    /\ details.acting => \E r \in reading : r.op \in {"preview", "download"}
    /\ details.assessing => \E r \in reading : r.op \in {"convergence", "aborted"}

\* The log tab shows the log that was asked for last, whatever the order in
\* which the answers for other resources and lengths arrive.
LogIsWanted == details.tab = "logs" /\ details.log # NoContent => details.log = LogKey(details)
=============================================================================
