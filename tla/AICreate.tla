------------------------------ MODULE AICreate ------------------------------
(***************************************************************************)
(* AI Create: the dialog that makes a project from a described simulation, *)
(* and the server's session behind it.  A request goes on when its         *)
(* connection is lost; the dialog then follows the request's progress      *)
(* entry, and resumes the session once if the server was restarted.        *)
(*                                                                         *)
(* A round of questions is the number of that round; 0 is no question.     *)
(***************************************************************************)
EXTENDS Naturals, Sequences, FiniteSets, SequencesExt

CONSTANTS
    FirstSessions,    \* what the dialog can continue: <<>>, or one session
    MaxRuns,          \* bound on the requests of a behaviour
    MaxRounds,        \* bound on the rounds of questions the agent asks
    MaxDisturbances,  \* bound on lost connections and restarts
    MaxCreateSteps    \* bound on the user's steps other than sending

Phases == {"understanding", "needs_input", "geometry_imported", "parameters_validated", "failed", "completed"}
\* A session as it is stored: what it asks is the round after the answered ones.
StoredSessions == {s \in [pending : 0 .. MaxRounds, rounds : 0 .. MaxRounds, prepared : BOOLEAN, params : BOOLEAN,
                          phase : Phases] : s.pending # 0 => s.pending = s.rounds + 1}
AICreateAssumption ==
    /\ FirstSessions \subseteq {<<>>} \union {<<s>> : s \in StoredSessions}
    /\ {MaxRuns, MaxRounds, MaxDisturbances, MaxCreateSteps} \subseteq Nat

VARIABLES
    sessions,  \* server: the sessions, in the order they were made
    progress,  \* server: the entry of each request it has taken
    runs,      \* requests on their way, at work or answered
    modal,     \* the dialog
    network    \* disturbances so far

\* advanceAICreateSession: a session without an identifier is a new one
NewSession == [pending |-> 0, rounds |-> 0, prepared |-> FALSE, params |-> FALSE, phase |-> "understanding"]
Init ==
    /\ sessions \in FirstSessions
    /\ progress = <<>> /\ runs = {} /\ network = 0
    /\ LET known == sessions # <<>>
           first == IF known THEN Head(sessions) ELSE NewSession
       IN  modal = [intent |-> "", busy |-> FALSE, id |-> 0, waiting |-> "none", resumed |-> FALSE,
                    session |-> Len(sessions), fields |-> first.pending, answers |-> "empty",
                    resumable |-> first.phase = "failed" \/ (first.phase = "needs_input" /\ first.pending = 0),
                    said |-> known, followUp |-> FALSE, done |-> FALSE, error |-> FALSE,
                    minimized |-> FALSE, gaveUp |-> FALSE, steps |-> 0]

NoEntry == [status |-> "absent", session |-> 0, response |-> "none", round |-> 0]
Entry(id) == IF id \in DOMAIN progress THEN progress[id] ELSE NoEntry

TypeOK ==
    /\ \A s \in ToSet(sessions) : s.phase \in Phases /\ s.pending \in 0 .. MaxRounds /\ s.rounds \in 0 .. MaxRounds
    /\ \A e \in ToSet(progress) :
         /\ e.status \in {"absent", "running", "recovering", "failed", "needs_input", "needs_attention", "completed"}
         /\ e.response \in {"none", "questions", "result"} /\ e.session \in 0 .. Len(sessions)
    /\ \A r \in runs : r.at \in {"sent", "cad", "parameters", "draft", "answered"} /\ r.id \in 1 .. modal.id
    /\ modal.session \in 0 .. Len(sessions) /\ modal.waiting \in {"none", "post", "recover"}

(***************************************************************************)
(* The server                                                              *)
(***************************************************************************)
Told(id, e) == progress' = [progress EXCEPT ![id] = e]
\* markAICreateSessionFailed leaves a session that is complete or that asks.
Failed(s) == IF s.phase \in {"completed", "needs_input"} THEN s ELSE [s EXCEPT !.phase = "failed"]
\* A follow-up drops what is asked and the checked parameters, never the geometry.
Reopened(s) == [s EXCEPT !.pending = 0, !.params = FALSE,
                         !.phase = IF s.prepared THEN "geometry_imported" ELSE "understanding"]
Answering(s) == s.pending # 0
Start(s) == IF ~s.prepared THEN "cad" ELSE IF s.params THEN "draft" ELSE "parameters"
Refused(r, e) == runs' = (runs \ {r}) \union {[r EXCEPT !.at = "answered", !.out = "error"]} /\ Told(r.id, e)
Accept(r, s, n) ==
    /\ runs' = (runs \ {r}) \union {[r EXCEPT !.at = Start(s), !.session = n]}
    /\ Told(r.id, [NoEntry EXCEPT !.status = "running", !.session = n])
Take ==
    \E r \in runs :
      /\ r.at = "sent" /\ UNCHANGED <<modal, network>>
      /\ CASE r.kind = "start" ->
                sessions' = Append(sessions, NewSession) /\ Accept(r, NewSession, Len(sessions) + 1)
           [] r.kind = "more" ->
                LET s == Reopened(sessions[r.session])
                IN  sessions' = [sessions EXCEPT ![r.session] = s] /\ Accept(r, s, r.session)
           [] OTHER ->
                LET s == sessions[r.session]
                    answered == [s EXCEPT !.rounds = @ + 1, !.pending = 0]
                IN  IF ~Answering(s) THEN Accept(r, s, r.session) /\ UNCHANGED sessions
                    ELSE IF r.kind = "answers" /\ r.answers = "full"
                    THEN sessions' = [sessions EXCEPT ![r.session] = answered] /\ Accept(r, answered, r.session)
                    ELSE Refused(r, [NoEntry EXCEPT !.status = "failed"]) /\ UNCHANGED sessions

AtWork(r) == r.at \in {"cad", "parameters", "draft"}
\* The agent asks for a decision, and the request ends.
Ask ==
    \E r \in runs :
      LET s == sessions[r.session]
          n == s.rounds + 1
      IN  /\ r.at \in {"cad", "parameters"} /\ n <= MaxRounds /\ UNCHANGED <<modal, network>>
          /\ sessions' = [sessions EXCEPT ![r.session] = [s EXCEPT !.pending = n, !.phase = "needs_input"]]
          /\ Told(r.id, [Entry(r.id) EXCEPT !.status = "needs_input", !.response = "questions", !.round = n])
          /\ runs' = (runs \ {r}) \union {[r EXCEPT !.at = "answered", !.out = "questions", !.round = n]}
\* Geometry and parameters are checkpoints of the session.
Checkpoint ==
    \E r \in runs :
      /\ r.at \in {"cad", "parameters"} /\ UNCHANGED <<modal, network, progress>>
      /\ LET s == IF r.at = "cad"
                  THEN [sessions[r.session] EXCEPT !.prepared = TRUE, !.phase = "geometry_imported"]
                  ELSE [sessions[r.session] EXCEPT !.params = TRUE, !.phase = "parameters_validated"]
         IN  /\ sessions' = [sessions EXCEPT ![r.session] = s]
             /\ runs' = (runs \ {r}) \union {[r EXCEPT !.at = IF r.at = "cad" THEN "parameters" ELSE "draft"]}
Complete ==
    \E r \in runs :
      /\ r.at = "draft" /\ UNCHANGED <<modal, network>>
      /\ sessions' = [sessions EXCEPT ![r.session].phase = "completed"]
      /\ Told(r.id, [Entry(r.id) EXCEPT !.status = "completed", !.response = "result"])
      /\ runs' = (runs \ {r}) \union {[r EXCEPT !.at = "answered", !.out = "result"]}
\* A Draft that could not be configured needs attention; its entry has no answer.
StageFails ==
    \E r \in runs :
      /\ AtWork(r) /\ UNCHANGED <<modal, network>>
      /\ sessions' = [sessions EXCEPT ![r.session] = Failed(@)]
      /\ Refused(r, [Entry(r.id) EXCEPT !.status = IF r.at = "draft" THEN "needs_attention" ELSE "failed"])

LoseConnection ==
    \E r \in runs :
      /\ r.heard /\ network < MaxDisturbances /\ network' = network + 1
      /\ \/ r.at = "sent" /\ runs' = runs \ {r}
         \/ runs' = (runs \ {r}) \union {[r EXCEPT !.heard = FALSE]}
      /\ modal' = [modal EXCEPT !.waiting = "recover"] /\ UNCHANGED <<sessions, progress>>
\* Sessions and entries are files; a request ends with the process.
Restart ==
    /\ network < MaxDisturbances /\ network' = network + 1 /\ runs' = {}
    /\ progress' = [id \in DOMAIN progress |->
                      IF progress[id].status = "running" THEN [progress[id] EXCEPT !.status = "recovering"] ELSE progress[id]]
    /\ modal' = IF modal.waiting = "post" THEN [modal EXCEPT !.waiting = "recover"] ELSE modal
    /\ UNCHANGED sessions

(***************************************************************************)
(* The dialog                                                              *)
(***************************************************************************)
Step == modal.steps < MaxCreateSteps /\ ~modal.minimized
Stepped == [modal EXCEPT !.steps = @ + 1]
Says(p) == modal' = p /\ UNCHANGED <<sessions, progress, runs, network>>
HasStarted == modal.session # 0 \/ modal.said \/ modal.done

TypeIntent ==
    /\ Step
    /\ \/ ~HasStarted /\ Says([Stepped EXCEPT !.intent = "text", !.error = FALSE])
       \/ HasStarted /\ modal.fields = 0 /\ ~modal.busy /\ Says([Stepped EXCEPT !.intent = "text"])
\* A blank answer passes the browser's form, and is refused by the server.
Answer == /\ Step /\ modal.session # 0 /\ modal.fields # 0 /\ ~modal.busy
          /\ \E a \in {"blank", "full"} \ {modal.answers} : Says([Stepped EXCEPT !.answers = a])
Minimize == Step /\ Says([Stepped EXCEPT !.minimized = TRUE])
Review == modal.minimized /\ Says([modal EXCEPT !.minimized = FALSE])

Send(kind, m) ==
    LET n == modal.id + 1
    IN  /\ n <= MaxRuns
        /\ modal' = [m EXCEPT !.id = n, !.waiting = "post"]
        /\ progress' = Append(progress, NoEntry)
        /\ runs' = runs \union {[id |-> n, kind |-> kind, session |-> m.session, answers |-> modal.answers,
                                 at |-> "sent", out |-> "none", round |-> 0, heard |-> TRUE]}
        /\ UNCHANGED <<sessions, network>>
FollowUp(answering) == modal.session # 0 /\ modal.intent # "" /\ ~answering
RunCreate(answering) ==
    /\ ~modal.busy /\ ~modal.minimized /\ (modal.session = 0 => modal.intent # "")
    /\ Send(IF answering THEN "answers" ELSE IF FollowUp(answering) THEN "more"
            ELSE IF modal.session = 0 THEN "start" ELSE "plain",
            [modal EXCEPT !.busy = TRUE, !.error = FALSE, !.said = @ \/ modal.intent # "" \/ answering,
                          !.followUp = FollowUp(answering), !.resumed = FALSE])
Submit == (~HasStarted \/ modal.fields = 0) /\ modal.intent # "" /\ RunCreate(FALSE)
SubmitClarification == modal.session # 0 /\ modal.fields # 0 /\ modal.answers # "empty" /\ RunCreate(TRUE)
\* Offered for a session that failed, or that lost its questions, before this dialog.
Resume == modal.resumable /\ modal.fields = 0 /\ modal.intent = "" /\ RunCreate(FALSE)
Retry == modal.error /\ modal.session # 0 /\ RunCreate(FALSE)

\* acceptResult: questions open a form; a result closes it.
AcceptResult(m, out, n, session) ==
    IF out = "questions"
    THEN [m EXCEPT !.session = session, !.fields = n, !.answers = "empty"]
    ELSE [m EXCEPT !.fields = 0, !.done = TRUE]
Rested(m) == [m EXCEPT !.busy = FALSE, !.waiting = "none"]
Known(m) == IF Entry(m.id).session # 0 THEN [m EXCEPT !.session = Entry(m.id).session] ELSE m
Poll == modal.waiting = "post" /\ Known(modal) # modal /\ Says(Known(modal))
\* The last reading of the progress can fail too.
Hear ==
    \E r \in runs :
      /\ r.at = "answered" /\ r.heard /\ runs' = runs \ {r} /\ UNCHANGED <<sessions, progress, network>>
      /\ \E m \in {Known(modal), modal} :
           modal' = IF r.out = "error" THEN Rested([m EXCEPT !.error = TRUE])
                    ELSE Rested([AcceptResult(m, r.out, r.round, r.session) EXCEPT
                                   !.intent = IF modal.followUp /\ ~modal.resumed THEN "" ELSE @])
Drop == \E r \in runs : /\ r.at = "answered" /\ ~r.heard
                        /\ runs' = runs \ {r} /\ UNCHANGED <<sessions, progress, modal, network>>
(***************************************************************************)
(* recoverDisconnectedRequest                                              *)
(***************************************************************************)
Recover ==
    LET e == Entry(modal.id)
        m == Known(modal)
    IN  /\ modal.waiting = "recover"
        /\ CASE e.response # "none" -> Says(Rested(AcceptResult(m, e.response, e.round, e.session)))
             [] e.response = "none" /\ e.status = "recovering" /\ e.session # 0 /\ ~modal.resumed ->
                  Send("plain", [m EXCEPT !.resumed = TRUE])
             [] e.response = "none" /\ e.status = "failed" -> Says(Rested([m EXCEPT !.error = TRUE]))
             [] OTHER -> m # modal /\ Says(m)
\* After fifteen minutes; the request itself has forty-five.
GiveUp == /\ modal.waiting = "recover" /\ Entry(modal.id).response = "none"
          /\ Says(Rested([modal EXCEPT !.error = TRUE, !.gaveUp = TRUE]))

Next == \/ Take \/ Ask \/ Checkpoint \/ Complete \/ StageFails \/ LoseConnection \/ Restart
        \/ TypeIntent \/ Answer \/ Minimize \/ Review \/ Submit \/ SubmitClarification \/ Resume \/ Retry
        \/ Poll \/ Hear \/ Drop \/ Recover \/ GiveUp

vars == <<sessions, progress, runs, modal, network>>
Spec == Init /\ [][Next]_vars

(***************************************************************************)
(* Properties                                                              *)
(***************************************************************************)
\* The dialog is busy while it waits for exactly one answer or follows an entry.
BusyIsBacked ==
    LET heard == {r \in runs : r.heard}
    IN  /\ Cardinality(heard) = IF modal.waiting = "post" THEN 1 ELSE 0
        /\ modal.busy <=> modal.waiting # "none"
\* A dialog that rests without an error shows the questions its session waits for.
QuestionsAreCurrent ==
    ~modal.busy /\ ~modal.error /\ ~modal.gaveUp /\ modal.session # 0
        => modal.fields = sessions[modal.session].pending
\* A restart or a lost connection makes no second session, and no answered round is asked again.
RoundsCount ==
    \A n \in 1 .. Len(sessions) : sessions[n].pending # 0 => sessions[n].pending = sessions[n].rounds + 1
\* Without a dialog that gave up, one request at a time works on a session.
OneRunAtATime ==
    ~modal.gaveUp => Cardinality({r \in runs : AtWork(r) \/ r.at = "sent"}) <= 1
==============================================================================
