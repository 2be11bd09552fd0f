--------------------------- MODULE AICreateProofs ---------------------------
(***************************************************************************)
(* Proofs about AICreate for any bounds and any stored session: the types, *)
(* that a busy dialog waits for one answer or follows an entry, that the   *)
(* rounds of questions are counted, that one request at a time works on a  *)
(* session, and that a dialog at rest shows the questions its session      *)
(* waits for.                                                              *)
(*                                                                         *)
(* Then about the two other conversations with the Agent, for any number   *)
(* of turns and clicks: of Copilot that a conversation shows its own       *)
(* messages, each answer under its question, and that its spinners are     *)
(* backed; of ResultReview that the questions about a result file are      *)
(* stored in the order they were asked in.                                 *)
(***************************************************************************)
EXTENDS AICreate, Naturals, Integers, Sequences, FiniteSets, SequenceTheorems, FiniteSetTheorems, TLAPS

CONSTANTS Scopes, DraftScopes, Questions, Document, Edits, Merged(_, _), Changes(_, _), MaxTurns, MaxCopilotSteps   \* of Copilot
VARIABLES chats, copilot, streaming, waiting
CO == INSTANCE Copilot

CONSTANTS Contents, Hinted, Penalised, AxisNames, MaxRows, MaxColumns, MaxPoints, TextCells   \* of ResultTables
CONSTANTS Listing, MaxTalk, MaxResultSteps, NoFile   \* of ResultReview
VARIABLES dataview, talk, memory, resultCalls
RR == INSTANCE ResultReview

-----------------------------------------------------------------------------
(***************************************************************************)
(* What a state is made of.                                                *)
(***************************************************************************)
Statuses == {"absent", "running", "recovering", "failed", "needs_input", "needs_attention", "completed"}
Entries == [status : Statuses, session : Nat, response : {"none", "questions", "result"}, round : 0 .. MaxRounds]
Runs == [id : Nat, kind : {"start", "more", "answers", "plain"}, session : Nat, answers : {"empty", "blank", "full"},
         at : {"sent", "cad", "parameters", "draft", "answered"}, out : {"none", "error", "questions", "result"},
         round : 0 .. MaxRounds, heard : BOOLEAN]
DialogFields == {"intent", "busy", "id", "waiting", "resumed", "session", "fields", "answers", "resumable", "said",
                 "followUp", "done", "error", "minimized", "gaveUp", "steps"}

InFlight(r) == AtWork(r) \/ r.at = "sent"

ServerInv ==
    /\ sessions \in Seq(StoredSessions)
    /\ progress \in Seq(Entries)
    /\ \A i \in 1 .. Len(progress) : progress[i].session \in 0 .. Len(sessions)

DialogInv ==
    /\ DOMAIN modal = DialogFields
    /\ modal.busy \in BOOLEAN /\ modal.error \in BOOLEAN /\ modal.gaveUp \in BOOLEAN
    /\ modal.id = Len(progress) /\ modal.session \in 0 .. Len(sessions)
    /\ modal.fields \in 0 .. MaxRounds /\ modal.answers \in {"empty", "blank", "full"}
    /\ modal.waiting \in {"none", "post", "recover"}
    /\ modal.busy = (modal.waiting # "none")
    /\ modal.waiting # "none" => modal.id # 0

\* A request, and the entry that tells of it.
Running(e, n) == e.status = "running" /\ e.session = n /\ e.response = "none"
RunInv(r) ==
    /\ r \in Runs /\ r.id \in 1 .. Len(progress)
    /\ r.session \in 0 .. Len(sessions)
    /\ r.session = 0 => (r.at = "sent" /\ r.kind = "start") \/ (r.at = "answered" /\ r.out = "error")
    /\ r.at = "sent" => progress[r.id] = NoEntry /\ (r.kind = "start" <=> r.session = 0)
    /\ AtWork(r) => Running(progress[r.id], r.session)
    /\ r.at = "answered" => r.out # "none"
    /\ r.at = "answered" /\ r.out \in {"questions", "result"} =>
         progress[r.id].response = r.out /\ progress[r.id].session = r.session
    /\ r.at = "answered" /\ r.out = "questions" => progress[r.id].round = r.round
    /\ r.at = "answered" /\ r.out = "error" => progress[r.id].response = "none"

RunsInv ==
    /\ \A r \in runs : RunInv(r)
    /\ \A r, s \in runs : r.id = s.id => r = s
    /\ \A r \in runs : r.heard => r.id = modal.id
    /\ modal.waiting = "post" <=> \E r \in runs : r.heard

\* The dialog's request, while it has not given one up.
Current == modal.waiting # "none"
Now == progress[modal.id]
FollowInv ==
    ~modal.gaveUp =>
      /\ \A r \in runs : InFlight(r) => r.id = modal.id /\ Current
      /\ \A r \in runs : AtWork(r) => sessions[r.session].pending = 0
      /\ \A r \in runs : r.at = "sent" => r.session = modal.session
      /\ Current => /\ Now.session # 0 /\ modal.session # 0 => Now.session = modal.session
                    /\ Now.response # "none" => Now.session # 0
                    /\ Now.response = "questions" => sessions[Now.session].pending = Now.round
                    /\ Now.response = "result" => sessions[Now.session].pending = 0
      /\ ~Current /\ ~modal.error /\ modal.session # 0 => modal.fields = sessions[modal.session].pending

CreateInv == ServerInv /\ DialogInv /\ RunsInv /\ FollowInv
-----------------------------------------------------------------------------
(***************************************************************************)
(* Sessions and entries.                                                   *)
(***************************************************************************)
LEMMA Stored ==
  ASSUME AICreateAssumption, CreateInv
  PROVE  /\ Len(sessions) \in Nat /\ DOMAIN sessions = 1 .. Len(sessions)
         /\ \A n \in 1 .. Len(sessions) : sessions[n] \in StoredSessions
         /\ Len(progress) \in Nat /\ DOMAIN progress = 1 .. Len(progress)
         /\ \A n \in 1 .. Len(progress) : progress[n] \in Entries /\ Entry(n) = progress[n]
BY DEF CreateInv, ServerInv, Entry

LEMMA SessionChanged ==
  ASSUME AICreateAssumption, CreateInv, NEW n \in 1 .. Len(sessions), NEW s \in StoredSessions,
         sessions' = [sessions EXCEPT ![n] = s]
  PROVE  /\ sessions' \in Seq(StoredSessions) /\ Len(sessions') = Len(sessions) /\ sessions'[n] = s
         /\ Len(sessions) \in Nat
BY ExceptSeq DEF CreateInv, ServerInv

LEMMA EntryTold ==
  ASSUME AICreateAssumption, CreateInv, NEW id \in 1 .. Len(progress), NEW e \in Entries, Told(id, e)
  PROVE  /\ progress' \in Seq(Entries) /\ Len(progress') = Len(progress) /\ progress'[id] = e
         /\ \A i \in 1 .. Len(progress) : i # id => progress'[i] = progress[i]
BY ExceptSeq DEF CreateInv, ServerInv, Told

\* What an entry is told.
LEMMA Rounds == AICreateAssumption => MaxRounds \in Nat /\ 0 \in 0 .. MaxRounds
<1>1. AICreateAssumption => MaxRounds \in Nat
  BY DEF AICreateAssumption
<1> QED BY <1>1

-----------------------------------------------------------------------------
(***************************************************************************)
(* The server's steps: a request that goes on.                             *)
(***************************************************************************)
LEMMA ServerStep ==
  ASSUME AICreateAssumption, CreateInv, NEW r \in runs, InFlight(r), NEW s, s.id = r.id, s.heard = r.heard,
         runs' = (runs \ {r}) \union {s}, modal' = modal, ServerInv',
         Len(progress') = Len(progress), \A i \in 1 .. Len(progress) : i # r.id => progress'[i] = progress[i],
         Len(sessions') \in Nat, Len(sessions) <= Len(sessions'), RunInv(s)', s.at # "sent",
         ~modal.gaveUp /\ r.id = modal.id =>
           LET e == progress'[r.id]
           IN  /\ AtWork(s) => sessions'[s.session].pending = 0
               /\ e.session # 0 /\ modal.session # 0 => e.session = modal.session
               /\ e.response # "none" => e.session # 0
               /\ e.response = "questions" => sessions'[e.session].pending = e.round
               /\ e.response = "result" => sessions'[e.session].pending = 0
  PROVE  CreateInv'
<1>1. Len(sessions) \in Nat
  BY Stored
<1>2. DialogInv'
  <2>1. DialogInv /\ modal.session \in 0 .. Len(sessions')
    BY <1>1 DEF CreateInv, DialogInv
  <2> QED BY <2>1 DEF DialogInv
<1>3. \A t \in runs : t # r => t.id # r.id
  BY DEF CreateInv, RunsInv
<1>4. ASSUME NEW t \in runs, t # r
      PROVE  RunInv(t)'
  <2>1. RunInv(t) /\ t.id # r.id
    BY <1>3, <1>4 DEF CreateInv, RunsInv
  <2>2. progress'[t.id] = progress[t.id] /\ t.id \in 1 .. Len(progress') /\ t.session \in 0 .. Len(sessions')
    BY <1>1, <2>1 DEF RunInv
  <2> QED BY <2>1, <2>2 DEF RunInv
<1>5. RunsInv'
  <2>1. \A t \in runs' : RunInv(t)'
    BY <1>4
  <2>2. \A t, u \in runs' : t.id = u.id => t = u
    BY <1>3 DEF CreateInv, RunsInv
  <2>3. /\ \A t \in runs' : t.heard => t.id = modal'.id
        /\ modal'.waiting = "post" <=> \E t \in runs' : t.heard
    BY DEF CreateInv, RunsInv
  <2> QED BY <2>1, <2>2, <2>3 DEF RunsInv
<1>6. FollowInv'
  <2> SUFFICES ASSUME ~modal.gaveUp
               PROVE  FollowInv'
    BY DEF FollowInv
  <2>1. r.id = modal.id /\ Current
    BY DEF CreateInv, FollowInv
  <2>2. \A t \in runs : t # r => ~InFlight(t)
    BY <1>3, <2>1 DEF CreateInv, FollowInv
  <2>3. Current' /\ Now' = progress'[r.id]
    BY <2>1 DEF Current, Now
  <2>4. \A t \in runs' : InFlight(t) => t = s
    BY <2>2
  <2> QED BY <2>1, <2>3, <2>4 DEF FollowInv, InFlight, AtWork
<1> QED BY <1>2, <1>5, <1>6 DEF CreateInv

\* What a request at work knows.
LEMMA WorkKnows ==
  ASSUME AICreateAssumption, CreateInv, NEW r \in runs, AtWork(r)
  PROVE  /\ RunInv(r) /\ r \in Runs /\ r.id \in 1 .. Len(progress) /\ r.session \in 1 .. Len(sessions)
         /\ sessions[r.session] \in StoredSessions
         /\ Running(Entry(r.id), r.session)
         /\ ~modal.gaveUp /\ r.id = modal.id =>
              /\ sessions[r.session].pending = 0
              /\ modal.session # 0 => modal.session = r.session
<1>1. RunInv(r)
  BY DEF CreateInv, RunsInv
<1>2. r.session # 0 /\ Running(progress[r.id], r.session)
  BY <1>1 DEF RunInv, AtWork
<1>3. r \in Runs /\ r.id \in 1 .. Len(progress) /\ r.session \in 1 .. Len(sessions)
  BY <1>1, <1>2, Stored DEF RunInv
<1>4. progress[r.id].session = r.session
  BY <1>2 DEF Running
<1>5. ~modal.gaveUp /\ r.id = modal.id =>
        /\ sessions[r.session].pending = 0
        /\ modal.session # 0 => modal.session = r.session
  BY <1>2, <1>3, <1>4 DEF CreateInv, FollowInv, InFlight, Now
<1> QED BY <1>1, <1>2, <1>3, <1>5, Stored

LEMMA AskStep ==
  ASSUME AICreateAssumption, CreateInv, Ask
  PROVE  CreateInv'
<1>1. PICK r \in runs :
        LET s == sessions[r.session]
            n == s.rounds + 1
        IN  /\ r.at \in {"cad", "parameters"} /\ n <= MaxRounds /\ UNCHANGED <<modal, network>>
            /\ sessions' = [sessions EXCEPT ![r.session] = [s EXCEPT !.pending = n, !.phase = "needs_input"]]
            /\ Told(r.id, [Entry(r.id) EXCEPT !.status = "needs_input", !.response = "questions", !.round = n])
            /\ runs' = (runs \ {r}) \union {[r EXCEPT !.at = "answered", !.out = "questions", !.round = n]}
  BY DEF Ask
<1>0. PICK n : n = sessions[r.session].rounds + 1
  OBVIOUS
<1> DEFINE new == [sessions[r.session] EXCEPT !.pending = n, !.phase = "needs_input"]
           e == [Entry(r.id) EXCEPT !.status = "needs_input", !.response = "questions", !.round = n]
           s == [r EXCEPT !.at = "answered", !.out = "questions", !.round = n]
<1>2. AtWork(r) /\ InFlight(r)
  BY <1>1 DEF AtWork, InFlight
<1>3. /\ RunInv(r) /\ r \in Runs /\ r.id \in 1 .. Len(progress) /\ r.session \in 1 .. Len(sessions)
      /\ sessions[r.session] \in StoredSessions
      /\ Running(Entry(r.id), r.session)
      /\ ~modal.gaveUp /\ r.id = modal.id /\ modal.session # 0 => modal.session = r.session
  BY <1>2, WorkKnows
<1>4. n \in 0 .. MaxRounds /\ n # 0
  BY <1>0, <1>1, <1>3 DEF StoredSessions
<1>5. new \in StoredSessions /\ new.pending = n
  BY <1>0, <1>3, <1>4 DEF StoredSessions, Phases
<1>6. e.session = r.session /\ e.response = "questions" /\ e.round = n /\ e \in Entries
  <2>1. Entry(r.id) \in Entries /\ Entry(r.id).session = r.session
    BY <1>3, Stored DEF Running
  <2> QED BY <1>4, <2>1 DEF Entries, Statuses
<1>7. /\ s \in Runs /\ s.id = r.id /\ s.heard = r.heard /\ s.session = r.session /\ s.at = "answered"
      /\ s.out = "questions" /\ s.round = n
  BY <1>3, <1>4 DEF Runs
<1>8. /\ sessions' = [sessions EXCEPT ![r.session] = new] /\ Told(r.id, e) /\ modal' = modal
      /\ runs' = (runs \ {r}) \union {s}
  BY <1>0, <1>1
<1> HIDE DEF new, e, s
<1>9. /\ sessions' \in Seq(StoredSessions) /\ Len(sessions') = Len(sessions) /\ sessions'[r.session] = new
      /\ Len(sessions) \in Nat
  BY <1>3, <1>5, <1>8, SessionChanged
<1>10. /\ progress' \in Seq(Entries) /\ Len(progress') = Len(progress) /\ progress'[r.id] = e
       /\ \A i \in 1 .. Len(progress) : i # r.id => progress'[i] = progress[i]
  BY <1>3, <1>6, <1>8, EntryTold
<1>11. ServerInv'
  <2>1. e.session \in 0 .. Len(sessions)
    BY <1>3, <1>6, <1>9
  <2> QED BY <1>3, <1>9, <1>10, <2>1 DEF ServerInv, CreateInv
<1>12. RunInv(s)'
  <2>1. /\ s.session \in 0 .. Len(sessions') /\ s.session # 0 /\ s.id \in 1 .. Len(progress')
        /\ progress'[s.id] = e
    BY <1>3, <1>7, <1>9, <1>10
  <2> QED BY <1>6, <1>7, <2>1 DEF RunInv, AtWork
<1>13. /\ e.session # 0 /\ sessions'[e.session].pending = e.round /\ e.response = "questions"
       /\ ~AtWork(s) /\ s.at # "sent" /\ Len(sessions) <= Len(sessions')
       /\ ~modal.gaveUp /\ r.id = modal.id /\ modal.session # 0 => e.session = modal.session
  BY <1>3, <1>5, <1>6, <1>7, <1>9 DEF AtWork
<1> QED BY <1>2, <1>7, <1>8, <1>9, <1>10, <1>11, <1>12, <1>13, ServerStep

LEMMA CheckpointStep ==
  ASSUME AICreateAssumption, CreateInv, Checkpoint
  PROVE  CreateInv'
<1>1. PICK r \in runs :
        /\ r.at \in {"cad", "parameters"} /\ UNCHANGED <<modal, network, progress>>
        /\ LET s == IF r.at = "cad"
                    THEN [sessions[r.session] EXCEPT !.prepared = TRUE, !.phase = "geometry_imported"]
                    ELSE [sessions[r.session] EXCEPT !.params = TRUE, !.phase = "parameters_validated"]
           IN  /\ sessions' = [sessions EXCEPT ![r.session] = s]
               /\ runs' = (runs \ {r}) \union {[r EXCEPT !.at = IF r.at = "cad" THEN "parameters" ELSE "draft"]}
  BY DEF Checkpoint
<1> DEFINE new == IF r.at = "cad"
                  THEN [sessions[r.session] EXCEPT !.prepared = TRUE, !.phase = "geometry_imported"]
                  ELSE [sessions[r.session] EXCEPT !.params = TRUE, !.phase = "parameters_validated"]
           s == [r EXCEPT !.at = IF r.at = "cad" THEN "parameters" ELSE "draft"]
<1>2. AtWork(r) /\ InFlight(r)
  BY <1>1 DEF AtWork, InFlight
<1>3. /\ RunInv(r) /\ r \in Runs /\ r.id \in 1 .. Len(progress) /\ r.session \in 1 .. Len(sessions)
      /\ sessions[r.session] \in StoredSessions
      /\ Running(Entry(r.id), r.session)
      /\ ~modal.gaveUp /\ r.id = modal.id => /\ sessions[r.session].pending = 0
                                             /\ modal.session # 0 => modal.session = r.session
  BY <1>2, WorkKnows
<1>4. new \in StoredSessions /\ new.pending = sessions[r.session].pending
  BY <1>3 DEF StoredSessions, Phases
<1>5. /\ s \in Runs /\ s.id = r.id /\ s.heard = r.heard /\ s.session = r.session /\ AtWork(s) /\ s.at # "sent"
  BY <1>3 DEF Runs, AtWork
<1>6. /\ sessions' = [sessions EXCEPT ![r.session] = new] /\ modal' = modal /\ progress' = progress
      /\ runs' = (runs \ {r}) \union {s}
  BY <1>1
<1> HIDE DEF new, s
<1>7. /\ sessions' \in Seq(StoredSessions) /\ Len(sessions') = Len(sessions) /\ sessions'[r.session] = new
      /\ Len(sessions) \in Nat
  BY <1>3, <1>4, <1>6, SessionChanged
<1>8. Running(progress[r.id], r.session)
  BY <1>3, Stored DEF Running
<1>9. ServerInv'
  BY <1>6, <1>7 DEF ServerInv, CreateInv
<1>10. RunInv(s)'
  BY <1>2, <1>3, <1>5, <1>6, <1>7 DEF RunInv, AtWork
<1> QED BY <1>2, <1>3, <1>4, <1>5, <1>6, <1>7, <1>8, <1>9, <1>10, ServerStep DEF Running

LEMMA CompleteStep ==
  ASSUME AICreateAssumption, CreateInv, Complete
  PROVE  CreateInv'
<1>1. PICK r \in runs :
        /\ r.at = "draft" /\ UNCHANGED <<modal, network>>
        /\ sessions' = [sessions EXCEPT ![r.session].phase = "completed"]
        /\ Told(r.id, [Entry(r.id) EXCEPT !.status = "completed", !.response = "result"])
        /\ runs' = (runs \ {r}) \union {[r EXCEPT !.at = "answered", !.out = "result"]}
  BY DEF Complete
<1> DEFINE new == [sessions[r.session] EXCEPT !.phase = "completed"]
           e == [Entry(r.id) EXCEPT !.status = "completed", !.response = "result"]
           s == [r EXCEPT !.at = "answered", !.out = "result"]
<1>2. AtWork(r) /\ InFlight(r)
  BY <1>1 DEF AtWork, InFlight
<1>3. /\ RunInv(r) /\ r \in Runs /\ r.id \in 1 .. Len(progress) /\ r.session \in 1 .. Len(sessions)
      /\ sessions[r.session] \in StoredSessions
      /\ Running(Entry(r.id), r.session)
      /\ ~modal.gaveUp /\ r.id = modal.id => /\ sessions[r.session].pending = 0
                                             /\ modal.session # 0 => modal.session = r.session
  BY <1>2, WorkKnows
<1>4. new \in StoredSessions /\ new.pending = sessions[r.session].pending
  BY <1>3 DEF StoredSessions, Phases
<1>5. e.session = r.session /\ e.response = "result" /\ e \in Entries
  <2>1. Entry(r.id) \in Entries /\ Entry(r.id).session = r.session
    BY <1>3, Stored DEF Running
  <2> QED BY <2>1 DEF Entries, Statuses
<1>6. /\ s \in Runs /\ s.id = r.id /\ s.heard = r.heard /\ s.session = r.session /\ s.at = "answered"
      /\ s.out = "result"
  BY <1>3 DEF Runs
<1>7. /\ sessions' = [sessions EXCEPT ![r.session] = new] /\ Told(r.id, e) /\ modal' = modal
      /\ runs' = (runs \ {r}) \union {s}
  BY <1>1
<1> HIDE DEF new, e, s
<1>8. /\ sessions' \in Seq(StoredSessions) /\ Len(sessions') = Len(sessions) /\ sessions'[r.session] = new
      /\ Len(sessions) \in Nat
  BY <1>3, <1>4, <1>7, SessionChanged
<1>9. /\ progress' \in Seq(Entries) /\ Len(progress') = Len(progress) /\ progress'[r.id] = e
      /\ \A i \in 1 .. Len(progress) : i # r.id => progress'[i] = progress[i]
  BY <1>3, <1>5, <1>7, EntryTold
<1>10. ServerInv'
  <2>1. e.session \in 0 .. Len(sessions)
    BY <1>3, <1>5, <1>8
  <2> QED BY <1>3, <1>8, <1>9, <2>1 DEF ServerInv, CreateInv
<1>11. RunInv(s)'
  BY <1>3, <1>5, <1>6, <1>8, <1>9 DEF RunInv, AtWork
<1> QED BY SMTT(30), <1>2, <1>3, <1>4, <1>5, <1>6, <1>7, <1>8, <1>9, <1>10, <1>11, ServerStep DEF AtWork

LEMMA StageFailsStep ==
  ASSUME AICreateAssumption, CreateInv, StageFails
  PROVE  CreateInv'
<1>1. PICK r \in runs :
        /\ AtWork(r) /\ UNCHANGED <<modal, network>>
        /\ sessions' = [sessions EXCEPT ![r.session] = Failed(@)]
        /\ Refused(r, [Entry(r.id) EXCEPT !.status = IF r.at = "draft" THEN "needs_attention" ELSE "failed"])
  BY DEF StageFails
<1> DEFINE new == Failed(sessions[r.session])
           e == [Entry(r.id) EXCEPT !.status = IF r.at = "draft" THEN "needs_attention" ELSE "failed"]
           s == [r EXCEPT !.at = "answered", !.out = "error"]
<1>2. AtWork(r) /\ InFlight(r)
  BY <1>1 DEF InFlight
<1>3. /\ RunInv(r) /\ r \in Runs /\ r.id \in 1 .. Len(progress) /\ r.session \in 1 .. Len(sessions)
      /\ sessions[r.session] \in StoredSessions
      /\ Running(Entry(r.id), r.session)
      /\ ~modal.gaveUp /\ r.id = modal.id /\ modal.session # 0 => modal.session = r.session
  BY <1>2, WorkKnows
<1>4. new \in StoredSessions
  BY <1>3 DEF Failed, StoredSessions, Phases
<1>5. e.session = r.session /\ e.response = "none" /\ e \in Entries
  BY <1>3, Rounds, Stored DEF Running, Entries, Statuses
<1>6. /\ s \in Runs /\ s.id = r.id /\ s.heard = r.heard /\ s.session = r.session /\ s.at = "answered"
      /\ s.out = "error"
  BY <1>3 DEF Runs
<1>7. /\ sessions' = [sessions EXCEPT ![r.session] = new] /\ Told(r.id, e) /\ modal' = modal
      /\ runs' = (runs \ {r}) \union {s}
  BY <1>1 DEF Refused
<1> HIDE DEF new, e, s
<1>8. /\ sessions' \in Seq(StoredSessions) /\ Len(sessions') = Len(sessions) /\ Len(sessions) \in Nat
  BY <1>3, <1>4, <1>7, SessionChanged
<1>9. /\ progress' \in Seq(Entries) /\ Len(progress') = Len(progress) /\ progress'[r.id] = e
      /\ \A i \in 1 .. Len(progress) : i # r.id => progress'[i] = progress[i]
  BY <1>3, <1>5, <1>7, EntryTold
<1>10. ServerInv'
  <2>1. e.session \in 0 .. Len(sessions)
    BY <1>3, <1>5, <1>8
  <2> QED BY <1>3, <1>8, <1>9, <2>1 DEF ServerInv, CreateInv
<1>11. RunInv(s)'
  BY <1>3, <1>5, <1>6, <1>8, <1>9 DEF RunInv, AtWork
<1> QED BY SMTT(30), <1>2, <1>3, <1>5, <1>6, <1>7, <1>8, <1>9, <1>10, <1>11, ServerStep DEF AtWork

LEMMA RunningEntry ==
  ASSUME AICreateAssumption, NEW n \in Nat
  PROVE  LET e == [NoEntry EXCEPT !.status = "running", !.session = n]
         IN  e \in Entries /\ Running(e, n)
BY Rounds DEF NoEntry, Entries, Statuses, Running

\* A request that the server takes.
LEMMA AcceptStep ==
  ASSUME AICreateAssumption, CreateInv, NEW r \in runs, r.at = "sent", NEW s, NEW n, Accept(r, s, n),
         sessions' \in Seq(StoredSessions), Len(sessions') \in Nat, Len(sessions) <= Len(sessions'),
         n \in 1 .. Len(sessions'), sessions'[n].pending = 0, r.session \in {0, n}, modal' = modal
  PROVE  CreateInv'
<1>1. PICK at : at = Start(s)
  OBVIOUS
<1> DEFINE t == [r EXCEPT !.at = at, !.session = n]
           e == [NoEntry EXCEPT !.status = "running", !.session = n]
<1>2. RunInv(r)
  BY DEF CreateInv, RunsInv
<1>3. r \in Runs /\ r.id \in 1 .. Len(progress)
  BY <1>2 DEF RunInv
<1>4. at \in {"cad", "parameters", "draft"} /\ n \in Nat
  BY <1>1 DEF Start
<1>5. /\ t \in Runs /\ t.id = r.id /\ t.heard = r.heard /\ t.session = n /\ AtWork(t) /\ t.at # "sent"
      /\ t.at # "answered"
  BY <1>3, <1>4 DEF Runs, AtWork
<1>6. e \in Entries /\ Running(e, n)
  BY <1>4, RunningEntry
<1>7. Told(r.id, e) /\ runs' = (runs \ {r}) \union {t}
  BY <1>1 DEF Accept
<1>8. e.session = n /\ e.response = "none"
  BY <1>6 DEF Running
<1> HIDE DEF t, e
<1>9. /\ progress' \in Seq(Entries) /\ Len(progress') = Len(progress) /\ progress'[r.id] = e
      /\ \A i \in 1 .. Len(progress) : i # r.id => progress'[i] = progress[i]
  BY <1>3, <1>6, <1>7, EntryTold
<1>10. ServerInv'
  <2>1. Len(sessions) \in Nat /\ \A i \in 1 .. Len(progress) : progress[i].session \in 0 .. Len(sessions)
    BY Stored DEF ServerInv, CreateInv
  <2>2. ASSUME NEW i \in 1 .. Len(progress)
        PROVE  progress'[i].session \in 0 .. Len(sessions')
    <3>1. CASE i = r.id
      BY <1>8, <1>9, <3>1
    <3>2. CASE i # r.id
      <4>1. progress'[i].session \in 0 .. Len(sessions)
        BY <1>9, <2>1, <3>2
      <4> QED BY <2>1, <4>1
    <3> QED BY <3>1, <3>2
  <2> QED BY <1>9, <2>2 DEF ServerInv
<1>11. RunInv(t)'
  <2>1. n \in 0 .. Len(sessions') /\ n # 0
    OBVIOUS
  <2> QED BY <1>3, <1>5, <1>6, <1>9, <2>1 DEF RunInv
<1>12. ~modal.gaveUp /\ r.id = modal.id /\ modal.session # 0 => n = modal.session
  BY DEF CreateInv, FollowInv
<1> QED BY <1>5, <1>7, <1>8, <1>9, <1>10, <1>11, <1>12, ServerStep DEF InFlight

\* A request that the server refuses: an answer that is blank.
LEMMA RefuseStep ==
  ASSUME AICreateAssumption, CreateInv, NEW r \in runs, r.at = "sent",
         Refused(r, [NoEntry EXCEPT !.status = "failed"]), UNCHANGED <<sessions, modal>>
  PROVE  CreateInv'
<1> DEFINE t == [r EXCEPT !.at = "answered", !.out = "error"]
           e == [NoEntry EXCEPT !.status = "failed"]
<1>1. RunInv(r)
  BY DEF CreateInv, RunsInv
<1>2. r \in Runs /\ r.id \in 1 .. Len(progress)
  BY <1>1 DEF RunInv
<1>3. /\ t \in Runs /\ t.id = r.id /\ t.heard = r.heard /\ t.session = r.session /\ t.at = "answered"
      /\ t.out = "error"
  BY <1>2 DEF Runs
<1>4. e \in Entries /\ e.session = 0 /\ e.response = "none"
  BY Rounds DEF NoEntry, Entries, Statuses
<1>5. Told(r.id, e) /\ runs' = (runs \ {r}) \union {t}
  BY DEF Refused
<1> HIDE DEF t, e
<1>6. /\ progress' \in Seq(Entries) /\ Len(progress') = Len(progress) /\ progress'[r.id] = e
      /\ \A i \in 1 .. Len(progress) : i # r.id => progress'[i] = progress[i]
  BY <1>2, <1>4, <1>5, EntryTold
<1>7. Len(sessions) \in Nat /\ sessions' = sessions
  BY Stored
<1>8. ServerInv'
  BY <1>2, <1>4, <1>6, <1>7 DEF ServerInv, CreateInv
<1>9. RunInv(t)'
  BY <1>1, <1>2, <1>3, <1>4, <1>6, <1>7 DEF RunInv, AtWork
<1> QED BY <1>3, <1>4, <1>5, <1>6, <1>7, <1>8, <1>9, ServerStep DEF InFlight, AtWork

LEMMA TakeStep ==
  ASSUME AICreateAssumption, CreateInv, Take
  PROVE  CreateInv'
<1>1. PICK r \in runs :
        /\ r.at = "sent" /\ UNCHANGED <<modal, network>>
        /\ CASE r.kind = "start" ->
                  sessions' = Append(sessions, NewSession) /\ Accept(r, NewSession, Len(sessions) + 1)
             [] r.kind = "more" ->
                  LET s == Reopened(sessions[r.session])
                  IN  sessions' = [sessions EXCEPT ![r.session] = s] /\ Accept(r, s, r.session)
             [] OTHER ->
                  LET s == sessions[r.session]
                      answered == [s EXCEPT !.rounds = @ + 1, !.pending = 0]
                  IN  IF ~Answering(s) THEN Accept(r, s, r.session) /\ UNCHANGED sessions
                      ELSE IF r.kind = "answers" /\ r.answers = "full"
                      THEN sessions' = [sessions EXCEPT ![r.session] = answered] /\ Accept(r, answered, r.session)
                      ELSE Refused(r, [NoEntry EXCEPT !.status = "failed"]) /\ UNCHANGED sessions
  BY DEF Take
<1>2. RunInv(r) /\ modal' = modal
  BY <1>1 DEF CreateInv, RunsInv
<1>3. CASE r.kind = "start"
  <2>1. r.session = 0 /\ sessions' = Append(sessions, NewSession) /\ Accept(r, NewSession, Len(sessions) + 1)
    BY <1>1, <1>2, <1>3 DEF RunInv
  <2>2. NewSession \in StoredSessions /\ NewSession.pending = 0
    BY Rounds DEF NewSession, StoredSessions, Phases
  <2>3. /\ sessions' \in Seq(StoredSessions) /\ Len(sessions') = Len(sessions) + 1
        /\ sessions'[Len(sessions) + 1] = NewSession /\ Len(sessions) \in Nat
    BY <2>1, <2>2, AppendProperties DEF CreateInv, ServerInv
  <2> QED BY <1>1, <1>2, <2>1, <2>2, <2>3, AcceptStep
<1> SUFFICES ASSUME r.kind # "start"
             PROVE  CreateInv'
  BY <1>3
<1>4. r.session \in 1 .. Len(sessions) /\ Len(sessions) \in Nat
  BY <1>1, <1>2, Stored DEF RunInv
<1>5. sessions[r.session] \in StoredSessions
  BY <1>4, Stored
<1>6. CASE r.kind = "more"
  <2>0. PICK s : s = Reopened(sessions[r.session])
    OBVIOUS
  <2>1. sessions' = [sessions EXCEPT ![r.session] = s] /\ Accept(r, s, r.session)
    BY <1>1, <1>6, <2>0
  <2>2. s \in StoredSessions /\ s.pending = 0
    BY <1>5, <2>0, Rounds DEF Reopened, StoredSessions, Phases
  <2>3. /\ sessions' \in Seq(StoredSessions) /\ Len(sessions') = Len(sessions) /\ sessions'[r.session] = s
    BY <1>4, <2>1, <2>2, SessionChanged
  <2>4. /\ Len(sessions') \in Nat /\ Len(sessions) <= Len(sessions') /\ sessions' \in Seq(StoredSessions)
        /\ r.session \in 1 .. Len(sessions') /\ sessions'[r.session].pending = 0
    BY <1>4, <2>2, <2>3
  <2>5. r.at = "sent" /\ Accept(r, s, r.session) /\ modal' = modal /\ r.session \in {0, r.session}
    BY <1>1, <1>2, <2>1
  <2> QED BY <2>4, <2>5, AcceptStep
<1> SUFFICES ASSUME r.kind # "more"
             PROVE  CreateInv'
  BY <1>6
<1>7. CASE ~Answering(sessions[r.session])
  <2>1. Accept(r, sessions[r.session], r.session) /\ UNCHANGED sessions
    BY <1>1, <1>7
  <2>2. sessions'[r.session].pending = 0
    BY <1>5, <1>7, <2>1 DEF Answering, StoredSessions
  <2>3. sessions' \in Seq(StoredSessions) /\ Len(sessions') \in Nat
    BY <1>4, <2>1 DEF CreateInv, ServerInv
  <2> QED BY <1>1, <1>2, <1>4, <2>1, <2>2, <2>3, AcceptStep
<1>8. CASE Answering(sessions[r.session]) /\ r.kind = "answers" /\ r.answers = "full"
  <2>0. PICK s : s = [sessions[r.session] EXCEPT !.rounds = @ + 1, !.pending = 0]
    OBVIOUS
  <2>1. sessions' = [sessions EXCEPT ![r.session] = s] /\ Accept(r, s, r.session)
    BY <1>1, <1>8, <2>0
  <2>2. s \in StoredSessions /\ s.pending = 0
    BY <1>5, <1>8, <2>0, Rounds DEF Answering, StoredSessions
  <2>3. /\ sessions' \in Seq(StoredSessions) /\ Len(sessions') = Len(sessions) /\ sessions'[r.session] = s
    BY <1>4, <2>1, <2>2, SessionChanged
  <2>4. /\ Len(sessions') \in Nat /\ Len(sessions) <= Len(sessions') /\ sessions' \in Seq(StoredSessions)
        /\ r.session \in 1 .. Len(sessions') /\ sessions'[r.session].pending = 0
    BY <1>4, <2>2, <2>3
  <2>5. r.at = "sent" /\ Accept(r, s, r.session) /\ modal' = modal /\ r.session \in {0, r.session}
    BY <1>1, <1>2, <2>1
  <2> QED BY <2>4, <2>5, AcceptStep
<1>9. CASE Answering(sessions[r.session]) /\ ~(r.kind = "answers" /\ r.answers = "full")
  <2>1. Refused(r, [NoEntry EXCEPT !.status = "failed"]) /\ UNCHANGED <<sessions, modal>>
    BY <1>1, <1>9
  <2> QED BY <1>1, <2>1, RefuseStep
<1> QED BY <1>7, <1>8, <1>9

-----------------------------------------------------------------------------
(***************************************************************************)
(* The network, and a restart.                                             *)
(***************************************************************************)
LEMMA LoseStep ==
  ASSUME AICreateAssumption, CreateInv, LoseConnection
  PROVE  CreateInv'
<1>1. PICK r \in runs :
        /\ r.heard /\ network < MaxDisturbances /\ network' = network + 1
        /\ \/ r.at = "sent" /\ runs' = runs \ {r}
           \/ runs' = (runs \ {r}) \union {[r EXCEPT !.heard = FALSE]}
        /\ modal' = [modal EXCEPT !.waiting = "recover"] /\ UNCHANGED <<sessions, progress>>
  BY DEF LoseConnection
<1> DEFINE s == [r EXCEPT !.heard = FALSE]
<1>2. RunInv(r) /\ modal.waiting = "post" /\ DialogInv
  BY <1>1 DEF CreateInv, RunsInv
<1>3. /\ s \in Runs /\ s.heard = FALSE /\ s.id = r.id /\ s.kind = r.kind /\ s.session = r.session
      /\ s.at = r.at /\ s.out = r.out /\ s.round = r.round
  BY <1>2 DEF RunInv, Runs
<1>4. /\ DOMAIN modal' = DialogFields /\ modal'.waiting = "recover" /\ modal'.busy = modal.busy
      /\ modal'.error = modal.error /\ modal'.gaveUp = modal.gaveUp /\ modal'.id = modal.id
      /\ modal'.session = modal.session /\ modal'.fields = modal.fields /\ modal'.answers = modal.answers
  BY <1>1, <1>2 DEF DialogInv, DialogFields
<1>5. runs' \subseteq (runs \ {r}) \union {s} /\ sessions' = sessions /\ progress' = progress
  BY <1>1
<1> HIDE DEF s
<1>6. RunInv(s)
  BY <1>2, <1>3 DEF RunInv, AtWork
<1>7. \A t \in runs' : t # s => t \in runs /\ ~t.heard /\ t.id # r.id
  BY <1>1, <1>5 DEF CreateInv, RunsInv
<1>8. ServerInv' /\ DialogInv'
  BY <1>2, <1>4, <1>5 DEF CreateInv, ServerInv, DialogInv
<1>9. RunsInv'
  <2>1. \A t \in runs' : RunInv(t)'
    BY <1>5, <1>6, <1>7 DEF CreateInv, RunsInv, RunInv
  <2>2. \A t, u \in runs' : t.id = u.id => t = u
    BY <1>3, <1>7 DEF CreateInv, RunsInv
  <2>3. \A t \in runs' : ~t.heard
    BY <1>3, <1>7
  <2> QED BY <1>4, <2>1, <2>2, <2>3 DEF RunsInv
<1>10. FollowInv'
  <2>1. Now' = Now /\ Current /\ Current'
    BY <1>2, <1>4, <1>5 DEF Now, Current
  <2>2. \A t \in runs' : \E u \in runs : t.id = u.id /\ t.at = u.at /\ t.session = u.session
    BY <1>3, <1>7
  <2> QED BY <1>4, <1>5, <2>1, <2>2 DEF CreateInv, FollowInv, InFlight, AtWork
<1> QED BY <1>8, <1>9, <1>10 DEF CreateInv

LEMMA RestartStep ==
  ASSUME AICreateAssumption, CreateInv, Restart
  PROVE  CreateInv'
<1> DEFINE Kept(e) == IF e.status = "running" THEN [e EXCEPT !.status = "recovering"] ELSE e
<1>1. /\ runs' = {} /\ sessions' = sessions
      /\ progress' = [i \in DOMAIN progress |-> Kept(progress[i])]
      /\ modal' = IF modal.waiting = "post" THEN [modal EXCEPT !.waiting = "recover"] ELSE modal
  BY DEF Restart
<1>2. \A e \in Entries : /\ Kept(e) \in Entries /\ Kept(e).session = e.session
                         /\ Kept(e).response = e.response /\ Kept(e).round = e.round
  BY DEF Entries, Statuses
<1> HIDE DEF Kept
<1>3. /\ progress' \in Seq(Entries) /\ Len(progress') = Len(progress)
      /\ \A i \in 1 .. Len(progress) : progress'[i] = Kept(progress[i])
  <2>1. /\ progress' \in [1 .. Len(progress) -> Entries] /\ Len(progress) \in Nat
        /\ \A i \in 1 .. Len(progress) : progress'[i] = Kept(progress[i])
    BY <1>1, <1>2, Stored
  <2>2. progress' \in Seq(Entries) /\ Len(progress') = Len(progress)
    BY <2>1
  <2> QED BY <2>1, <2>2
<1>4. ServerInv'
  BY <1>1, <1>2, <1>3, Stored DEF CreateInv, ServerInv
<1>5. /\ DOMAIN modal' = DialogFields /\ modal'.busy = modal.busy
      /\ modal'.waiting = IF modal.waiting = "post" THEN "recover" ELSE modal.waiting
      /\ modal'.error = modal.error /\ modal'.gaveUp = modal.gaveUp /\ modal'.id = modal.id
      /\ modal'.session = modal.session /\ modal'.fields = modal.fields /\ modal'.answers = modal.answers
  BY <1>1 DEF CreateInv, DialogInv, DialogFields
<1>6. DialogInv'
  <2>1. DialogInv /\ (modal'.waiting # "none" <=> modal.waiting # "none")
    BY <1>5 DEF CreateInv
  <2> QED BY <1>1, <1>3, <1>5, <2>1 DEF DialogInv
<1>7. RunsInv'
  BY <1>1, <1>5 DEF CreateInv, DialogInv, RunsInv
<1>8. FollowInv'
  <2>1. Current' = Current
    BY <1>5 DEF Current
  <2>2. Current => /\ Now'.session = Now.session /\ Now'.response = Now.response /\ Now'.round = Now.round
    <3> SUFFICES ASSUME Current
                 PROVE  Now'.session = Now.session /\ Now'.response = Now.response /\ Now'.round = Now.round
      OBVIOUS
    <3>1. modal.id \in 1 .. Len(progress)
      BY Stored DEF Current, CreateInv, DialogInv
    <3> QED BY <1>2, <1>3, <1>5, <3>1, Stored DEF Now
  <2> QED BY <1>1, <1>5, <2>1, <2>2 DEF CreateInv, FollowInv
<1> QED BY <1>4, <1>6, <1>7, <1>8 DEF CreateInv

-----------------------------------------------------------------------------
(***************************************************************************)
(* The dialog's steps.                                                     *)
(***************************************************************************)
\* A dialog with another session, which its request's entry names.
Alike(m) ==
    /\ DOMAIN m = DialogFields /\ m.busy = modal.busy /\ m.id = modal.id /\ m.waiting = modal.waiting
    /\ m.gaveUp = modal.gaveUp /\ m.fields = modal.fields /\ m.error \in BOOLEAN
    /\ m.answers \in {"empty", "blank", "full"}

LEMMA AlikeStep ==
  ASSUME AICreateAssumption, CreateInv, NEW m, Alike(m), Says(m), m.session = modal.session,
         m.error = modal.error \/ modal.session = 0
  PROVE  CreateInv'
<1>1. modal' = m /\ sessions' = sessions /\ progress' = progress /\ runs' = runs
  BY DEF Says
<1>2. ServerInv' /\ DialogInv'
  BY <1>1 DEF CreateInv, ServerInv, DialogInv, Alike
<1>3. RunsInv'
  BY <1>1 DEF CreateInv, RunsInv, RunInv, Alike
<1>4. FollowInv'
  <2>1. /\ Now' = Now /\ (Current' <=> Current) /\ modal'.gaveUp = modal.gaveUp /\ modal'.id = modal.id
        /\ modal'.session = modal.session /\ modal'.fields = modal.fields
    BY <1>1 DEF Now, Current, Alike
  <2> QED BY <1>1, <2>1 DEF CreateInv, FollowInv, DialogInv
<1> QED BY <1>2, <1>3, <1>4 DEF CreateInv

LEMMA UserStep ==
  ASSUME AICreateAssumption, CreateInv, TypeIntent \/ Answer \/ Minimize \/ Review
  PROVE  CreateInv'
<1> DEFINE s == Stepped
<1>1. /\ Alike(s) /\ s.session = modal.session /\ s.error = modal.error
      /\ Alike(modal)
  BY DEF CreateInv, DialogInv, Alike, Stepped, DialogFields
<1> HIDE DEF s
<1>2. ASSUME modal.session = 0, Says([s EXCEPT !.intent = "text", !.error = FALSE])
      PROVE  CreateInv'
  <2> DEFINE m == [s EXCEPT !.intent = "text", !.error = FALSE]
  <2>1. Alike(m) /\ m.session = modal.session
    BY <1>1 DEF Alike, DialogFields
  <2>2. Says(m)
    BY <1>2
  <2> HIDE DEF m
  <2> QED BY <1>2, <2>1, <2>2, AlikeStep
<1>3. ASSUME Says([s EXCEPT !.intent = "text"])
      PROVE  CreateInv'
  <2> DEFINE m == [s EXCEPT !.intent = "text"]
  <2>1. Alike(m) /\ m.session = modal.session /\ m.error = modal.error
    BY <1>1 DEF Alike, DialogFields
  <2>2. Says(m)
    BY <1>3
  <2> HIDE DEF m
  <2> QED BY <2>1, <2>2, AlikeStep
<1>4. ASSUME NEW a \in {"blank", "full"}, Says([s EXCEPT !.answers = a])
      PROVE  CreateInv'
  <2> DEFINE m == [s EXCEPT !.answers = a]
  <2>1. Alike(m) /\ m.session = modal.session /\ m.error = modal.error
    BY <1>1 DEF Alike, DialogFields
  <2>2. Says(m)
    BY <1>4
  <2> HIDE DEF m
  <2> QED BY <2>1, <2>2, AlikeStep
<1>5. ASSUME Says([s EXCEPT !.minimized = TRUE])
      PROVE  CreateInv'
  <2> DEFINE m == [s EXCEPT !.minimized = TRUE]
  <2>1. Alike(m) /\ m.session = modal.session /\ m.error = modal.error
    BY <1>1 DEF Alike, DialogFields
  <2>2. Says(m)
    BY <1>5
  <2> HIDE DEF m
  <2> QED BY <2>1, <2>2, AlikeStep
<1>6. ASSUME Says([modal EXCEPT !.minimized = FALSE])
      PROVE  CreateInv'
  <2> DEFINE m == [modal EXCEPT !.minimized = FALSE]
  <2>1. Alike(m) /\ m.session = modal.session /\ m.error = modal.error
    BY <1>1 DEF Alike, DialogFields
  <2>2. Says(m)
    BY <1>6
  <2> HIDE DEF m
  <2> QED BY <2>1, <2>2, AlikeStep
<1>7. CASE TypeIntent
  BY <1>2, <1>3, <1>7 DEF TypeIntent, HasStarted, s
<1>8. CASE Answer
  BY <1>4, <1>8 DEF Answer, s
<1> QED BY <1>5, <1>6, <1>7, <1>8 DEF Minimize, Review, s

\* What the entry of its request tells the dialog.
LEMMA KnownFits ==
  ASSUME AICreateAssumption, CreateInv, Current
  PROVE  LET m == Known(modal)
         IN  /\ Alike(m) /\ m.error = modal.error /\ m.session \in 0 .. Len(sessions)
             /\ modal.id \in 1 .. Len(progress) /\ Entry(modal.id) = Now /\ Now \in Entries
             /\ Now.session \in 0 .. Len(sessions)
             /\ m.session = IF Now.session # 0 THEN Now.session ELSE modal.session
<1>1. modal.id \in 1 .. Len(progress) /\ DialogInv
  BY Stored DEF CreateInv, DialogInv, Current
<1>2. Entry(modal.id) = Now /\ Now \in Entries /\ Now.session \in 0 .. Len(sessions)
  BY <1>1, Stored DEF Now, CreateInv, ServerInv
<1>3. CASE Now.session # 0
  <2> DEFINE m == [modal EXCEPT !.session = Now.session]
  <2>1. Known(modal) = m
    BY <1>2, <1>3 DEF Known
  <2>2. Alike(m) /\ m.error = modal.error /\ m.session = Now.session
    BY <1>1 DEF DialogInv, Alike, DialogFields
  <2> HIDE DEF m
  <2> QED BY <1>1, <1>2, <1>3, <2>1, <2>2
<1>4. CASE Now.session = 0
  <2>1. Known(modal) = modal
    BY <1>2, <1>4 DEF Known
  <2>2. Alike(modal)
    BY <1>1 DEF DialogInv, Alike
  <2> QED BY <1>1, <1>2, <1>4, <2>1, <2>2 DEF DialogInv
<1> QED BY <1>3, <1>4

LEMMA KnownStep ==
  ASSUME AICreateAssumption, CreateInv, Current, NEW m, m = Known(modal), Says(m)
  PROVE  CreateInv'
<1>1. modal' = m /\ sessions' = sessions /\ progress' = progress /\ runs' = runs
  BY DEF Says
<1>2. /\ Alike(m) /\ m.error = modal.error /\ m.session \in 0 .. Len(sessions)
      /\ Now \in Entries /\ m.session = IF Now.session # 0 THEN Now.session ELSE modal.session
  BY KnownFits
<1>3. ServerInv' /\ DialogInv'
  BY <1>1, <1>2 DEF CreateInv, ServerInv, DialogInv, Alike
<1>4. RunsInv'
  BY <1>1, <1>2 DEF CreateInv, RunsInv, RunInv, Alike
<1>5. FollowInv'
  <2>1. /\ Now' = Now /\ Current' /\ modal'.gaveUp = modal.gaveUp /\ modal'.id = modal.id
        /\ modal'.session = m.session
    BY <1>1, <1>2 DEF Now, Current, Alike
  <2>2. ~modal.gaveUp => \A r \in runs : r.at = "sent" => r.session = m.session
    <3>1. NoEntry.session = 0
      BY DEF NoEntry
    <3>2. ~modal.gaveUp => \A r \in runs : r.at = "sent" => r.session = modal.session /\ Now = NoEntry
      BY DEF CreateInv, FollowInv, RunsInv, RunInv, InFlight, Now
    <3> QED BY <1>2, <3>1, <3>2
  <2> QED BY <1>1, <1>2, <2>1, <2>2 DEF CreateInv, FollowInv
<1> QED BY <1>3, <1>4, <1>5 DEF CreateInv

\* The dialog rests: no request that it knows of is at work any more.
LEMMA RestStep ==
  ASSUME AICreateAssumption, CreateInv, NEW m, DOMAIN m = DialogFields, m.busy = FALSE, m.waiting = "none", m.id = modal.id,
         m.error \in BOOLEAN, m.gaveUp \in BOOLEAN, m.session \in 0 .. Len(sessions),
         m.fields \in 0 .. MaxRounds, m.answers \in {"empty", "blank", "full"},
         modal' = m, sessions' = sessions, progress' = progress,
         runs' \subseteq runs, \A r \in runs' : ~r.heard,
         ~m.gaveUp => /\ \A r \in runs' : ~InFlight(r)
                      /\ ~m.error /\ m.session # 0 => m.fields = sessions[m.session].pending
  PROVE  CreateInv'
<1>1. ServerInv' /\ DialogInv'
  BY DEF CreateInv, ServerInv, DialogInv
<1>2. RunsInv'
  BY DEF CreateInv, RunsInv, RunInv
<1>3. FollowInv'
  BY DEF FollowInv, Current, InFlight
<1> QED BY <1>1, <1>2, <1>3 DEF CreateInv

LEMMA RestedShape ==
  ASSUME NEW m, DOMAIN m = DialogFields
  PROVE  LET n == Rested(m)
         IN  /\ DOMAIN n = DialogFields /\ n.busy = FALSE /\ n.waiting = "none" /\ n.id = m.id
             /\ n.error = m.error /\ n.gaveUp = m.gaveUp /\ n.session = m.session /\ n.fields = m.fields
             /\ n.answers = m.answers
BY DEF Rested, DialogFields

LEMMA AcceptedShape ==
  ASSUME NEW m, DOMAIN m = DialogFields, NEW out, NEW n, NEW session
  PROVE  LET a == AcceptResult(m, out, n, session)
         IN  /\ DOMAIN a = DialogFields /\ a.id = m.id /\ a.error = m.error /\ a.gaveUp = m.gaveUp
             /\ a.answers \in {"empty", m.answers}
             /\ out = "questions" => a.session = session /\ a.fields = n
             /\ out # "questions" => a.session = m.session /\ a.fields = 0
BY DEF AcceptResult, DialogFields

LEMMA GiveUpStep ==
  ASSUME AICreateAssumption, CreateInv, GiveUp
  PROVE  CreateInv'
<1> DEFINE g == [modal EXCEPT !.error = TRUE, !.gaveUp = TRUE]
           m == Rested(g)
<1>1. modal.waiting = "recover" /\ Says(m)
  BY DEF GiveUp
<1>2. /\ DOMAIN g = DialogFields /\ g.id = modal.id /\ g.error = TRUE /\ g.gaveUp = TRUE
      /\ g.session = modal.session /\ g.fields = modal.fields /\ g.answers = modal.answers
  BY DEF CreateInv, DialogInv, DialogFields
<1> HIDE DEF g
<1>3. /\ DOMAIN m = DialogFields /\ m.busy = FALSE /\ m.waiting = "none" /\ m.id = modal.id
      /\ m.error = TRUE /\ m.gaveUp = TRUE /\ m.session = modal.session /\ m.fields = modal.fields
      /\ m.answers = modal.answers
  BY <1>2, RestedShape
<1> HIDE DEF m
<1>4. \A r \in runs : ~r.heard
  BY <1>1 DEF CreateInv, RunsInv
<1> QED BY <1>1, <1>3, <1>4, RestStep DEF Says, CreateInv, DialogInv

LEMMA DropStep ==
  ASSUME AICreateAssumption, CreateInv, Drop
  PROVE  CreateInv'
<1>1. PICK r \in runs : /\ r.at = "answered" /\ ~r.heard
                        /\ runs' = runs \ {r} /\ UNCHANGED <<sessions, progress, modal, network>>
  BY DEF Drop
<1>2. ServerInv' /\ DialogInv'
  BY <1>1 DEF CreateInv, ServerInv, DialogInv
<1>3. RunsInv'
  BY <1>1 DEF CreateInv, RunsInv, RunInv
<1>4. FollowInv'
  BY <1>1 DEF CreateInv, FollowInv, Current, Now
<1> QED BY <1>2, <1>3, <1>4 DEF CreateInv

\* The answer arrives: it is that of the dialog's request, which was the only
\* one at work.
LEMMA HearStep ==
  ASSUME AICreateAssumption, CreateInv, Hear
  PROVE  CreateInv'
<1> DEFINE Answered(r, m) == AcceptResult(m, r.out, r.round, r.session)
           Cleared(a) == [a EXCEPT !.intent = IF modal.followUp /\ ~modal.resumed THEN "" ELSE @]
           Erred(m) == [m EXCEPT !.error = TRUE]
           Heard(r, m) == IF r.out = "error" THEN Rested(Erred(m)) ELSE Rested(Cleared(Answered(r, m)))
<1>1. PICK r \in runs :
        /\ r.at = "answered" /\ r.heard /\ runs' = runs \ {r} /\ UNCHANGED <<sessions, progress, network>>
        /\ \E m \in {Known(modal), modal} : modal' = Heard(r, m)
  BY DEF Hear
<1>2. PICK m \in {Known(modal), modal} : modal' = Heard(r, m)
  BY <1>1
<1>3. /\ RunInv(r) /\ r.id = modal.id /\ Current /\ r.out # "none"
  BY <1>1 DEF CreateInv, RunsInv, RunInv, Current
<1>4. /\ Alike(m) /\ m.error = modal.error /\ m.session \in 0 .. Len(sessions)
      /\ m.session \in {modal.session, Now.session}
      /\ m.session = 0 \/ Now.session = 0 \/ m.session = Now.session \/ m.session = modal.session
  BY <1>2, <1>3, KnownFits DEF Alike, CreateInv, DialogInv
<1>5. \A t \in runs' : t \in runs /\ ~t.heard /\ t.id # modal.id
  BY <1>1, <1>3 DEF CreateInv, RunsInv
<1>6. ~modal.gaveUp => \A t \in runs' : ~InFlight(t)
  BY <1>5 DEF CreateInv, FollowInv
<1>7. CASE r.out = "error"
  <2> DEFINE g == Erred(m)
             n == Rested(g)
  <2>1. /\ DOMAIN g = DialogFields /\ g.id = modal.id /\ g.error = TRUE /\ g.gaveUp = modal.gaveUp
        /\ g.session = m.session /\ g.fields = modal.fields /\ g.answers = m.answers
    BY <1>4 DEF Alike, DialogFields
  <2>2. modal' = n
    BY <1>2, <1>7
  <2> HIDE DEF g
  <2>3. /\ DOMAIN n = DialogFields /\ n.busy = FALSE /\ n.waiting = "none" /\ n.id = modal.id
        /\ n.error = TRUE /\ n.gaveUp = modal.gaveUp /\ n.session = m.session /\ n.fields = modal.fields
        /\ n.answers = m.answers
    BY <2>1, RestedShape
  <2> HIDE DEF n
  <2>4. n.gaveUp \in BOOLEAN /\ n.fields \in 0 .. MaxRounds /\ n.answers \in {"empty", "blank", "full"}
    BY <1>4, <2>3 DEF CreateInv, DialogInv, Alike
  <2> QED BY <1>1, <1>4, <1>5, <1>6, <2>2, <2>3, <2>4, RestStep
<1>8. CASE r.out # "error"
  <2> DEFINE a == Answered(r, m)
             g == Cleared(a)
             n == Rested(g)
  <2>1. modal' = n
    BY <1>2, <1>8
  <2>2. /\ DOMAIN a = DialogFields /\ a.id = modal.id /\ a.error = modal.error /\ a.gaveUp = modal.gaveUp
        /\ a.answers \in {"empty", m.answers}
        /\ r.out = "questions" => a.session = r.session /\ a.fields = r.round
        /\ r.out # "questions" => a.session = m.session /\ a.fields = 0
    BY <1>4, AcceptedShape DEF Alike
  <2> HIDE DEF a
  <2>3. /\ DOMAIN g = DialogFields /\ g.id = a.id /\ g.error = a.error /\ g.gaveUp = a.gaveUp
        /\ g.answers = a.answers /\ g.session = a.session /\ g.fields = a.fields
    BY <2>2 DEF DialogFields
  <2> HIDE DEF g
  <2>4. /\ DOMAIN n = DialogFields /\ n.busy = FALSE /\ n.waiting = "none" /\ n.id = modal.id
        /\ n.error = modal.error /\ n.gaveUp = modal.gaveUp /\ n.session = a.session /\ n.fields = a.fields
        /\ n.answers = a.answers
    BY <2>2, <2>3, RestedShape
  <2> HIDE DEF n
  <2>5. /\ n.gaveUp \in BOOLEAN /\ n.error \in BOOLEAN /\ n.answers \in {"empty", "blank", "full"}
        /\ n.session \in 0 .. Len(sessions)
    BY <1>3, <1>4, <2>2, <2>4 DEF CreateInv, DialogInv, Alike, RunInv
  <2>6. n.fields \in 0 .. MaxRounds
    BY <1>3, <2>2, <2>4, Rounds DEF RunInv, Runs
  <2>7. r.out \in {"questions", "result"} /\ Now.response = r.out /\ Now.session = r.session /\ r.session # 0
    BY <1>1, <1>3, <1>8 DEF RunInv, Runs, Now
  <2>8. ~modal.gaveUp /\ n.session # 0 => n.fields = sessions[n.session].pending
    <3> SUFFICES ASSUME ~modal.gaveUp, n.session # 0
                 PROVE  n.fields = sessions[n.session].pending
      OBVIOUS
    <3>1. CASE r.out = "questions"
      <4>1. Now.round = r.round
        BY <1>1, <1>3, <3>1 DEF RunInv, Now
      <4> QED BY <1>3, <2>2, <2>4, <2>7, <3>1, <4>1 DEF CreateInv, FollowInv
    <3>2. CASE r.out = "result"
      <4>1. sessions[Now.session].pending = 0 /\ (modal.session # 0 => Now.session = modal.session)
        BY <1>3, <2>7, <3>2 DEF CreateInv, FollowInv
      <4>2. n.session = Now.session /\ n.fields = 0
        BY <1>4, <2>2, <2>4, <3>2, <4>1
      <4> QED BY <4>1, <4>2
    <3> QED BY <2>7, <3>1, <3>2
  <2> QED BY <1>1, <1>5, <1>6, <2>1, <2>4, <2>5, <2>6, <2>8, RestStep
<1> QED BY <1>7, <1>8

LEMMA PollStep ==
  ASSUME AICreateAssumption, CreateInv, Poll
  PROVE  CreateInv'
<1>1. PICK m : m = Known(modal)
  OBVIOUS
<1>2. Current /\ Says(m)
  BY <1>1 DEF Poll, Current
<1> QED BY <1>1, <1>2, KnownStep

-----------------------------------------------------------------------------
(***************************************************************************)
(* A request is sent: the one before it has ended.                         *)
(***************************************************************************)
LEMMA SendStep ==
  ASSUME AICreateAssumption, CreateInv, NEW kind \in {"start", "more", "answers", "plain"},
         NEW m, DOMAIN m = DialogFields, m.busy = TRUE, m.error \in BOOLEAN, m.gaveUp = modal.gaveUp,
         m.session \in 0 .. Len(sessions), m.fields = modal.fields, m.answers \in {"empty", "blank", "full"},
         kind = "start" <=> m.session = 0, modal.waiting # "post",
         ~modal.gaveUp => \A r \in runs : ~InFlight(r), Send(kind, m)
  PROVE  CreateInv'
<1>1. PICK n : n = modal.id + 1
  OBVIOUS
<1> DEFINE new == [m EXCEPT !.id = n, !.waiting = "post"]
<1>0. PICK r : r = [id |-> n, kind |-> kind, session |-> m.session, answers |-> modal.answers,
                    at |-> "sent", out |-> "none", round |-> 0, heard |-> TRUE]
  OBVIOUS
<1>2. /\ modal' = new /\ progress' = Append(progress, NoEntry) /\ runs' = runs \union {r}
      /\ sessions' = sessions
  BY <1>0, <1>1 DEF Send
<1>3. /\ Len(sessions) \in Nat /\ Len(progress) \in Nat /\ progress \in Seq(Entries) /\ n = Len(progress) + 1
      /\ modal.answers \in {"empty", "blank", "full"} /\ modal.fields \in 0 .. MaxRounds /\ modal.gaveUp \in BOOLEAN
  BY <1>1, Stored DEF CreateInv, ServerInv, DialogInv
<1>4. NoEntry \in Entries /\ NoEntry.session = 0 /\ NoEntry.response = "none"
  BY Rounds DEF NoEntry, Entries, Statuses
<1>5. /\ progress' \in Seq(Entries) /\ Len(progress') = n /\ progress'[n] = NoEntry
      /\ \A i \in 1 .. Len(progress) : progress'[i] = progress[i]
  BY <1>2, <1>3, <1>4, AppendProperties
<1>6. /\ DOMAIN new = DialogFields /\ new.id = n /\ new.waiting = "post" /\ new.busy = TRUE
      /\ new.error = m.error /\ new.gaveUp = modal.gaveUp /\ new.session = m.session
      /\ new.fields = modal.fields /\ new.answers = m.answers
  BY DEF DialogFields
<1>7. /\ r \in Runs /\ r.id = n /\ r.session = m.session /\ r.at = "sent" /\ r.kind = kind /\ r.heard = TRUE
      /\ ~AtWork(r)
  BY <1>0, <1>3, Rounds DEF Runs, AtWork
<1> HIDE DEF new
<1>8. ServerInv'
  <2>1. \A i \in 1 .. n : i \in 1 .. Len(progress) \/ i = n
    BY <1>3
  <2> QED BY <1>2, <1>3, <1>4, <1>5, <2>1 DEF CreateInv, ServerInv
<1>9. DialogInv'
  <2>1. modal'.id # 0
    BY <1>2, <1>3, <1>6
  <2> QED BY <1>2, <1>3, <1>5, <1>6, <2>1 DEF DialogInv
<1>10. \A t \in runs : RunInv(t) /\ t.id \in 1 .. Len(progress) /\ t.id # n /\ ~t.heard
  BY <1>3 DEF CreateInv, RunsInv, RunInv
<1>11. RunsInv'
  <2>1. ASSUME NEW t \in runs
        PROVE  RunInv(t)'
    <3>1. RunInv(t) /\ progress'[t.id] = progress[t.id] /\ t.id \in 1 .. Len(progress')
      BY <1>3, <1>5, <1>10
    <3> QED BY <1>2, <3>1 DEF RunInv
  <2>2. RunInv(r)'
    <3>1. n \in 1 .. n
      BY <1>3
    <3> QED BY <1>2, <1>5, <1>7, <3>1 DEF RunInv
  <2>3. \A t, u \in runs' : t.id = u.id => t = u
    BY <1>2, <1>7, <1>10 DEF CreateInv, RunsInv
  <2>4. /\ \A t \in runs' : t.heard => t.id = modal'.id
        /\ modal'.waiting = "post" /\ \E t \in runs' : t.heard
    BY <1>2, <1>6, <1>7, <1>10
  <2> QED BY <1>2, <2>1, <2>2, <2>3, <2>4 DEF RunsInv
<1>12. FollowInv'
  <2> SUFFICES ASSUME ~modal.gaveUp
               PROVE  FollowInv'
    BY <1>2, <1>6 DEF FollowInv
  <2>1. Current' /\ Now' = NoEntry /\ modal'.id = n /\ modal'.session = m.session
    BY <1>2, <1>5, <1>6 DEF Current, Now
  <2>2. \A t \in runs' : InFlight(t) => t = r
    BY <1>2
  <2>3. \A t \in runs' : /\ t.at = "sent" => t = r
                         /\ ~AtWork(t)
    BY <1>7, <2>2 DEF InFlight
  <2> QED BY <1>4, <1>7, <2>1, <2>2, <2>3 DEF FollowInv, InFlight
<1> QED BY <1>8, <1>9, <1>11, <1>12 DEF CreateInv

LEMMA RunCreateStep ==
  ASSUME AICreateAssumption, CreateInv, NEW answering \in BOOLEAN, answering => modal.session # 0,
         RunCreate(answering)
  PROVE  CreateInv'
<1> DEFINE m == [modal EXCEPT !.busy = TRUE, !.error = FALSE, !.said = @ \/ modal.intent # "" \/ answering,
                              !.followUp = FollowUp(answering), !.resumed = FALSE]
<1>1. PICK kind : kind = IF answering THEN "answers" ELSE IF FollowUp(answering) THEN "more"
                         ELSE IF modal.session = 0 THEN "start" ELSE "plain"
  OBVIOUS
<1>2. Send(kind, m) /\ ~modal.busy
  BY <1>1 DEF RunCreate
<1>3. kind \in {"start", "more", "answers", "plain"} /\ (kind = "start" <=> modal.session = 0)
  BY <1>1 DEF FollowUp
<1>4. /\ DOMAIN m = DialogFields /\ m.busy = TRUE /\ m.error \in BOOLEAN /\ m.gaveUp = modal.gaveUp
      /\ m.session = modal.session /\ m.fields = modal.fields /\ m.answers = modal.answers
  BY DEF CreateInv, DialogInv, DialogFields
<1> HIDE DEF m
<1>5. /\ modal.session \in 0 .. Len(sessions) /\ modal.answers \in {"empty", "blank", "full"}
      /\ modal.waiting = "none"
  BY <1>2 DEF CreateInv, DialogInv
<1>6. ~modal.gaveUp => \A r \in runs : ~InFlight(r)
  BY <1>5 DEF CreateInv, FollowInv, Current
<1> QED BY <1>2, <1>3, <1>4, <1>5, <1>6, SendStep

LEMMA SentStep ==
  ASSUME AICreateAssumption, CreateInv, Submit \/ SubmitClarification \/ Resume \/ Retry
  PROVE  CreateInv'
BY RunCreateStep DEF Submit, SubmitClarification, Resume, Retry

-----------------------------------------------------------------------------
(***************************************************************************)
(* The dialog follows the entry of a request it does not hear any more.    *)
(***************************************************************************)
\* An entry that is told of something else than work has no request at work.
LEMMA NotAtWork ==
  ASSUME AICreateAssumption, CreateInv, Current, ~modal.gaveUp,
         Now.status \notin {"absent", "running"} \/ Now.response # "none"
  PROVE  \A r \in runs : ~InFlight(r)
<1> SUFFICES ASSUME NEW r \in runs, InFlight(r)
             PROVE  FALSE
  OBVIOUS
<1>1. r.id = modal.id /\ RunInv(r)
  BY DEF CreateInv, FollowInv, RunsInv
<1>2. Now = NoEntry \/ Running(Now, r.session)
  BY <1>1 DEF RunInv, InFlight, Now
<1> QED BY <1>2 DEF NoEntry, Running

LEMMA RecoverStep ==
  ASSUME AICreateAssumption, CreateInv, Recover
  PROVE  CreateInv'
<1>1. PICK m : m = Known(modal)
  OBVIOUS
<1>2. PICK e : e = Entry(modal.id)
  OBVIOUS
<1>3. Current /\ modal.waiting = "recover"
  BY DEF Recover, Current
<1>4. /\ Alike(m) /\ m.error = modal.error /\ m.session \in 0 .. Len(sessions)
      /\ e = Now /\ Now \in Entries /\ Now.session \in 0 .. Len(sessions)
      /\ m.session = IF Now.session # 0 THEN Now.session ELSE modal.session
  BY <1>1, <1>2, <1>3, KnownFits
<1>5. /\ modal.gaveUp \in BOOLEAN /\ modal.error \in BOOLEAN /\ modal.fields \in 0 .. MaxRounds
      /\ \A r \in runs : ~r.heard
  BY <1>3 DEF CreateInv, DialogInv, RunsInv
<1>6. ASSUME e.response # "none", Says(Rested(AcceptResult(m, e.response, e.round, e.session)))
      PROVE  CreateInv'
  <2> DEFINE a == AcceptResult(m, e.response, e.round, e.session)
             n == Rested(a)
  <2>1. modal' = n /\ sessions' = sessions /\ progress' = progress /\ runs' = runs
    BY <1>6 DEF Says
  <2>2. /\ DOMAIN a = DialogFields /\ a.id = modal.id /\ a.error = modal.error /\ a.gaveUp = modal.gaveUp
        /\ a.answers \in {"empty", m.answers}
        /\ e.response = "questions" => a.session = e.session /\ a.fields = e.round
        /\ e.response # "questions" => a.session = m.session /\ a.fields = 0
    BY <1>4, AcceptedShape DEF Alike
  <2> HIDE DEF a
  <2>3. /\ DOMAIN n = DialogFields /\ n.busy = FALSE /\ n.waiting = "none" /\ n.id = modal.id
        /\ n.error = modal.error /\ n.gaveUp = modal.gaveUp /\ n.session = a.session /\ n.fields = a.fields
        /\ n.answers = a.answers
    BY <2>2, RestedShape
  <2> HIDE DEF n
  <2>4. e.response \in {"questions", "result"} /\ e.round \in 0 .. MaxRounds
    BY <1>4, <1>6 DEF Entries
  <2>5. /\ n.session \in 0 .. Len(sessions) /\ n.fields \in 0 .. MaxRounds
        /\ n.answers \in {"empty", "blank", "full"} /\ n.error \in BOOLEAN /\ n.gaveUp \in BOOLEAN
    BY <1>4, <1>5, <2>2, <2>3, <2>4, Rounds DEF Alike
  <2>6. ~modal.gaveUp => \A r \in runs : ~InFlight(r)
    BY <1>3, <1>4, <1>6, NotAtWork
  <2>7. ~modal.gaveUp /\ n.session # 0 => n.fields = sessions[n.session].pending
    BY <1>3, <1>4, <1>6, <2>2, <2>3, <2>4 DEF CreateInv, FollowInv
  <2> QED BY <1>5, <2>1, <2>3, <2>5, <2>6, <2>7, RestStep
<1>7. ASSUME e.response = "none", e.status = "recovering", e.session # 0, Send("plain", [m EXCEPT !.resumed = TRUE])
      PROVE  CreateInv'
  <2> DEFINE p == [m EXCEPT !.resumed = TRUE]
  <2>1. /\ DOMAIN p = DialogFields /\ p.busy = modal.busy /\ p.error = m.error /\ p.gaveUp = modal.gaveUp
        /\ p.session = m.session /\ p.fields = modal.fields /\ p.answers = m.answers
    BY <1>4 DEF Alike, DialogFields
  <2>2. Send("plain", p)
    BY <1>7
  <2> HIDE DEF p
  <2>3. p.busy = TRUE /\ p.error \in BOOLEAN /\ p.answers \in {"empty", "blank", "full"}
    BY <1>3, <1>4, <1>5, <2>1 DEF Alike, CreateInv, DialogInv
  <2>4. p.session \in 0 .. Len(sessions) /\ p.session # 0
    BY <1>4, <1>7, <2>1
  <2>5. ~modal.gaveUp => \A r \in runs : ~InFlight(r)
    BY <1>3, <1>4, <1>7, NotAtWork
  <2> QED BY <1>3, <2>1, <2>2, <2>3, <2>4, <2>5, SendStep
<1>8. ASSUME e.response = "none", e.status = "failed", Says(Rested([m EXCEPT !.error = TRUE]))
      PROVE  CreateInv'
  <2> DEFINE g == [m EXCEPT !.error = TRUE]
             n == Rested(g)
  <2>1. /\ DOMAIN g = DialogFields /\ g.id = modal.id /\ g.error = TRUE /\ g.gaveUp = modal.gaveUp
        /\ g.session = m.session /\ g.fields = modal.fields /\ g.answers = m.answers
    BY <1>4 DEF Alike, DialogFields
  <2>2. modal' = n /\ sessions' = sessions /\ progress' = progress /\ runs' = runs
    BY <1>8 DEF Says
  <2> HIDE DEF g
  <2>3. /\ DOMAIN n = DialogFields /\ n.busy = FALSE /\ n.waiting = "none" /\ n.id = modal.id
        /\ n.error = TRUE /\ n.gaveUp = modal.gaveUp /\ n.session = m.session /\ n.fields = modal.fields
        /\ n.answers = m.answers
    BY <2>1, RestedShape
  <2> HIDE DEF n
  <2>4. n.gaveUp \in BOOLEAN /\ n.fields \in 0 .. MaxRounds /\ n.answers \in {"empty", "blank", "full"}
    BY <1>4, <1>5, <2>3 DEF Alike
  <2>5. ~modal.gaveUp => \A r \in runs : ~InFlight(r)
    BY <1>3, <1>4, <1>8, NotAtWork
  <2> QED BY <1>4, <1>5, <2>2, <2>3, <2>4, <2>5, RestStep
<1>9. ASSUME Says(m)
      PROVE  CreateInv'
  BY <1>1, <1>3, <1>9, KnownStep
<1>10. \/ e.response # "none" /\ Says(Rested(AcceptResult(m, e.response, e.round, e.session)))
       \/ /\ e.response = "none" /\ e.status = "recovering" /\ e.session # 0
          /\ Send("plain", [m EXCEPT !.resumed = TRUE])
       \/ e.response = "none" /\ e.status = "failed" /\ Says(Rested([m EXCEPT !.error = TRUE]))
       \/ Says(m)
  BY <1>1, <1>2 DEF Recover
<1> QED BY <1>6, <1>7, <1>8, <1>9, <1>10

-----------------------------------------------------------------------------
(***************************************************************************)
(* Every state, and what follows.                                          *)
(***************************************************************************)
LEMMA InitInv ==
  ASSUME AICreateAssumption, Init
  PROVE  CreateInv
<1> DEFINE known == sessions # <<>>
<1>1. PICK first : first = IF known THEN Head(sessions) ELSE NewSession
  OBVIOUS
<1>2. /\ progress = <<>> /\ runs = {}
      /\ modal = [intent |-> "", busy |-> FALSE, id |-> 0, waiting |-> "none", resumed |-> FALSE,
                  session |-> Len(sessions), fields |-> first.pending, answers |-> "empty",
                  resumable |-> first.phase = "failed" \/ (first.phase = "needs_input" /\ first.pending = 0),
                  said |-> known, followUp |-> FALSE, done |-> FALSE, error |-> FALSE,
                  minimized |-> FALSE, gaveUp |-> FALSE, steps |-> 0]
  BY <1>1 DEF Init
<1>3. sessions = <<>> \/ \E s \in StoredSessions : sessions = <<s>>
  BY DEF Init, AICreateAssumption
<1>4. /\ sessions \in Seq(StoredSessions) /\ Len(sessions) \in 0 .. 1
      /\ Len(sessions) # 0 => first = sessions[1] /\ first \in StoredSessions
      /\ Len(sessions) = 0 => first = NewSession
  <2>1. CASE sessions = <<>>
    BY <1>1, <2>1
  <2>2. ASSUME NEW s \in StoredSessions, sessions = <<s>>
        PROVE  /\ sessions \in Seq(StoredSessions) /\ Len(sessions) = 1 /\ first = s /\ sessions[1] = s
    BY <1>1, <2>2
  <2> QED BY <1>3, <2>1, <2>2
<1>5. first.pending \in 0 .. MaxRounds
  BY <1>4, Rounds DEF StoredSessions, NewSession
<1>0. progress \in Seq(Entries) /\ Len(progress) = 0
  <2>1. progress = <<>>
    BY <1>2
  <2> QED BY <2>1
<1>6. ServerInv
  BY <1>0, <1>4 DEF ServerInv
<1>7. /\ DOMAIN modal = DialogFields /\ modal.busy = FALSE /\ modal.error = FALSE /\ modal.gaveUp = FALSE
      /\ modal.id = 0 /\ modal.waiting = "none" /\ modal.session = Len(sessions) /\ modal.fields = first.pending
      /\ modal.answers = "empty"
  BY <1>2 DEF DialogFields
<1>8. DialogInv
  <2>1. Len(sessions) \in 0 .. Len(sessions)
    BY <1>4
  <2> QED BY <1>0, <1>5, <1>7, <2>1 DEF DialogInv
<1>9. RunsInv
  BY <1>2, <1>7 DEF RunsInv
<1>10. FollowInv
  <2>1. modal.session # 0 => modal.fields = sessions[modal.session].pending
    BY <1>4, <1>7
  <2> QED BY <1>2, <1>7, <2>1 DEF FollowInv, Current
<1> QED BY <1>6, <1>8, <1>9, <1>10 DEF CreateInv

LEMMA EveryStep ==
  ASSUME AICreateAssumption, CreateInv, [Next]_vars
  PROVE  CreateInv'
<1>1. CASE Next
  BY <1>1, TakeStep, AskStep, CheckpointStep, CompleteStep, StageFailsStep, LoseStep, RestartStep, UserStep,
     SentStep, PollStep, HearStep, DropStep, RecoverStep, GiveUpStep DEF Next
<1>2. CASE UNCHANGED vars
  <2> USE <1>2 DEF vars
  <2>1. ServerInv' /\ DialogInv'
    BY DEF CreateInv, ServerInv, DialogInv
  <2>2. RunsInv'
    BY DEF CreateInv, RunsInv, RunInv
  <2>3. FollowInv'
    BY DEF CreateInv, FollowInv, Current, Now
  <2> QED BY <2>1, <2>2, <2>3 DEF CreateInv
<1> QED BY <1>1, <1>2

LEMMA CreateAlways == AICreateAssumption => (Spec => []CreateInv)
<1> SUFFICES ASSUME AICreateAssumption PROVE Spec => []CreateInv
  OBVIOUS
<1>1. Init => CreateInv
  BY InitInv
<1>2. CreateInv /\ [Next]_vars => CreateInv'
  BY EveryStep
<1> QED BY <1>1, <1>2, PTL DEF Spec

\* Whatever sessions the dialog can continue, every session is one that the
\* store could hold, every entry names a session that was made, and every
\* request has an identifier that the dialog gave.
THEOREM TypesHold == AICreateAssumption => (Spec => []TypeOK)
<1> SUFFICES ASSUME AICreateAssumption PROVE Spec => []TypeOK
  OBVIOUS
<1>1. CreateInv => TypeOK
  <2> SUFFICES ASSUME CreateInv PROVE TypeOK
    OBVIOUS
  <2>1. \A s \in ToSet(sessions) : s \in StoredSessions
    BY Stored DEF ToSet
  <2>2. \A e \in ToSet(progress) : e \in Entries /\ e.session \in 0 .. Len(sessions)
    <3> SUFFICES ASSUME NEW e \in ToSet(progress)
                 PROVE  e \in Entries /\ e.session \in 0 .. Len(sessions)
      OBVIOUS
    <3>1. PICK i \in 1 .. Len(progress) : e = progress[i]
      BY Stored DEF ToSet
    <3> QED BY <3>1, Stored DEF CreateInv, ServerInv
  <2>3. \A r \in runs : r \in Runs /\ r.id \in 1 .. Len(progress)
    BY DEF CreateInv, RunsInv, RunInv
  <2>4. modal.session \in 0 .. Len(sessions) /\ modal.waiting \in {"none", "post", "recover"}
        /\ modal.id = Len(progress)
    BY DEF CreateInv, DialogInv
  <2> QED BY <2>1, <2>2, <2>3, <2>4 DEF TypeOK, StoredSessions, Entries, Statuses, Runs
<1> QED BY <1>1, CreateAlways, PTL

\* AICreateModal: the dialog is busy only while exactly one answer is heard, or
\* while it follows the entry of a request whose connection is lost.
THEOREM SpinnerIsBacked == AICreateAssumption => (Spec => []BusyIsBacked)
<1> SUFFICES ASSUME AICreateAssumption PROVE Spec => []BusyIsBacked
  OBVIOUS
<1>1. CreateInv => BusyIsBacked
  <2> SUFFICES ASSUME CreateInv PROVE BusyIsBacked
    OBVIOUS
  <2> DEFINE heard == {r \in runs : r.heard}
  <2>1. modal.busy <=> modal.waiting # "none"
    BY DEF CreateInv, DialogInv
  <2>2. CASE modal.waiting = "post"
    <3>1. PICK r \in runs : r.heard
      BY <2>2 DEF CreateInv, RunsInv
    <3>2. heard = {r}
      BY <3>1 DEF CreateInv, RunsInv
    <3> HIDE DEF heard
    <3>3. Cardinality(heard) = 1
      BY <3>2, FS_Singleton
    <3> QED BY <2>1, <2>2, <3>3 DEF BusyIsBacked, heard
  <2>3. CASE modal.waiting # "post"
    <3>1. heard = {}
      BY <2>3 DEF CreateInv, RunsInv
    <3> HIDE DEF heard
    <3>2. Cardinality(heard) = 0
      BY <3>1, FS_EmptySet
    <3> QED BY <2>1, <2>3, <3>2 DEF BusyIsBacked, heard
  <2> QED BY <2>2, <2>3
<1> QED BY <1>1, CreateAlways, PTL

\* advanceAICreateSession: whatever is lost or restarted, what a session asks
\* is the round after the answered ones.
THEOREM RoundsAreCounted == AICreateAssumption => (Spec => []RoundsCount)
<1> SUFFICES ASSUME AICreateAssumption PROVE Spec => []RoundsCount
  OBVIOUS
<1>1. CreateInv => RoundsCount
  <2> SUFFICES ASSUME CreateInv PROVE RoundsCount
    OBVIOUS
  <2> QED BY Stored DEF RoundsCount, StoredSessions
<1> QED BY <1>1, CreateAlways, PTL

\* AICreateModal: a dialog that has never given up sends again only after
\* its request has ended, so at most one request is under way.
THEOREM OneAtATime == AICreateAssumption => (Spec => []OneRunAtATime)
<1> SUFFICES ASSUME AICreateAssumption PROVE Spec => []OneRunAtATime
  OBVIOUS
<1>1. CreateInv => OneRunAtATime
  <2> SUFFICES ASSUME CreateInv PROVE OneRunAtATime
    OBVIOUS
  <2> SUFFICES ASSUME ~modal.gaveUp
               PROVE  Cardinality({r \in runs : AtWork(r) \/ r.at = "sent"}) <= 1
    BY DEF OneRunAtATime
  <2> DEFINE W == {r \in runs : AtWork(r) \/ r.at = "sent"}
  <2>1. \A r, s \in W : r = s
    BY DEF CreateInv, FollowInv, RunsInv, InFlight
  <2>2. W = {} \/ \E r \in W : W = {r}
    BY <2>1
  <2> HIDE DEF W
  <2>3. Cardinality(W) \in {0, 1}
    BY <2>2, FS_EmptySet, FS_Singleton
  <2> QED BY <2>3 DEF W
<1> QED BY <1>1, CreateAlways, PTL

\* acceptResult: a dialog that rests without an error, and has never given a
\* request up, shows the questions its session waits for and no others.
THEOREM ShownQuestionsAreCurrent == AICreateAssumption => (Spec => []QuestionsAreCurrent)
<1> SUFFICES ASSUME AICreateAssumption PROVE Spec => []QuestionsAreCurrent
  OBVIOUS
<1>1. CreateInv => QuestionsAreCurrent
  <2> SUFFICES ASSUME CreateInv PROVE QuestionsAreCurrent
    OBVIOUS
  <2> QED BY DEF QuestionsAreCurrent, CreateInv, DialogInv, FollowInv, Current
<1> QED BY <1>1, CreateAlways, PTL

-----------------------------------------------------------------------------
(***************************************************************************)
(* The conversation with the assistant.  While it was not left with an     *)
(* answer or a load on its way, its one load is out exactly while it says  *)
(* so, and an answer that is written has its place at the end.             *)
(***************************************************************************)
CopilotFields == {"scope", "msgs", "typed", "busy", "loading", "converting", "asking", "update", "patch", "draft",
                  "open", "left", "turns", "steps"}
Turns == Scopes \X Nat
Bubbles == [by : {"user", "ai"}, turn : Turns, action : CO!Actions, conversion : {"none", "failed", "done"},
            applied : BOOLEAN, error : BOOLEAN]
Talks == [turn : Turns, action : CO!Actions]
BubblesOf(q, s) == q \in Seq(Bubbles) /\ \A i \in DOMAIN q : q[i].turn[1] = s
TurnsOf(q, s) == q \in Seq(Talks) /\ \A i \in DOMAIN q : q[i].turn[1] = s
Paired(q) == \A i \in DOMAIN q : q[i].by = "ai" => i > 1 /\ q[i - 1].by = "user" /\ q[i - 1].turn = q[i].turn

Stream(t) == t \in [scope : Scopes, turn : Turns, action : CO!Actions] /\ t.turn[1] = t.scope
LoadsOf(ws, s) == {w \in ws : w.kind = "load" /\ w.scope = s}
WaitFields == {"kind", "scope", "seen", "index", "n"}
WaitInv(w) ==
  /\ DOMAIN w = WaitFields /\ w.kind \in {"load", "convert"} /\ w.scope \in Scopes
  /\ w.kind = "load" => TurnsOf(w.seen, w.scope)
  /\ w.kind = "convert" => w.index \in Nat \ {0}
PanelInv(p, ss, ws) ==
  /\ DOMAIN p = CopilotFields /\ p.scope \in Scopes /\ p.turns \in Nat /\ BubblesOf(p.msgs, p.scope)
  /\ p.busy = (ss # <<>>)
  /\ p.loading => LoadsOf(ws, p.scope) # {}
  /\ p.converting # 0 => \E w \in ws : w.kind = "convert" /\ w.scope = p.scope /\ w.index = p.converting
StayedInv(p, ss, ws) ==
  ~p.left =>
    /\ Paired(p.msgs)
    /\ \A v, w \in LoadsOf(ws, p.scope) : v = w
    /\ ~p.loading => LoadsOf(ws, p.scope) = {}
    /\ ss # <<>> => ~p.loading
    /\ ss # <<>> /\ ss[1].scope = p.scope =>
         p.msgs # <<>> /\ p.msgs[Len(p.msgs)].by = "ai" /\ p.msgs[Len(p.msgs)].turn = ss[1].turn
ConversationInv ==
  /\ \A s \in Scopes : TurnsOf(chats[s], s)
  /\ DOMAIN chats = Scopes
  /\ streaming = <<>> \/ \E t : Stream(t) /\ streaming = <<t>>
  /\ \A w \in waiting : WaitInv(w)
  /\ PanelInv(copilot, streaming, waiting) /\ StayedInv(copilot, streaming, waiting)

-----------------------------------------------------------------------------
LEMMA BubbleIs ==
  ASSUME NEW by \in {"user", "ai"}, NEW turn \in Turns, NEW action \in CO!Actions
  PROVE  /\ CO!Message(by, turn, action) \in Bubbles /\ CO!Message(by, turn, action).by = by
         /\ CO!Message(by, turn, action).turn = turn
  BY DEF CO!Message, Bubbles
LEMMA FailureIs ==
  ASSUME NEW b \in Bubbles
  PROVE  /\ [b EXCEPT !.error = TRUE] \in Bubbles /\ [b EXCEPT !.error = TRUE].by = b.by
         /\ [b EXCEPT !.error = TRUE].turn = b.turn
  BY DEF Bubbles

\* A stored conversation: questions and answers by turns.
LEMMA TranscriptIs ==
  ASSUME NEW s \in Scopes, NEW q, TurnsOf(q, s)
  PROVE  BubblesOf(CO!Transcript(q), s) /\ Paired(CO!Transcript(q))
<1> DEFINE t == CO!Transcript(q)
<1>1. Len(q) \in Nat /\ DOMAIN q = 1..Len(q) /\ \A k \in 1..Len(q) : q[k].turn \in Turns /\ q[k].action \in CO!Actions /\ q[k].turn[1] = s
  <2>1. q \in Seq(Talks) /\ \A i \in DOMAIN q : q[i].turn[1] = s  BY DEF TurnsOf
  <2>2. Len(q) \in Nat /\ DOMAIN q = 1..Len(q) /\ \A k \in 1..Len(q) : q[k] \in Talks  BY <2>1
  <2>3. ASSUME NEW k \in 1..Len(q) PROVE q[k].turn \in Turns /\ q[k].action \in CO!Actions
    BY <2>2 DEF Talks
  <2> QED BY <2>1, <2>2, <2>3
<1>2. "none" \in CO!Actions  BY DEF CO!Actions
<1>3. ASSUME NEW i \in 1..2 * Len(q)
      PROVE  LET k == (i + 1) \div 2
             IN  /\ k \in 1..Len(q) /\ i \in Nat /\ (i % 2 = 1 \/ i % 2 = 0)
                 /\ i % 2 = 0 => i > 1 /\ i - 1 \in 1..2 * Len(q) /\ (i - 1) % 2 = 1 /\ ((i - 1) + 1) \div 2 = k
  BY <1>1
<1>4. ASSUME NEW i \in 1..2 * Len(q)
      PROVE  t[i] = IF i % 2 = 1 THEN CO!Message("user", q[(i + 1) \div 2].turn, "none")
                    ELSE CO!Message("ai", q[(i + 1) \div 2].turn, q[(i + 1) \div 2].action)
  BY DEF CO!Transcript
<1>5. ASSUME NEW i \in 1..2 * Len(q)
      PROVE  /\ t[i] \in Bubbles /\ t[i].turn = q[(i + 1) \div 2].turn /\ t[i].turn[1] = s
             /\ t[i].by = IF i % 2 = 1 THEN "user" ELSE "ai"
  <2> DEFINE k == (i + 1) \div 2
  <2>1. q[k].turn \in Turns /\ q[k].action \in CO!Actions /\ q[k].turn[1] = s  BY <1>1, <1>3
  <2> HIDE DEF k
  <2>2. t[i] = IF i % 2 = 1 THEN CO!Message("user", q[k].turn, "none") ELSE CO!Message("ai", q[k].turn, q[k].action)
    BY <1>4 DEF k
  <2> HIDE DEF t
  <2>3. t[i] \in Bubbles /\ t[i].turn = q[k].turn /\ t[i].by = IF i % 2 = 1 THEN "user" ELSE "ai"
    <3> "user" \in {"user", "ai"} /\ "ai" \in {"user", "ai"}  OBVIOUS
    <3>1. CASE i % 2 = 1
      <4>1. t[i] = CO!Message("user", q[k].turn, "none")  BY <2>2, <3>1
      <4>2. t[i] \in Bubbles /\ t[i].turn = q[k].turn /\ t[i].by = "user"  BY <1>2, <2>1, <4>1, BubbleIs
      <4> QED BY <3>1, <4>2
    <3>2. CASE ~(i % 2 = 1)
      <4>1. t[i] = CO!Message("ai", q[k].turn, q[k].action)  BY <2>2, <3>2
      <4>2. t[i] \in Bubbles /\ t[i].turn = q[k].turn /\ t[i].by = "ai"  BY <2>1, <4>1, BubbleIs
      <4> QED BY <3>2, <4>2
    <3> QED BY <3>1, <3>2
  <2> QED BY <2>1, <2>3 DEF k
<1>6. DOMAIN t = 1..2 * Len(q) /\ 2 * Len(q) \in Nat /\ t = [i \in 1..2 * Len(q) |-> t[i]]
  BY <1>1 DEF CO!Transcript
<1> HIDE DEF t
<1>7. t \in Seq(Bubbles)
  <2> DEFINE n == 2 * Len(q)
  <2>1. n \in Nat /\ t = [i \in 1..n |-> t[i]] /\ \A i \in 1..n : t[i] \in Bubbles  BY <1>5, <1>6
  <2> HIDE DEF n
  <2>2. t \in [1..n -> Bubbles]  BY <2>1
  <2> QED BY <2>1, <2>2, SeqDef
<1>8. BubblesOf(t, s)  BY <1>5, <1>6, <1>7 DEF BubblesOf
<1>9. Paired(t)
  <2> SUFFICES ASSUME NEW i \in 1..2 * Len(q), t[i].by = "ai"
               PROVE  i > 1 /\ t[i - 1].by = "user" /\ t[i - 1].turn = t[i].turn
    BY <1>6 DEF Paired
  <2>1. i % 2 = 0  BY <1>3, <1>5
  <2>2. i > 1 /\ i - 1 \in 1..2 * Len(q) /\ (i - 1) % 2 = 1 /\ ((i - 1) + 1) \div 2 = (i + 1) \div 2
    BY <1>3, <2>1
  <2>3. t[i - 1].by = "user" /\ t[i - 1].turn = q[((i - 1) + 1) \div 2].turn
    BY <1>5, <2>2
  <2> QED BY <1>5, <2>2, <2>3
<1> QED BY <1>8, <1>9 DEF t

\* The last message is replaced by another part of its answer.
LEMMA ReplacedIs ==
  ASSUME ConversationInv, streaming # <<>>, NEW m \in Bubbles, m.by = "ai", m.turn = streaming[1].turn
  PROVE  LET p == CO!LastReplaced(copilot, m)
         IN  /\ DOMAIN p = CopilotFields /\ \A f \in CopilotFields \ {"msgs"} : p[f] = copilot[f]
             /\ BubblesOf(p.msgs, copilot.scope)
             /\ ~copilot.left => Paired(p.msgs)
             /\ ~copilot.left /\ streaming[1].scope = copilot.scope =>
                  p.msgs # <<>> /\ p.msgs[Len(p.msgs)].by = "ai" /\ p.msgs[Len(p.msgs)].turn = streaming[1].turn
<1> DEFINE old == copilot.msgs  p == CO!LastReplaced(copilot, m)  q == Append(CO!Front(old), m)
           same == copilot.scope = m.turn[1] /\ old # <<>>
<1>0. /\ DOMAIN copilot = CopilotFields /\ BubblesOf(old, copilot.scope) /\ Stream(streaming[1])
      /\ ~copilot.left => Paired(old)
      /\ ~copilot.left /\ streaming[1].scope = copilot.scope =>
           old # <<>> /\ old[Len(old)].by = "ai" /\ old[Len(old)].turn = streaming[1].turn
  BY DEF ConversationInv, PanelInv, StayedInv
<1>1. CASE ~same
  <2>1. p = copilot  BY <1>1 DEF CO!LastReplaced
  <2> HIDE DEF p
  <2>2. p.msgs = old /\ DOMAIN p = CopilotFields /\ \A f \in CopilotFields \ {"msgs"} : p[f] = copilot[f]  BY <1>0, <2>1
  <2> QED BY <1>0, <2>2 DEF p
<1>2. CASE same
  <2>1. p = [copilot EXCEPT !.msgs = q]  BY <1>2 DEF CO!LastReplaced
  <2>2. old \in Seq(Bubbles) /\ Len(old) \in Nat /\ Len(old) >= 1  BY <1>0, <1>2 DEF BubblesOf
  <2>3. /\ CO!Front(old) \in Seq(Bubbles) /\ Len(CO!Front(old)) = Len(old) - 1
        /\ \A i \in 1..Len(old) - 1 : CO!Front(old)[i] = old[i]
    <3>1. Len(old) - 1 \in Int /\ 1 \in Int /\ \A i \in 1..Len(old) - 1 : old[i] \in Bubbles
      BY <2>2
    <3>2. /\ SubSeq(old, 1, Len(old) - 1) \in Seq(Bubbles)
          /\ Len(SubSeq(old, 1, Len(old) - 1)) = IF 1 <= Len(old) - 1 THEN Len(old) - 1 - 1 + 1 ELSE 0
          /\ \A i \in 1..Len(old) - 1 - 1 + 1 : SubSeq(old, 1, Len(old) - 1)[i] = old[1 + i - 1]
      BY <3>1, SubSeqProperties
    <3> DEFINE front == SubSeq(old, 1, Len(old) - 1)
    <3>3. front = CO!Front(old)  BY DEF CO!Front
    <3> HIDE DEF front
    <3>4. Len(front) = Len(old) - 1  BY <2>2, <3>2 DEF front
    <3>5. ASSUME NEW i \in 1..Len(old) - 1
          PROVE  front[i] = old[i]
      <4>1. i \in 1..Len(old) - 1 - 1 + 1 /\ 1 + i - 1 = i  BY <2>2
      <4> QED BY <3>2, <4>1 DEF front
    <3> QED BY <3>2, <3>3, <3>4, <3>5 DEF front
  <2>4. /\ q \in Seq(Bubbles) /\ Len(q) = Len(old) /\ q[Len(old)] = m /\ DOMAIN q = 1..Len(old)
        /\ \A i \in 1..Len(old) - 1 : q[i] = old[i]
    <3> DEFINE front == CO!Front(old)
    <3> HIDE DEF front
    <3>1. front \in Seq(Bubbles) /\ Len(front) = Len(old) - 1 /\ \A i \in 1..Len(old) - 1 : front[i] = old[i]
      BY <2>3 DEF front
    <3>2. /\ Append(front, m) \in Seq(Bubbles) /\ Len(Append(front, m)) = Len(front) + 1
          /\ \A i \in 1..Len(front) : Append(front, m)[i] = front[i]
          /\ Append(front, m)[Len(front) + 1] = m
      BY <3>1, AppendProperties
    <3> QED BY <2>2, <3>1, <3>2 DEF front
  <2>0. copilot.scope = m.turn[1] /\ m.turn = streaming[1].turn  BY <1>2
  <2> HIDE DEF q, p, old
  <2>5. DOMAIN p = CopilotFields /\ p.msgs = q /\ \A f \in CopilotFields \ {"msgs"} : p[f] = copilot[f]
    BY <1>0, <2>1 DEF CopilotFields
  <2>6. BubblesOf(q, copilot.scope)
    <3> SUFFICES ASSUME NEW i \in 1..Len(old) PROVE q[i].turn[1] = copilot.scope
      BY <2>4 DEF BubblesOf
    <3>1. CASE i = Len(old)  BY <2>0, <2>4, <3>1
    <3>2. CASE i # Len(old)
      <4>1. i \in 1..Len(old) - 1 /\ i \in DOMAIN old  BY <2>2, <3>2
      <4> QED BY <1>0, <2>4, <4>1 DEF BubblesOf
    <3> QED BY <3>1, <3>2
  <2>7. ASSUME ~copilot.left
        PROVE  Paired(q) /\ q # <<>> /\ q[Len(q)].by = "ai" /\ q[Len(q)].turn = streaming[1].turn
    <3>1. streaming[1].scope = copilot.scope  BY <1>0, <2>0 DEF Stream
    <3>2. Paired(old) /\ old[Len(old)].by = "ai" /\ old[Len(old)].turn = m.turn  BY <1>0, <2>0, <2>7, <3>1
    <3>3. Len(old) > 1 /\ old[Len(old) - 1].by = "user" /\ old[Len(old) - 1].turn = m.turn
      BY <2>2, <3>2 DEF Paired
    <3>4. Paired(q)
      <4> SUFFICES ASSUME NEW i \in 1..Len(old), q[i].by = "ai"
                   PROVE  i > 1 /\ q[i - 1].by = "user" /\ q[i - 1].turn = q[i].turn
        BY <2>4 DEF Paired
      <4>1. CASE i = Len(old)
        <5>1. Len(old) - 1 \in 1..Len(old) - 1  BY <2>2, <3>3
        <5> QED BY <2>4, <3>3, <4>1, <5>1
      <4>2. CASE i # Len(old)
        <5>1. i \in 1..Len(old) - 1 /\ i \in DOMAIN old /\ q[i] = old[i]  BY <2>2, <2>4, <4>2
        <5>2. i > 1 /\ old[i - 1].by = "user" /\ old[i - 1].turn = old[i].turn  BY <3>2, <5>1 DEF Paired
        <5>3. i - 1 \in 1..Len(old) - 1  BY <2>2, <5>1, <5>2
        <5> QED BY <2>4, <5>1, <5>2, <5>3
      <4> QED BY <4>1, <4>2
    <3>5. q # <<>>  BY <2>2, <2>4
    <3> QED BY <2>4, <3>4, <3>5
  <2> QED BY <2>5, <2>6, <2>7 DEF p
<1> QED BY <1>1, <1>2

\* A message that is marked keeps its author and its turn.
LEMMA MarkedIs ==
  ASSUME NEW s, NEW old, BubblesOf(old, s), NEW i \in 1..Len(old), NEW b \in Bubbles,
         b.by = old[i].by, b.turn = old[i].turn
  PROVE  LET q == [old EXCEPT ![i] = b]
         IN  /\ BubblesOf(q, s) /\ Len(q) = Len(old) /\ (Paired(old) => Paired(q))
             /\ \A j \in 1..Len(old) : q[j].by = old[j].by /\ q[j].turn = old[j].turn
<1> DEFINE q == [old EXCEPT ![i] = b]
<1>1. old \in Seq(Bubbles) /\ Len(old) \in Nat /\ DOMAIN old = 1..Len(old)  BY DEF BubblesOf
<1>2. q \in Seq(Bubbles) /\ Len(q) = Len(old) /\ DOMAIN q = 1..Len(old)
      /\ \A j \in 1..Len(old) : q[j] = IF j = i THEN b ELSE old[j]
  BY <1>1
<1> HIDE DEF q
<1>3. \A j \in 1..Len(old) : q[j].by = old[j].by /\ q[j].turn = old[j].turn  BY <1>2
<1>4. BubblesOf(q, s)  BY <1>1, <1>2, <1>3 DEF BubblesOf
<1>5. ASSUME Paired(old) PROVE Paired(q)
  <2> SUFFICES ASSUME NEW j \in 1..Len(old), q[j].by = "ai"
               PROVE  j > 1 /\ q[j - 1].by = "user" /\ q[j - 1].turn = q[j].turn
    BY <1>2 DEF Paired
  <2>1. j \in DOMAIN old /\ old[j].by = "ai"  BY <1>1, <1>3
  <2>2. j > 1 /\ old[j - 1].by = "user" /\ old[j - 1].turn = old[j].turn  BY <1>5, <2>1 DEF Paired
  <2>3. j - 1 \in 1..Len(old)  BY <1>1, <2>2
  <2> QED BY <1>3, <2>2, <2>3
<1> QED BY <1>2, <1>3, <1>4, <1>5 DEF q

\* A step of the panel that says nothing to the server and leaves the conversation.
LEMMA SaysKeeps ==
  ASSUME ConversationInv, NEW p, CO!Says(p), DOMAIN p = CopilotFields,
         \A f \in {"scope", "msgs", "busy", "loading", "left", "converting", "turns"} : p[f] = copilot[f]
  PROVE  ConversationInv'
<1>1. copilot' = p /\ chats' = chats /\ streaming' = streaming /\ waiting' = waiting  BY DEF CO!Says
<1>2. PanelInv(copilot, streaming, waiting) /\ StayedInv(copilot, streaming, waiting)  BY DEF ConversationInv
<1>3. PanelInv(p, streaming, waiting)  BY <1>2 DEF PanelInv
<1>4. StayedInv(p, streaming, waiting)  BY <1>2 DEF StayedInv
<1> QED BY <1>1, <1>3, <1>4 DEF ConversationInv

LEMMA QuietKeeps ==
  ASSUME ConversationInv,
         CO!Toggle \/ CO!Type \/ CO!Ask \/ CO!Fill \/ CO!CloseQuestion \/ CO!OpenEdit \/ CO!CancelEdit
  PROVE  ConversationInv'
<1>0. DOMAIN copilot = CopilotFields  BY DEF ConversationInv, PanelInv
<1>1. CASE CO!Toggle
  <2> DEFINE p == [CO!Stepped EXCEPT !.open = ~@, !.asking = IF copilot.open THEN CO!NoQuestion ELSE @]
  <2>1. CO!Says(p)  BY <1>1 DEF CO!Toggle
  <2>2. DOMAIN p = CopilotFields /\ \A f \in {"scope", "msgs", "busy", "loading", "left", "converting", "turns"} : p[f] = copilot[f]
    BY <1>0 DEF CO!Stepped, CopilotFields
  <2> HIDE DEF p
  <2> QED BY <2>1, <2>2, SaysKeeps
<1>2. CASE CO!Type
  <2> DEFINE p == [CO!Stepped EXCEPT !.typed = TRUE]
  <2>1. CO!Says(p)  BY <1>2 DEF CO!Type
  <2>2. DOMAIN p = CopilotFields /\ \A f \in {"scope", "msgs", "busy", "loading", "left", "converting", "turns"} : p[f] = copilot[f]
    BY <1>0 DEF CO!Stepped, CopilotFields
  <2> HIDE DEF p
  <2> QED BY <2>1, <2>2, SaysKeeps
<1>3. CASE CO!Ask
  <2>1. PICK i \in 1..Len(copilot.msgs), q \in Questions :
          CO!Says([CO!Stepped EXCEPT !.asking = [turn |-> copilot.msgs[i].turn, question |-> <<q>>, answer |-> CO!InitialAnswer(q)]])
    BY <1>3 DEF CO!Ask
  <2> DEFINE p == [CO!Stepped EXCEPT !.asking = [turn |-> copilot.msgs[i].turn, question |-> <<q>>, answer |-> CO!InitialAnswer(q)]]
  <2>2. DOMAIN p = CopilotFields /\ \A f \in {"scope", "msgs", "busy", "loading", "left", "converting", "turns"} : p[f] = copilot[f]
    BY <1>0 DEF CO!Stepped, CopilotFields
  <2>3. CO!Says(p)  BY <2>1
  <2> HIDE DEF p
  <2> QED BY <2>2, <2>3, SaysKeeps
<1>4. CASE CO!Fill
  <2>1. PICK v : CO!Says([CO!Stepped EXCEPT !.asking.answer = v])  BY <1>4 DEF CO!Fill
  <2> DEFINE p == [CO!Stepped EXCEPT !.asking.answer = v]
  <2>2. DOMAIN p = CopilotFields /\ \A f \in {"scope", "msgs", "busy", "loading", "left", "converting", "turns"} : p[f] = copilot[f]
    BY <1>0 DEF CO!Stepped, CopilotFields
  <2>3. CO!Says(p)  BY <2>1
  <2> HIDE DEF p
  <2> QED BY <2>2, <2>3, SaysKeeps
<1>5. CASE CO!CloseQuestion
  <2> DEFINE p == [copilot EXCEPT !.asking = CO!NoQuestion]
  <2>1. CO!Says(p)  BY <1>5 DEF CO!CloseQuestion
  <2>2. DOMAIN p = CopilotFields /\ \A f \in {"scope", "msgs", "busy", "loading", "left", "converting", "turns"} : p[f] = copilot[f]
    BY <1>0 DEF CopilotFields
  <2> HIDE DEF p
  <2> QED BY <2>1, <2>2, SaysKeeps
<1>6. CASE CO!OpenEdit
  <2>1. PICK i \in 1..Len(copilot.msgs), patch \in Edits : CO!Says([CO!Stepped EXCEPT !.update = i, !.patch = patch])
    BY <1>6 DEF CO!OpenEdit
  <2> DEFINE p == [CO!Stepped EXCEPT !.update = i, !.patch = patch]
  <2>2. DOMAIN p = CopilotFields /\ \A f \in {"scope", "msgs", "busy", "loading", "left", "converting", "turns"} : p[f] = copilot[f]
    BY <1>0 DEF CO!Stepped, CopilotFields
  <2>3. CO!Says(p)  BY <2>1
  <2> HIDE DEF p
  <2> QED BY <2>2, <2>3, SaysKeeps
<1>7. CASE CO!CancelEdit
  <2> DEFINE p == [copilot EXCEPT !.update = 0]
  <2>1. CO!Says(p)  BY <1>7 DEF CO!CancelEdit
  <2>2. DOMAIN p = CopilotFields /\ \A f \in {"scope", "msgs", "busy", "loading", "left", "converting", "turns"} : p[f] = copilot[f]
    BY <1>0 DEF CopilotFields
  <2> HIDE DEF p
  <2> QED BY <2>1, <2>2, SaysKeeps
<1> QED BY <1>1, <1>2, <1>3, <1>4, <1>5, <1>6, <1>7

\* Another conversation is entered with its own load, and with nothing else out if it was not left.
LEMMA ChangeScopeKeeps ==
  ASSUME ConversationInv, CO!ChangeScope
  PROVE  ConversationInv'
<1>1. PICK s \in Scopes \ {copilot.scope} :
        /\ copilot' = [CO!Stepped EXCEPT !.scope = s, !.msgs = <<>>, !.converting = 0, !.loading = TRUE,
                         !.left = copilot.busy \/ \E w \in waiting : w.kind = "load" /\ w.scope = s]
        /\ waiting' = waiting \union
             {[kind |-> "load", scope |-> s, seen |-> chats[s], index |-> 0, n |-> copilot.steps + 1]}
        /\ UNCHANGED <<chats, streaming>>
  BY DEF CO!ChangeScope
<1> DEFINE l == [kind |-> "load", scope |-> s, seen |-> chats[s], index |-> 0, n |-> copilot.steps + 1]
           p == [CO!Stepped EXCEPT !.scope = s, !.msgs = <<>>, !.converting = 0, !.loading = TRUE,
                   !.left = copilot.busy \/ \E w \in waiting : w.kind = "load" /\ w.scope = s]
<1>2. /\ DOMAIN copilot = CopilotFields /\ copilot.turns \in Nat /\ copilot.busy = (streaming # <<>>)
      /\ TurnsOf(chats[s], s) /\ \A w \in waiting : WaitInv(w)
  BY DEF ConversationInv, PanelInv
<1>4. /\ DOMAIN p = CopilotFields /\ p.scope = s /\ p.msgs = <<>> /\ p.converting = 0 /\ p.loading = TRUE
      /\ p.turns = copilot.turns /\ p.busy = copilot.busy
      /\ p.left = (copilot.busy \/ \E w \in waiting : w.kind = "load" /\ w.scope = s)
  BY <1>2 DEF CO!Stepped, CopilotFields
<1>5. DOMAIN l = WaitFields /\ l.kind = "load" /\ l.scope = s /\ l.seen = chats[s]  BY DEF WaitFields
<1>6. ~p.left => ~copilot.busy /\ LoadsOf(waiting, s) = {}  BY <1>4 DEF LoadsOf
<1>7. copilot' = p /\ waiting' = waiting \union {l} /\ chats' = chats /\ streaming' = streaming  BY <1>1
<1> HIDE DEF l, p
<1>8. WaitInv(l)  BY <1>2, <1>5 DEF WaitInv
<1>9. l \in LoadsOf(waiting \union {l}, s)  BY <1>5 DEF LoadsOf
<1>10. BubblesOf(p.msgs, s) /\ Paired(p.msgs)  BY <1>4 DEF BubblesOf, Paired
<1>11. PanelInv(p, streaming, waiting \union {l})  BY <1>2, <1>4, <1>9, <1>10 DEF PanelInv
<1>12. StayedInv(p, streaming, waiting \union {l})
  <2> SUFFICES ASSUME ~p.left
               PROVE  streaming = <<>> /\ \A v, w \in LoadsOf(waiting \union {l}, s) : v = w
    BY <1>4, <1>10 DEF StayedInv
  <2>1. streaming = <<>> /\ LoadsOf(waiting, s) = {}  BY <1>2, <1>6
  <2>2. \A v \in LoadsOf(waiting \union {l}, s) : v = l  BY <2>1 DEF LoadsOf
  <2> QED BY <2>1, <2>2
<1>13. \A w \in waiting \union {l} : WaitInv(w)  BY <1>2, <1>8
<1> QED BY <1>7, <1>11, <1>12, <1>13 DEF ConversationInv

\* The one load of a conversation that was not left is taken before anything is asked.
LEMMA SessionArrivesKeeps ==
  ASSUME ConversationInv, CO!SessionArrives
  PROVE  ConversationInv'
<1>1. PICK w \in waiting :
        /\ w.kind = "load" /\ waiting' = waiting \ {w} /\ UNCHANGED <<chats, streaming>>
        /\ \E turns \in {w.seen, chats[w.scope]} :
             copilot' \in {IF copilot.scope = w.scope
                           THEN [copilot EXCEPT !.loading = FALSE, !.msgs = CO!Transcript(turns), !.asking = CO!NoQuestion]
                           ELSE copilot,
                           IF copilot.scope = w.scope
                           THEN [copilot EXCEPT !.loading = FALSE, !.msgs = <<>>] ELSE copilot}
  BY DEF CO!SessionArrives
<1>2. PICK turns \in {w.seen, chats[w.scope]} :
        copilot' \in {IF copilot.scope = w.scope
                      THEN [copilot EXCEPT !.loading = FALSE, !.msgs = CO!Transcript(turns), !.asking = CO!NoQuestion]
                      ELSE copilot,
                      IF copilot.scope = w.scope
                      THEN [copilot EXCEPT !.loading = FALSE, !.msgs = <<>>] ELSE copilot}
  BY <1>1
<1>3. /\ DOMAIN copilot = CopilotFields /\ WaitInv(w) /\ w.scope \in Scopes
      /\ PanelInv(copilot, streaming, waiting) /\ StayedInv(copilot, streaming, waiting)
  BY DEF ConversationInv, PanelInv, WaitInv
<1>4. TurnsOf(turns, w.scope)  BY <1>1, <1>3 DEF ConversationInv, WaitInv
<1>5. \A v \in waiting' : WaitInv(v)  BY <1>1 DEF ConversationInv
<1>6. CASE copilot.scope # w.scope
  <2>1. copilot' = copilot  BY <1>2, <1>6
  <2>2. LoadsOf(waiting', copilot.scope) = LoadsOf(waiting, copilot.scope)  BY <1>1, <1>6 DEF LoadsOf
  <2>3. PanelInv(copilot, streaming, waiting')
    <3>1. \A v \in waiting : v.kind = "convert" => v \in waiting'  BY <1>1
    <3> QED BY <1>3, <2>2, <3>1 DEF PanelInv
  <2>4. StayedInv(copilot, streaming, waiting')  BY <1>3, <2>2 DEF StayedInv
  <2> QED BY <1>1, <1>5, <2>1, <2>3, <2>4 DEF ConversationInv
<1>7. CASE copilot.scope = w.scope
  <2> DEFINE q == CO!Transcript(turns)
             p1 == [copilot EXCEPT !.loading = FALSE, !.msgs = q, !.asking = CO!NoQuestion]
             p2 == [copilot EXCEPT !.loading = FALSE, !.msgs = <<>>]
  <2>1. copilot' = p1 \/ copilot' = p2  BY <1>2, <1>7
  <2>2. BubblesOf(q, w.scope) /\ Paired(q)  BY <1>3, <1>4, TranscriptIs
  <2>3. BubblesOf(<<>>, w.scope) /\ Paired(<<>>)  BY DEF BubblesOf, Paired
  <2> HIDE DEF q
  <2>4. /\ DOMAIN p1 = CopilotFields /\ p1.loading = FALSE /\ p1.msgs = q
        /\ \A f \in {"scope", "busy", "left", "converting", "turns"} : p1[f] = copilot[f]
    BY <1>3 DEF CopilotFields
  <2>5. /\ DOMAIN p2 = CopilotFields /\ p2.loading = FALSE /\ p2.msgs = <<>>
        /\ \A f \in {"scope", "busy", "left", "converting", "turns"} : p2[f] = copilot[f]
    BY <1>3 DEF CopilotFields
  <2> HIDE DEF p1, p2
  <2>6. /\ DOMAIN copilot' = CopilotFields /\ copilot'.loading = FALSE
        /\ BubblesOf(copilot'.msgs, w.scope) /\ Paired(copilot'.msgs)
        /\ \A f \in {"scope", "busy", "left", "converting", "turns"} : copilot'[f] = copilot[f]
    <3>1. CASE copilot' = p1  BY <2>2, <2>4, <3>1
    <3>2. CASE copilot' = p2  BY <2>3, <2>5, <3>2
    <3> QED BY <2>1, <3>1, <3>2
  <2>7. PanelInv(copilot', streaming, waiting')
    <3>1. \A v \in waiting : v.kind = "convert" => v \in waiting'  BY <1>1
    <3> QED BY <1>3, <1>7, <2>6, <3>1 DEF PanelInv
  <2>8. StayedInv(copilot', streaming, waiting')
    <3> SUFFICES ASSUME ~copilot.left
                 PROVE  streaming = <<>> /\ LoadsOf(waiting', copilot.scope) = {}
      BY <2>6 DEF StayedInv
    <3>1. w \in LoadsOf(waiting, copilot.scope)  BY <1>1, <1>7 DEF LoadsOf
    <3>2. copilot.loading /\ \A v \in LoadsOf(waiting, copilot.scope) : v = w  BY <1>3, <3>1 DEF StayedInv
    <3>3. streaming = <<>>  BY <1>3, <3>2 DEF StayedInv
    <3>4. LoadsOf(waiting', copilot.scope) = {}  BY <1>1, <3>2 DEF LoadsOf
    <3> QED BY <3>3, <3>4
  <2> QED BY <1>1, <1>5, <2>7, <2>8 DEF ConversationInv
<1> QED BY <1>6, <1>7

\* A question takes its place with an empty answer under it.
LEMMA TurnIs ==
  ASSUME NEW old, NEW s \in Scopes, BubblesOf(old, s), NEW turn \in Turns, turn[1] = s
  PROVE  LET q == old \o <<CO!Message("user", turn, "none"), CO!Message("ai", turn, "none")>>
         IN  /\ BubblesOf(q, s) /\ (Paired(old) => Paired(q)) /\ q # <<>>
             /\ q[Len(q)].by = "ai" /\ q[Len(q)].turn = turn
<1> DEFINE u == CO!Message("user", turn, "none")  a == CO!Message("ai", turn, "none")  q == old \o <<u, a>>
<1>1. "none" \in CO!Actions /\ "user" \in {"user", "ai"} /\ "ai" \in {"user", "ai"}  BY DEF CO!Actions
<1>2. u \in Bubbles /\ u.by = "user" /\ u.turn = turn  BY <1>1, BubbleIs
<1>3. a \in Bubbles /\ a.by = "ai" /\ a.turn = turn  BY <1>1, BubbleIs
<1> HIDE DEF u, a
<1>4. old \in Seq(Bubbles) /\ Len(old) \in Nat /\ DOMAIN old = 1..Len(old)  BY DEF BubblesOf
<1>5. <<u, a>> \in Seq(Bubbles) /\ Len(<<u, a>>) = 2 /\ <<u, a>>[1] = u /\ <<u, a>>[2] = a  BY <1>2, <1>3
<1>6. /\ q \in Seq(Bubbles) /\ Len(q) = Len(old) + 2 /\ DOMAIN q = 1..Len(old) + 2
      /\ \A i \in 1..Len(old) : q[i] = old[i]
      /\ q[Len(old) + 1] = u /\ q[Len(old) + 2] = a
  <2> DEFINE two == <<u, a>>
  <2>1. two \in Seq(Bubbles) /\ Len(two) = 2 /\ two[1] = u /\ two[2] = a  BY <1>5
  <2> HIDE DEF two
  <2>2. /\ old \o two \in Seq(Bubbles) /\ Len(old \o two) = Len(old) + Len(two)
        /\ \A i \in 1..Len(old) + Len(two) : (old \o two)[i] = IF i <= Len(old) THEN old[i] ELSE two[i - Len(old)]
    BY <1>4, <2>1, ConcatProperties
  <2>3. old \o two \in Seq(Bubbles) /\ Len(old \o two) = Len(old) + 2  BY <2>1, <2>2
  <2>4. DOMAIN (old \o two) = 1..Len(old) + 2  BY <2>3
  <2>5. \A i \in 1..Len(old) : (old \o two)[i] = old[i]  BY <1>4, <2>1, <2>2
  <2>6. (old \o two)[Len(old) + 1] = two[1]
    <3>1. Len(old) + 1 \in 1..Len(old) + Len(two) /\ ~(Len(old) + 1 <= Len(old)) /\ Len(old) + 1 - Len(old) = 1  BY <1>4, <2>1
    <3> QED BY <2>2, <3>1
  <2>7. (old \o two)[Len(old) + 2] = two[2]
    <3>1. Len(old) + 2 \in 1..Len(old) + Len(two) /\ ~(Len(old) + 2 <= Len(old)) /\ Len(old) + 2 - Len(old) = 2  BY <1>4, <2>1
    <3> QED BY <2>2, <3>1
  <2> QED BY <2>1, <2>3, <2>4, <2>5, <2>6, <2>7 DEF two
<1> HIDE DEF q
<1>7. BubblesOf(q, s)
  <2> SUFFICES ASSUME NEW i \in 1..Len(old) + 2 PROVE q[i].turn[1] = s
    BY <1>6 DEF BubblesOf
  <2>1. CASE i \in 1..Len(old)  BY <1>4, <1>6, <2>1 DEF BubblesOf
  <2>2. CASE i = Len(old) + 1  BY <1>2, <1>6, <2>2
  <2>3. CASE i = Len(old) + 2  BY <1>3, <1>6, <2>3
  <2>4. i \in 1..Len(old) \/ i = Len(old) + 1 \/ i = Len(old) + 2  BY <1>4
  <2> QED BY <2>1, <2>2, <2>3, <2>4
<1>8. ASSUME Paired(old) PROVE Paired(q)
  <2> SUFFICES ASSUME NEW i \in 1..Len(old) + 2, q[i].by = "ai"
               PROVE  i > 1 /\ q[i - 1].by = "user" /\ q[i - 1].turn = q[i].turn
    BY <1>6 DEF Paired
  <2>1. CASE i \in 1..Len(old)
    <3>1. i \in DOMAIN old /\ q[i] = old[i]  BY <1>4, <1>6, <2>1
    <3>2. i > 1 /\ old[i - 1].by = "user" /\ old[i - 1].turn = old[i].turn  BY <1>8, <3>1 DEF Paired
    <3>3. i - 1 \in 1..Len(old)  BY <1>4, <2>1, <3>2
    <3> QED BY <1>6, <3>1, <3>2, <3>3
  <2>2. CASE i = Len(old) + 1  BY <1>2, <1>6, <2>2
  <2>3. CASE i = Len(old) + 2
    <3>1. i - 1 = Len(old) + 1 /\ i > 1  BY <1>4, <2>3
    <3> QED BY <1>2, <1>3, <1>6, <2>3, <3>1
  <2>4. i \in 1..Len(old) \/ i = Len(old) + 1 \/ i = Len(old) + 2  BY <1>4
  <2> QED BY <2>1, <2>2, <2>3, <2>4
<1>9. q # <<>> /\ q[Len(q)] = a
  <2>1. Len(q) = Len(old) + 2 /\ Len(q) # 0  BY <1>4, <1>6
  <2> QED BY <1>6, <2>1
<1> QED BY <1>3, <1>7, <1>8, <1>9 DEF q, u, a

\* What is sent is sent by the conversation on screen, which is not being loaded.
LEMMA SubmittedKeeps ==
  ASSUME ConversationInv, NEW p0, DOMAIN p0 = CopilotFields,
         \A f \in {"scope", "msgs", "busy", "loading", "left", "converting", "turns"} : p0[f] = copilot[f],
         ~copilot.loading, ~copilot.busy, CO!Submitted(p0)
  PROVE  ConversationInv'
<1> DEFINE turn == <<p0.scope, p0.turns + 1>>
           t == [scope |-> p0.scope, turn |-> turn, action |-> "none"]
           q == p0.msgs \o <<CO!Message("user", turn, "none"), CO!Message("ai", turn, "none")>>
           p == [p0 EXCEPT !.typed = FALSE, !.busy = TRUE, !.turns = @ + 1, !.msgs = q]
<1>1. copilot' = p /\ streaming' = <<t>> /\ chats' = chats /\ waiting' = waiting  BY DEF CO!Submitted
<1>2. /\ p0.scope = copilot.scope /\ p0.scope \in Scopes /\ BubblesOf(p0.msgs, p0.scope) /\ p0.turns \in Nat
      /\ PanelInv(copilot, streaming, waiting) /\ StayedInv(copilot, streaming, waiting)
      /\ p0.msgs = copilot.msgs
  BY DEF ConversationInv, PanelInv
<1>3. turn \in Turns /\ turn[1] = p0.scope  BY <1>2 DEF Turns
<1> HIDE DEF turn
<1>4. /\ BubblesOf(q, p0.scope) /\ (Paired(p0.msgs) => Paired(q)) /\ q # <<>>
      /\ q[Len(q)].by = "ai" /\ q[Len(q)].turn = turn
  BY <1>2, <1>3, TurnIs
<1> HIDE DEF q
<1>5. /\ DOMAIN p = CopilotFields /\ p.scope = copilot.scope /\ p.busy = TRUE /\ p.turns = p0.turns + 1 /\ p.msgs = q
      /\ p.loading = copilot.loading /\ p.left = copilot.left /\ p.converting = copilot.converting
  BY DEF CopilotFields
<1> HIDE DEF p
<1>6. Stream(t) /\ <<t>> # <<>> /\ <<t>>[1] = t /\ t.turn = turn /\ t.scope = copilot.scope
  BY <1>2, <1>3 DEF Stream, CO!Actions
<1> HIDE DEF t
<1>7. PanelInv(p, <<t>>, waiting)
  <2>1. p.busy = (<<t>> # <<>>)  BY <1>5, <1>6
  <2>2. p.turns \in Nat /\ p.scope \in Scopes /\ BubblesOf(p.msgs, p.scope)  BY <1>2, <1>4, <1>5
  <2> QED BY <1>2, <1>5, <2>1, <2>2 DEF PanelInv
<1>8. StayedInv(p, <<t>>, waiting)  BY <1>2, <1>4, <1>5, <1>6 DEF StayedInv
<1>9. \E x : Stream(x) /\ <<t>> = <<x>>  BY <1>6
<1> QED BY <1>1, <1>7, <1>8, <1>9 DEF ConversationInv

LEMMA SubmitKeeps ==
  ASSUME ConversationInv, CO!Submit \/ CO!SubmitAnswers
  PROVE  ConversationInv'
<1>0. DOMAIN copilot = CopilotFields  BY DEF ConversationInv, PanelInv
<1>1. CASE CO!Submit
  <2>1. ~copilot.loading /\ ~copilot.busy /\ CO!Submitted(copilot)  BY <1>1 DEF CO!Submit
  <2> QED BY <1>0, <2>1, SubmittedKeeps
<1>2. CASE CO!SubmitAnswers
  <2> DEFINE p == [copilot EXCEPT !.asking = CO!NoQuestion]
  <2>1. ~copilot.busy /\ IF copilot.loading THEN CO!Says(p) ELSE CO!Submitted(p)  BY <1>2 DEF CO!SubmitAnswers
  <2>2. DOMAIN p = CopilotFields /\ \A f \in {"scope", "msgs", "busy", "loading", "left", "converting", "turns"} : p[f] = copilot[f]
    BY <1>0 DEF CopilotFields
  <2> HIDE DEF p
  <2>3. CASE copilot.loading  BY <2>1, <2>2, <2>3, SaysKeeps
  <2>4. CASE ~copilot.loading  BY <2>1, <2>2, <2>4, SubmittedKeeps
  <2> QED BY <2>3, <2>4
<1> QED BY <1>1, <1>2

\* A part of the answer stays in its place.
LEMMA DeltaKeeps ==
  ASSUME ConversationInv, CO!Delta
  PROVE  ConversationInv'
<1>1. streaming # <<>>  BY DEF CO!Delta
<1>2. PICK action \in CO!Actions :
        /\ streaming' = <<[streaming[1] EXCEPT !.action = action]>>
        /\ copilot' = CO!LastReplaced(copilot, CO!Message("ai", streaming[1].turn, action))
        /\ UNCHANGED <<chats, waiting>>
  BY DEF CO!Delta
<1> DEFINE m == CO!Message("ai", streaming[1].turn, action)  p == CO!LastReplaced(copilot, m)
           old == streaming[1]  t == [old EXCEPT !.action = action]
<1>3. Stream(old) /\ old.turn \in Turns
  BY <1>1 DEF ConversationInv, Stream
<1>4. Stream(t) /\ t.turn = old.turn /\ t.scope = old.scope  BY <1>3 DEF Stream
<1>5. m \in Bubbles /\ m.by = "ai" /\ m.turn = streaming[1].turn
  <2>1. "ai" \in {"user", "ai"}  OBVIOUS
  <2> QED BY <1>2, <1>3, <2>1, BubbleIs
<1>6. copilot' = p /\ streaming' = <<t>> /\ chats' = chats /\ waiting' = waiting  BY <1>2
<1> HIDE DEF m
<1>7. /\ DOMAIN p = CopilotFields /\ \A f \in CopilotFields \ {"msgs"} : p[f] = copilot[f]
      /\ BubblesOf(p.msgs, copilot.scope)
      /\ ~copilot.left => Paired(p.msgs)
      /\ ~copilot.left /\ streaming[1].scope = copilot.scope =>
           p.msgs # <<>> /\ p.msgs[Len(p.msgs)].by = "ai" /\ p.msgs[Len(p.msgs)].turn = streaming[1].turn
  BY <1>1, <1>5, ReplacedIs
<1> HIDE DEF p, t
<1>8. PanelInv(copilot, streaming, waiting) /\ StayedInv(copilot, streaming, waiting)  BY DEF ConversationInv
<1>9. /\ p.scope = copilot.scope /\ p.turns = copilot.turns /\ p.busy = copilot.busy /\ p.loading = copilot.loading
      /\ p.left = copilot.left /\ p.converting = copilot.converting
  BY <1>7 DEF CopilotFields
<1>10. <<t>> # <<>> /\ <<t>>[1] = t  OBVIOUS
<1>11. (<<t>> # <<>>) = (streaming # <<>>)  BY <1>1, <1>10
<1>12. PanelInv(p, <<t>>, waiting)  BY <1>7, <1>8, <1>9, <1>11 DEF PanelInv
<1>13. StayedInv(p, <<t>>, waiting)  BY <1>1, <1>4, <1>7, <1>8, <1>9, <1>10 DEF StayedInv
<1>14. \E x : Stream(x) /\ <<t>> = <<x>>  BY <1>4
<1> QED BY <1>6, <1>12, <1>13, <1>14 DEF ConversationInv

\* The turn is kept by the server, or the answer says that it failed.
LEMMA StreamEndsKeeps ==
  ASSUME ConversationInv, CO!StreamEnds
  PROVE  ConversationInv'
<1> DEFINE t == streaming[1]  kept == [turn |-> t.turn, action |-> t.action]
           b == CO!Message("ai", t.turn, "none")  m == [b EXCEPT !.error = TRUE]
           r == CO!LastReplaced(copilot, m)  p1 == [copilot EXCEPT !.busy = FALSE]  p2 == [r EXCEPT !.busy = FALSE]
<1>1. /\ streaming # <<>> /\ streaming' = <<>> /\ waiting' = waiting
      /\ \/ chats' = [chats EXCEPT ![t.scope] = Append(@, kept)] /\ copilot' = p1
         \/ chats' = chats /\ copilot' = p2
  BY DEF CO!StreamEnds
<1>2. Stream(t) /\ t.scope \in Scopes /\ t.turn \in Turns /\ t.turn[1] = t.scope /\ t.action \in CO!Actions
  BY <1>1 DEF ConversationInv, Stream
<1>3. /\ PanelInv(copilot, streaming, waiting) /\ StayedInv(copilot, streaming, waiting) /\ DOMAIN copilot = CopilotFields
      /\ DOMAIN chats = Scopes /\ \A s \in Scopes : TurnsOf(chats[s], s)
  BY DEF ConversationInv, PanelInv
<1>4. m \in Bubbles /\ m.by = "ai" /\ m.turn = t.turn
  <2>1. "ai" \in {"user", "ai"} /\ "none" \in CO!Actions  BY DEF CO!Actions
  <2>2. b \in Bubbles /\ b.by = "ai" /\ b.turn = t.turn  BY <1>2, <2>1, BubbleIs
  <2> HIDE DEF b
  <2> QED BY <2>2, FailureIs
<1> HIDE DEF m
<1>5. /\ DOMAIN r = CopilotFields /\ \A f \in CopilotFields \ {"msgs"} : r[f] = copilot[f]
      /\ BubblesOf(r.msgs, copilot.scope)
      /\ ~copilot.left => Paired(r.msgs)
  BY <1>1, <1>4, ReplacedIs
<1> HIDE DEF r
<1>6. /\ DOMAIN p1 = CopilotFields /\ p1.busy = FALSE /\ p1.msgs = copilot.msgs
      /\ \A f \in {"scope", "loading", "left", "converting", "turns"} : p1[f] = copilot[f]
  BY <1>3 DEF CopilotFields
<1>7. /\ DOMAIN p2 = CopilotFields /\ p2.busy = FALSE /\ p2.msgs = r.msgs
      /\ \A f \in {"scope", "loading", "left", "converting", "turns"} : p2[f] = copilot[f]
  BY <1>5 DEF CopilotFields
<1> HIDE DEF p1, p2
<1>8. /\ DOMAIN copilot' = CopilotFields /\ copilot'.busy = FALSE
      /\ \A f \in {"scope", "loading", "left", "converting", "turns"} : copilot'[f] = copilot[f]
      /\ BubblesOf(copilot'.msgs, copilot.scope) /\ (~copilot.left => Paired(copilot'.msgs))
  <2>1. CASE copilot' = p1  BY <1>3, <1>6, <2>1 DEF PanelInv, StayedInv
  <2>2. CASE copilot' = p2  BY <1>5, <1>7, <2>2
  <2> QED BY <1>1, <2>1, <2>2
<1>9. PanelInv(copilot', <<>>, waiting)  BY <1>3, <1>8 DEF PanelInv
<1>10. StayedInv(copilot', <<>>, waiting)  BY <1>3, <1>8 DEF StayedInv
<1>11. DOMAIN chats' = Scopes /\ \A s \in Scopes : TurnsOf(chats'[s], s)
  <2>1. TurnsOf(Append(chats[t.scope], kept), t.scope)
    <3> DEFINE old == chats[t.scope]  q == Append(old, kept)
    <3>1. kept \in Talks /\ kept.turn[1] = t.scope  BY <1>2 DEF Talks
    <3>2. old \in Seq(Talks) /\ Len(old) \in Nat /\ DOMAIN old = 1..Len(old)
          /\ \A i \in DOMAIN old : old[i].turn[1] = t.scope
      BY <1>2, <1>3 DEF TurnsOf
    <3> HIDE DEF kept, old
    <3>3. /\ q \in Seq(Talks) /\ Len(q) = Len(old) + 1 /\ (\A i \in 1..Len(old) : q[i] = old[i])
          /\ q[Len(old) + 1] = kept
      BY <3>1, <3>2, AppendProperties
    <3> HIDE DEF q
    <3>4. ASSUME NEW i \in DOMAIN q PROVE q[i].turn[1] = t.scope
      <4>1. i \in 1..Len(old) \/ i = Len(old) + 1  BY <3>2, <3>3
      <4>2. CASE i \in 1..Len(old)  BY <3>2, <3>3, <4>2
      <4>3. CASE i = Len(old) + 1  BY <3>1, <3>3, <4>3
      <4> QED BY <4>1, <4>2, <4>3
    <3> QED BY <3>3, <3>4 DEF TurnsOf, q, old
  <2> HIDE DEF kept
  <2>2. CASE chats' = [chats EXCEPT ![t.scope] = Append(@, kept)]
    <3>1. \A s \in Scopes : chats'[s] = IF s = t.scope THEN Append(chats[t.scope], kept) ELSE chats[s]
      BY <1>2, <1>3, <2>2
    <3>2. DOMAIN chats' = Scopes  BY <1>3, <2>2
    <3> QED BY <1>3, <2>1, <3>1, <3>2
  <2>3. CASE chats' = chats  BY <1>3, <2>3
  <2> QED BY <1>1, <2>2, <2>3
<1> QED BY <1>1, <1>9, <1>10, <1>11 DEF ConversationInv

\* A step that marks a message.
LEMMA MarkKeeps ==
  ASSUME ConversationInv, NEW i \in 1..Len(copilot.msgs), NEW b \in Bubbles,
         b.by = copilot.msgs[i].by, b.turn = copilot.msgs[i].turn,
         NEW p, DOMAIN p = CopilotFields, p.msgs = [copilot.msgs EXCEPT ![i] = b],
         \A f \in {"scope", "busy", "loading", "left", "turns"} : p[f] = copilot[f],
         NEW ws, LoadsOf(ws, copilot.scope) = LoadsOf(waiting, copilot.scope),
         p.converting # 0 => \E w \in ws : w.kind = "convert" /\ w.scope = p.scope /\ w.index = p.converting
  PROVE  PanelInv(p, streaming, ws) /\ StayedInv(p, streaming, ws)
<1> DEFINE old == copilot.msgs  q == [old EXCEPT ![i] = b]
<1>1. /\ PanelInv(copilot, streaming, waiting) /\ StayedInv(copilot, streaming, waiting)
      /\ BubblesOf(old, copilot.scope) /\ old \in Seq(Bubbles) /\ Len(old) \in Nat
  BY DEF ConversationInv, PanelInv, BubblesOf
<1>2. /\ BubblesOf(q, copilot.scope) /\ Len(q) = Len(old) /\ (Paired(old) => Paired(q))
      /\ \A j \in 1..Len(old) : q[j].by = old[j].by /\ q[j].turn = old[j].turn
  BY <1>1, MarkedIs
<1>3. p.msgs = q  OBVIOUS
<1> HIDE DEF q
<1>4. old # <<>> /\ Len(old) \in 1..Len(old) /\ q # <<>>
  <2>1. Len(old) \in 1..Len(old) /\ Len(q) # 0  BY <1>1, <1>2
  <2> QED BY <2>1
<1>5. PanelInv(p, streaming, ws)  BY <1>1, <1>2, <1>3 DEF PanelInv
<1>6. StayedInv(p, streaming, ws)
  <2> SUFFICES ASSUME ~copilot.left
               PROVE  /\ Paired(q)
                      /\ \A v, w \in LoadsOf(ws, copilot.scope) : v = w
                      /\ ~copilot.loading => LoadsOf(ws, copilot.scope) = {}
                      /\ streaming # <<>> => ~copilot.loading
                      /\ streaming # <<>> /\ streaming[1].scope = copilot.scope =>
                           q # <<>> /\ q[Len(q)].by = "ai" /\ q[Len(q)].turn = streaming[1].turn
    BY <1>3 DEF StayedInv
  <2> QED BY <1>1, <1>2, <1>4 DEF StayedInv
<1> QED BY <1>5, <1>6

LEMMA ConvertKeeps ==
  ASSUME ConversationInv, CO!Convert
  PROVE  ConversationInv'
<1> DEFINE old == copilot.msgs
<1>1. PICK i \in 1..Len(old) :
        /\ copilot' = [CO!Stepped EXCEPT !.converting = i, !.msgs[i].conversion = "none"]
        /\ waiting' = waiting \union {[kind |-> "convert", scope |-> copilot.scope, seen |-> <<>>, index |-> i, n |-> copilot.steps + 1]}
        /\ UNCHANGED <<chats, streaming>>
  BY DEF CO!Convert
<1> DEFINE l == [kind |-> "convert", scope |-> copilot.scope, seen |-> <<>>, index |-> i, n |-> copilot.steps + 1]
           b == [old[i] EXCEPT !.conversion = "none"]
           p == [CO!Stepped EXCEPT !.converting = i, !.msgs[i].conversion = "none"]
<1>2. /\ DOMAIN copilot = CopilotFields /\ copilot.scope \in Scopes /\ old \in Seq(Bubbles) /\ Len(old) \in Nat
      /\ \A w \in waiting : WaitInv(w)
  BY DEF ConversationInv, PanelInv, BubblesOf
<1>3. old[i] \in Bubbles  BY <1>2
<1>4. b \in Bubbles /\ b.by = old[i].by /\ b.turn = old[i].turn  BY <1>3 DEF Bubbles
<1>5. /\ DOMAIN p = CopilotFields /\ p.converting = i /\ p.msgs = [old EXCEPT ![i] = b]
      /\ \A f \in {"scope", "busy", "loading", "left", "turns"} : p[f] = copilot[f]
  BY <1>2 DEF CO!Stepped, CopilotFields
<1>6. DOMAIN l = WaitFields /\ l.kind = "convert" /\ l.scope = copilot.scope /\ l.index = i  BY DEF WaitFields
<1>7. copilot' = p /\ waiting' = waiting \union {l} /\ chats' = chats /\ streaming' = streaming  BY <1>1
<1> HIDE DEF p, l, b
<1>8. LoadsOf(waiting \union {l}, copilot.scope) = LoadsOf(waiting, copilot.scope)  BY <1>6 DEF LoadsOf
<1>9. \E w \in waiting \union {l} : w.kind = "convert" /\ w.scope = p.scope /\ w.index = p.converting
  BY <1>5, <1>6
<1>10. PanelInv(p, streaming, waiting \union {l}) /\ StayedInv(p, streaming, waiting \union {l})
  BY <1>4, <1>5, <1>8, <1>9, MarkKeeps
<1>11. WaitInv(l)  BY <1>2, <1>6 DEF WaitInv
<1>12. \A w \in waiting \union {l} : WaitInv(w)  BY <1>2, <1>11
<1> QED BY <1>7, <1>10, <1>12 DEF ConversationInv

LEMMA ConvertedKeeps ==
  ASSUME ConversationInv, CO!Converted
  PROVE  ConversationInv'
<1> DEFINE old == copilot.msgs
<1>1. PICK w \in waiting, out \in {"done", "failed"} :
        /\ w.kind = "convert" /\ waiting' = waiting \ {w} /\ UNCHANGED <<chats, streaming>>
        /\ copilot' = IF copilot.scope # w.scope THEN copilot
                      ELSE IF w.index <= Len(old)
                      THEN [copilot EXCEPT !.converting = 0, !.msgs[w.index].conversion = out]
                      ELSE [copilot EXCEPT !.converting = 0]
  BY DEF CO!Converted
<1>2. /\ DOMAIN copilot = CopilotFields /\ old \in Seq(Bubbles) /\ Len(old) \in Nat
      /\ PanelInv(copilot, streaming, waiting) /\ StayedInv(copilot, streaming, waiting)
      /\ \A v \in waiting : WaitInv(v)
  BY DEF ConversationInv, PanelInv, BubblesOf
<1>3. LoadsOf(waiting', copilot.scope) = LoadsOf(waiting, copilot.scope)  BY <1>1 DEF LoadsOf
<1>4. PanelInv(copilot', streaming, waiting') /\ StayedInv(copilot', streaming, waiting')
  <2>1. CASE copilot.scope # w.scope
    <3>1. copilot' = copilot  BY <1>1, <2>1
    <3>2. \A v \in waiting : v.scope = copilot.scope => v \in waiting'  BY <1>1, <2>1
    <3>3. PanelInv(copilot, streaming, waiting')  BY <1>2, <1>3, <3>2 DEF PanelInv
    <3>4. StayedInv(copilot, streaming, waiting')  BY <1>2, <1>3 DEF StayedInv
    <3> QED BY <3>1, <3>3, <3>4
  <2>2. CASE copilot.scope = w.scope /\ w.index <= Len(old)
    <3> DEFINE i == w.index  b == [old[i] EXCEPT !.conversion = out]
               p == [copilot EXCEPT !.converting = 0, !.msgs[i].conversion = out]
    <3>1. i \in 1..Len(old)  BY <1>1, <1>2, <2>2 DEF WaitInv
    <3>2. old[i] \in Bubbles  BY <1>2, <3>1
    <3>3. b \in Bubbles /\ b.by = old[i].by /\ b.turn = old[i].turn  BY <3>2 DEF Bubbles
    <3>4. /\ DOMAIN p = CopilotFields /\ p.converting = 0 /\ p.msgs = [old EXCEPT ![i] = b]
          /\ \A f \in {"scope", "busy", "loading", "left", "turns"} : p[f] = copilot[f]
      BY <1>2 DEF CopilotFields
    <3>5. copilot' = p  BY <1>1, <2>2
    <3> HIDE DEF p, b, i
    <3>6. PanelInv(p, streaming, waiting') /\ StayedInv(p, streaming, waiting')
      BY <1>3, <3>1, <3>3, <3>4, MarkKeeps
    <3> QED BY <3>5, <3>6
  <2>3. CASE copilot.scope = w.scope /\ ~(w.index <= Len(old))
    <3> DEFINE p == [copilot EXCEPT !.converting = 0]
    <3>1. /\ DOMAIN p = CopilotFields /\ p.converting = 0
          /\ \A f \in {"scope", "msgs", "busy", "loading", "left", "turns"} : p[f] = copilot[f]
      BY <1>2 DEF CopilotFields
    <3>2. copilot' = p  BY <1>1, <2>3
    <3> HIDE DEF p
    <3>3. PanelInv(p, streaming, waiting')  BY <1>2, <1>3, <3>1 DEF PanelInv
    <3>4. StayedInv(p, streaming, waiting')  BY <1>2, <1>3, <3>1 DEF StayedInv
    <3> QED BY <3>2, <3>3, <3>4
  <2> QED BY <2>1, <2>2, <2>3
<1>5. \A v \in waiting' : WaitInv(v)  BY <1>1, <1>2
<1> QED BY <1>1, <1>4, <1>5 DEF ConversationInv

LEMMA ConfirmEditKeeps ==
  ASSUME ConversationInv, CO!ConfirmEdit
  PROVE  ConversationInv'
<1> DEFINE old == copilot.msgs  i == copilot.update  b == [old[i] EXCEPT !.applied = TRUE]
           p == [copilot EXCEPT !.msgs[i].applied = TRUE, !.update = 0, !.open = FALSE,
                   !.asking = CO!NoQuestion, !.draft = Merged(@, copilot.patch)]
<1>1. i \in 1..Len(old) /\ copilot' = p /\ chats' = chats /\ streaming' = streaming /\ waiting' = waiting
  BY DEF CO!ConfirmEdit, CO!Proposal, CO!Says
<1>2. /\ DOMAIN copilot = CopilotFields /\ old \in Seq(Bubbles) /\ Len(old) \in Nat
      /\ PanelInv(copilot, streaming, waiting)
  BY DEF ConversationInv, PanelInv, BubblesOf
<1>3. old[i] \in Bubbles  BY <1>1, <1>2
<1>4. b \in Bubbles /\ b.by = old[i].by /\ b.turn = old[i].turn  BY <1>3 DEF Bubbles
<1>5. /\ DOMAIN p = CopilotFields /\ p.msgs = [old EXCEPT ![i] = b]
      /\ \A f \in {"scope", "busy", "loading", "left", "turns", "converting"} : p[f] = copilot[f]
  BY <1>2 DEF CopilotFields
<1> HIDE DEF p, b, i
<1>6. PanelInv(p, streaming, waiting) /\ StayedInv(p, streaming, waiting)
  <2>1. p.converting # 0 => \E w \in waiting : w.kind = "convert" /\ w.scope = p.scope /\ w.index = p.converting
    BY <1>2, <1>5 DEF PanelInv
  <2> QED BY <1>1, <1>4, <1>5, <2>1, MarkKeeps
<1> QED BY <1>1, <1>6 DEF ConversationInv

LEMMA ConversationInitially ==
  ASSUME CO!Init
  PROVE  ConversationInv
<1>1. PICK s \in Scopes :
         /\ copilot = [scope |-> s, msgs |-> <<>>, typed |-> FALSE, busy |-> FALSE, loading |-> TRUE,
                       converting |-> 0, asking |-> CO!NoQuestion, update |-> 0, patch |-> CO!NoPatch, draft |-> Document,
                       open |-> TRUE, left |-> FALSE, turns |-> 0, steps |-> 0]
         /\ waiting = {[kind |-> "load", scope |-> s, seen |-> <<>>, index |-> 0, n |-> 0]}
  BY DEF CO!Init
<1> DEFINE l == [kind |-> "load", scope |-> s, seen |-> <<>>, index |-> 0, n |-> 0]
<1>2. chats = [c \in Scopes |-> <<>>] /\ streaming = <<>>  BY DEF CO!Init
<1>3. \A c \in Scopes : TurnsOf(<<>>, c) /\ BubblesOf(<<>>, c) /\ Paired(<<>>)  BY DEF TurnsOf, BubblesOf, Paired
<1>4. DOMAIN l = WaitFields /\ l.kind = "load" /\ l.scope = s /\ l.seen = <<>> /\ waiting = {l}
  BY <1>1 DEF WaitFields
<1> HIDE DEF l
<1>5. WaitInv(l)  BY <1>3, <1>4 DEF WaitInv
<1>6. LoadsOf(waiting, s) = {l}  BY <1>4 DEF LoadsOf
<1>7. /\ DOMAIN copilot = CopilotFields /\ copilot.scope = s /\ copilot.msgs = <<>> /\ copilot.busy = FALSE
      /\ copilot.loading = TRUE /\ copilot.converting = 0 /\ copilot.turns = 0
  BY <1>1 DEF CopilotFields
<1>8. PanelInv(copilot, streaming, waiting)
  <2>1. FALSE = (streaming # <<>>)  BY <1>2
  <2>2. copilot.busy = (streaming # <<>>)  BY <1>7, <2>1
  <2>3. LoadsOf(waiting, copilot.scope) # {}  BY <1>6, <1>7
  <2>4. BubblesOf(copilot.msgs, copilot.scope)  BY <1>3, <1>7
  <2> QED BY <1>7, <2>2, <2>3, <2>4 DEF PanelInv
<1>9. StayedInv(copilot, streaming, waiting)  BY <1>2, <1>3, <1>6, <1>7 DEF StayedInv
<1> QED BY <1>2, <1>3, <1>4, <1>5, <1>8, <1>9 DEF ConversationInv

LEMMA ConversationStep ==
  ASSUME ConversationInv, [CO!Next]_CO!vars
  PROVE  ConversationInv'
<1>1. CASE CO!ChangeScope  BY <1>1, ChangeScopeKeeps
<1>2. CASE CO!SessionArrives  BY <1>2, SessionArrivesKeeps
<1>3. CASE CO!Toggle \/ CO!Type \/ CO!Ask \/ CO!Fill \/ CO!CloseQuestion \/ CO!OpenEdit \/ CO!CancelEdit
  BY <1>3, QuietKeeps
<1>4. CASE CO!Submit \/ CO!SubmitAnswers  BY <1>4, SubmitKeeps
<1>5. CASE CO!Delta  BY <1>5, DeltaKeeps
<1>6. CASE CO!StreamEnds  BY <1>6, StreamEndsKeeps
<1>7. CASE CO!Convert  BY <1>7, ConvertKeeps
<1>8. CASE CO!Converted  BY <1>8, ConvertedKeeps
<1>9. CASE CO!ConfirmEdit  BY <1>9, ConfirmEditKeeps
<1>10. CASE UNCHANGED CO!vars
  <2>1. chats' = chats /\ copilot' = copilot /\ streaming' = streaming /\ waiting' = waiting  BY <1>10 DEF CO!vars
  <2> QED BY <2>1 DEF ConversationInv
<1> QED BY <1>1, <1>2, <1>3, <1>4, <1>5, <1>6, <1>7, <1>8, <1>9, <1>10 DEF CO!Next

LEMMA ConversationAlways == CO!Spec => []ConversationInv
<1>1. CO!Init => ConversationInv  BY ConversationInitially
<1>2. ConversationInv /\ [CO!Next]_CO!vars => ConversationInv'  BY ConversationStep
<1> QED BY <1>1, <1>2, PTL DEF CO!Spec

(***************************************************************************)
(* A conversation shows its own messages, whatever answers and loads       *)
(* arrive after it was entered (scopeRef in CopilotPanel).                 *)
(***************************************************************************)
THEOREM MessagesStayInScope == CO!Spec => []CO!MessagesAreOfScope
<1>1. ConversationInv => CO!MessagesAreOfScope
  BY DEF ConversationInv, PanelInv, BubblesOf, CO!MessagesAreOfScope, CO!ToSet
<1> QED BY <1>1, ConversationAlways, PTL

(***************************************************************************)
(* While the conversation was not left, every answer stands under its own  *)
(* question: what is streamed, kept, reloaded or marked moves none of them *)
(* (the messages and scopeRef of CopilotPanel).                            *)
(***************************************************************************)
THEOREM AnswersStayUnderQuestions == CO!Spec => []CO!AnswersFollowQuestions
<1>1. ConversationInv => CO!AnswersFollowQuestions
  <2> SUFFICES ASSUME ConversationInv, ~copilot.left, NEW i \in 1..Len(copilot.msgs), copilot.msgs[i].by = "ai"
               PROVE  i > 1 /\ copilot.msgs[i - 1].by = "user" /\ copilot.msgs[i - 1].turn = copilot.msgs[i].turn
    BY DEF CO!AnswersFollowQuestions
  <2>1. Paired(copilot.msgs)  BY DEF ConversationInv, StayedInv
  <2>2. i \in DOMAIN copilot.msgs  BY DEF ConversationInv, PanelInv, BubblesOf
  <2> QED BY <2>1, <2>2 DEF Paired
<1> QED BY <1>1, ConversationAlways, PTL

(***************************************************************************)
(* The panel is busy exactly while an answer is streamed, and its spinners *)
(* have their load or their plan on the way (busy, loading and             *)
(* convertingIndex in CopilotPanel).                                       *)
(***************************************************************************)
THEOREM PanelSpinnersBacked == CO!Spec => []CO!BusyIsBacked
<1>1. ConversationInv => CO!BusyIsBacked
  BY DEF ConversationInv, PanelInv, LoadsOf, CO!BusyIsBacked
<1> QED BY <1>1, ConversationAlways, PTL

-----------------------------------------------------------------------------
(***************************************************************************)
(* The dialog about a result file and the server's store.  A question of   *)
(* the present dialog is no later than its last, one of a dialog that was  *)
(* closed no later than its closing, and the request that is awaited asks  *)
(* what the dialog has asked last.                                         *)
(***************************************************************************)
ViewFields == {"path", "status", "extra", "tableOf", "mode", "chart", "scan", "ai", "input", "preparing", "notes", "clicks"}
TalkFields == {"loaded", "of", "answered", "pending", "busy", "failed", "last", "asked", "since"}
Modes == {"load", "ask", "regenerate", "clear"}
ViewTyped(v) == /\ DOMAIN v = ViewFields /\ {v.path, v.input} \subseteq RR!Files \cup {NoFile} /\ v.clicks \in Nat
TalkTyped(t, n) ==
  /\ DOMAIN t = TalkFields /\ t.busy \in BOOLEAN /\ t.last \in Modes
  /\ t.asked \in Nat /\ t.since \in Nat /\ t.asked <= n /\ t.since <= n

\* A conversation that may be stored: what the dialog t asks next, after n
\* clicks, keeps its order.
Orderly(s, t, n) ==
  /\ s \in Seq(Nat)
  /\ \A i \in DOMAIN s : s[i] <= n /\ (s[i] > t.since /\ t.last = "ask" => s[i] <= t.asked)
  /\ \A i, j \in DOMAIN s : i < j /\ s[i] > t.since /\ s[j] > t.since => s[i] <= s[j]
Interpretations(calls) == {c \in calls : c.kind = "interpret"}
CallInv(c, t, n) ==
  /\ DOMAIN c = {"kind", "of", "mode", "question", "awaited", "read", "stage"}
  /\ c.mode \in Modes /\ c.question \in Nat /\ c.awaited \in BOOLEAN
  /\ c.awaited => t.busy /\ c.mode = t.last /\ c.question = t.asked
  /\ ~c.awaited => c.question <= t.since
  /\ c.stage = "thinking" /\ c.mode = "ask" => Orderly(c.read, t, n)
CallsInv(calls, t, n) ==
  /\ \A c \in calls : c.of \in RR!Files
  /\ \A c \in Interpretations(calls) : CallInv(c, t, n)
  /\ \A c, d \in Interpretations(calls) : c.awaited /\ d.awaited => c = d
StoreInv(m, t, n) ==
  /\ m \in [RR!Files -> {NoFile} \cup Seq(Nat)]
  /\ \A f \in RR!Files : m[f] # NoFile => Orderly(m[f], t, n)
TalkInv ==
  /\ ViewTyped(dataview) /\ TalkTyped(talk, dataview.clicks)
  /\ StoreInv(memory, talk, dataview.clicks) /\ CallsInv(resultCalls, talk, dataview.clicks)

-----------------------------------------------------------------------------
\* A conversation stays orderly when the dialog asks nothing, asks again what
\* it has asked last, or asks something new.
LEMMA StaysOrderly ==
  ASSUME NEW s, NEW t, NEW u, NEW m \in Nat, NEW n \in Nat, Orderly(s, t, m), m <= n,
         t.asked \in Nat, t.since \in Nat, u.asked \in Nat, u.since = t.since,
         u.last = "ask" => (t.last = "ask" /\ u.asked = t.asked) \/ u.asked >= m
  PROVE  Orderly(s, u, n)
<1>1. s \in Seq(Nat) /\ \A i \in DOMAIN s : s[i] \in Nat
  BY DEF Orderly
<1>2. \A i \in DOMAIN s : s[i] <= n /\ (s[i] > u.since /\ u.last = "ask" => s[i] <= u.asked)
  BY <1>1 DEF Orderly
<1> QED BY <1>1, <1>2 DEF Orderly

\* The same request, made when the dialog asks on: what is awaited is over.
LEMMA StoreStays ==
  ASSUME NEW m, NEW t, NEW u, NEW k \in Nat, NEW n \in Nat, StoreInv(m, t, k), k <= n,
         t.asked \in Nat, t.since \in Nat, u.asked \in Nat, u.since = t.since,
         u.last = "ask" => (t.last = "ask" /\ u.asked = t.asked) \/ u.asked >= k
  PROVE  StoreInv(m, u, n)
  BY StaysOrderly DEF StoreInv

LEMMA CallStays ==
  ASSUME NEW c, NEW t, NEW u, NEW k \in Nat, NEW n \in Nat, CallInv(c, t, k), k <= n,
         t.asked \in Nat, t.since \in Nat, u.asked \in Nat, u.since = t.since,
         u.last = "ask" => (t.last = "ask" /\ u.asked = t.asked) \/ u.asked >= k,
         c.awaited => u.busy = t.busy /\ u.last = t.last /\ u.asked = t.asked
  PROVE  CallInv(c, u, n)
  BY StaysOrderly DEF CallInv

\* What the dialog is to the store and to the requests.
Kept(u) == DOMAIN u = TalkFields /\ u.busy = talk.busy /\ u.last = talk.last /\ u.asked = talk.asked /\ u.since = talk.since

\* A step of the preview alone.
LEMMA PreviewSteps ==
  ASSUME TalkInv, ViewTyped(dataview'), dataview'.clicks >= dataview.clicks, Kept(talk'), memory' = memory,
         Interpretations(resultCalls') = Interpretations(resultCalls), \A c \in resultCalls' : c.of \in RR!Files
  PROVE  TalkInv'
<1>1. dataview.clicks \in Nat /\ dataview'.clicks \in Nat /\ talk.asked \in Nat /\ talk.since \in Nat
  BY DEF TalkInv, ViewTyped, TalkTyped
<1>2. TalkTyped(talk', dataview'.clicks)
  BY <1>1 DEF TalkInv, TalkTyped, Kept
<1>3. StoreInv(memory', talk', dataview'.clicks)
  BY <1>1, StoreStays DEF TalkInv, Kept
<1>4. \A c \in Interpretations(resultCalls) : CallInv(c, talk', dataview'.clicks)
  BY <1>1, CallStays DEF TalkInv, CallsInv, Kept
<1> QED BY <1>2, <1>3, <1>4 DEF TalkInv, CallsInv

\* The dialog sends a request.
LEMMA RequestStep ==
  ASSUME TalkInv, ViewTyped(dataview'), dataview'.clicks >= dataview.clicks, memory' = memory,
         NEW u, Kept(u), ~u.busy, NEW mode \in Modes, NEW q \in Nat, q <= dataview'.clicks, NEW f \in RR!Files,
         mode = "ask" => (talk.last = "ask" /\ q = talk.asked) \/ q >= dataview.clicks,
         talk' = RR!Requested(u, mode, q),
         Interpretations(resultCalls') = Interpretations(resultCalls) \cup {RR!CallOf(f, mode, q)},
         \A c \in resultCalls' : c.of \in RR!Files
  PROVE  TalkInv'
<1>1. dataview.clicks \in Nat /\ dataview'.clicks \in Nat /\ talk.asked \in Nat /\ talk.since \in Nat /\ talk.since <= dataview.clicks
  BY DEF TalkInv, ViewTyped, TalkTyped
<1>2. /\ DOMAIN talk' = TalkFields /\ talk'.busy = TRUE /\ talk'.last = mode /\ talk'.asked = q /\ talk'.since = talk.since
  BY DEF RR!Requested, Kept, TalkFields
<1> DEFINE n == dataview'.clicks
<1>a. n \in Nat /\ talk.since <= n /\ q <= n
  <2> HIDE DEF n
  <2>1. n \in Nat /\ dataview.clicks <= n /\ q <= n  BY <1>1 DEF n
  <2> QED BY <1>1, <2>1
<1> HIDE DEF n
<1>b. TalkTyped(talk', n)
  BY <1>1, <1>2, <1>a DEF TalkTyped, Modes
<1>3. TalkTyped(talk', dataview'.clicks)
  BY <1>b DEF n
<1>4. StoreInv(memory', talk', dataview'.clicks)
  BY <1>1, <1>2, StoreStays DEF TalkInv
<1>5. \A c \in Interpretations(resultCalls) : CallInv(c, talk, dataview.clicks) /\ ~c.awaited
  BY DEF TalkInv, CallsInv, CallInv, Kept
<1>6. \A c \in Interpretations(resultCalls) : CallInv(c, talk', dataview'.clicks) /\ ~c.awaited
  BY <1>1, <1>2, <1>5, CallStays
<1> DEFINE new == RR!CallOf(f, mode, q)
<1>7. new = [kind |-> "interpret", of |-> f, mode |-> mode, question |-> q, awaited |-> TRUE, read |-> NoFile, stage |-> "sent"]
  BY DEF RR!CallOf
<1>8. CallInv(new, talk', dataview'.clicks)
  BY <1>1, <1>2, <1>7 DEF CallInv
<1> HIDE DEF new
<1>9. Interpretations(resultCalls') = Interpretations(resultCalls) \cup {new}  BY DEF new
<1>10. CallsInv(resultCalls', talk', dataview'.clicks)
  <2>1. \A c \in Interpretations(resultCalls') : CallInv(c, talk', dataview'.clicks)  BY <1>6, <1>8, <1>9
  <2>2. \A c, d \in Interpretations(resultCalls') : c.awaited /\ d.awaited => c = d  BY <1>6, <1>9
  <2> QED BY <2>1, <2>2 DEF CallsInv
<1> QED BY <1>3, <1>4, <1>10 DEF TalkInv

\* What is put into the preview.
LEMMA ChartedIs ==
  ASSUME NEW v, DOMAIN v = ViewFields, NEW before
  PROVE  LET w == RR!Charted(v, before)
         IN  DOMAIN w = ViewFields /\ w.path = v.path /\ w.input = v.input /\ w.clicks = v.clicks
  BY DEF RR!Charted, ViewFields

LEMMA PreviewedIs ==
  ASSUME NEW v, DOMAIN v = ViewFields, NEW f, NEW status
  PROVE  LET w == RR!Previewed(v, f, status)
         IN  DOMAIN w = ViewFields /\ w.path = f /\ w.input \in {v.input, NoFile} /\ w.clicks = v.clicks
<1> DEFINE other == IF v.path = f THEN v
                    ELSE [v EXCEPT !.extra = <<>>, !.tableOf = f, !.ai = FALSE, !.input = NoFile, !.notes = NoFile]
           w == [other EXCEPT !.path = f, !.status = status]
           x == IF RR!Shows(w) /\ RR!Recommended(w).y = <<>> THEN [w EXCEPT !.mode = "table"] ELSE w
           scanned == [x EXCEPT !.scan = RR!ScanOf(x)]
<1>1. DOMAIN other = ViewFields /\ other.input \in {v.input, NoFile} /\ other.clicks = v.clicks
  BY DEF ViewFields
<1> HIDE DEF other
<1>2. DOMAIN w = ViewFields /\ w.path = f /\ w.input = other.input /\ w.clicks = other.clicks
  BY <1>1 DEF ViewFields
<1> HIDE DEF w
<1>3. DOMAIN x = ViewFields /\ x.path = f /\ x.input = w.input /\ x.clicks = w.clicks
  BY <1>2 DEF ViewFields
<1> HIDE DEF x
<1>4. DOMAIN scanned = ViewFields /\ scanned.path = f /\ scanned.input = x.input /\ scanned.clicks = x.clicks
  BY <1>3 DEF ViewFields
<1> HIDE DEF scanned
<1>5. RR!Previewed(v, f, status) = IF v.path = f /\ v.status = status THEN v ELSE RR!Charted(scanned, v)
  BY DEF RR!Previewed, other, w, x, scanned
<1> QED BY <1>1, <1>2, <1>3, <1>4, <1>5, ChartedIs

LEMMA ClickedIs ==
  ASSUME NEW v, DOMAIN v = ViewFields, v.clicks \in Nat
  PROVE  LET w == RR!Clicked(v)
         IN  DOMAIN w = ViewFields /\ w.path = v.path /\ w.input = v.input /\ w.clicks = v.clicks + 1
  BY DEF RR!Clicked, ViewFields

-----------------------------------------------------------------------------
\* An interpretation that is answered leaves; what the dialog makes of it asks
\* nothing.
LEMMA AnsweredStep ==
  ASSUME TalkInv, NEW call \in resultCalls, call.kind = "interpret", NEW ok, NEW messages,
         RR!Answered(call, ok, messages), resultCalls' = resultCalls \ {call},
         StoreInv(memory', talk, dataview.clicks)
  PROVE  TalkInv'
<1>1. call \in Interpretations(resultCalls) /\ Interpretations(resultCalls') = Interpretations(resultCalls) \ {call}
  BY DEF Interpretations
<1>2. dataview.clicks \in Nat /\ talk.asked \in Nat /\ talk.since \in Nat
  BY DEF TalkInv, ViewTyped, TalkTyped
<1>3. ViewTyped(dataview') /\ dataview'.clicks = dataview.clicks
  BY DEF RR!Answered, TalkInv, ViewTyped, ViewFields
<1>4. /\ DOMAIN talk' = TalkFields /\ talk'.last = talk.last /\ talk'.asked = talk.asked /\ talk'.since = talk.since
      /\ talk'.busy = IF call.awaited THEN FALSE ELSE talk.busy
  BY <1>1 DEF RR!Answered, TalkInv, TalkTyped, TalkFields
<1>5. TalkTyped(talk', dataview'.clicks)
  BY <1>3, <1>4 DEF TalkInv, TalkTyped
<1>6. StoreInv(memory', talk', dataview'.clicks)
  BY <1>2, <1>3, <1>4, StoreStays
<1>7. ASSUME NEW c \in Interpretations(resultCalls')
      PROVE  CallInv(c, talk', dataview'.clicks)
  <2>1. CallInv(c, talk, dataview.clicks) /\ (c.awaited => talk'.busy = talk.busy)
    BY <1>1, <1>4 DEF TalkInv, CallsInv
  <2> DEFINE n == dataview.clicks  u == talk'
  <2>2. n <= n /\ n \in Nat /\ u.asked \in Nat /\ u.since = talk.since  BY <1>2, <1>4
  <2>3. u.last = "ask" => (talk.last = "ask" /\ u.asked = talk.asked) \/ u.asked >= n  BY <1>4
  <2>4. c.awaited => u.busy = talk.busy /\ u.last = talk.last /\ u.asked = talk.asked  BY <1>4, <2>1
  <2> HIDE DEF n, u
  <2>5. CallInv(c, u, n)
    BY <1>2, <2>1, <2>2, <2>3, <2>4, CallStays DEF n
  <2> QED BY <1>3, <2>5 DEF n, u
<1>8. CallsInv(resultCalls', talk', dataview'.clicks)
  BY <1>1, <1>7 DEF TalkInv, CallsInv
<1> QED BY <1>3, <1>5, <1>6, <1>8 DEF TalkInv

\* A question of the dialog goes after what was read for it.
LEMMA ContinuedIsOrderly ==
  ASSUME RR!ResultReviewAssumption, NEW c, NEW t, NEW n \in Nat, TalkTyped(t, n), CallInv(c, t, n), c.stage = "thinking"
  PROVE  Orderly(RR!Continued(c), t, n)
<1> DEFINE longer == Append(c.read, c.question)
           from == RR!Max({1, Len(longer) - MaxTalk + 1})
<1>1. CASE c.mode # "ask"
  <2>1. RR!Continued(c) = <<>>  BY <1>1 DEF RR!Continued
  <2> QED BY <2>1 DEF Orderly
<1>2. CASE c.mode = "ask"
  <2>1. Orderly(c.read, t, n) /\ c.question \in Nat /\ c.question <= n
    BY <1>2 DEF CallInv, TalkTyped
  <2>2. c.question > t.since => t.last = "ask" /\ c.question = t.asked
    BY <1>2 DEF CallInv, TalkTyped
  <2>3. /\ longer \in Seq(Nat) /\ Len(longer) = Len(c.read) + 1 /\ longer[Len(longer)] = c.question
        /\ \A i \in DOMAIN longer : i # Len(longer) => i \in DOMAIN c.read /\ longer[i] = c.read[i]
    BY <2>1 DEF Orderly
  <2> HIDE DEF longer
  <2>4. Orderly(longer, t, n)
    <3>1. \A i \in DOMAIN longer : longer[i] <= n /\ (longer[i] > t.since /\ t.last = "ask" => longer[i] <= t.asked)
      <4> SUFFICES ASSUME NEW i \in DOMAIN longer
                   PROVE  longer[i] <= n /\ (longer[i] > t.since /\ t.last = "ask" => longer[i] <= t.asked)
        OBVIOUS
      <4>1. CASE i # Len(longer)
        BY <2>1, <2>3, <4>1 DEF Orderly
      <4>2. CASE i = Len(longer)
        BY <2>1, <2>2, <2>3, <4>2
      <4> QED BY <4>1, <4>2
    <3>2. ASSUME NEW i \in DOMAIN longer, NEW j \in DOMAIN longer, i < j, longer[i] > t.since, longer[j] > t.since
          PROVE  longer[i] <= longer[j]
      <4>0. i \in Nat /\ j \in Nat /\ i # Len(longer) /\ i \in DOMAIN c.read /\ longer[i] = c.read[i]
        <5>1. DOMAIN longer = 1..Len(longer) /\ Len(longer) \in Nat  BY <2>3
        <5>2. i \in Nat /\ j \in Nat /\ i # Len(longer)  BY <3>2, <5>1
        <5> QED BY <2>3, <5>2
      <4>1. CASE j = Len(longer)
        BY <3>1, <3>2, <4>0, <4>1, <2>2, <2>3
      <4>2. CASE j # Len(longer)
        BY <2>1, <2>3, <3>2, <4>0, <4>2 DEF Orderly
      <4> QED BY <4>1, <4>2
    <3> QED BY <2>3, <3>1, <3>2 DEF Orderly
  <2>5. from \in 1..Len(longer) + 1
    <3> DEFINE both == {1, Len(longer) - MaxTalk + 1}
    <3>1. Len(longer) \in Nat /\ MaxTalk \in Nat
      BY <2>3 DEF RR!ResultReviewAssumption
    <3>2. \E x \in both : \A y \in both : x >= y
      <4>1. CASE Len(longer) - MaxTalk + 1 >= 1  BY <3>1, <4>1
      <4>2. CASE ~(Len(longer) - MaxTalk + 1 >= 1)  BY <3>1, <4>2
      <4> QED BY <4>1, <4>2
    <3>3. from \in both /\ \A y \in both : from >= y
      BY <3>2 DEF RR!Max
    <3>4. from = 1 \/ from = Len(longer) - MaxTalk + 1
      BY <3>3
    <3>5. from >= 1
      BY <3>3
    <3> HIDE DEF from
    <3> QED BY <3>1, <3>4, <3>5
  <2> HIDE DEF from
  <2> DEFINE s == SubSeq(longer, from, Len(longer))
  <2>6. Len(longer) \in 0..Len(longer)  BY <2>3
  <2>7. s \in Seq(Nat) /\ \A i \in DOMAIN s : i + from - 1 \in DOMAIN longer /\ s[i] = longer[i + from - 1]
    <3>1. /\ s \in Seq(Nat) /\ Len(s) = (IF from <= Len(longer) THEN Len(longer) - from + 1 ELSE 0)
          /\ \A i \in 1..Len(longer) - from + 1 : s[i] = longer[from + i - 1]
      <4>1. Len(longer) \in Nat /\ from \in Int /\ from >= 1 /\ \A i \in 1..Len(longer) : longer[i] \in Nat
        BY <2>3, <2>5
      <4>2. \A i \in from..Len(longer) : longer[i] \in Nat
        BY <4>1
      <4>3. Len(longer) \in Int
        BY <4>1
      <4> QED BY <4>1, <4>2, <4>3, SubSeqProperties
    <3> HIDE DEF s
    <3>2. from \in Nat /\ Len(longer) \in Nat /\ DOMAIN longer = 1..Len(longer) /\ from >= 1
      BY <2>3, <2>5
    <3>3. DOMAIN s \subseteq 1..Len(longer) - from + 1
      BY <3>1, <3>2
    <3>4. ASSUME NEW i \in 1..Len(longer) - from + 1
          PROVE  i + from - 1 \in 1..Len(longer) /\ from + i - 1 = i + from - 1
      BY <3>2
    <3> QED BY <3>1, <3>2, <3>3, <3>4
  <2> HIDE DEF s
  <2>8. Orderly(s, t, n)
    <3>1. \A i \in DOMAIN s : i \in Nat /\ s[i] <= n /\ (s[i] > t.since /\ t.last = "ask" => s[i] <= t.asked)
      BY <2>4, <2>7 DEF Orderly
    <3>2. ASSUME NEW i \in DOMAIN s, NEW j \in DOMAIN s, i < j, s[i] > t.since, s[j] > t.since
          PROVE  s[i] <= s[j]
      <4>1. i + from - 1 < j + from - 1  BY <2>5, <3>1, <3>2
      <4> QED BY <2>4, <2>7, <3>2, <4>1 DEF Orderly
    <3> QED BY <2>7, <3>1, <3>2 DEF Orderly
  <2>9. RR!Continued(c) = s
    BY <1>2 DEF RR!Continued, s, from, longer
  <2> QED BY <2>8, <2>9
<1> QED BY <1>1, <1>2

\* The dialog loads each summary once.
LEMMA LoadingStep ==
  ASSUME TalkInv, NEW v, v = dataview', ViewTyped(v), v.clicks >= dataview.clicks, memory' = memory,
         NEW calls, Interpretations(calls) = Interpretations(resultCalls), \A c \in calls : c.of \in RR!Files,
         RR!Loading(v, calls)
  PROVE  TalkInv'
<1> DEFINE t == [talk EXCEPT !.loaded = v.input, !.of = NoFile, !.answered = <<>>, !.pending = FALSE, !.failed = FALSE]
<1>1. Kept(t) /\ Kept(talk)
  BY DEF TalkInv, TalkTyped, Kept, TalkFields
<1>2. \/ (talk' = talk \/ talk' = t) /\ resultCalls' = calls
      \/ /\ v.input # NoFile /\ ~t.busy /\ talk' = RR!Requested(t, "load", 0)
         /\ resultCalls' = calls \union {RR!CallOf(v.input, "load", 0)}
  BY DEF RR!Loading
<1> HIDE DEF t
<1>3. CASE (talk' = talk \/ talk' = t) /\ resultCalls' = calls
  <2>1. Kept(talk')  BY <1>1, <1>3
  <2> QED BY <1>3, <2>1, PreviewSteps
<1>4. CASE /\ v.input # NoFile /\ ~t.busy /\ talk' = RR!Requested(t, "load", 0)
           /\ resultCalls' = calls \union {RR!CallOf(v.input, "load", 0)}
  <2>1. v.input \in RR!Files  BY <1>4 DEF ViewTyped
  <2>2. "load" \in Modes /\ 0 \in Nat /\ 0 <= dataview'.clicks  BY DEF Modes, ViewTyped
  <2> DEFINE new == RR!CallOf(v.input, "load", 0)
  <2>3. new.kind = "interpret" /\ new.of = v.input  BY DEF RR!CallOf
  <2> HIDE DEF new
  <2>4. Interpretations(resultCalls') = Interpretations(resultCalls) \union {new} /\ \A c \in resultCalls' : c.of \in RR!Files
    BY <1>4, <2>1, <2>3 DEF Interpretations, new
  <2> QED BY <1>1, <1>4, <2>1, <2>2, <2>4, RequestStep DEF new
<1> QED BY <1>2, <1>3, <1>4

\* The dialog asks, or does not.
LEMMA AskingStep ==
  ASSUME TalkInv, dataview' = RR!Clicked(dataview), memory' = memory, NEW u, Kept(u),
         NEW mode \in Modes, NEW q \in Nat, q <= dataview'.clicks,
         mode = "ask" => (talk.last = "ask" /\ q = talk.asked) \/ q >= dataview.clicks,
         RR!Request(u, dataview, mode, q)
  PROVE  TalkInv'
<1>1. ViewTyped(dataview') /\ dataview'.clicks >= dataview.clicks
  <2>1. DOMAIN dataview = ViewFields /\ dataview.clicks \in Nat  BY DEF TalkInv, ViewTyped
  <2>2. DOMAIN dataview' = ViewFields /\ dataview'.path = dataview.path /\ dataview'.input = dataview.input /\ dataview'.clicks = dataview.clicks + 1
    BY <2>1, ClickedIs
  <2> QED BY <2>1, <2>2 DEF TalkInv, ViewTyped
<1>0. \A c \in resultCalls : c.of \in RR!Files  BY DEF TalkInv, CallsInv
<1>2. CASE u.busy \/ dataview.input = NoFile
  <2>1. talk' = u /\ resultCalls' = resultCalls  BY <1>2 DEF RR!Request
  <2> QED BY <1>0, <1>1, <2>1, PreviewSteps
<1>3. CASE ~(u.busy \/ dataview.input = NoFile)
  <2> DEFINE f == dataview.input  new == RR!CallOf(f, mode, q)
  <2>1. talk' = RR!Requested(u, mode, q) /\ resultCalls' = resultCalls \union {new}  BY <1>3 DEF RR!Request
  <2>2. f \in RR!Files  BY <1>3 DEF TalkInv, ViewTyped
  <2>3. new.kind = "interpret" /\ new.of = f  BY DEF RR!CallOf
  <2> HIDE DEF new
  <2>4. Interpretations(resultCalls') = Interpretations(resultCalls) \union {new} /\ \A c \in resultCalls' : c.of \in RR!Files
    BY <1>0, <2>1, <2>2, <2>3 DEF Interpretations
  <2> HIDE DEF f
  <2> QED BY <1>1, <1>3, <2>1, <2>2, <2>4, RequestStep DEF new
<1> QED BY <1>2, <1>3

-----------------------------------------------------------------------------
LEMMA TalkInit ==
  ASSUME RR!ResultReviewAssumption, RR!Init
  PROVE  TalkInv
<1>1. ViewTyped(dataview)
  BY DEF RR!Init, RR!Unopened, ViewTyped, ViewFields
<1>2. dataview.clicks = 0 /\ TalkTyped(talk, 0)
  BY DEF RR!Init, RR!Unopened, RR!FreshTalk, TalkTyped, TalkFields, Modes
<1>3. StoreInv(memory, talk, dataview.clicks) /\ CallsInv(resultCalls, talk, dataview.clicks)
  BY DEF RR!Init, StoreInv, CallsInv, Interpretations
<1> QED BY <1>1, <1>2, <1>3 DEF TalkInv

\* The preview's own steps: nothing is asked and nothing answered.
LEMMA PreviewNext ==
  ASSUME RR!ResultReviewAssumption, TalkInv,
         \/ \E f \in RR!Files : RR!OpenPreview(f) \/ RR!AddDataset(f) \/ RR!RemoveDataset(f) \/ RR!SelectTable(f)
         \/ \E call \in resultCalls : \E status \in {"content", "error"} : RR!PreviewArrives(call, status)
         \/ RR!CloseAI
         \/ \E k \in dataview.scan.reading, ok \in BOOLEAN : RR!CandidateRead(k, ok)
         \/ \E mode \in {"chart", "table"} : RR!SetView(mode)
         \/ \E name : RR!ToggleSeries(name) \/ RR!SetAxis(name)
  PROVE  TalkInv'
<1>0. /\ DOMAIN dataview = ViewFields /\ {dataview.path, dataview.input} \subseteq RR!Files \cup {NoFile} /\ dataview.clicks \in Nat
      /\ Kept(talk) /\ \A c \in resultCalls : c.of \in RR!Files
  BY DEF TalkInv, ViewTyped, TalkTyped, CallsInv, Kept
\* What a step may put into the preview.
<1> DEFINE Same(v) == /\ DOMAIN v = ViewFields /\ v.path = dataview.path /\ v.input = dataview.input /\ v.clicks = dataview.clicks
<1>1. ASSUME NEW v, Same(v), dataview' = v \/ dataview' = RR!Clicked(v), UNCHANGED <<talk, memory, resultCalls>>
      PROVE  TalkInv'
  <2>1. ViewTyped(dataview') /\ dataview'.clicks >= dataview.clicks
    BY <1>0, <1>1, ClickedIs DEF ViewTyped
  <2> QED BY <1>0, <1>1, <2>1, PreviewSteps
<1>2. ASSUME NEW f \in RR!Files, RR!OpenPreview(f)
      PROVE  TalkInv'
  <2> DEFINE v == RR!Previewed(dataview, f, "loading")
             new == [kind |-> "preview", of |-> f]
  <2>1. DOMAIN v = ViewFields /\ v.path = f /\ v.input \in {dataview.input, NoFile} /\ v.clicks = dataview.clicks
    BY <1>0, PreviewedIs
  <2>2. dataview' = RR!Clicked(v) /\ resultCalls' = resultCalls \union {new} /\ memory' = memory /\ talk' = talk
    BY <1>2 DEF RR!OpenPreview
  <2>3. new.kind = "preview" /\ new.of = f  OBVIOUS
  <2> HIDE DEF v, new
  <2>4. ViewTyped(dataview') /\ dataview'.clicks >= dataview.clicks
    BY <1>0, <2>1, <2>2, ClickedIs DEF ViewTyped
  <2>5. Interpretations(resultCalls') = Interpretations(resultCalls) /\ \A c \in resultCalls' : c.of \in RR!Files
    BY <1>0, <2>2, <2>3 DEF Interpretations
  <2> QED BY <1>0, <2>2, <2>4, <2>5, PreviewSteps
<1>3. ASSUME NEW call \in resultCalls, NEW status, RR!PreviewArrives(call, status)
      PROVE  TalkInv'
  <2> DEFINE v == RR!Previewed(dataview, call.of, status)
  <2>1. DOMAIN v = ViewFields /\ v.path = call.of /\ v.input \in {dataview.input, NoFile} /\ v.clicks = dataview.clicks
    BY <1>0, PreviewedIs
  <2>2. dataview' = v /\ resultCalls' = resultCalls \ {call} /\ call.kind = "preview" /\ memory' = memory /\ talk' = talk
    BY <1>3 DEF RR!PreviewArrives
  <2> HIDE DEF v
  <2>4. ViewTyped(dataview') /\ dataview'.clicks >= dataview.clicks
    BY <1>0, <2>1, <2>2 DEF ViewTyped
  <2>5. Interpretations(resultCalls') = Interpretations(resultCalls) /\ \A c \in resultCalls' : c.of \in RR!Files
    BY <1>0, <2>2 DEF Interpretations
  <2> QED BY <1>0, <2>2, <2>4, <2>5, PreviewSteps
\* A change of the chart.
<1>4. ASSUME NEW w, DOMAIN w = ViewFields, w.path = dataview.path, w.input = dataview.input, w.clicks = dataview.clicks, NEW before
      PROVE  Same(RR!Charted(w, before))
  BY <1>4, ChartedIs
<1>5. ASSUME NEW f, RR!AddDataset(f)
      PROVE  TalkInv'
  <2> DEFINE w == [dataview EXCEPT !.extra = Append(@, f)]
  <2>1. DOMAIN w = ViewFields /\ w.path = dataview.path /\ w.input = dataview.input /\ w.clicks = dataview.clicks
    BY <1>0 DEF ViewFields
  <2>2. dataview' = RR!Clicked(RR!Charted(w, dataview)) /\ UNCHANGED <<talk, memory, resultCalls>>
    BY <1>5 DEF RR!AddDataset
  <2> HIDE DEF w
  <2>3. Same(RR!Charted(w, dataview))  BY <1>4, <2>1
  <2> HIDE DEF Same
  <2> QED BY <1>1, <2>2, <2>3
<1>6. ASSUME NEW f, RR!RemoveDataset(f)
      PROVE  TalkInv'
  <2> DEFINE w == [dataview EXCEPT !.extra = RR!Remove(@, f), !.tableOf = IF @ = f THEN dataview.path ELSE @]
  <2>1. DOMAIN w = ViewFields /\ w.path = dataview.path /\ w.input = dataview.input /\ w.clicks = dataview.clicks
    BY <1>0 DEF ViewFields
  <2>2. dataview' = RR!Clicked(RR!Charted(w, dataview)) /\ UNCHANGED <<talk, memory, resultCalls>>
    BY <1>6 DEF RR!RemoveDataset
  <2> HIDE DEF w
  <2>3. Same(RR!Charted(w, dataview))  BY <1>4, <2>1
  <2> HIDE DEF Same
  <2> QED BY <1>1, <2>2, <2>3
<1>7. ASSUME NEW f, RR!SelectTable(f)
      PROVE  TalkInv'
  <2> DEFINE w == [dataview EXCEPT !.tableOf = f]
  <2>1. Same(w)  BY <1>0 DEF ViewFields
  <2>2. dataview' = RR!Clicked(w) /\ UNCHANGED <<talk, memory, resultCalls>>
    BY <1>7 DEF RR!SelectTable
  <2> HIDE DEF w, Same
  <2> QED BY <1>1, <2>1, <2>2
<1>8. ASSUME RR!CloseAI
      PROVE  TalkInv'
  <2> DEFINE w == [dataview EXCEPT !.ai = FALSE]
  <2>1. Same(w)  BY <1>0 DEF ViewFields
  <2>2. dataview' = w /\ UNCHANGED <<talk, memory, resultCalls>>
    BY <1>8 DEF RR!CloseAI
  <2> HIDE DEF w, Same
  <2> QED BY <1>1, <2>1, <2>2
<1>9. ASSUME NEW k, NEW ok, RR!CandidateRead(k, ok)
      PROVE  TalkInv'
  <2>0. PICK scan : dataview' = [dataview EXCEPT !.scan = scan]
    BY <1>9 DEF RR!CandidateRead
  <2> DEFINE w == [dataview EXCEPT !.scan = scan]
  <2>1. Same(w)  BY <1>0 DEF ViewFields
  <2>2. dataview' = w /\ UNCHANGED <<talk, memory, resultCalls>>
    BY <1>9, <2>0 DEF RR!CandidateRead
  <2> HIDE DEF w, Same
  <2> QED BY <1>1, <2>1, <2>2
<1>10. ASSUME NEW mode, RR!SetView(mode)
       PROVE  TalkInv'
  <2> DEFINE w == [dataview EXCEPT !.mode = mode]
  <2>1. DOMAIN w = ViewFields /\ w.path = dataview.path /\ w.input = dataview.input /\ w.clicks = dataview.clicks
    BY <1>0 DEF ViewFields
  <2>2. dataview' = RR!Clicked(RR!Charted(w, dataview)) /\ UNCHANGED <<talk, memory, resultCalls>>
    BY <1>10 DEF RR!SetView
  <2> HIDE DEF w
  <2>3. Same(RR!Charted(w, dataview))  BY <1>4, <2>1
  <2> HIDE DEF Same
  <2> QED BY <1>1, <2>2, <2>3
<1>11. ASSUME NEW name, RR!ToggleSeries(name)
       PROVE  TalkInv'
  <2>0. PICK toggled : dataview' = RR!Clicked([dataview EXCEPT !.chart.y = toggled]) /\ UNCHANGED <<talk, memory, resultCalls>>
    BY <1>11 DEF RR!ToggleSeries
  <2> DEFINE w == [dataview EXCEPT !.chart.y = toggled]
  <2>1. Same(w)  BY <1>0 DEF ViewFields
  <2> HIDE DEF Same
  <2> QED BY <1>1, <2>0, <2>1
<1>12. ASSUME NEW name, RR!SetAxis(name)
       PROVE  TalkInv'
  <2> DEFINE w == [dataview EXCEPT !.chart.x = name]
  <2>1. DOMAIN w = ViewFields /\ w.path = dataview.path /\ w.input = dataview.input /\ w.clicks = dataview.clicks
    BY <1>0 DEF ViewFields
  <2>2. dataview' = RR!Clicked(RR!Charted(w, w)) /\ UNCHANGED <<talk, memory, resultCalls>>
    BY <1>12 DEF RR!SetAxis
  <2> HIDE DEF w
  <2>3. Same(RR!Charted(w, w))  BY <1>4, <2>1
  <2> HIDE DEF Same
  <2> QED BY <1>1, <2>2, <2>3
<1> QED BY <1>2, <1>3, <1>5, <1>6, <1>7, <1>8, <1>9, <1>10, <1>11, <1>12

\* The preview is closed: what is out is awaited no more.
LEMMA ClosingStep ==
  ASSUME TalkInv, RR!ClosePreview
  PROVE  TalkInv'
<1> DEFINE n == dataview.clicks  Deaf(c) == [c EXCEPT !.awaited = FALSE]
<1>1. n \in Nat /\ TalkTyped(talk, n) /\ CallsInv(resultCalls, talk, n) /\ StoreInv(memory, talk, n)
  BY DEF TalkInv, ViewTyped
<1>2. ViewTyped(dataview') /\ dataview'.clicks = n
  BY <1>1 DEF RR!ClosePreview, RR!Unopened, ViewTyped, ViewFields
<1>3. DOMAIN talk' = TalkFields /\ talk'.busy = FALSE /\ talk'.last = "load" /\ talk'.asked = 0 /\ talk'.since = n
  BY DEF RR!ClosePreview, RR!FreshTalk, TalkFields
<1>4. memory' = memory /\ resultCalls' = {c \in resultCalls : c.kind = "preview"} \union {Deaf(c) : c \in Interpretations(resultCalls)}
  BY DEF RR!ClosePreview, Interpretations
<1> HIDE DEF n
<1>5. TalkTyped(talk', n)
  <2>1. 0 <= n /\ n <= n /\ 0 \in Nat  BY <1>1
  <2>2. talk'.busy \in BOOLEAN /\ talk'.last \in Modes  BY <1>3 DEF Modes
  <2> QED BY <1>1, <1>3, <2>1, <2>2 DEF TalkTyped
<1>6. ASSUME NEW s, Orderly(s, talk, n)
      PROVE  Orderly(s, talk', n)
  <2>1. s \in Seq(Nat) /\ \A i \in DOMAIN s : s[i] \in Nat /\ s[i] <= n /\ ~(s[i] > n)
    BY <1>1, <1>6 DEF Orderly
  <2> QED BY <1>3, <2>1 DEF Orderly
<1>7. StoreInv(memory', talk', n)
  BY <1>1, <1>4, <1>6 DEF StoreInv
<1>8. ASSUME NEW c \in Interpretations(resultCalls)
      PROVE  CallInv(Deaf(c), talk', n) /\ Deaf(c).of = c.of /\ Deaf(c).kind = "interpret" /\ ~Deaf(c).awaited
  <2>1. CallInv(c, talk, n) /\ c.kind = "interpret"
    BY <1>1 DEF CallsInv, Interpretations
  <2>2. c.question <= n
    BY <1>1, <2>1 DEF CallInv, TalkTyped
  <2> DEFINE d == Deaf(c)
  <2>3. /\ DOMAIN d = DOMAIN c /\ d.kind = c.kind /\ d.of = c.of /\ d.mode = c.mode /\ d.question = c.question
        /\ d.awaited = FALSE /\ d.read = c.read /\ d.stage = c.stage
    BY <2>1 DEF CallInv
  <2> HIDE DEF d
  <2>4. CallInv(d, talk', n)
    BY <1>3, <1>6, <2>1, <2>2, <2>3 DEF CallInv
  <2>5. d.of = c.of /\ d.kind = "interpret" /\ ~d.awaited  BY <2>1, <2>3
  <2> QED BY <2>4, <2>5 DEF d
<1> HIDE DEF Deaf
<1>9. Interpretations(resultCalls') = {Deaf(c) : c \in Interpretations(resultCalls)}
  BY <1>4, <1>8 DEF Interpretations
<1>10. \A c \in resultCalls' : c.of \in RR!Files
  BY <1>1, <1>4, <1>8 DEF CallsInv, Interpretations
<1>11. CallsInv(resultCalls', talk', n)
  BY <1>8, <1>9, <1>10 DEF CallsInv
<1> QED BY <1>2, <1>5, <1>7, <1>11 DEF TalkInv

\* The dialog is opened, or its summary is ready: it may load.
LEMMA OpeningStep ==
  ASSUME TalkInv, RR!OpenAI \/ \E call \in resultCalls : RR!Fingerprinted(call)
  PROVE  TalkInv'
<1>0. /\ DOMAIN dataview = ViewFields /\ {dataview.path, dataview.input} \subseteq RR!Files \cup {NoFile} /\ dataview.clicks \in Nat
      /\ \A c \in resultCalls : c.of \in RR!Files
  BY DEF TalkInv, ViewTyped, CallsInv
<1>1. CASE RR!OpenAI
  <2> DEFINE w == [dataview EXCEPT !.ai = TRUE, !.preparing = @ \/ dataview.input = NoFile]
             v == RR!Clicked(w)
             new == [kind |-> "fingerprint", of |-> dataview.path]
             calls == resultCalls \union (IF v.preparing THEN {new} ELSE {})
  <2>1. DOMAIN w = ViewFields /\ w.path = dataview.path /\ w.input = dataview.input /\ w.clicks = dataview.clicks
    BY <1>0 DEF ViewFields
  <2>2. v = dataview' /\ dataview.path # NoFile /\ memory' = memory /\ RR!Loading(v, calls)
    BY <1>1 DEF RR!OpenAI, RR!Shows
  <2>3. new.kind = "fingerprint" /\ new.of = dataview.path  OBVIOUS
  <2> HIDE DEF w, new
  <2>4. ViewTyped(v) /\ v.clicks >= dataview.clicks
    BY <1>0, <2>1, ClickedIs DEF ViewTyped
  <2> HIDE DEF v
  <2>5. Interpretations(calls) = Interpretations(resultCalls) /\ \A c \in calls : c.of \in RR!Files
    BY <1>0, <2>2, <2>3 DEF Interpretations
  <2> HIDE DEF calls
  <2> QED BY <2>2, <2>4, <2>5, LoadingStep
<1>2. ASSUME NEW call \in resultCalls, RR!Fingerprinted(call)
      PROVE  TalkInv'
  <2> DEFINE v == [dataview EXCEPT !.preparing = FALSE, !.input = call.of]
             calls == resultCalls \ {call}
  <2>1. DOMAIN v = ViewFields /\ v.path = dataview.path /\ v.input = call.of /\ v.clicks = dataview.clicks
    BY <1>0 DEF ViewFields
  <2>2. v = dataview' /\ call.kind = "fingerprint" /\ memory' = memory /\ RR!Loading(v, calls)
    BY <1>2 DEF RR!Fingerprinted
  <2> HIDE DEF v
  <2>4. ViewTyped(v) /\ v.clicks >= dataview.clicks
    BY <1>0, <2>1 DEF ViewTyped
  <2>5. Interpretations(calls) = Interpretations(resultCalls) /\ \A c \in calls : c.of \in RR!Files
    BY <1>0, <2>2 DEF Interpretations
  <2> HIDE DEF calls
  <2> QED BY <2>2, <2>4, <2>5, LoadingStep
<1> QED BY <1>1, <1>2

\* What the user asks of the dialog.
LEMMA AskingNext ==
  ASSUME TalkInv, RR!Submit \/ RR!RetryRequest \/ \E mode : RR!StartAgain(mode)
  PROVE  TalkInv'
<1>0. /\ dataview.clicks \in Nat /\ DOMAIN dataview = ViewFields /\ DOMAIN talk = TalkFields
      /\ talk.last \in Modes /\ talk.asked \in Nat /\ talk.asked <= dataview.clicks
  BY DEF TalkInv, ViewTyped, TalkTyped
<1> DEFINE n == RR!Clicked(dataview).clicks
<1>1. n = dataview.clicks + 1  BY <1>0, ClickedIs
<1> HIDE DEF n
<1>2. CASE RR!Submit
  <2> DEFINE u == [talk EXCEPT !.pending = TRUE]
  <2>1. Kept(u)  BY <1>0 DEF Kept, TalkFields
  <2>2. dataview' = RR!Clicked(dataview) /\ memory' = memory /\ RR!Request(u, dataview, "ask", n)
    BY <1>2 DEF RR!Submit, n
  <2> HIDE DEF u
  <2>3. "ask" \in Modes /\ n \in Nat /\ n <= dataview'.clicks /\ n >= dataview.clicks
    BY <1>0, <1>1, <2>2 DEF Modes, n
  <2> QED BY <2>1, <2>2, <2>3, AskingStep
<1>3. CASE RR!RetryRequest
  <2>1. Kept(talk)  BY <1>0 DEF Kept
  <2>2. dataview' = RR!Clicked(dataview) /\ memory' = memory /\ RR!Request(talk, dataview, talk.last, talk.asked)
    BY <1>3 DEF RR!RetryRequest
  <2>3. talk.asked <= dataview'.clicks
    BY <1>0, <2>2, ClickedIs
  <2> QED BY <1>0, <2>1, <2>2, <2>3, AskingStep
<1>4. ASSUME NEW mode, RR!StartAgain(mode)
      PROVE  TalkInv'
  <2> DEFINE u == [talk EXCEPT !.pending = FALSE]
  <2>1. Kept(u)  BY <1>0 DEF Kept, TalkFields
  <2>2. /\ dataview' = RR!Clicked(dataview) /\ memory' = memory /\ RR!Request(u, dataview, mode, 0)
        /\ mode \in {"regenerate", "clear"}
    BY <1>4 DEF RR!StartAgain
  <2> HIDE DEF u
  <2>3. mode \in Modes /\ mode # "ask" /\ 0 \in Nat  BY <2>2 DEF Modes
  <2>4. 0 <= dataview'.clicks  BY <1>0, <2>2, ClickedIs
  <2> QED BY <2>1, <2>2, <2>3, <2>4, AskingStep
<1> QED BY <1>2, <1>3, <1>4

\* The server's steps.
LEMMA ServerNext ==
  ASSUME RR!ResultReviewAssumption, TalkInv, NEW call \in resultCalls,
         RR!ServerTakes(call) \/ \E ok, heard \in BOOLEAN : RR!ModelAnswers(call, ok, heard)
  PROVE  TalkInv'
<1> DEFINE stored == memory[call.of]  n == dataview.clicks
<1>1. call.kind = "interpret" /\ call \in Interpretations(resultCalls)
  BY DEF RR!ServerTakes, RR!ModelAnswers, Interpretations
<1>2. /\ n \in Nat /\ StoreInv(memory, talk, n) /\ TalkTyped(talk, n) /\ ViewTyped(dataview)
      /\ CallsInv(resultCalls, talk, n) /\ CallInv(call, talk, n) /\ call.of \in RR!Files
  BY <1>1 DEF TalkInv, ViewTyped, CallsInv
<1> DEFINE Put(s) == [memory EXCEPT ![call.of] = s]
<1>3. ASSUME NEW s, Orderly(s, talk, n)
      PROVE  StoreInv(Put(s), talk, n)
  BY <1>2, <1>3 DEF StoreInv, Orderly
<1>4. ASSUME NEW ok, NEW heard, RR!ModelAnswers(call, ok, heard)
      PROVE  TalkInv'
  <2>1. /\ call.stage = "thinking" /\ resultCalls' = resultCalls \ {call}
        /\ RR!Answered(call, ok /\ heard, IF ok THEN RR!Continued(call) ELSE <<>>)
        /\ memory' = IF ok THEN Put(RR!Continued(call)) ELSE memory
    BY <1>4 DEF RR!ModelAnswers
  <2>2. Orderly(RR!Continued(call), talk, n)
    BY <1>2, <2>1, ContinuedIsOrderly
  <2>3. StoreInv(memory', talk, n)
    BY <1>2, <1>3, <2>1, <2>2
  <2> QED BY <1>1, <2>1, <2>3, AnsweredStep
<1>5. CASE RR!ServerTakes(call)
  <2> DEFINE AtOnce(ok, messages) == RR!Answered(call, ok, messages) /\ resultCalls' = resultCalls \ {call}
             taken == [call EXCEPT !.stage = "thinking", !.read = stored]
  <2>1. \/ AtOnce(TRUE, <<>>) /\ memory' = Put(<<>>)
        \/ AtOnce(TRUE, stored) /\ memory' = memory
        \/ AtOnce(FALSE, <<>>) /\ memory' = memory
        \/ /\ ~(call.mode \in {"ask", "clear"} /\ stored = NoFile)
           /\ resultCalls' = (resultCalls \ {call}) \union {taken} /\ UNCHANGED <<dataview, talk, memory>>
    BY <1>5 DEF RR!ServerTakes
  <2>2. CASE AtOnce(TRUE, <<>>) /\ memory' = Put(<<>>)
    <3>1. Orderly(<<>>, talk, n)  BY DEF Orderly
    <3>2. StoreInv(memory', talk, n)  BY <1>3, <2>2, <3>1
    <3> QED BY <1>1, <2>2, <3>2, AnsweredStep
  <2>3. CASE AtOnce(TRUE, stored) /\ memory' = memory
    BY <1>1, <1>2, <2>3, AnsweredStep
  <2>4. CASE AtOnce(FALSE, <<>>) /\ memory' = memory
    BY <1>1, <1>2, <2>4, AnsweredStep
  <2>5. CASE /\ ~(call.mode \in {"ask", "clear"} /\ stored = NoFile)
             /\ resultCalls' = (resultCalls \ {call}) \union {taken} /\ UNCHANGED <<dataview, talk, memory>>
    <3>1. /\ DOMAIN taken = DOMAIN call /\ taken.kind = call.kind /\ taken.of = call.of /\ taken.mode = call.mode
          /\ taken.question = call.question /\ taken.awaited = call.awaited /\ taken.read = stored
      BY <1>2 DEF CallInv
    <3> HIDE DEF taken
    <3>2. call.mode = "ask" => Orderly(stored, talk, n)
      BY <1>2, <2>5 DEF StoreInv
    <3>3. CallInv(taken, talk, n)
      BY <1>2, <3>1, <3>2 DEF CallInv
    <3>4. Interpretations(resultCalls') = (Interpretations(resultCalls) \ {call}) \union {taken}
      BY <1>1, <2>5, <3>1 DEF Interpretations
    <3>5. \A c \in resultCalls' : c.of \in RR!Files
      BY <1>2, <2>5, <3>1 DEF CallsInv
    <3>6. CallsInv(resultCalls', talk, n)
      <4>1. \A c \in Interpretations(resultCalls') : CallInv(c, talk, n)
        BY <1>2, <3>3, <3>4 DEF CallsInv
      <4>2. \A c, d \in Interpretations(resultCalls') : c.awaited /\ d.awaited => c = d
        BY <1>1, <1>2, <3>1, <3>4 DEF CallsInv
      <4> QED BY <3>5, <4>1, <4>2 DEF CallsInv
    <3> QED BY <1>2, <2>5, <3>6 DEF TalkInv
  <2> QED BY <2>1, <2>2, <2>3, <2>4, <2>5
<1> QED BY <1>4, <1>5

LEMMA TalkNext ==
  ASSUME RR!ResultReviewAssumption, TalkInv, [RR!Next]_RR!resultVars
  PROVE  TalkInv'
<1>1. CASE UNCHANGED RR!resultVars
  BY <1>1 DEF RR!resultVars, TalkInv
<1>2. CASE RR!Next
  BY <1>2, PreviewNext, ClosingStep, OpeningStep, AskingNext, ServerNext DEF RR!Next
<1> QED BY <1>1, <1>2

LEMMA TalkAlways == RR!ResultReviewAssumption => (RR!Spec => []TalkInv)
<1> SUFFICES ASSUME RR!ResultReviewAssumption
             PROVE  RR!Spec => []TalkInv
  OBVIOUS
<1>1. RR!Init => TalkInv  BY TalkInit
<1>2. TalkInv /\ [RR!Next]_RR!resultVars => TalkInv'  BY TalkNext
<1> QED BY <1>1, <1>2, PTL DEF RR!Spec

\* A conversation about a result file holds what one dialog has asked in the
\* order it was asked, whatever is still written for dialogs that were closed.
THEOREM QuestionsStayInOrder == RR!ResultReviewAssumption => (RR!Spec => []RR!QuestionsAreInOrder)
<1> SUFFICES ASSUME RR!ResultReviewAssumption
             PROVE  RR!Spec => []RR!QuestionsAreInOrder
  OBVIOUS
<1>1. TalkInv => RR!QuestionsAreInOrder
  BY DEF TalkInv, StoreInv, Orderly, RR!QuestionsAreInOrder
<1> QED BY <1>1, TalkAlways, PTL

=============================================================================
