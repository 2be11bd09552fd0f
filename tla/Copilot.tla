------------------------------- MODULE Copilot -------------------------------
(***************************************************************************)
(* CopilotPanel: the conversation of a project, resource or Draft, with    *)
(* the streamed answers, the plans made of them, the questions they ask    *)
(* and the Draft edits they propose.  The server keeps a turn when its     *)
(* answer is complete.                                                     *)
(*                                                                         *)
(* What a patch makes of a Draft's parameters, and the changes the dialog  *)
(* lists of it, are parameters (SchemaForm has them): the conversation     *)
(* does not depend on them.                                                *)
(***************************************************************************)
EXTENDS Naturals, Sequences, FiniteSets, SequencesExt

CONSTANTS
    Scopes,           \* conversations
    DraftScopes,      \* those of Drafts
    Questions,        \* what an answer can ask
    Document, Edits,  \* a Draft's parameters, and the patches an answer can propose
    Merged(_, _),     \* applyDraftMergePatch: the parameters with a patch applied
    Changes(_, _),    \* draftParameterChanges: what a patch changes of them
    MaxTurns,         \* bound on the messages a user sends
    MaxCopilotSteps   \* bound on the user's other steps

CopilotAssumption == DraftScopes \subseteq Scopes /\ {MaxTurns, MaxCopilotSteps} \subseteq Nat

VARIABLES
    chats,      \* server: the turns kept of each conversation
    copilot,    \* the panel
    streaming,  \* the answer that is streamed: <<>> or one record
    waiting     \* sessions being loaded and plans being made

(***************************************************************************)
(* The controls of a question the agent described in part                  *)
(***************************************************************************)
InferredType(q) ==
    CASE q.type # "none" -> q.type
      [] q.options -> "select"
      [] q.default = "boolean" -> "boolean"
      [] q.default = "number" \/ q.unit \/ q.bounded -> "number"
      [] q.derives -> "boolean"
      [] q.quantity -> "number"
      [] q.confirms -> "boolean"
      [] OTHER -> "text"
\* A recommended number can be read from the question's own words.
InferredDefault(q) ==
    LET type == InferredType(q)
    IN  CASE q.default # "none" -> q.default
          [] type = "boolean" /\ q.confirms -> "boolean"
          [] type = "number" /\ q.unit /\ q.stated -> "number"
          [] OTHER -> "none"
InitialAnswer(q) ==
    IF InferredDefault(q) # "none" THEN InferredDefault(q)
    ELSE IF InferredType(q) = "boolean" THEN "boolean" ELSE "empty"
\* A number that cannot be read is sent as no number.
Serialized(q, v) == IF InferredType(q) = "number" /\ v # "empty" /\ v # "number" THEN "nan" ELSE v
Answered(q, v) == q.required => Serialized(q, v) # "empty"

NoTurn == <<>>
NoPatch == <<>>
NoQuestion == [turn |-> NoTurn, question |-> <<>>, answer |-> "empty"]
Init ==
    /\ chats = [s \in Scopes |-> <<>>] /\ streaming = <<>>
    /\ \E s \in Scopes :
         /\ copilot = [scope |-> s, msgs |-> <<>>, typed |-> FALSE, busy |-> FALSE, loading |-> TRUE,
                       converting |-> 0, asking |-> NoQuestion, update |-> 0, patch |-> NoPatch, draft |-> Document,
                       open |-> TRUE, left |-> FALSE, turns |-> 0, steps |-> 0]
         /\ waiting = {[kind |-> "load", scope |-> s, seen |-> <<>>, index |-> 0, n |-> 0]}

Actions == {"none", "plan", "ask", "draft"}
TypeOK ==
    /\ \A s \in Scopes, m \in UNION {ToSet(chats[t]) : t \in Scopes} : m.action \in Actions
    /\ \A m \in ToSet(copilot.msgs) : m.by \in {"user", "ai"} /\ m.action \in Actions
                                      /\ m.conversion \in {"none", "failed", "done"}
    /\ \A w \in waiting : w.kind \in {"load", "convert"} /\ w.scope \in Scopes
    /\ Len(streaming) \in 0 .. 1

Step == copilot.steps < MaxCopilotSteps
Stepped == [copilot EXCEPT !.steps = @ + 1]
Says(p) == copilot' = p /\ UNCHANGED <<chats, streaming, waiting>>
Modal == copilot.asking.turn # NoTurn \/ copilot.update # 0
Message(by, turn, action) ==
    [by |-> by, turn |-> turn, action |-> action, conversion |-> "none", applied |-> FALSE, error |-> FALSE]
\* Each turn is a question and its answer.
Transcript(turns) ==
    [i \in 1 .. 2 * Len(turns) |-> LET t == turns[(i + 1) \div 2]
                                   IN  IF i % 2 = 1 THEN Message("user", t.turn, "none") ELSE Message("ai", t.turn, t.action)]

(***************************************************************************)
(* Conversations                                                           *)
(***************************************************************************)
\* The page is at another conversation; a question and an opened edit stay until then.
ChangeScope ==
    /\ Step
    /\ \E s \in Scopes \ {copilot.scope} :
         /\ copilot' = [Stepped EXCEPT !.scope = s, !.msgs = <<>>, !.converting = 0, !.loading = TRUE,
                                       !.left = copilot.busy \/ \E w \in waiting : w.kind = "load" /\ w.scope = s]
         /\ waiting' = waiting \union
              {[kind |-> "load", scope |-> s, seen |-> chats[s], index |-> 0, n |-> copilot.steps + 1]}
         /\ UNCHANGED <<chats, streaming>>
SessionArrives ==
    \E w \in waiting :
      /\ w.kind = "load" /\ waiting' = waiting \ {w} /\ UNCHANGED <<chats, streaming>>
      /\ \E turns \in {w.seen, chats[w.scope]} :
           copilot' \in {IF copilot.scope = w.scope
                         THEN [copilot EXCEPT !.loading = FALSE, !.msgs = Transcript(turns), !.asking = NoQuestion]
                         ELSE copilot,
                         IF copilot.scope = w.scope
                         THEN [copilot EXCEPT !.loading = FALSE, !.msgs = <<>>] ELSE copilot}
Toggle == /\ Step /\ ~Modal
          /\ Says([Stepped EXCEPT !.open = ~@, !.asking = IF copilot.open THEN NoQuestion ELSE @])

Submitted(p) ==
    LET turn == <<p.scope, p.turns + 1>>
    IN  /\ copilot' = [p EXCEPT !.typed = FALSE, !.busy = TRUE, !.turns = @ + 1,
                                !.msgs = @ \o <<Message("user", turn, "none"), Message("ai", turn, "none")>>]
        /\ streaming' = <<[scope |-> p.scope, turn |-> turn, action |-> "none"]>>
        /\ UNCHANGED <<chats, waiting>>
Type == Step /\ copilot.open /\ ~Modal /\ Says([Stepped EXCEPT !.typed = TRUE])
Submit == /\ copilot.open /\ ~Modal /\ copilot.typed /\ ~copilot.busy /\ ~copilot.loading
          /\ copilot.turns < MaxTurns /\ Submitted(copilot)

\* A part of the answer replaces the last message of its own conversation.
LastReplaced(p, m) ==
    IF p.scope # m.turn[1] \/ p.msgs = <<>> THEN p ELSE [p EXCEPT !.msgs = Append(Front(@), m)]
Delta ==
    /\ streaming # <<>>
    /\ \E action \in Actions :
         /\ streaming' = <<[streaming[1] EXCEPT !.action = action]>>
         /\ copilot' = LastReplaced(copilot, Message("ai", streaming[1].turn, action))
         /\ UNCHANGED <<chats, waiting>>
StreamEnds ==
    /\ streaming # <<>> /\ streaming' = <<>> /\ UNCHANGED waiting
    /\ \/ chats' = [chats EXCEPT ![streaming[1].scope] = Append(@, [turn |-> streaming[1].turn, action |-> streaming[1].action])]
          /\ copilot' = [copilot EXCEPT !.busy = FALSE]
       \/ UNCHANGED chats
          /\ copilot' = [LastReplaced(copilot, [Message("ai", streaming[1].turn, "none") EXCEPT !.error = TRUE])
                           EXCEPT !.busy = FALSE]

(***************************************************************************)
(* Plans of an answer                                                      *)
(***************************************************************************)
OnMessages == copilot.open /\ ~Modal
Convert ==
    /\ Step /\ OnMessages /\ copilot.converting = 0
    /\ \E i \in 1 .. Len(copilot.msgs) :
         /\ copilot.msgs[i].action = "plan" /\ copilot.msgs[i].conversion # "done"
         /\ copilot' = [Stepped EXCEPT !.converting = i, !.msgs[i].conversion = "none"]
         /\ waiting' = waiting \union {[kind |-> "convert", scope |-> copilot.scope, seen |-> <<>>, index |-> i, n |-> copilot.steps + 1]}
         /\ UNCHANGED <<chats, streaming>>
Converted ==
    \E w \in waiting, out \in {"done", "failed"} :
      /\ w.kind = "convert" /\ waiting' = waiting \ {w} /\ UNCHANGED <<chats, streaming>>
      /\ copilot' = IF copilot.scope # w.scope THEN copilot
                    ELSE IF w.index <= Len(copilot.msgs)
                    THEN [copilot EXCEPT !.converting = 0, !.msgs[w.index].conversion = out]
                    ELSE [copilot EXCEPT !.converting = 0]

(***************************************************************************)
(* Questions and Draft edits                                               *)
(***************************************************************************)
Ask ==
    /\ Step /\ OnMessages
    /\ \E i \in 1 .. Len(copilot.msgs), q \in Questions :
         /\ copilot.msgs[i].action = "ask"
         /\ Says([Stepped EXCEPT !.asking = [turn |-> copilot.msgs[i].turn, question |-> <<q>>, answer |-> InitialAnswer(q)]])
Fill == /\ Step /\ copilot.open /\ copilot.asking.turn # NoTurn /\ ~copilot.busy
        /\ LET q == Head(copilot.asking.question)
           IN  \E v \in {InferredType(q), "empty"} \ {copilot.asking.answer} : Says([Stepped EXCEPT !.asking.answer = v])
CloseQuestion == copilot.asking.turn # NoTurn /\ ~copilot.busy /\ Says([copilot EXCEPT !.asking = NoQuestion])
\* The dialog is closed also when the conversation is not ready to take the answers.
SubmitAnswers ==
    /\ copilot.open /\ copilot.asking.turn # NoTurn /\ ~copilot.busy /\ copilot.turns < MaxTurns
    /\ Answered(Head(copilot.asking.question), copilot.asking.answer)
    /\ LET p == [copilot EXCEPT !.asking = NoQuestion]
       IN  IF copilot.loading THEN Says(p) ELSE Submitted(p)

Proposal(i) == i \in 1 .. Len(copilot.msgs) /\ copilot.msgs[i].action = "draft" /\ copilot.scope \in DraftScopes
OpenEdit == /\ Step /\ OnMessages
            /\ \E i \in 1 .. Len(copilot.msgs), patch \in Edits :
                 /\ Proposal(i) /\ ~copilot.msgs[i].applied
                 /\ Says([Stepped EXCEPT !.update = i, !.patch = patch])
CancelEdit == copilot.update # 0 /\ Says([copilot EXCEPT !.update = 0])
\* The page takes the patch, closes the panel and opens the editor with it.
ConfirmEdit ==
    /\ copilot.update # 0 /\ Proposal(copilot.update) /\ Changes(copilot.draft, copilot.patch) # {}
    /\ Says([copilot EXCEPT !.msgs[copilot.update].applied = TRUE, !.update = 0, !.open = FALSE,
                            !.asking = NoQuestion, !.draft = Merged(@, copilot.patch)])

Next == \/ ChangeScope \/ SessionArrives \/ Toggle \/ Type \/ Submit \/ Delta \/ StreamEnds \/ Convert \/ Converted
        \/ Ask \/ Fill \/ CloseQuestion \/ SubmitAnswers \/ OpenEdit \/ CancelEdit \/ ConfirmEdit

vars == <<chats, copilot, streaming, waiting>>
Spec == Init /\ [][Next]_vars

(***************************************************************************)
(* Properties                                                              *)
(***************************************************************************)
\* A conversation shows its own messages, whatever answers arrive after it was entered.
MessagesAreOfScope == \A m \in ToSet(copilot.msgs) : m.turn[1] = copilot.scope
\* An answer stands under its own question, unless the conversation was left while it was written, or was entered
\* again before it was first loaded: of two loads the code takes both (scopeRef tells conversations apart, not loads).
AnswersFollowQuestions ==
    ~copilot.left => \A i \in 1 .. Len(copilot.msgs) :
        copilot.msgs[i].by = "ai" => i > 1 /\ copilot.msgs[i - 1].by = "user" /\ copilot.msgs[i - 1].turn = copilot.msgs[i].turn
\* A spinner of the panel has its answer on the way.
BusyIsBacked ==
    /\ copilot.busy <=> streaming # <<>>
    /\ copilot.loading => \E w \in waiting : w.kind = "load" /\ w.scope = copilot.scope
    /\ copilot.converting # 0 => \E w \in waiting : w.kind = "convert" /\ w.index = copilot.converting
\* A question without a written default starts with a value its control can show and send.
DefaultsFitControls ==
    \A q \in ToSet(copilot.asking.question) :
        q.type = "none" /\ q.default # "text" /\ ~q.options =>
            InitialAnswer(q) \in {InferredType(q), "empty"} /\ Serialized(q, InitialAnswer(q)) # "nan"
==============================================================================
