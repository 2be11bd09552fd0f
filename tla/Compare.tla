------------------------------ MODULE Compare ------------------------------
(***************************************************************************)
(* Comparing cases: the page that compares chosen cases, and the workspace *)
(* a comparison is saved as: evidence revisions, and analyses of them.     *)
(* ComparePorts has the page's two linked viewports.                       *)
(*                                                                         *)
(* The evidence of a case is the number of times the case has changed.     *)
(***************************************************************************)
EXTENDS Naturals, Sequences, FiniteSets, SequencesExt

CONSTANTS
    CaseIds,         \* the cases that can be compared
    Changing,        \* those whose evidence changes with time
    FirstCases,      \* the cases that the page is opened with
    MaxFacts,        \* bound on the changes of a case
    MaxRevisions,    \* bound on the revisions of a workspace
    MaxCompareSteps  \* bound on the user's steps of a behaviour

CompareAssumption ==
    /\ {MaxFacts, MaxRevisions, MaxCompareSteps} \subseteq Nat \ {0}
    /\ Changing \subseteq CaseIds /\ IsInjective(FirstCases) /\ ToSet(FirstCases) \subseteq CaseIds /\ Len(FirstCases) > 1

VARIABLES
    facts,    \* the evidence of each case, as it is now
    wspace,   \* server: the saved workspace, <<>> before it is saved
    compare,  \* the page
    cmpCalls  \* requests under way

(***************************************************************************)
(* Evidence and revisions                                                  *)
(***************************************************************************)
Snapshot(cases) == [cases |-> cases, facts |-> [c \in ToSet(cases) |-> facts[c]]]
Revision(snapshot, parts) == [snapshot |-> snapshot, parts |-> parts]
\* appendRevision: the new revision is the active one
AppendRevision(w, snapshot, parts) ==
    [w EXCEPT !.parts = parts, !.revisions = Append(@, Revision(snapshot, parts))]
NewWorkspace(snapshot, view) ==
    [parts |-> snapshot.cases, revisions |-> <<Revision(snapshot, snapshot.cases)>>, sessions |-> <<>>, view |-> view]
Active(w) == Len(w.revisions)
SessionsOf(w, n) == SelectSeq(w.sessions, LAMBDA x : x.rev = n)
NoSession == [id |-> 0, rev |-> 0, about |-> <<>>]
LatestSession(w, n) == IF SessionsOf(w, n) = <<>> THEN NoSession ELSE Last(SessionsOf(w, n))

NoResult == [cases |-> <<>>, facts |-> <<>>]
Toggled(cases, c) == IF c \in ToSet(cases) THEN Remove(cases, c) ELSE Append(cases, c)

(***************************************************************************)
(* The page                                                                *)
(***************************************************************************)
Persisted(p) == [rev |-> p.rev]
\* The save effect: another state to keep is sent after a while.
Kept(p) == IF p.hydrated /\ Persisted(p) # Persisted(compare)
           THEN [p EXCEPT !.save = "saving", !.timer = TRUE] ELSE p
Becomes(p) == compare' = Kept(p)

NoView == [rev |-> 0]
Page(route) ==
    [route |-> route, opened |-> route, chosen |-> <<>>, ws |-> <<>>, result |-> NoResult, rev |-> 0,
     analysis |-> <<>>, session |-> 0, tab |-> "evidence", hydrated |-> FALSE, save |-> "idle", timer |-> FALSE, busy |-> {},
     edit |-> <<>>, values |-> 1, sweep |-> 0, confirmed |-> FALSE, made |-> FALSE, steps |-> 0]
Call(kind) == [kind |-> kind, cases |-> <<>>, rev |-> 0, view |-> NoView, values |-> 0,
               create |-> FALSE, at |-> "sent", snapshot |-> NoResult, copy |-> <<>>]
Init ==
    /\ facts = [c \in CaseIds |-> 1]
    /\ \/ /\ wspace = <<>> /\ compare = [Page("project") EXCEPT !.chosen = FirstCases] /\ cmpCalls = {}
       \/ /\ wspace = <<NewWorkspace(Snapshot(FirstCases), NoView)>>
          /\ compare = Page("saved") /\ cmpCalls = {Call("load")}

TypeOK ==
    /\ DOMAIN facts = CaseIds /\ Len(wspace) \in 0 .. 1
    /\ compare.busy \subseteq {"compare", "analyze", "refresh", "replace", "create", "sweep"}
    /\ \A w \in ToSet(wspace) :
         /\ \A i \in DOMAIN w.sessions : w.sessions[i].rev \in DOMAIN w.revisions
         /\ w.view.rev \in 0 .. Len(w.revisions)
    /\ compare.ws # <<>> => compare.rev \in DOMAIN compare.ws[1].revisions

Step == compare.steps < MaxCompareSteps
Stepped == [compare EXCEPT !.steps = @ + 1]
Does(p) == Becomes(p) /\ UNCHANGED <<facts, wspace, cmpCalls>>
Sends(p, call) == Becomes(p) /\ cmpCalls' = cmpCalls \union {call} /\ UNCHANGED <<facts, wspace>>

\* The cases themselves change with time.
CaseChanges ==
    \E c \in Changing : /\ facts[c] < MaxFacts /\ facts' = [facts EXCEPT ![c] = @ + 1]
                       /\ UNCHANGED <<wspace, compare, cmpCalls>>

\* Before there is a workspace, the cases are picked here.
Picking == compare.ws = <<>> /\ ~(compare.opened = "saved" /\ \E r \in cmpCalls : r.kind = "load")
ToggleCase ==
    /\ Step /\ Picking
    /\ \E c \in CaseIds : Does([Stepped EXCEPT !.chosen = Toggled(@, c), !.result = NoResult,
                                               !.analysis = <<>>, !.sweep = 0, !.confirmed = FALSE])
Ask(kind, p, call) == /\ kind \notin compare.busy
                      /\ Sends([p EXCEPT !.busy = @ \union {kind}], call)
RunCompare == /\ Step /\ Picking /\ Len(compare.chosen) >= 2
              /\ Ask("compare", Stepped, [Call("compare") EXCEPT !.cases = compare.chosen])
\* selectedIds: the participants of the workspace, or the cases picked
SelectedIds(p) == IF p.ws = <<>> THEN p.chosen ELSE p.ws[1].parts
RunAIAnalysis ==
    /\ Step /\ compare.tab = "evidence" /\ compare.result # NoResult
    /\ Ask("analyze", Stepped, [Call("analyze") EXCEPT !.cases = SelectedIds(compare),
                                   !.rev = IF compare.ws = <<>> THEN 0 ELSE compare.rev])
SaveWorkspace ==
    /\ Step /\ compare.ws = <<>> /\ compare.route = "project" /\ compare.result # NoResult /\ wspace = <<>>
    /\ Ask("create", Stepped, [Call("create") EXCEPT !.cases = compare.result.cases, !.view = Persisted(compare)])
RefreshEvidence ==
    /\ Step /\ compare.ws # <<>> /\ Len(wspace[1].revisions) < MaxRevisions
    /\ Ask("refresh", Stepped, Call("refresh"))

\* The dialog that edits the participants
OpenEditor == /\ Step /\ compare.ws # <<>> /\ compare.edit = <<>>
              /\ Does([Stepped EXCEPT !.edit = compare.ws[1].parts])
EditParticipants ==
    /\ compare.edit # <<>> /\ Step
    /\ \E c \in CaseIds :
         \/ /\ c \in ToSet(compare.edit) /\ c # compare.edit[1]
            /\ Does([Stepped EXCEPT !.edit = <<c>> \o Remove(@, c)])
         \/ /\ c \in ToSet(compare.edit) /\ Len(compare.edit) > 2
            /\ Does([Stepped EXCEPT !.edit = Remove(@, c)])
         \/ /\ c \notin ToSet(compare.edit) /\ Len(compare.edit) < 6
            /\ Does([Stepped EXCEPT !.edit = Append(@, c)])
SaveParticipants ==
    /\ compare.edit # <<>> /\ Len(compare.edit) >= 2 /\ Len(wspace[1].revisions) < MaxRevisions
    /\ Ask("replace", compare, [Call("replace") EXCEPT !.cases = compare.edit])

\* Another revision is shown with the last analysis of it.
SelectEvidenceRevision ==
    /\ Step /\ compare.ws # <<>>
    /\ \E n \in DOMAIN compare.ws[1].revisions \ {compare.rev} :
         LET w == compare.ws[1]
             latest == LatestSession(w, n)
         IN  Does([Stepped EXCEPT !.rev = n, !.result = w.revisions[n].snapshot,
                              !.session = latest.id, !.analysis = latest.about])
ChooseSession ==
    /\ Step /\ compare.ws # <<>>
    /\ \E x \in ToSet(SessionsOf(compare.ws[1], compare.rev)) \union {NoSession} :
         x.id # compare.session /\ Does([Stepped EXCEPT !.session = x.id, !.analysis = x.about])

\* The sweep of the first case: previewed, confirmed, and made.
Baseline == SelectedIds(compare) # <<>> /\ compare.tab = "sweep" /\ compare.result # NoResult
TypeValues == Step /\ Baseline /\ Does([Stepped EXCEPT !.values = 3 - @])
Confirm == /\ Baseline /\ compare.sweep # 0 /\ ~compare.made
           /\ Does([compare EXCEPT !.confirmed = ~@])
PreviewSweep ==
    /\ Step /\ Baseline
    /\ \E create \in {FALSE} \union {compare.sweep # 0 /\ ~compare.made /\ compare.confirmed} :
         Ask("sweep", Stepped, [Call("sweep") EXCEPT !.create = create, !.values = compare.values])

ChooseView == /\ compare.result # NoResult
              /\ \E t \in {"evidence", "sweep"} \ {compare.tab} : Does([compare EXCEPT !.tab = t])

(***************************************************************************)
(* The server, and its answers                                             *)
(***************************************************************************)
SaveTimer ==
    /\ compare.timer
    /\ Sends([compare EXCEPT !.timer = FALSE], [Call("view") EXCEPT !.view = Persisted(compare)])
At(r, at, snapshot, w) ==
    cmpCalls' = (cmpCalls \ {r}) \union {[r EXCEPT !.at = at, !.snapshot = snapshot, !.copy = w]}
Rest == UNCHANGED <<facts, compare>>
Builds(r) == r.kind \in {"refresh", "replace"} \/ (r.kind = "analyze" /\ r.rev # 0)
\* Evidence is read, and built from, before the workspace is written.
Build ==
    \E r \in cmpCalls :
      /\ r.at = "sent" /\ Builds(r) /\ Rest /\ UNCHANGED wspace
      /\ CASE r.kind = "refresh" -> At(r, "built", Snapshot(wspace[1].parts), <<>>)
           [] r.kind = "replace" -> At(r, "built", Snapshot(r.cases), <<>>)
           [] OTHER -> At(r, "built", wspace[1].revisions[r.rev].snapshot, <<>>)
NewSession(n, r) == [id |-> n, rev |-> r.rev, about |-> r.snapshot]
Store ==
    \E r \in cmpCalls :
      /\ r.at = "built" /\ Rest
      /\ LET old == wspace[1]
             w == CASE r.kind = "refresh" -> AppendRevision(old, r.snapshot, old.parts)
                    [] r.kind = "replace" -> AppendRevision(old, r.snapshot, r.cases)
                    [] OTHER -> [old EXCEPT !.sessions = Append(@, NewSession(Len(@) + 1, r))]
         IN  wspace' = <<w>> /\ At(r, "answered", r.snapshot, <<w>>)
Serve ==
    \E r \in cmpCalls :
      /\ r.at = "sent" /\ ~Builds(r) /\ Rest
      /\ LET w == CASE r.kind = "create" -> <<NewWorkspace(Snapshot(r.cases), r.view)>>
                    [] r.kind = "view" -> <<[wspace[1] EXCEPT !.view = r.view]>>
                    [] OTHER -> wspace
         IN  wspace' = w /\ At(r, "answered", Snapshot(r.cases), w)
Fail == \E r \in cmpCalls : r.at \in {"sent", "built"} /\ Rest /\ UNCHANGED wspace /\ At(r, "failed", NoResult, <<>>)

Answers(r, p) == cmpCalls' = cmpCalls \ {r} /\ Becomes(p) /\ UNCHANGED <<facts, wspace>>
Free(kind) == [compare EXCEPT !.busy = @ \ {kind}]
Hear(kind) == {r \in cmpCalls : r.kind = kind /\ r.at = "answered"}
\* The page shows a revision as it arrives.
Showing(p, w, n) == [p EXCEPT !.ws = <<w>>, !.rev = n, !.result = w.revisions[n].snapshot]
\* Changes saved before the page is quiet again are its own first ones.
WorkspaceArrives ==
    \E r \in Hear("load"), early \in BOOLEAN :
      LET w == r.copy[1]
          n == IF w.view.rev = 0 THEN Active(w) ELSE w.view.rev
          latest == LatestSession(w, n)
          p == Showing(compare, w, n)
          shown == IF latest = NoSession THEN p ELSE [p EXCEPT !.session = latest.id, !.analysis = latest.about]
      IN  Answers(r, [shown EXCEPT !.hydrated = TRUE, !.timer = early, !.save = IF early THEN "saving" ELSE @])
Compared ==
    \E r \in Hear("compare") :
      Answers(r, [Free("compare") EXCEPT !.result = r.snapshot, !.tab = "evidence"])
Analyzed ==
    \E r \in Hear("analyze") :
      LET p == [Free("analyze") EXCEPT !.analysis = r.snapshot]
      IN  IF r.rev = 0 \/ compare.ws = <<>> THEN Answers(r, p)
          ELSE LET new == Last(r.copy[1].sessions)
               IN  Answers(r, [p EXCEPT !.ws[1].sessions = Append(@, new), !.session = new.id])
Refreshed ==
    \E kind \in {"refresh", "replace"} : \E r \in Hear(kind) :
      LET w == r.copy[1]
          p == [Showing(Free(kind), w, Active(w)) EXCEPT !.analysis = <<>>, !.session = 0]
      IN  Answers(r, IF kind = "replace" THEN [p EXCEPT !.edit = <<>>] ELSE p)
\* navigate: the same page goes on, under the address of the workspace
Created ==
    \E r \in Hear("create") :
      LET p == [Free("create") EXCEPT !.route = "saved", !.chosen = <<>>]
      IN  /\ cmpCalls' = (cmpCalls \ {r}) \union {Call("load")}
          /\ Becomes(p) /\ UNCHANGED <<facts, wspace>>
Swept == \E r \in Hear("sweep") : Answers(r, [Free("sweep") EXCEPT !.sweep = r.values, !.made = r.create])
ViewSaved ==
    \E r \in Hear("view") :
      Answers(r, [compare EXCEPT !.save = "saved", !.ws[1].view = r.view])
HearFailure ==
    \E r \in cmpCalls :
      r.at = "failed" /\ Answers(r, IF r.kind = "view" THEN [compare EXCEPT !.save = "error"] ELSE Free(r.kind))

Next ==
    \/ CaseChanges \/ ToggleCase \/ RunCompare \/ RunAIAnalysis \/ SaveWorkspace \/ RefreshEvidence
    \/ OpenEditor \/ EditParticipants \/ SaveParticipants \/ SelectEvidenceRevision \/ ChooseSession
    \/ TypeValues \/ Confirm \/ PreviewSweep
    \/ ChooseView
    \/ SaveTimer \/ Build \/ Store \/ Serve \/ Fail
    \/ WorkspaceArrives \/ Compared \/ Analyzed \/ Refreshed \/ Created \/ Swept \/ ViewSaved \/ HearFailure
cmpVars == <<facts, wspace, compare, cmpCalls>>
Spec == Init /\ [][Next]_cmpVars

(***************************************************************************)
(* Properties                                                              *)
(***************************************************************************)
\* Every busy button has a request that will free it.
BusyIsBacked == \A kind \in compare.busy : \E r \in cmpCalls : r.kind = kind
\* A page opened on a workspace shows the evidence of the revision it names,
\* whichever order revisions, refreshes and replacements arrive in.
EvidenceIsOfRevision ==
    compare.opened = "saved" /\ compare.ws # <<>> => compare.result = compare.ws[1].revisions[compare.rev].snapshot
\* An analysis that is kept is about the evidence of its revision.
SessionsAreOfEvidence ==
    \A w \in ToSet(wspace) : \A i \in DOMAIN w.sessions : w.sessions[i].about = w.revisions[w.sessions[i].rev].snapshot
\* Revisions are only added: no refresh or replacement changes an earlier one.
KeepsHistory ==
    wspace # <<>> =>
      /\ wspace' # <<>> /\ Len(wspace[1].revisions) <= Len(wspace'[1].revisions)
      /\ \A n \in DOMAIN wspace[1].revisions : wspace'[1].revisions[n] = wspace[1].revisions[n]
=============================================================================
