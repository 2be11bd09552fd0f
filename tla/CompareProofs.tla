--------------------------- MODULE CompareProofs ---------------------------
(***************************************************************************)
(* Proofs about Compare for any cases, changes, revisions and steps: the   *)
(* types, that a busy button has its request, that the page shows the      *)
(* evidence of the revision it names, that an analysis which is kept is of *)
(* its revision's evidence, and that revisions are only added.             *)
(*                                                                         *)
(* Then about screens that show Cases, for any objects, frames, items and  *)
(* clicks: of CaseReview that the viewer follows its inventory, is         *)
(* coloured by a field its layers have in common, and takes the layers of  *)
(* an archive in their order; of SlicePlayback that a playback waits for   *)
(* what it asked for, is never ahead of the frames the server has, and     *)
(* goes on only when the viewer is ready; of ComparePorts that two linked  *)
(* viewports keep what was picked and what is shown.                       *)
(***************************************************************************)
EXTENDS Compare, SequenceTheorems, WellFoundedInduction, Naturals, Sequences, FiniteSets, Integers, TLAPS

CONSTANTS Objects, ArchiveObjects, FieldsOfObject, Frames, MaxCaseSteps, NoObject   \* of CaseReview
VARIABLES scene, loads
CV == INSTANCE CaseReview

CONSTANTS Archive, NoStep, MaxPrepared, MaxPolls, MaxPlayerSteps   \* of SlicePlayback
VARIABLES prepared, player, playing, polls
SB == INSTANCE SlicePlayback

CONSTANTS Participants, GroupsOf, SavedVis, MaxPortSteps, NoItem   \* of ComparePorts
VARIABLES pair, ports
PT == INSTANCE ComparePorts WITH Compared <- Participants

-----------------------------------------------------------------------------
(***************************************************************************)
(* What a state is made of.                                                *)
(***************************************************************************)
PageFields == {"route", "opened", "chosen", "ws", "result", "rev", "analysis", "session", "tab", "hydrated",
               "save", "timer", "busy", "edit", "values", "sweep", "confirmed", "made", "steps"}
CallFields == {"kind", "cases", "rev", "view", "values", "create", "at", "snapshot", "copy"}
WorkspaceFields == {"parts", "revisions", "sessions", "view"}

\* The requests that keep a button busy, and the others.
Buttons == {"compare", "analyze", "refresh", "replace", "create", "sweep"}
Kinds == Buttons \union {"load", "view"}

\* A sequence of any values, and a workspace (or none).
IsList(s) == Len(s) \in Nat /\ s = [i \in 1 .. Len(s) |-> s[i]]
IsWorkspace(w) == DOMAIN w = WorkspaceFields /\ IsList(w.revisions) /\ Len(w.revisions) >= 1
One(ws) == ws = <<ws[1]>>

\* What the server keeps.
SessionsFit(w) ==
    /\ IsList(w.sessions)
    /\ \A i \in DOMAIN w.sessions :
         /\ w.sessions[i].rev \in DOMAIN w.revisions
         /\ w.sessions[i].about = w.revisions[w.sessions[i].rev].snapshot
ViewFits(w) == w.view \in [rev : 0 .. Len(w.revisions)]
ServerInv ==
    /\ DOMAIN facts = CaseIds
    /\ wspace # <<>> => One(wspace) /\ IsWorkspace(wspace[1]) /\ SessionsFit(wspace[1]) /\ ViewFits(wspace[1])

\* A copy of the workspace as it was some time ago: it has the first of the
\* revisions that the server has by now.
Copied(ws) ==
    /\ wspace # <<>> /\ One(ws) /\ IsWorkspace(ws[1])
    /\ Len(ws[1].revisions) <= Len(wspace[1].revisions)
    /\ \A n \in 1 .. Len(ws[1].revisions) : wspace[1].revisions[n] = ws[1].revisions[n]

\* A request, by its kind and by how far it is.
OfWorkspace(r) == r.kind \in {"load", "view"} \/ Builds(r)
CallInv(r) ==
    /\ DOMAIN r = CallFields /\ r.kind \in Kinds /\ r.at \in {"sent", "built", "answered", "failed"}
    /\ OfWorkspace(r) => wspace # <<>>
    /\ r.kind = "create" => /\ r.view = NoView
                            /\ r.at = "sent" => wspace = <<>>
                            /\ r.at = "answered" => wspace # <<>>
    /\ r.kind = "analyze" /\ r.rev # 0 =>
         /\ r.rev \in 1 .. Len(wspace[1].revisions)
         /\ r.at = "built" => r.snapshot = wspace[1].revisions[r.rev].snapshot
    /\ r.at = "built" => Builds(r)
    /\ r.kind = "view" => r.view \in [rev : 0 .. Len(wspace[1].revisions)]
    /\ r.at = "answered" /\ (r.kind = "load" \/ Builds(r)) => Copied(r.copy)
    /\ r.at = "answered" /\ r.kind = "load" => ViewFits(r.copy[1])

\* The page: what it shows is a revision of its own copy of the workspace.
PageInv(p) ==
    /\ DOMAIN p = PageFields /\ p.busy \subseteq Buttons
    /\ p.ws = <<>> => p.rev = 0 /\ p.hydrated = FALSE /\ p.timer = FALSE /\ p.edit = <<>>
    /\ p.ws # <<>> => Copied(p.ws) /\ p.rev \in 1 .. Len(p.ws[1].revisions)
    /\ p.opened = "saved" =>
         /\ p.route = "saved"
         /\ p.ws # <<>> => p.result = p.ws[1].revisions[p.rev].snapshot

\* The page and its requests.  A page that was opened on a workspace can be
\* asked to compare only when the workspace could not be loaded.
Backed(p, calls) ==
    /\ \A r \in calls : r.kind \in Buttons => r.kind \in p.busy
    /\ \A k \in p.busy : \E r \in calls : r.kind = k
    /\ \A r, s \in calls : r.kind = s.kind /\ r.kind \in Buttons => r = s
    /\ p.ws = <<>> => \A r \in calls : r.kind \notin {"view", "refresh", "replace"}
    /\ p.opened = "saved" =>
         /\ \A r \in calls : r.kind # "create"
         /\ (\E r \in calls : r.kind = "compare") => p.ws = <<>> /\ \A r \in calls : r.kind # "load"

CompareInv ==
    /\ ServerInv /\ PageInv(compare) /\ Backed(compare, cmpCalls)
    /\ \A r \in cmpCalls : CallInv(r)

-----------------------------------------------------------------------------
(***************************************************************************)
(* Sequences.                                                              *)
(***************************************************************************)
LEMMA OneElement ==
  ASSUME NEW x
  PROVE  /\ <<x>> # <<>> /\ One(<<x>>) /\ <<x>>[1] = x
         /\ IsList(<<x>>) /\ Len(<<x>>) = 1
BY DEF One, IsList

\* A list with one more element.
LEMMA ListAppend ==
  ASSUME NEW s, IsList(s), NEW e
  PROVE  /\ IsList(Append(s, e)) /\ Len(Append(s, e)) = Len(s) + 1
         /\ \A i \in 1 .. Len(s) : Append(s, e)[i] = s[i]
         /\ Append(s, e)[Len(s) + 1] = e
<1> DEFINE S == {s[i] : i \in 1 .. Len(s)} \union {e}
<1>1. s \in Seq(S) /\ e \in S
  <2>1. s \in [1 .. Len(s) -> S] /\ Len(s) \in Nat
    BY DEF IsList
  <2> QED BY <2>1
<1> HIDE DEF S
<1>2. /\ Append(s, e) \in Seq(S) /\ Len(Append(s, e)) = Len(s) + 1
      /\ \A i \in 1 .. Len(s) : Append(s, e)[i] = s[i]
      /\ Append(s, e)[Len(s) + 1] = e
  BY <1>1, AppendProperties
<1> DEFINE t == Append(s, e)
<1>3. IsList(t)
  <2>1. t \in Seq(S)
    BY <1>2
  <2> HIDE DEF t
  <2> QED BY <2>1 DEF IsList
<1> QED BY <1>2, <1>3

\* A sequence with one element that is changed.
LEMMA OneChanged ==
  ASSUME NEW ws, One(ws), NEW w
  PROVE  /\ [ws EXCEPT ![1] = w] = <<w>> /\ ws # <<>>
BY DEF One

-----------------------------------------------------------------------------
(***************************************************************************)
(* Workspaces.                                                             *)
(***************************************************************************)
\* A workspace with one revision more.
LEMMA RevisionAppended ==
  ASSUME NEW w, IsWorkspace(w), SessionsFit(w), ViewFits(w), NEW snapshot, NEW parts
  PROVE  LET v == AppendRevision(w, snapshot, parts)
         IN  /\ IsWorkspace(v) /\ SessionsFit(v) /\ ViewFits(v)
             /\ Len(v.revisions) = Len(w.revisions) + 1
             /\ \A n \in 1 .. Len(w.revisions) : v.revisions[n] = w.revisions[n]
<1> DEFINE v == AppendRevision(w, snapshot, parts)
           new == Revision(snapshot, parts)
<1>1. /\ DOMAIN v = WorkspaceFields /\ v.revisions = Append(w.revisions, new)
      /\ v.sessions = w.sessions /\ v.view = w.view
  BY DEF AppendRevision, IsWorkspace, WorkspaceFields
<1>2. /\ IsList(v.revisions) /\ Len(v.revisions) = Len(w.revisions) + 1
      /\ \A n \in 1 .. Len(w.revisions) : v.revisions[n] = w.revisions[n]
  BY <1>1, ListAppend DEF IsWorkspace
<1> HIDE DEF v
<1>3. DOMAIN w.revisions = 1 .. Len(w.revisions) /\ Len(w.revisions) \in Nat
  BY DEF IsWorkspace, IsList
<1>4. DOMAIN v.revisions = 1 .. Len(w.revisions) + 1
  BY <1>2 DEF IsList
<1>5. SessionsFit(v)
  BY <1>1, <1>2, <1>3, <1>4 DEF SessionsFit
<1>6. ViewFits(v)
  BY <1>1, <1>2, <1>3 DEF ViewFits
<1> QED BY <1>1, <1>2, <1>3, <1>5, <1>6 DEF IsWorkspace, v

\* A workspace with an analysis of one of its revisions.
LEMMA SessionAppended ==
  ASSUME NEW w, IsWorkspace(w), SessionsFit(w), ViewFits(w), NEW x,
         x.rev \in DOMAIN w.revisions, x.about = w.revisions[x.rev].snapshot
  PROVE  LET v == [w EXCEPT !.sessions = Append(@, x)]
         IN  /\ IsWorkspace(v) /\ SessionsFit(v) /\ ViewFits(v) /\ v.revisions = w.revisions
<1> DEFINE v == [w EXCEPT !.sessions = Append(@, x)]
<1>1. /\ DOMAIN v = WorkspaceFields /\ v.revisions = w.revisions
      /\ v.sessions = Append(w.sessions, x) /\ v.view = w.view
  BY DEF IsWorkspace, WorkspaceFields
<1>2. /\ IsList(v.sessions) /\ Len(v.sessions) = Len(w.sessions) + 1
      /\ \A i \in 1 .. Len(w.sessions) : v.sessions[i] = w.sessions[i]
      /\ v.sessions[Len(w.sessions) + 1] = x
  BY <1>1, ListAppend DEF SessionsFit
<1> HIDE DEF v
<1>3. DOMAIN w.sessions = 1 .. Len(w.sessions) /\ Len(w.sessions) \in Nat
  BY DEF SessionsFit, IsList
<1>4. \A i \in DOMAIN v.sessions : i \in DOMAIN w.sessions \/ i = Len(w.sessions) + 1
  BY <1>2, <1>3 DEF IsList
<1>5. SessionsFit(v)
  BY <1>1, <1>2, <1>3, <1>4 DEF SessionsFit
<1> QED BY <1>1, <1>5 DEF IsWorkspace, ViewFits, v

\* What a new workspace is made of.
LEMMA NewWorkspaceFits ==
  ASSUME NEW snapshot
  PROVE  LET w == NewWorkspace(snapshot, NoView)
         IN  /\ IsWorkspace(w) /\ SessionsFit(w) /\ ViewFits(w) /\ Len(w.revisions) = 1
<1> DEFINE w == NewWorkspace(snapshot, NoView)
<1>1. /\ DOMAIN w = WorkspaceFields /\ w.revisions = <<Revision(snapshot, snapshot.cases)>>
      /\ w.sessions = <<>> /\ w.view = [rev |-> 0]
  BY DEF NewWorkspace, WorkspaceFields, NoView
<1> HIDE DEF w
<1>2. IsList(w.revisions) /\ Len(w.revisions) = 1
  BY <1>1, OneElement
<1>3. SessionsFit(w)
  BY <1>1 DEF SessionsFit, IsList
<1> QED BY <1>1, <1>2, <1>3 DEF IsWorkspace, ViewFits, w

-----------------------------------------------------------------------------
(***************************************************************************)
(* The save effect, and the steps of the page.                             *)
(***************************************************************************)
LEMMA KeptPage ==
  ASSUME NEW p, DOMAIN p = PageFields
  PROVE  LET q == Kept(p)
         IN  /\ DOMAIN q = PageFields /\ q.busy = p.busy /\ q.ws = p.ws /\ q.rev = p.rev
             /\ q.hydrated = p.hydrated /\ q.edit = p.edit /\ q.opened = p.opened
             /\ q.route = p.route /\ q.result = p.result
             /\ p.hydrated = FALSE => q.timer = p.timer
BY DEF Kept, PageFields

LEMMA KeptFits ==
  ASSUME NEW p, PageInv(p), NEW calls, Backed(p, calls)
  PROVE  PageInv(Kept(p)) /\ Backed(Kept(p), calls)
<1> DEFINE q == Kept(p)
<1>1. /\ DOMAIN q = PageFields /\ q.busy = p.busy /\ q.ws = p.ws /\ q.rev = p.rev /\ q.hydrated = p.hydrated
      /\ q.edit = p.edit /\ q.opened = p.opened /\ q.route = p.route /\ q.result = p.result
      /\ p.hydrated = FALSE => q.timer = p.timer
  BY KeptPage DEF PageInv
<1> HIDE DEF q
<1> QED BY <1>1 DEF PageInv, Backed, q

\* The page changes, and what it asks for.
LEMMA PageStep ==
  ASSUME CompareInv, NEW p, NEW calls, PageInv(p), Backed(p, calls),
         \A r \in calls \ cmpCalls : CallInv(r),
         Becomes(p), cmpCalls' = calls, UNCHANGED <<facts, wspace>>
  PROVE  CompareInv' /\ KeepsHistory
<1>1. PageInv(compare)' /\ Backed(compare, cmpCalls)'
  <2> DEFINE q == Kept(p)
  <2>1. compare' = q /\ PageInv(q) /\ Backed(q, calls)
    BY KeptFits DEF Becomes
  <2> HIDE DEF q
  <2> QED BY <2>1 DEF PageInv, Copied, Backed
<1>2. \A r \in cmpCalls' : CallInv(r)'
  BY DEF CompareInv, CallInv, Copied, OfWorkspace, Builds
<1>3. ServerInv'
  BY DEF CompareInv, ServerInv
<1>4. KeepsHistory
  BY DEF CompareInv, ServerInv, KeepsHistory, IsWorkspace, IsList
<1> QED BY <1>1, <1>2, <1>3, <1>4 DEF CompareInv

\* A page that is the same but for what no invariant is about.
Alike(p) ==
    /\ DOMAIN p = PageFields /\ p.busy = compare.busy /\ p.ws = compare.ws /\ p.rev = compare.rev
    /\ p.hydrated = compare.hydrated /\ p.timer = compare.timer
    /\ p.opened = compare.opened /\ p.route = compare.route
    /\ p.edit = compare.edit \/ compare.ws # <<>>
    /\ p.result = compare.result \/ compare.ws = <<>>

LEMMA AlikeFits ==
  ASSUME CompareInv, NEW p, Alike(p)
  PROVE  PageInv(p) /\ Backed(p, cmpCalls)
BY DEF CompareInv, PageInv, Backed, Alike

LEMMA PlainStep ==
  ASSUME CompareInv, NEW p, Alike(p), Does(p)
  PROVE  CompareInv' /\ KeepsHistory
BY AlikeFits, PageStep DEF Does

LEMMA SteppedAlike ==
  ASSUME CompareInv
  PROVE  Alike(Stepped) /\ Alike(compare)
BY DEF CompareInv, PageInv, Alike, Stepped, PageFields

\* A button that asks for something.
LEMMA AskStep ==
  ASSUME CompareInv, NEW p, Alike(p), NEW kind \in Buttons, NEW call, call.kind = kind, CallInv(call),
         Ask(kind, p, call),
         compare.ws = <<>> => kind \notin {"refresh", "replace"},
         compare.opened = "saved" => /\ kind # "create"
                                     /\ kind = "compare" => /\ compare.ws = <<>>
                                                            /\ \A r \in cmpCalls : r.kind # "load"
  PROVE  CompareInv' /\ KeepsHistory
<1> DEFINE q == [p EXCEPT !.busy = @ \union {kind}]
           calls == cmpCalls \union {call}
<1>1. /\ kind \notin compare.busy /\ Becomes(q) /\ cmpCalls' = calls /\ UNCHANGED <<facts, wspace>>
  BY DEF Ask, Sends
<1>2. /\ DOMAIN q = PageFields /\ q.busy = compare.busy \union {kind} /\ q.ws = p.ws /\ q.rev = p.rev
      /\ q.hydrated = p.hydrated /\ q.timer = p.timer /\ q.edit = p.edit /\ q.opened = p.opened
      /\ q.route = p.route /\ q.result = p.result
  BY DEF Alike, PageFields
<1> HIDE DEF q
<1>3. PageInv(p) /\ Backed(p, cmpCalls) /\ compare.opened = p.opened /\ compare.ws = p.ws /\ p.busy = compare.busy
  BY AlikeFits DEF Alike
<1>4. PageInv(q)
  BY <1>2, <1>3 DEF PageInv
<1>5. Backed(q, calls)
  BY <1>1, <1>2, <1>3 DEF Backed, Buttons
<1> HIDE DEF calls
<1>6. \A r \in calls \ cmpCalls : CallInv(r)
  BY DEF calls
<1> QED BY <1>1, <1>4, <1>5, <1>6, PageStep

\* A request that has not left the page yet asks for no more than its kind.
LEMMA NewCall ==
  ASSUME NEW kind \in Kinds, NEW call, DOMAIN call = CallFields, call.kind = kind, call.at = "sent",
         OfWorkspace(call) => wspace # <<>>,
         kind = "create" => call.view = NoView /\ wspace = <<>>,
         kind = "analyze" /\ call.rev # 0 => call.rev \in 1 .. Len(wspace[1].revisions),
         kind = "view" => call.view \in [rev : 0 .. Len(wspace[1].revisions)]
  PROVE  CallInv(call)
BY DEF CallInv

LEMMA CallShape ==
  ASSUME NEW kind
  PROVE  /\ DOMAIN Call(kind) = CallFields
         /\ Call(kind).kind = kind /\ Call(kind).at = "sent" /\ Call(kind).rev = 0 /\ Call(kind).view = NoView
BY DEF Call, CallFields

\* What the page knows of its workspace.
LEMMA PageKnows ==
  ASSUME CompareInv, compare.ws # <<>>
  PROVE  /\ wspace # <<>> /\ One(compare.ws) /\ IsWorkspace(compare.ws[1])
         /\ DOMAIN compare.ws[1].revisions = 1 .. Len(compare.ws[1].revisions)
         /\ compare.rev \in 1 .. Len(wspace[1].revisions) /\ compare.rev # 0
<1>1. PageInv(compare) /\ ServerInv
  BY DEF CompareInv
<1>2. Copied(compare.ws) /\ compare.rev \in 1 .. Len(compare.ws[1].revisions)
  BY <1>1 DEF PageInv
<1>3. /\ wspace # <<>> /\ Len(compare.ws[1].revisions) \in Nat /\ Len(wspace[1].revisions) \in Nat
      /\ Len(compare.ws[1].revisions) <= Len(wspace[1].revisions)
      /\ DOMAIN compare.ws[1].revisions = 1 .. Len(compare.ws[1].revisions)
  BY <1>1, <1>2 DEF Copied, ServerInv, IsWorkspace, IsList
<1> QED BY <1>2, <1>3 DEF Copied

LEMMA PickingStep ==
  ASSUME CompareInv, ToggleCase \/ RunCompare
  PROVE  CompareInv' /\ KeepsHistory
<1>1. ASSUME NEW c \in CaseIds, Picking,
             Does([Stepped EXCEPT !.chosen = Toggled(@, c), !.result = NoResult,
                                  !.analysis = <<>>, !.sweep = 0, !.confirmed = FALSE])
      PROVE  CompareInv' /\ KeepsHistory
  <2> DEFINE p == [Stepped EXCEPT !.chosen = Toggled(@, c), !.result = NoResult,
                                  !.analysis = <<>>, !.sweep = 0, !.confirmed = FALSE]
  <2>1. Alike(p)
    BY <1>1, SteppedAlike DEF Alike, PageFields, Picking
  <2>2. Does(p)
    BY <1>1
  <2> HIDE DEF p
  <2> QED BY <2>1, <2>2, PlainStep
<1>2. CASE RunCompare
  <2> DEFINE call == [Call("compare") EXCEPT !.cases = compare.chosen]
  <2>1. DOMAIN call = CallFields /\ call.kind = "compare" /\ call.at = "sent"
    BY CallShape DEF CallFields
  <2>2. Picking /\ Ask("compare", Stepped, call)
    BY <1>2 DEF RunCompare
  <2> HIDE DEF call
  <2>3. CallInv(call)
    BY <2>1, NewCall DEF OfWorkspace, Builds, Kinds, Buttons
  <2> QED BY <2>1, <2>2, <2>3, SteppedAlike, AskStep DEF Picking, Buttons
<1> QED BY <1>1, <1>2 DEF ToggleCase

LEMMA AnalyzeStep ==
  ASSUME CompareInv, RunAIAnalysis
  PROVE  CompareInv' /\ KeepsHistory
<1> DEFINE rev == IF compare.ws = <<>> THEN 0 ELSE compare.rev
           call == [Call("analyze") EXCEPT !.cases = SelectedIds(compare), !.rev = rev]
<1>1. DOMAIN call = CallFields /\ call.kind = "analyze" /\ call.at = "sent" /\ call.rev = rev
  BY CallShape DEF CallFields
<1>2. Ask("analyze", Stepped, call)
  BY DEF RunAIAnalysis
<1>3. rev # 0 => wspace # <<>> /\ rev \in 1 .. Len(wspace[1].revisions)
  BY PageKnows
<1> HIDE DEF call, rev
<1>4. CallInv(call)
  BY <1>1, <1>3, NewCall DEF OfWorkspace, Builds, Kinds, Buttons
<1> QED BY <1>1, <1>2, <1>4, SteppedAlike, AskStep DEF Buttons

LEMMA SaveStep ==
  ASSUME CompareInv, SaveWorkspace
  PROVE  CompareInv' /\ KeepsHistory
<1> DEFINE call == [Call("create") EXCEPT !.cases = compare.result.cases, !.view = Persisted(compare)]
<1>1. /\ DOMAIN call = CallFields /\ call.kind = "create" /\ call.at = "sent"
      /\ call.view = Persisted(compare) /\ call.rev = 0
  BY CallShape DEF CallFields
<1>2. /\ Ask("create", Stepped, call) /\ compare.ws = <<>> /\ wspace = <<>> /\ compare.route = "project"
  BY DEF SaveWorkspace
<1>3. compare.rev = 0 /\ compare.opened # "saved"
  BY <1>2 DEF CompareInv, PageInv
<1> HIDE DEF call
<1>4. CallInv(call)
  BY <1>1, <1>2, <1>3, NewCall DEF OfWorkspace, Builds, Kinds, Buttons, Persisted, NoView
<1> QED BY <1>1, <1>2, <1>3, <1>4, SteppedAlike, AskStep DEF Buttons

LEMMA RevisionStep ==
  ASSUME CompareInv, RefreshEvidence \/ SaveParticipants
  PROVE  CompareInv' /\ KeepsHistory
<1>1. compare.ws # <<>> /\ wspace # <<>>
  <2>1. compare.ws # <<>>
    BY DEF RefreshEvidence, SaveParticipants, CompareInv, PageInv
  <2> QED BY <2>1, PageKnows
<1>2. CASE RefreshEvidence
  <2>1. CallInv(Call("refresh")) /\ Call("refresh").kind = "refresh"
    BY <1>1, CallShape, NewCall DEF Kinds, Buttons
  <2> QED BY <1>1, <1>2, <2>1, SteppedAlike, AskStep DEF RefreshEvidence, Buttons
<1>3. CASE SaveParticipants
  <2> DEFINE call == [Call("replace") EXCEPT !.cases = compare.edit]
  <2>1. DOMAIN call = CallFields /\ call.kind = "replace" /\ call.at = "sent"
    BY CallShape DEF CallFields
  <2>2. Ask("replace", compare, call)
    BY <1>3 DEF SaveParticipants
  <2> HIDE DEF call
  <2>3. CallInv(call)
    BY <1>1, <2>1, NewCall DEF Kinds, Buttons
  <2> QED BY <1>1, <2>1, <2>2, <2>3, SteppedAlike, AskStep DEF Buttons
<1> QED BY <1>2, <1>3

LEMMA SweepStep ==
  ASSUME CompareInv, PreviewSweep
  PROVE  CompareInv' /\ KeepsHistory
<1>1. PICK create : Ask("sweep", Stepped, [Call("sweep") EXCEPT !.create = create, !.values = compare.values])
  BY DEF PreviewSweep
<1> DEFINE call == [Call("sweep") EXCEPT !.create = create, !.values = compare.values]
<1>2. DOMAIN call = CallFields /\ call.kind = "sweep" /\ call.at = "sent"
  BY CallShape DEF CallFields
<1>3. Ask("sweep", Stepped, call)
  BY <1>1
<1> HIDE DEF call
<1>4. CallInv(call)
  BY <1>2, NewCall DEF OfWorkspace, Builds, Kinds, Buttons
<1> QED BY <1>2, <1>3, <1>4, SteppedAlike, AskStep DEF Buttons

LEMMA EditorStep ==
  ASSUME CompareInv, OpenEditor \/ EditParticipants
  PROVE  CompareInv' /\ KeepsHistory
<1>1. compare.ws # <<>>
  BY DEF OpenEditor, EditParticipants, CompareInv, PageInv
<1>2. PICK e : Does([Stepped EXCEPT !.edit = e])
  BY DEF OpenEditor, EditParticipants
<1> DEFINE p == [Stepped EXCEPT !.edit = e]
<1>3. Alike(p)
  BY <1>1, SteppedAlike DEF Alike, PageFields
<1>4. Does(p)
  BY <1>2
<1> HIDE DEF p
<1> QED BY <1>3, <1>4, PlainStep

LEMMA SelectStep ==
  ASSUME CompareInv, SelectEvidenceRevision
  PROVE  CompareInv' /\ KeepsHistory
<1>1. compare.ws # <<>> /\ DOMAIN compare.ws[1].revisions = 1 .. Len(compare.ws[1].revisions)
  BY PageKnows DEF SelectEvidenceRevision
<1>2. PICK n \in DOMAIN compare.ws[1].revisions \ {compare.rev} :
        LET w == compare.ws[1]
            latest == LatestSession(w, n)
        IN  Does([Stepped EXCEPT !.rev = n, !.result = w.revisions[n].snapshot,
                                 !.session = latest.id, !.analysis = latest.about])
  BY DEF SelectEvidenceRevision
<1> DEFINE latest == LatestSession(compare.ws[1], n)
           p == [Stepped EXCEPT !.rev = n, !.result = compare.ws[1].revisions[n].snapshot,
                                !.session = latest.id, !.analysis = latest.about]
<1>3. Does(p)
  BY <1>2
<1> HIDE DEF latest
<1>4. /\ DOMAIN p = PageFields /\ p.rev = n /\ p.result = compare.ws[1].revisions[n].snapshot
      /\ p.busy = compare.busy /\ p.ws = compare.ws /\ p.opened = compare.opened /\ p.route = compare.route
  BY SteppedAlike DEF Alike, PageFields
<1> HIDE DEF p
<1>5. PageInv(p) /\ Backed(p, cmpCalls)
  BY <1>1, <1>4 DEF CompareInv, PageInv, Backed
<1> QED BY <1>3, <1>5, PageStep DEF Does

LEMMA ViewStep ==
  ASSUME CompareInv, ChooseSession \/ TypeValues \/ Confirm \/ ChooseView
  PROVE  CompareInv' /\ KeepsHistory
<1>1. ASSUME NEW id, NEW about, Does([Stepped EXCEPT !.session = id, !.analysis = about])
      PROVE  CompareInv' /\ KeepsHistory
  <2> DEFINE p == [Stepped EXCEPT !.session = id, !.analysis = about]
  <2>1. Alike(p) /\ Does(p)
    BY <1>1, SteppedAlike DEF Alike, PageFields
  <2> HIDE DEF p
  <2> QED BY <2>1, PlainStep
<1>2. CASE TypeValues
  <2> DEFINE p == [Stepped EXCEPT !.values = 3 - @]
  <2>1. Alike(p) /\ Does(p)
    BY <1>2, SteppedAlike DEF TypeValues, Alike, PageFields
  <2> HIDE DEF p
  <2> QED BY <2>1, PlainStep
<1>3. CASE Confirm
  <2> DEFINE p == [compare EXCEPT !.confirmed = ~@]
  <2>1. Alike(p) /\ Does(p)
    BY <1>3, SteppedAlike DEF Confirm, Alike, PageFields
  <2> HIDE DEF p
  <2> QED BY <2>1, PlainStep
<1>4. ASSUME NEW t, Does([compare EXCEPT !.tab = t])
      PROVE  CompareInv' /\ KeepsHistory
  <2> DEFINE p == [compare EXCEPT !.tab = t]
  <2>1. Alike(p) /\ Does(p)
    BY <1>4, SteppedAlike DEF Alike, PageFields
  <2> HIDE DEF p
  <2> QED BY <2>1, PlainStep
<1> QED BY <1>1, <1>2, <1>3, <1>4 DEF ChooseSession, ChooseView

LEMMA TimerStep ==
  ASSUME CompareInv, SaveTimer
  PROVE  CompareInv' /\ KeepsHistory
<1> DEFINE p == [compare EXCEPT !.timer = FALSE]
           call == [Call("view") EXCEPT !.view = Persisted(compare)]
           calls == cmpCalls \union {call}
<1>1. Becomes(p) /\ cmpCalls' = calls /\ UNCHANGED <<facts, wspace>> /\ compare.timer
  BY DEF SaveTimer, Sends
<1>2. compare.ws # <<>>
  BY <1>1 DEF CompareInv, PageInv
<1>3. /\ DOMAIN call = CallFields /\ call.kind = "view" /\ call.at = "sent" /\ call.view = Persisted(compare)
  BY CallShape DEF CallFields
<1>4. /\ DOMAIN p = PageFields /\ p.busy = compare.busy /\ p.ws = compare.ws /\ p.rev = compare.rev
      /\ p.hydrated = compare.hydrated /\ p.timer = FALSE /\ p.edit = compare.edit /\ p.opened = compare.opened
      /\ p.route = compare.route /\ p.result = compare.result
  BY SteppedAlike DEF Alike, PageFields
<1> HIDE DEF p, call
<1>5. PageInv(p)
  BY <1>4 DEF CompareInv, PageInv
<1>6. Backed(p, calls)
  BY <1>2, <1>3, <1>4 DEF CompareInv, Backed, Buttons
<1>7. CallInv(call)
  <2>1. compare.rev \in 0 .. Len(wspace[1].revisions) /\ wspace # <<>>
    BY <1>2, PageKnows
  <2> QED BY <1>3, <2>1, NewCall DEF Kinds, Persisted
<1>8. \A r \in calls \ cmpCalls : CallInv(r)
  BY <1>7
<1> HIDE DEF calls
<1> QED BY <1>1, <1>5, <1>6, <1>8, PageStep

-----------------------------------------------------------------------------
(***************************************************************************)
(* The server: a step keeps a request's kind, and the workspace grows.     *)
(***************************************************************************)
\* The workspace is there, and has kept its revisions.
Grown ==
    wspace # <<>> => /\ wspace' # <<>> /\ Len(wspace[1].revisions) <= Len(wspace[1].revisions)'
                     /\ \A n \in 1 .. Len(wspace[1].revisions) : wspace'[1].revisions[n] = wspace[1].revisions[n]

LEMMA ServerGrows ==
  ASSUME CompareInv, ServerInv', Grown
  PROVE  /\ KeepsHistory
         /\ \A ws : Copied(ws) => Copied(ws)'
         /\ wspace # <<>> => /\ Len(wspace[1].revisions) \in Nat /\ Len(wspace'[1].revisions) \in Nat
                             /\ Len(wspace[1].revisions) <= Len(wspace'[1].revisions)
<1>1. ServerInv
  BY DEF CompareInv
<1>2. wspace # <<>> => /\ IsWorkspace(wspace[1]) /\ IsWorkspace(wspace'[1]) /\ wspace' # <<>>
                       /\ Len(wspace[1].revisions) \in Nat /\ Len(wspace'[1].revisions) \in Nat
                       /\ Len(wspace[1].revisions) <= Len(wspace'[1].revisions)
                       /\ DOMAIN wspace[1].revisions = 1 .. Len(wspace[1].revisions)
  BY <1>1 DEF ServerInv, IsWorkspace, IsList, Grown
<1>3. KeepsHistory
  BY <1>2 DEF KeepsHistory, Grown
<1>4. ASSUME NEW ws, Copied(ws)
      PROVE  Copied(ws)'
  <2>1. wspace # <<>> /\ Len(ws[1].revisions) \in Nat
    BY <1>4 DEF Copied, IsWorkspace, IsList
  <2>2. \A n \in 1 .. Len(ws[1].revisions) : wspace'[1].revisions[n] = ws[1].revisions[n]
    BY <1>2, <1>4, <2>1 DEF Copied, Grown
  <2> QED BY <1>2, <1>4, <2>1, <2>2 DEF Copied
<1> QED BY <1>2, <1>3, <1>4

\* What is true of a request stays true of it, for one that would create the
\* workspace as long as there is none.
LEMMA CallStays ==
  ASSUME CompareInv, ServerInv', Grown, NEW r \in cmpCalls,
         r.kind = "create" /\ r.at = "sent" => wspace' = <<>>
  PROVE  CallInv(r)'
<1>1. CallInv(r)
  BY DEF CompareInv
<1>2. /\ wspace # <<>> => wspace' # <<>>
      /\ \A ws : Copied(ws) => Copied(ws)'
      /\ wspace # <<>> => /\ Len(wspace[1].revisions) \in Nat /\ Len(wspace'[1].revisions) \in Nat
                          /\ Len(wspace[1].revisions) <= Len(wspace'[1].revisions)
                          /\ \A n \in 1 .. Len(wspace[1].revisions) : wspace'[1].revisions[n] = wspace[1].revisions[n]
  BY ServerGrows DEF Grown
<1>3. r.kind = "analyze" /\ r.rev # 0 =>
        /\ r.rev \in 1 .. Len(wspace'[1].revisions)
        /\ r.at = "built" => r.snapshot = wspace'[1].revisions[r.rev].snapshot
  BY SMTT(30), <1>1, <1>2 DEF CallInv, OfWorkspace, Builds
<1>4. r.kind = "view" => r.view \in [rev : 0 .. Len(wspace'[1].revisions)]
  <2> SUFFICES ASSUME r.kind = "view" PROVE r.view \in [rev : 0 .. Len(wspace'[1].revisions)]
    OBVIOUS
  <2>1. r.view \in [rev : 0 .. Len(wspace[1].revisions)] /\ wspace # <<>>
    BY <1>1 DEF CallInv, OfWorkspace
  <2> QED BY <1>2, <2>1
<1>5. /\ DOMAIN r = CallFields /\ r.kind \in Kinds /\ r.at \in {"sent", "built", "answered", "failed"}
      /\ OfWorkspace(r) => wspace' # <<>>
      /\ r.kind = "create" => /\ r.view = NoView
                              /\ r.at = "sent" => wspace' = <<>>
                              /\ r.at = "answered" => wspace' # <<>>
      /\ r.at = "built" => Builds(r)
  BY <1>1, <1>2 DEF CallInv
<1>6. /\ r.at = "answered" /\ (r.kind = "load" \/ Builds(r)) => Copied(r.copy)'
      /\ r.at = "answered" /\ r.kind = "load" => ViewFits(r.copy[1])
  BY <1>1, <1>2 DEF CallInv
<1> QED BY <1>3, <1>4, <1>5, <1>6 DEF CallInv, OfWorkspace, Builds, ViewFits

LEMMA ServerStep ==
  ASSUME CompareInv, NEW r \in cmpCalls, NEW s, s.kind = r.kind,
         cmpCalls' = (cmpCalls \ {r}) \union {s}, compare' = compare, ServerInv', Grown, CallInv(s)',
         r.kind = "create" \/ (wspace = <<>> => wspace' = <<>>)
  PROVE  CompareInv' /\ KeepsHistory
<1>1. Backed(compare, cmpCalls) /\ PageInv(compare)
  BY DEF CompareInv
<1>2. PageInv(compare)'
  BY <1>1, ServerGrows DEF PageInv
<1>3. Backed(compare, cmpCalls)'
  <2> DEFINE calls == (cmpCalls \ {r}) \union {s}
  <2>1. /\ \A t \in calls : \E u \in cmpCalls : u.kind = t.kind
        /\ \A u \in cmpCalls : \E t \in calls : u.kind = t.kind
    OBVIOUS
  <2>2. \A t, u \in calls : t.kind = u.kind /\ t.kind \in Buttons => t = u
    BY <1>1 DEF Backed
  <2>3. Backed(compare, calls)
    <3> HIDE DEF calls
    <3>1. /\ \A t \in calls : t.kind \in Buttons => t.kind \in compare.busy
          /\ \A k \in compare.busy : \E t \in calls : t.kind = k
      BY <1>1, <2>1 DEF Backed
    <3>2. compare.ws = <<>> => \A t \in calls : t.kind \notin {"view", "refresh", "replace"}
      BY <1>1, <2>1 DEF Backed
    <3>3. compare.opened = "saved" =>
            /\ \A t \in calls : t.kind # "create"
            /\ (\E t \in calls : t.kind = "compare") => compare.ws = <<>> /\ \A t \in calls : t.kind # "load"
      BY <1>1, <2>1 DEF Backed
    <3> QED BY <2>2, <3>1, <3>2, <3>3 DEF Backed
  <2>4. calls = cmpCalls'
    OBVIOUS
  <2> HIDE DEF calls
  <2> QED BY <2>3, <2>4 DEF Backed
<1>4. ASSUME NEW t \in cmpCalls, t # r
      PROVE  CallInv(t)'
  <2>1. t.kind = "create" /\ t.at = "sent" => wspace' = <<>>
    <3>1. t.kind = "create" /\ t.at = "sent" => wspace = <<>>
      BY DEF CompareInv, CallInv
    <3>2. t.kind = "create" => r.kind # "create"
      BY <1>1, <1>4 DEF Backed, Buttons
    <3> QED BY <3>1, <3>2
  <2> QED BY <2>1, CallStays
<1>5. \A t \in cmpCalls' : CallInv(t)'
  BY <1>4
<1> QED BY <1>2, <1>3, <1>5, ServerGrows DEF CompareInv

\* A request that is further than it was.
LEMMA CallMoves ==
  ASSUME NEW r, DOMAIN r = CallFields, NEW at, NEW snapshot, NEW copy
  PROVE  LET s == [r EXCEPT !.at = at, !.snapshot = snapshot, !.copy = copy]
         IN  /\ DOMAIN s = CallFields /\ s.kind = r.kind /\ s.rev = r.rev /\ s.view = r.view
             /\ s.at = at /\ s.snapshot = snapshot /\ s.copy = copy
BY DEF CallFields

LEMMA CaseStep ==
  ASSUME CompareInv, CaseChanges
  PROVE  CompareInv' /\ KeepsHistory
<1>1. DOMAIN facts' = CaseIds /\ UNCHANGED <<wspace, compare, cmpCalls>>
  BY DEF CaseChanges, CompareInv, ServerInv
<1>2. ServerInv' /\ KeepsHistory
  BY <1>1 DEF CompareInv, ServerInv, KeepsHistory, IsWorkspace, IsList
<1> QED BY <1>1, <1>2 DEF CompareInv, PageInv, Copied, Backed, CallInv

\* A request that moves while the workspace stays.
LEMMA MovesOnly ==
  ASSUME CompareInv, NEW r \in cmpCalls, NEW at, NEW snapshot, NEW copy, Rest, UNCHANGED wspace,
         At(r, at, snapshot, copy), CallInv([r EXCEPT !.at = at, !.snapshot = snapshot, !.copy = copy])
  PROVE  CompareInv' /\ KeepsHistory
<1> DEFINE s == [r EXCEPT !.at = at, !.snapshot = snapshot, !.copy = copy]
<1>1. s.kind = r.kind /\ cmpCalls' = (cmpCalls \ {r}) \union {s} /\ CallInv(s)
  BY CallMoves DEF At, CompareInv, CallInv
<1> HIDE DEF s
<1>2. ServerInv' /\ Grown
  BY DEF CompareInv, ServerInv, Grown, Rest, IsWorkspace, IsList
<1>3. CallInv(s)' /\ compare' = compare
  BY <1>1 DEF CallInv, Copied, Rest
<1> QED BY <1>1, <1>2, <1>3, ServerStep

LEMMA BuildStep ==
  ASSUME CompareInv, Build
  PROVE  CompareInv' /\ KeepsHistory
<1>1. PICK r \in cmpCalls :
        /\ r.at = "sent" /\ Builds(r) /\ Rest /\ UNCHANGED wspace
        /\ CASE r.kind = "refresh" -> At(r, "built", Snapshot(wspace[1].parts), <<>>)
             [] r.kind = "replace" -> At(r, "built", Snapshot(r.cases), <<>>)
             [] OTHER -> At(r, "built", wspace[1].revisions[r.rev].snapshot, <<>>)
  BY DEF Build
<1>2. PICK snapshot : /\ At(r, "built", snapshot, <<>>)
                      /\ r.kind = "analyze" => snapshot = wspace[1].revisions[r.rev].snapshot
  BY <1>1 DEF Builds
<1> DEFINE s == [r EXCEPT !.at = "built", !.snapshot = snapshot, !.copy = <<>>]
<1>3. CallInv(r)
  BY DEF CompareInv
<1>4. /\ DOMAIN s = CallFields /\ s.kind = r.kind /\ s.rev = r.rev /\ s.view = r.view
      /\ s.at = "built" /\ s.snapshot = snapshot
  BY <1>3, CallMoves DEF CallInv
<1>5. CallInv(s)
  <2> HIDE DEF s
  <2> QED BY <1>1, <1>2, <1>3, <1>4 DEF CallInv, OfWorkspace, Builds
<1> QED BY <1>1, <1>2, <1>5, MovesOnly

LEMMA FailStep ==
  ASSUME CompareInv, Fail
  PROVE  CompareInv' /\ KeepsHistory
<1>1. PICK r \in cmpCalls : /\ r.at \in {"sent", "built"} /\ Rest /\ UNCHANGED wspace
                            /\ At(r, "failed", NoResult, <<>>)
  BY DEF Fail
<1> DEFINE s == [r EXCEPT !.at = "failed", !.snapshot = NoResult, !.copy = <<>>]
<1>3. CallInv(r)
  BY DEF CompareInv
<1>4. DOMAIN s = CallFields /\ s.kind = r.kind /\ s.rev = r.rev /\ s.view = r.view /\ s.at = "failed"
  BY <1>3, CallMoves DEF CallInv
<1>5. CallInv(s)
  <2> HIDE DEF s
  <2> QED BY <1>1, <1>3, <1>4 DEF CallInv, OfWorkspace, Builds
<1> QED BY <1>1, <1>5, MovesOnly

\* A request that is answered with the workspace it leaves.
LEMMA LeavesWorkspace ==
  ASSUME CompareInv, NEW r \in cmpCalls, NEW w, NEW snapshot, Rest, wspace' = <<w>>,
         At(r, "answered", snapshot, <<w>>),
         IsWorkspace(w), SessionsFit(w), ViewFits(w), Grown,
         r.kind = "create" \/ wspace # <<>>
  PROVE  CompareInv' /\ KeepsHistory
<1> DEFINE s == [r EXCEPT !.at = "answered", !.snapshot = snapshot, !.copy = <<w>>]
<1>1. CallInv(r)
  BY DEF CompareInv
<1>2. /\ DOMAIN s = CallFields /\ s.kind = r.kind /\ s.rev = r.rev /\ s.view = r.view
      /\ s.at = "answered" /\ s.copy = <<w>> /\ cmpCalls' = (cmpCalls \ {r}) \union {s}
  BY <1>1, CallMoves DEF CallInv, At
<1> HIDE DEF s
<1>3. One(<<w>>) /\ <<w>> # <<>> /\ <<w>>[1] = w
  BY OneElement
<1>4. ServerInv' /\ compare' = compare /\ wspace' # <<>> /\ wspace'[1] = w
  BY <1>3 DEF CompareInv, ServerInv, Rest
<1>5. Copied(<<w>>)' /\ Len(w.revisions) \in Nat
  BY <1>3, <1>4 DEF Copied, IsWorkspace, IsList
<1>6. wspace # <<>> => /\ Len(wspace[1].revisions) \in Nat /\ Len(wspace[1].revisions) <= Len(w.revisions)
  BY <1>4, ServerGrows
<1>7. r.kind = "view" => r.view \in [rev : 0 .. Len(w.revisions)]
  <2> SUFFICES ASSUME r.kind = "view" PROVE r.view \in [rev : 0 .. Len(w.revisions)]
    OBVIOUS
  <2>1. r.view \in [rev : 0 .. Len(wspace[1].revisions)] /\ wspace # <<>>
    BY <1>1 DEF CallInv, OfWorkspace
  <2> QED BY <1>5, <1>6, <2>1
<1>8. r.kind = "analyze" /\ r.rev # 0 => r.rev \in 1 .. Len(w.revisions)
  BY <1>1, <1>5, <1>6 DEF CallInv, OfWorkspace, Builds
<1>9. CallInv(s)'
  <2>1. /\ s.kind = "create" => s.view = NoView
        /\ s.kind \in Kinds
    BY <1>1, <1>2 DEF CallInv
  <2> QED BY <1>2, <1>3, <1>4, <1>5, <1>7, <1>8, <2>1 DEF CallInv, OfWorkspace, Builds, ViewFits
<1> QED BY <1>2, <1>4, <1>9, ServerStep

LEMMA StoreStep ==
  ASSUME CompareInv, Store
  PROVE  CompareInv' /\ KeepsHistory
<1> DEFINE old == wspace[1]
           New(r) == CASE r.kind = "refresh" -> AppendRevision(old, r.snapshot, old.parts)
                       [] r.kind = "replace" -> AppendRevision(old, r.snapshot, r.cases)
                       [] OTHER -> [old EXCEPT !.sessions = Append(@, NewSession(Len(@) + 1, r))]
<1>1. PICK r \in cmpCalls : /\ r.at = "built" /\ Rest
                            /\ wspace' = <<New(r)>> /\ At(r, "answered", r.snapshot, <<New(r)>>)
  BY DEF Store
<1>2. CallInv(r) /\ ServerInv
  BY DEF CompareInv
<1>3. Builds(r) /\ wspace # <<>>
  BY <1>1, <1>2 DEF CallInv, OfWorkspace
<1>4. IsWorkspace(old) /\ SessionsFit(old) /\ ViewFits(old)
  BY <1>2, <1>3 DEF ServerInv
<1>5. /\ IsWorkspace(New(r)) /\ SessionsFit(New(r)) /\ ViewFits(New(r))
      /\ Len(old.revisions) <= Len(New(r).revisions)
      /\ \A n \in 1 .. Len(old.revisions) : New(r).revisions[n] = old.revisions[n]
  <2>1. Len(old.revisions) \in Nat /\ DOMAIN old.revisions = 1 .. Len(old.revisions)
    BY <1>4 DEF IsWorkspace, IsList
  <2>2. CASE r.kind = "refresh"
    <3>1. New(r) = AppendRevision(old, r.snapshot, old.parts)
      BY <2>2
    <3> HIDE DEF New
    <3> QED BY <1>4, <2>1, <3>1, RevisionAppended
  <2>3. CASE r.kind = "replace"
    <3>1. New(r) = AppendRevision(old, r.snapshot, r.cases)
      BY <2>3
    <3> HIDE DEF New
    <3> QED BY <1>4, <2>1, <3>1, RevisionAppended
  <2>4. CASE r.kind = "analyze" /\ r.rev # 0
    <3> DEFINE x == NewSession(Len(old.sessions) + 1, r)
    <3>1. New(r) = [old EXCEPT !.sessions = Append(@, x)]
      BY <2>4
    <3>2. x.rev = r.rev /\ x.about = r.snapshot
      BY DEF NewSession
    <3>3. x.rev \in DOMAIN old.revisions /\ x.about = old.revisions[x.rev].snapshot
      BY <1>1, <1>2, <2>1, <2>4, <3>2 DEF CallInv
    <3> HIDE DEF x
    <3>4. /\ IsWorkspace(New(r)) /\ SessionsFit(New(r)) /\ ViewFits(New(r))
          /\ New(r).revisions = old.revisions
      <4> HIDE DEF New, old
      <4> QED BY <1>4, <3>1, <3>3, SessionAppended
    <3> HIDE DEF New
    <3> QED BY <2>1, <3>4
  <2> QED BY <1>3, <2>2, <2>3, <2>4 DEF Builds
<1> DEFINE w == New(r)
<1>6. wspace' = <<w>> /\ At(r, "answered", r.snapshot, <<w>>)
  BY <1>1
<1>7. IsWorkspace(w) /\ SessionsFit(w) /\ ViewFits(w)
  BY <1>5
<1>8. Grown
  <2>1. /\ Len(wspace[1].revisions) <= Len(w.revisions)
        /\ \A n \in 1 .. Len(wspace[1].revisions) : w.revisions[n] = wspace[1].revisions[n]
    BY <1>5
  <2> HIDE DEF w
  <2> QED BY <1>6, <2>1, OneElement DEF Grown
<1> HIDE DEF w, New
<1> QED BY <1>1, <1>3, <1>6, <1>7, <1>8, LeavesWorkspace

LEMMA ServeStep ==
  ASSUME CompareInv, Serve
  PROVE  CompareInv' /\ KeepsHistory
<1>1. PICK r \in cmpCalls :
        /\ r.at = "sent" /\ ~Builds(r) /\ Rest
        /\ LET w == CASE r.kind = "create" -> <<NewWorkspace(Snapshot(r.cases), r.view)>>
                      [] r.kind = "view" -> <<[wspace[1] EXCEPT !.view = r.view]>>
                      [] OTHER -> wspace
           IN  wspace' = w /\ At(r, "answered", Snapshot(r.cases), w)
  BY DEF Serve
<1>2. CallInv(r) /\ ServerInv
  BY DEF CompareInv
<1>3. CASE r.kind = "create"
  <2> DEFINE w == NewWorkspace(Snapshot(r.cases), NoView)
  <2>1. wspace' = <<w>> /\ At(r, "answered", Snapshot(r.cases), <<w>>) /\ wspace = <<>>
    BY <1>1, <1>2, <1>3 DEF CallInv
  <2>2. IsWorkspace(w) /\ SessionsFit(w) /\ ViewFits(w)
    BY NewWorkspaceFits
  <2> HIDE DEF w
  <2>3. Grown
    BY <2>1 DEF Grown
  <2> QED BY <1>1, <1>3, <2>1, <2>2, <2>3, LeavesWorkspace
<1>4. CASE r.kind = "view"
  <2> DEFINE w == [wspace[1] EXCEPT !.view = r.view]
  <2>1. wspace' = <<w>> /\ At(r, "answered", Snapshot(r.cases), <<w>>)
    BY <1>1, <1>4
  <2>2. wspace # <<>> /\ r.view \in [rev : 0 .. Len(wspace[1].revisions)]
    BY <1>2, <1>4 DEF CallInv, OfWorkspace
  <2>3. IsWorkspace(wspace[1]) /\ SessionsFit(wspace[1])
    BY <1>2, <2>2 DEF ServerInv
  <2>4. /\ DOMAIN w = WorkspaceFields /\ w.revisions = wspace[1].revisions /\ w.sessions = wspace[1].sessions
        /\ w.view = r.view
    BY <2>3 DEF IsWorkspace, WorkspaceFields
  <2> HIDE DEF w
  <2>5. IsWorkspace(w) /\ SessionsFit(w) /\ ViewFits(w)
    BY <2>2, <2>3, <2>4 DEF IsWorkspace, SessionsFit, ViewFits
  <2>6. Grown
    <3>1. Len(wspace[1].revisions) \in Nat /\ wspace' # <<>> /\ wspace'[1].revisions = wspace[1].revisions
      BY <2>1, <2>3, <2>4, OneElement DEF IsWorkspace, IsList
    <3> QED BY <3>1 DEF Grown
  <2> QED BY <1>1, <2>1, <2>2, <2>5, <2>6, LeavesWorkspace
<1>5. CASE r.kind \notin {"create", "view"}
  <2> DEFINE s == [r EXCEPT !.at = "answered", !.snapshot = Snapshot(r.cases), !.copy = wspace]
  <2>1. UNCHANGED wspace /\ At(r, "answered", Snapshot(r.cases), wspace)
    BY <1>1, <1>5
  <2>2. /\ DOMAIN s = CallFields /\ s.kind = r.kind /\ s.rev = r.rev /\ s.view = r.view
        /\ s.at = "answered" /\ s.copy = wspace
    BY <1>2, CallMoves DEF CallInv
  <2>3. wspace # <<>> => Copied(wspace) /\ ViewFits(wspace[1])
    BY <1>2 DEF ServerInv, Copied, IsWorkspace, IsList
  <2>4. CallInv(s)
    <3> HIDE DEF s
    <3> QED BY <1>1, <1>2, <1>5, <2>2, <2>3 DEF CallInv, OfWorkspace, Builds
  <2> QED BY <1>1, <2>1, <2>4, MovesOnly
<1> QED BY <1>3, <1>4, <1>5

-----------------------------------------------------------------------------
(***************************************************************************)
(* The answers.                                                            *)
(***************************************************************************)
LEMMA AnswerStep ==
  ASSUME CompareInv, NEW r \in cmpCalls, NEW p, Answers(r, p), PageInv(p),
         p.busy = compare.busy \ {r.kind}, p.opened = compare.opened,
         p.ws = <<>> => compare.ws = <<>>,
         compare.ws = <<>> /\ p.ws # <<>> => r.kind = "load"
  PROVE  CompareInv' /\ KeepsHistory
<1> DEFINE calls == cmpCalls \ {r}
<1>1. Becomes(p) /\ cmpCalls' = calls /\ UNCHANGED <<facts, wspace>>
  BY DEF Answers
<1>2. PageInv(compare) /\ Backed(compare, cmpCalls)
  BY DEF CompareInv
<1>3. Backed(p, calls)
  <2>1. /\ \A t \in calls : t.kind \in Buttons => t.kind \in p.busy
        /\ \A k \in p.busy : \E t \in calls : t.kind = k
    BY <1>2 DEF Backed, PageInv
  <2>2. \A t, u \in calls : t.kind = u.kind /\ t.kind \in Buttons => t = u
    BY <1>2 DEF Backed
  <2>3. p.ws = <<>> => \A t \in calls : t.kind \notin {"view", "refresh", "replace"}
    BY <1>2 DEF Backed
  <2>4. p.opened = "saved" =>
          /\ \A t \in calls : t.kind # "create"
          /\ (\E t \in calls : t.kind = "compare") => p.ws = <<>> /\ \A t \in calls : t.kind # "load"
    BY <1>2 DEF Backed
  <2> HIDE DEF calls
  <2> QED BY <2>1, <2>2, <2>3, <2>4 DEF Backed
<1>4. \A t \in calls \ cmpCalls : CallInv(t)
  OBVIOUS
<1> HIDE DEF calls
<1> QED BY <1>1, <1>3, <1>4, PageStep

LEMMA FreePage ==
  ASSUME CompareInv, NEW kind
  PROVE  LET p == Free(kind)
         IN  /\ DOMAIN p = PageFields /\ p.busy = compare.busy \ {kind} /\ p.ws = compare.ws
             /\ p.rev = compare.rev /\ p.hydrated = compare.hydrated /\ p.timer = compare.timer
             /\ p.edit = compare.edit /\ p.opened = compare.opened /\ p.route = compare.route
             /\ p.result = compare.result
BY DEF CompareInv, PageInv, Free, PageFields

\* A page with a revision of a workspace that has arrived.
LEMMA ShowingFits ==
  ASSUME CompareInv, NEW p, DOMAIN p = PageFields, p.busy \subseteq Buttons,
         p.opened = compare.opened, p.route = compare.route,
         NEW ws, Copied(ws), NEW n \in 1 .. Len(ws[1].revisions),
         p.ws = ws, p.rev = n, p.result = ws[1].revisions[n].snapshot
  PROVE  PageInv(p)
<1>1. PageInv(compare) /\ ws # <<>>
  <2>1. ws = <<ws[1]>>
    BY DEF Copied, One
  <2> QED BY <2>1, OneElement DEF CompareInv
<1> QED BY <1>1 DEF PageInv

LEMMA LoadStep ==
  ASSUME CompareInv, WorkspaceArrives
  PROVE  CompareInv' /\ KeepsHistory
<1> DEFINE Shown(r) == LET w == r.copy[1]
                           n == IF w.view.rev = 0 THEN Active(w) ELSE w.view.rev
                           latest == LatestSession(w, n)
                           p == Showing(compare, w, n)
                       IN  IF latest = NoSession THEN p
                           ELSE [p EXCEPT !.session = latest.id, !.analysis = latest.about]
           Arrived(r, early) == [Shown(r) EXCEPT !.hydrated = TRUE, !.timer = early,
                                                 !.save = IF early THEN "saving" ELSE @]
<1>1. PICK r \in Hear("load"), early \in BOOLEAN : Answers(r, Arrived(r, early))
  BY DEF WorkspaceArrives
<1>2. r \in cmpCalls /\ r.kind = "load" /\ Copied(r.copy) /\ ViewFits(r.copy[1]) /\ PageInv(compare)
  BY DEF Hear, CompareInv, CallInv
<1> DEFINE w == r.copy[1]
           n == IF w.view.rev = 0 THEN Active(w) ELSE w.view.rev
           q == Shown(r)
           p == Arrived(r, early)
<1>3. /\ DOMAIN q = PageFields /\ q.busy = compare.busy /\ q.ws = <<w>> /\ q.rev = n
      /\ q.result = w.revisions[n].snapshot /\ q.opened = compare.opened /\ q.route = compare.route
  <2> DEFINE latest == LatestSession(w, n)
             one == Showing(compare, w, n)
  <2>1. /\ DOMAIN one = PageFields /\ one.busy = compare.busy /\ one.ws = <<w>> /\ one.rev = n
        /\ one.result = w.revisions[n].snapshot /\ one.opened = compare.opened /\ one.route = compare.route
    <3> HIDE DEF w, n
    <3> QED BY <1>2 DEF Showing, PageInv, PageFields
  <2>2. q = IF latest = NoSession THEN one ELSE [one EXCEPT !.session = latest.id, !.analysis = latest.about]
    OBVIOUS
  <2> HIDE DEF latest, one, q, w, n
  <2> QED BY <2>1, <2>2 DEF PageFields
<1>4. p = [q EXCEPT !.hydrated = TRUE, !.timer = early, !.save = IF early THEN "saving" ELSE @] /\ Answers(r, p)
  BY <1>1
<1>5. n \in 1 .. Len(w.revisions) /\ r.copy = <<w>>
  BY <1>2 DEF ViewFits, Copied, One, IsWorkspace, IsList, Active
<1> HIDE DEF q, p, n
<1>6. /\ DOMAIN p = PageFields /\ p.busy = compare.busy /\ p.ws = r.copy /\ p.rev = n
      /\ p.result = w.revisions[n].snapshot /\ p.opened = compare.opened /\ p.route = compare.route
  BY <1>3, <1>4, <1>5 DEF PageFields
<1>7. PageInv(p)
  BY <1>2, <1>5, <1>6, ShowingFits DEF PageInv
<1>8. p.busy = compare.busy \ {r.kind}
  BY <1>2, <1>6 DEF PageInv, Buttons
<1>9. p.ws # <<>>
  BY <1>5, <1>6, OneElement
<1> HIDE DEF w
<1> QED BY <1>2, <1>4, <1>6, <1>7, <1>8, <1>9, AnswerStep

LEMMA ComparedStep ==
  ASSUME CompareInv, Compared
  PROVE  CompareInv' /\ KeepsHistory
<1>1. PICK r \in Hear("compare") :
        Answers(r, [Free("compare") EXCEPT !.result = r.snapshot, !.tab = "evidence"])
  BY DEF Compared
<1> DEFINE p == [Free("compare") EXCEPT !.result = r.snapshot, !.tab = "evidence"]
<1>2. r \in cmpCalls /\ r.kind = "compare" /\ Answers(r, p)
  BY <1>1 DEF Hear
<1>3. /\ DOMAIN p = PageFields /\ p.busy = compare.busy \ {r.kind} /\ p.ws = compare.ws
      /\ p.rev = compare.rev /\ p.hydrated = compare.hydrated /\ p.timer = compare.timer
      /\ p.edit = compare.edit /\ p.opened = compare.opened /\ p.route = compare.route
  BY <1>2, FreePage DEF PageFields
<1> HIDE DEF p
<1>4. compare.opened = "saved" => compare.ws = <<>>
  BY <1>2 DEF CompareInv, Backed
<1>5. PageInv(p)
  BY <1>3, <1>4 DEF CompareInv, PageInv
<1> QED BY <1>2, <1>3, <1>5, AnswerStep

\* An answer that changes nothing the invariant is about.
LEMMA AlikeAnswer ==
  ASSUME CompareInv, NEW r \in cmpCalls, NEW p, Answers(r, p), DOMAIN p = PageFields,
         p.busy = compare.busy \ {r.kind}, p.ws = compare.ws,
         p.rev = compare.rev, p.hydrated = compare.hydrated, p.timer = compare.timer,
         p.edit = compare.edit, p.opened = compare.opened, p.route = compare.route, p.result = compare.result
  PROVE  CompareInv' /\ KeepsHistory
<1>1. PageInv(p)
  BY DEF CompareInv, PageInv
<1> QED BY <1>1, AnswerStep

\* An answer that changes the page's copy of the workspace, its revisions excepted.
LEMMA CopyAnswer ==
  ASSUME CompareInv, NEW r \in cmpCalls, NEW p, Answers(r, p), DOMAIN p = PageFields,
         p.busy = compare.busy \ {r.kind}, compare.ws # <<>>,
         NEW w, p.ws = <<w>>, IsWorkspace(w), w.revisions = compare.ws[1].revisions,
         p.rev = compare.rev, p.opened = compare.opened, p.route = compare.route, p.result = compare.result
  PROVE  CompareInv' /\ KeepsHistory
<1>1. PageInv(compare)
  BY DEF CompareInv
<1>2. One(<<w>>) /\ <<w>> # <<>> /\ <<w>>[1] = w
  BY OneElement
<1>3. Copied(<<w>>)
  BY <1>1, <1>2 DEF PageInv, Copied
<1>4. PageInv(p)
  BY <1>1, <1>2, <1>3 DEF PageInv
<1> QED BY <1>2, <1>4, AnswerStep

LEMMA AnalyzedStep ==
  ASSUME CompareInv, Analyzed
  PROVE  CompareInv' /\ KeepsHistory
<1>1. PICK r \in Hear("analyze") :
        LET p == [Free("analyze") EXCEPT !.analysis = r.snapshot]
        IN  IF r.rev = 0 \/ compare.ws = <<>> THEN Answers(r, p)
            ELSE LET new == Last(r.copy[1].sessions)
                 IN  Answers(r, [p EXCEPT !.ws[1].sessions = Append(@, new), !.session = new.id])
  BY DEF Analyzed
<1> DEFINE p == [Free("analyze") EXCEPT !.analysis = r.snapshot]
           new == Last(r.copy[1].sessions)
<1>2. r \in cmpCalls /\ r.kind = "analyze"
  BY DEF Hear
<1>3. /\ DOMAIN p = PageFields /\ p.busy = compare.busy \ {r.kind} /\ p.ws = compare.ws
      /\ p.rev = compare.rev /\ p.hydrated = compare.hydrated /\ p.timer = compare.timer
      /\ p.edit = compare.edit /\ p.opened = compare.opened /\ p.route = compare.route
      /\ p.result = compare.result
  BY <1>2, FreePage DEF PageFields
<1>4. CASE r.rev = 0 \/ compare.ws = <<>>
  <2>1. Answers(r, p)
    BY <1>1, <1>4
  <2> HIDE DEF p
  <2> QED BY <1>2, <1>3, <2>1, AlikeAnswer
<1>5. CASE ~(r.rev = 0 \/ compare.ws = <<>>)
  <2> DEFINE w == [compare.ws[1] EXCEPT !.sessions = Append(@, new)]
             q == [p EXCEPT !.ws[1].sessions = Append(@, new), !.session = new.id]
  <2>1. Answers(r, q)
    BY <1>1, <1>5
  <2>2. One(compare.ws) /\ IsWorkspace(compare.ws[1])
    BY <1>5, PageKnows
  <2>3. IsWorkspace(w) /\ w.revisions = compare.ws[1].revisions
    BY <2>2 DEF IsWorkspace, WorkspaceFields
  <2>4. [compare.ws EXCEPT ![1].sessions = Append(@, new)] = <<w>>
    <3>1. [compare.ws EXCEPT ![1].sessions = Append(@, new)] = [compare.ws EXCEPT ![1] = w]
      OBVIOUS
    <3> HIDE DEF w
    <3> QED BY <2>2, <3>1, OneChanged
  <2> HIDE DEF p, w, new
  <2>5. /\ DOMAIN q = PageFields /\ q.busy = p.busy /\ q.ws = <<w>> /\ q.rev = p.rev
        /\ q.opened = p.opened /\ q.route = p.route /\ q.result = p.result
    BY <1>3, <2>4 DEF PageFields
  <2> HIDE DEF q
  <2> QED BY <1>2, <1>3, <1>5, <2>1, <2>3, <2>5, CopyAnswer
<1> QED BY <1>4, <1>5

LEMMA RefreshedStep ==
  ASSUME CompareInv, Refreshed
  PROVE  CompareInv' /\ KeepsHistory
<1> DEFINE Fresh(kind, r) == LET w == r.copy[1]
                             IN  [Showing(Free(kind), w, Active(w)) EXCEPT !.analysis = <<>>, !.session = 0]
<1>1. PICK kind \in {"refresh", "replace"} : \E r \in Hear(kind) :
        Answers(r, IF kind = "replace" THEN [Fresh(kind, r) EXCEPT !.edit = <<>>] ELSE Fresh(kind, r))
  BY DEF Refreshed
<1>2. PICK r \in Hear(kind) :
        Answers(r, IF kind = "replace" THEN [Fresh(kind, r) EXCEPT !.edit = <<>>] ELSE Fresh(kind, r))
  BY <1>1
<1>3. r \in cmpCalls /\ r.kind = kind /\ Copied(r.copy) /\ compare.ws # <<>> /\ compare.busy \subseteq Buttons
  BY DEF Hear, CompareInv, CallInv, Builds, Backed, PageInv
<1> DEFINE w == r.copy[1]
           n == Active(w)
           q == Fresh(kind, r)
           p == IF kind = "replace" THEN [q EXCEPT !.edit = <<>>] ELSE q
<1>4. /\ DOMAIN q = PageFields /\ q.busy = compare.busy \ {kind} /\ q.ws = <<w>> /\ q.rev = n
      /\ q.result = w.revisions[n].snapshot /\ q.opened = compare.opened /\ q.route = compare.route
  <2>1. q = [Showing(Free(kind), w, n) EXCEPT !.analysis = <<>>, !.session = 0]
    OBVIOUS
  <2> HIDE DEF q, w, n
  <2> QED BY <2>1, FreePage DEF Showing, PageFields
<1>5. Answers(r, p)
  BY <1>2
<1>6. n \in 1 .. Len(w.revisions) /\ r.copy = <<w>>
  BY <1>3 DEF Copied, One, IsWorkspace, IsList, Active
<1> HIDE DEF q, n
<1>7. /\ DOMAIN p = PageFields /\ p.busy = compare.busy \ {kind} /\ p.ws = r.copy /\ p.rev = n
      /\ p.result = w.revisions[n].snapshot /\ p.opened = compare.opened /\ p.route = compare.route
  BY <1>4, <1>6 DEF PageFields
<1> HIDE DEF p
<1>8. PageInv(p)
  BY <1>3, <1>6, <1>7, ShowingFits
<1> QED BY <1>3, <1>5, <1>7, <1>8, AnswerStep DEF Copied, One

LEMMA SweptStep ==
  ASSUME CompareInv, Swept
  PROVE  CompareInv' /\ KeepsHistory
<1>1. PICK r \in Hear("sweep") : Answers(r, [Free("sweep") EXCEPT !.sweep = r.values, !.made = r.create])
  BY DEF Swept
<1> DEFINE p == [Free("sweep") EXCEPT !.sweep = r.values, !.made = r.create]
<1>2. r \in cmpCalls /\ r.kind = "sweep" /\ Answers(r, p)
  BY <1>1 DEF Hear
<1>3. /\ DOMAIN p = PageFields /\ p.busy = compare.busy \ {r.kind} /\ p.ws = compare.ws
      /\ p.rev = compare.rev /\ p.hydrated = compare.hydrated /\ p.timer = compare.timer
      /\ p.edit = compare.edit /\ p.opened = compare.opened /\ p.route = compare.route
      /\ p.result = compare.result
  BY <1>2, FreePage DEF PageFields
<1> HIDE DEF p
<1> QED BY <1>2, <1>3, AlikeAnswer

LEMMA ViewSavedStep ==
  ASSUME CompareInv, ViewSaved
  PROVE  CompareInv' /\ KeepsHistory
<1>1. PICK r \in Hear("view") : Answers(r, [compare EXCEPT !.save = "saved", !.ws[1].view = r.view])
  BY DEF ViewSaved
<1> DEFINE w == [compare.ws[1] EXCEPT !.view = r.view]
           p == [compare EXCEPT !.save = "saved", !.ws[1].view = r.view]
<1>2. /\ r \in cmpCalls /\ r.kind = "view" /\ Answers(r, p) /\ compare.ws # <<>>
      /\ DOMAIN compare = PageFields /\ compare.busy \subseteq Buttons
  BY <1>1 DEF Hear, CompareInv, Backed, PageInv
<1>3. One(compare.ws) /\ IsWorkspace(compare.ws[1])
  BY <1>2, PageKnows
<1>4. IsWorkspace(w) /\ w.revisions = compare.ws[1].revisions
  BY <1>3 DEF IsWorkspace, WorkspaceFields
<1>5. [compare.ws EXCEPT ![1].view = r.view] = <<w>>
  <2>1. [compare.ws EXCEPT ![1].view = r.view] = [compare.ws EXCEPT ![1] = w]
    OBVIOUS
  <2> HIDE DEF w
  <2> QED BY <1>3, <2>1, OneChanged
<1> HIDE DEF w
<1>6. /\ DOMAIN p = PageFields /\ p.busy = compare.busy /\ p.ws = <<w>> /\ p.rev = compare.rev
      /\ p.opened = compare.opened /\ p.route = compare.route /\ p.result = compare.result
  BY <1>2, <1>5 DEF PageFields
<1> HIDE DEF p
<1>7. p.busy = compare.busy \ {r.kind}
  BY <1>2, <1>6 DEF Buttons
<1> QED BY <1>2, <1>4, <1>6, <1>7, CopyAnswer

LEMMA FailureStep ==
  ASSUME CompareInv, HearFailure
  PROVE  CompareInv' /\ KeepsHistory
<1>1. PICK r \in cmpCalls :
        r.at = "failed" /\ Answers(r, IF r.kind = "view" THEN [compare EXCEPT !.save = "error"] ELSE Free(r.kind))
  BY DEF HearFailure
<1>2. CASE r.kind = "view"
  <2> DEFINE p == [compare EXCEPT !.save = "error"]
  <2>1. Answers(r, p)
    BY <1>1, <1>2
  <2>2. Alike(p) /\ compare.busy \subseteq Buttons
    BY SteppedAlike DEF Alike, PageFields, CompareInv, PageInv
  <2>3. p.edit = compare.edit /\ p.result = compare.result
    BY SteppedAlike DEF Alike, PageFields
  <2> HIDE DEF p
  <2>4. p.busy = compare.busy \ {r.kind}
    BY <1>2, <2>2 DEF Alike, Buttons
  <2> QED BY <2>1, <2>2, <2>3, <2>4, AlikeAnswer DEF Alike
<1>3. CASE r.kind # "view"
  <2>1. Answers(r, Free(r.kind))
    BY <1>1, <1>3
  <2> QED BY <2>1, FreePage, AlikeAnswer
<1> QED BY <1>2, <1>3

\* The saved workspace: the page asks for it under its new address.
LEMMA CreatedStep ==
  ASSUME CompareInv, Created
  PROVE  CompareInv' /\ KeepsHistory
<1>1. PICK r \in Hear("create") :
        /\ cmpCalls' = (cmpCalls \ {r}) \union {Call("load")}
        /\ Becomes([Free("create") EXCEPT !.route = "saved", !.chosen = <<>>]) /\ UNCHANGED <<facts, wspace>>
  BY DEF Created
<1> DEFINE p == [Free("create") EXCEPT !.route = "saved", !.chosen = <<>>]
           load == Call("load")
           calls == (cmpCalls \ {r}) \union {load}
<1>2. r \in cmpCalls /\ r.kind = "create" /\ r.at = "answered" /\ PageInv(compare) /\ Backed(compare, cmpCalls)
  BY DEF Hear, CompareInv
<1>3. compare.opened # "saved" /\ wspace # <<>>
  BY <1>2 DEF CompareInv, CallInv, Backed
<1>4. /\ DOMAIN p = PageFields /\ p.busy = compare.busy \ {r.kind} /\ p.ws = compare.ws
      /\ p.rev = compare.rev /\ p.hydrated = compare.hydrated /\ p.timer = compare.timer
      /\ p.edit = compare.edit /\ p.opened = compare.opened
  BY <1>2, FreePage DEF PageFields
<1>5. CallInv(load) /\ load.kind = "load"
  <2>1. DOMAIN load = CallFields /\ load.kind = "load" /\ load.at = "sent"
    BY CallShape
  <2> HIDE DEF load
  <2> QED BY <1>3, <2>1, NewCall DEF Kinds
<1> HIDE DEF p, load
<1>6. PageInv(p)
  BY <1>2, <1>3, <1>4 DEF PageInv
<1>7. Backed(p, calls)
  <2>1. /\ \A t \in calls : t.kind \in Buttons => t.kind \in p.busy
        /\ \A k \in p.busy : \E t \in calls : t.kind = k
    BY <1>2, <1>4, <1>5 DEF Backed, PageInv, Buttons
  <2>2. \A t, u \in calls : t.kind = u.kind /\ t.kind \in Buttons => t = u
    BY <1>2, <1>5 DEF Backed, Buttons
  <2>3. p.ws = <<>> => \A t \in calls : t.kind \notin {"view", "refresh", "replace"}
    BY <1>2, <1>4, <1>5 DEF Backed
  <2> QED BY <1>3, <1>4, <2>1, <2>2, <2>3 DEF Backed
<1>8. \A t \in calls \ cmpCalls : CallInv(t)
  BY <1>5
<1>9. Becomes(p) /\ cmpCalls' = calls /\ UNCHANGED <<facts, wspace>>
  BY <1>1 DEF p, load
<1> HIDE DEF calls
<1> QED BY <1>6, <1>7, <1>8, <1>9, PageStep

-----------------------------------------------------------------------------
(***************************************************************************)
(* The theorems.                                                           *)
(***************************************************************************)
LEMMA InitInv == Init => CompareInv
<1> SUFFICES ASSUME Init PROVE CompareInv
  OBVIOUS
<1>1. DOMAIN facts = CaseIds
  BY DEF Init
<1>2. CASE /\ wspace = <<>> /\ compare = [Page("project") EXCEPT !.chosen = FirstCases] /\ cmpCalls = {}
  <2>1. ServerInv
    BY <1>1, <1>2 DEF ServerInv
  <2>2. PageInv(compare) /\ Backed(compare, cmpCalls)
    BY <1>2 DEF PageInv, Backed, Page, PageFields
  <2> QED BY <1>2, <2>1, <2>2 DEF CompareInv
<1>3. CASE /\ wspace = <<NewWorkspace(Snapshot(FirstCases), NoView)>>
           /\ compare = Page("saved") /\ cmpCalls = {Call("load")}
  <2> DEFINE w == NewWorkspace(Snapshot(FirstCases), NoView)
  <2>1. IsWorkspace(w) /\ SessionsFit(w) /\ ViewFits(w)
    BY NewWorkspaceFits
  <2>2. wspace = <<w>>
    BY <1>3
  <2> HIDE DEF w
  <2>3. ServerInv /\ wspace # <<>>
    BY <1>1, <2>1, <2>2, OneElement DEF ServerInv
  <2>4. PageInv(compare) /\ compare.busy = {} /\ compare.ws = <<>>
    BY <1>3 DEF PageInv, Page, PageFields
  <2>5. /\ CallInv(Call("load")) /\ Call("load").kind = "load"
    BY <2>3, CallShape, NewCall DEF Kinds
  <2>6. Backed(compare, cmpCalls)
    BY <1>3, <2>4, <2>5 DEF Backed, Buttons
  <2> QED BY <1>3, <2>3, <2>4, <2>5, <2>6 DEF CompareInv
<1> QED BY <1>2, <1>3 DEF Init

LEMMA StutterStep ==
  ASSUME CompareInv, UNCHANGED cmpVars
  PROVE  CompareInv' /\ KeepsHistory
<1>1. UNCHANGED <<facts, wspace, compare, cmpCalls>>
  BY DEF cmpVars
<1>2. CompareInv'
  BY <1>1 DEF CompareInv, ServerInv, PageInv, Copied, Backed, CallInv
<1>3. KeepsHistory
  BY <1>1 DEF CompareInv, ServerInv, IsWorkspace, IsList, KeepsHistory
<1> QED BY <1>2, <1>3

LEMMA EveryStep ==
  ASSUME CompareInv, [Next]_cmpVars
  PROVE  CompareInv' /\ KeepsHistory
BY StutterStep, CaseStep, PickingStep, AnalyzeStep, SaveStep, RevisionStep, SweepStep, EditorStep, SelectStep,
   ViewStep, TimerStep, BuildStep, StoreStep, ServeStep, FailStep, LoadStep, ComparedStep, AnalyzedStep,
   RefreshedStep, CreatedStep, SweptStep, ViewSavedStep, FailureStep
   DEF Next

LEMMA CompareAlways == Spec => []CompareInv
<1>1. CompareInv /\ [Next]_cmpVars => CompareInv'
  BY EveryStep
<1> QED BY InitInv, <1>1, PTL DEF Spec

LEMMA TypesFollow ==
  ASSUME CompareInv
  PROVE  TypeOK
<1>1. ServerInv /\ PageInv(compare)
  BY DEF CompareInv
<1>2. wspace = <<>> \/ wspace = <<wspace[1]>>
  BY <1>1 DEF ServerInv, One
<1>3. Len(wspace) \in 0 .. 1
  BY <1>2, OneElement
<1>4. ASSUME NEW w \in ToSet(wspace)
      PROVE  /\ \A i \in DOMAIN w.sessions : w.sessions[i].rev \in DOMAIN w.revisions
             /\ w.view.rev \in 0 .. Len(w.revisions)
  <2>1. wspace # <<>> /\ w = wspace[1]
    BY <1>2 DEF ToSet
  <2>2. SessionsFit(w) /\ ViewFits(w)
    BY <1>1, <2>1 DEF ServerInv
  <2> QED BY <2>2 DEF SessionsFit, ViewFits
<1>5. compare.ws # <<>> => compare.rev \in DOMAIN compare.ws[1].revisions
  BY <1>1, PageKnows DEF PageInv
<1>6. compare.busy \subseteq {"compare", "analyze", "refresh", "replace", "create", "sweep"}
  BY <1>1 DEF PageInv, Buttons
<1> QED BY <1>1, <1>3, <1>4, <1>5, <1>6 DEF TypeOK, ServerInv

\* In every reachable state the variables have their types: there is at most
\* one workspace, its analyses and its view name revisions that it has, and so
\* does the page.
THEOREM TypesHold == Spec => []TypeOK
BY CompareAlways, TypesFollow, PTL

\* A button that is busy has a request under way that will free it: no answer,
\* failure or change of the page's address takes the request and leaves the
\* button busy.
THEOREM BusyButtonsAreBacked == Spec => []BusyIsBacked
<1>1. CompareInv => BusyIsBacked
  BY DEF CompareInv, Backed, BusyIsBacked
<1> QED BY CompareAlways, <1>1, PTL

\* A page opened on a saved workspace shows the evidence of the revision it
\* names, whatever the order in which the answers to its requests for another
\* revision arrive: the answer carries the whole workspace, and the comparison
\* that carries no workspace cannot be under way on such a page.
THEOREM EvidenceIsShown == Spec => []EvidenceIsOfRevision
<1>1. CompareInv => EvidenceIsOfRevision
  BY DEF CompareInv, PageInv, EvidenceIsOfRevision
<1> QED BY CompareAlways, <1>1, PTL

\* An analysis that the server keeps is about the evidence of the revision it is
\* kept under, although that evidence is read before the workspace is written
\* and revisions may be added meanwhile.
THEOREM AnalysesAreOfEvidence == Spec => []SessionsAreOfEvidence
<1>1. CompareInv => SessionsAreOfEvidence
  <2> SUFFICES ASSUME CompareInv, NEW w \in ToSet(wspace)
               PROVE  \A i \in DOMAIN w.sessions : w.sessions[i].about = w.revisions[w.sessions[i].rev].snapshot
    BY DEF SessionsAreOfEvidence
  <2>1. wspace = <<>> \/ wspace = <<wspace[1]>>
    BY DEF CompareInv, ServerInv, One
  <2>2. wspace # <<>> /\ w = wspace[1]
    BY <2>1 DEF ToSet
  <2> QED BY <2>2 DEF CompareInv, ServerInv, SessionsFit
<1> QED BY CompareAlways, <1>1, PTL

\* No step takes away or changes a revision of the workspace: refreshed and
\* replaced evidence is added to those that are there when it is stored.
THEOREM HistoryIsKept == Spec => [][KeepsHistory]_cmpVars
<1>1. CompareInv /\ [Next]_cmpVars => [KeepsHistory]_cmpVars
  BY EveryStep
<1> QED BY CompareAlways, <1>1, PTL DEF Spec

-----------------------------------------------------------------------------
(***************************************************************************)
(* The workspace of a Case.  No layer that was asked for has a higher      *)
(* number than the last one, and only a coloured selection has a field.    *)
(***************************************************************************)
SceneFields == {"ready", "found", "selected", "picked", "visible", "coloured", "field", "layer", "asked",
                "loading", "player", "steps"}
SceneTyped(s) ==
  /\ DOMAIN s = SceneFields
  /\ s.layer \in [ArchiveObjects -> Nat] /\ s.asked \in [ArchiveObjects -> Nat]
  /\ s.loading \in ArchiveObjects \cup {NoObject} /\ s.player \in ArchiveObjects \cup {NoObject}
  /\ s.field # NoObject => s.coloured
LoadTyped(l) ==
  /\ l.of \in ArchiveObjects /\ l.kind \in {"job", "first", "layer"}
  /\ l.kind # "job" => l.id \in Nat /\ l.frame \in Nat /\ l.id <= scene.asked[l.of]
CaseInv == /\ SceneTyped(scene) /\ \A l \in loads : LoadTyped(l)
           /\ CV!ViewerFollows /\ CV!FieldIsCommon /\ CV!LoadingIsBacked

-----------------------------------------------------------------------------

\* The effects settle the highlights and the field, and nothing else.
LEMMA Settles ==
  ASSUME CV!CaseReviewAssumption, NEW s, SceneTyped(s), CV!Becomes(s)
  PROVE  /\ SceneTyped(scene') /\ \A f \in SceneFields \ {"picked", "coloured", "field"} : scene'[f] = s[f]
         /\ CV!ViewerFollows' /\ CV!FieldIsCommon'
<1> DEFINE u == CV!Followed(s)
           t == IF CV!ToSet(s.selected) # CV!ToSet(scene.selected) \/ s.selected = <<>> THEN CV!Unfielded(u) ELSE u
<1>1. /\ DOMAIN u = SceneFields /\ \A f \in SceneFields \ {"picked"} : u[f] = s[f]
      /\ s.ready /\ s.selected # <<>> => u.picked = CV!EntitiesOf(s, s.selected)
  BY DEF CV!Followed, SceneTyped, SceneFields
<1> HIDE DEF u
<1>2. /\ DOMAIN t = SceneFields /\ \A f \in SceneFields \ {"picked", "coloured", "field"} : t[f] = s[f]
      /\ t.picked = u.picked /\ (t.field # NoObject => t.coloured)
  BY <1>1 DEF CV!Unfielded, SceneTyped, SceneFields
<1>3. scene' = [t EXCEPT !.field = CV!FieldForSelection(t)]
  BY DEF CV!Becomes, CV!Settled, u
<1> HIDE DEF t
<1>4. /\ DOMAIN scene' = SceneFields /\ \A f \in SceneFields \ {"picked", "coloured", "field"} : scene'[f] = s[f]
      /\ scene'.picked = u.picked /\ scene'.coloured = t.coloured /\ scene'.field = CV!FieldForSelection(t)
  BY <1>2, <1>3 DEF SceneFields
<1>5. /\ scene'.layer = s.layer /\ scene'.asked = s.asked /\ scene'.loading = s.loading /\ scene'.player = s.player
      /\ scene'.ready = s.ready /\ scene'.selected = s.selected /\ t.selected = s.selected
  BY <1>2, <1>4 DEF SceneFields
<1>6. scene'.field # NoObject => t.field = scene'.field /\ t.field \in CV!CommonFields(t)
  BY <1>4 DEF CV!FieldForSelection
<1>7. SceneTyped(scene')
  BY <1>2, <1>4, <1>5, <1>6 DEF SceneTyped
<1>8. CV!ViewerFollows'
  <2>1. CV!Renderable(scene') = CV!Renderable(s)
    BY <1>5 DEF CV!Renderable
  <2>2. CV!EntitiesOf(scene', s.selected) = CV!EntitiesOf(s, s.selected)
    BY <2>1 DEF CV!EntitiesOf
  <2> QED BY <1>1, <1>4, <1>5, <2>2 DEF CV!ViewerFollows
<1>9. CV!FieldIsCommon'
  <2> SUFFICES ASSUME scene'.field # NoObject
               PROVE  /\ scene'.coloured /\ s.selected # <<>>
                      /\ \A o \in CV!ToSet(s.selected) : scene'.field \in FieldsOfObject[o]
    BY <1>5 DEF CV!FieldIsCommon
  <2>1. t.selected # <<>> /\ \A o \in CV!ToSet(t.selected) : t.field \in FieldsOfObject[o]
    BY <1>6 DEF CV!CommonFields
  <2> QED BY <1>2, <1>4, <1>5, <1>6, <2>1
<1> QED BY <1>4, <1>7, <1>8, <1>9

\* A step that asks for no layer and waits for none.
LEMMA QuietScene ==
  ASSUME CV!CaseReviewAssumption, CaseInv, NEW s, SceneTyped(s), CV!Becomes(s), UNCHANGED loads,
         s.asked = scene.asked, s.loading = scene.loading
  PROVE  CaseInv' /\ CV!LaterLayer
<1>1. /\ SceneTyped(scene') /\ scene'.asked = scene.asked /\ scene'.loading = scene.loading
      /\ CV!ViewerFollows' /\ CV!FieldIsCommon'
  BY Settles DEF SceneFields
<1>2. (\A l \in loads : LoadTyped(l))' /\ CV!LoadingIsBacked'
  BY <1>1 DEF CaseInv, LoadTyped, CV!LoadingIsBacked
<1> QED BY <1>1, <1>2 DEF CaseInv, CV!LaterLayer

\* A click is counted, and nothing else of the workspace.
LEMMA Counted ==
  ASSUME CaseInv
  PROVE  SceneTyped(CV!Stepped) /\ \A f \in SceneFields \ {"steps"} : CV!Stepped[f] = scene[f]
BY DEF CaseInv, CV!Stepped, SceneTyped, SceneFields

LEMMA SelectionSteps ==
  ASSUME CV!CaseReviewAssumption, CaseInv,
         CV!ViewerReady \/ CV!EntitiesDiscovered \/ CV!Select \/ CV!Pick \/ CV!Clear \/ CV!ShowField
         \/ CV!ChooseField \/ CV!SetVisibility \/ CV!ClosePlayer
  PROVE  CaseInv' /\ CV!LaterLayer
<1> DEFINE Quiet(s) == SceneTyped(s) /\ CV!Becomes(s) /\ s.asked = scene.asked /\ s.loading = scene.loading
           c == CV!Stepped
<1>1. SceneTyped(scene) /\ SceneTyped(c) /\ \A f \in SceneFields \ {"steps"} : c[f] = scene[f]
  BY Counted DEF CaseInv
<1>2. UNCHANGED loads
  BY DEF CV!ViewerReady, CV!EntitiesDiscovered, CV!Select, CV!Pick, CV!Clear, CV!ShowField,
         CV!ChooseField, CV!SetVisibility, CV!ClosePlayer
<1>3. c.asked = scene.asked /\ c.loading = scene.loading /\ c.coloured = scene.coloured
  BY <1>1 DEF SceneFields
<1>4. ASSUME CV!ViewerReady PROVE \E s : Quiet(s)
  <2>1. Quiet([scene EXCEPT !.ready = TRUE])
    BY <1>1, <1>4 DEF CV!ViewerReady, SceneTyped, SceneFields
  <2> QED BY <2>1
<1>5. ASSUME CV!EntitiesDiscovered PROVE \E s : Quiet(s)
  <2>1. Quiet([scene EXCEPT !.found = CV!Renderable(scene)])
    BY <1>1, <1>5 DEF CV!EntitiesDiscovered, SceneTyped, SceneFields
  <2> QED BY <2>1
<1>6. ASSUME NEW x, NEW y, CV!Becomes([c EXCEPT !.selected = x, !.picked = y]) PROVE \E s : Quiet(s)
  <2>1. Quiet([c EXCEPT !.selected = x, !.picked = y])
    BY <1>1, <1>3, <1>6 DEF SceneTyped, SceneFields
  <2> QED BY <2>1
<1>7. ASSUME NEW x, CV!Becomes([c EXCEPT !.visible = x]) PROVE \E s : Quiet(s)
  <2>1. Quiet([c EXCEPT !.visible = x])
    BY <1>1, <1>3, <1>7 DEF SceneTyped, SceneFields
  <2> QED BY <2>1
<1>8. ASSUME CV!Select PROVE \E s : Quiet(s)
  BY <1>6, <1>8 DEF CV!Select
<1>9. ASSUME CV!Pick PROVE \E s : Quiet(s)
  <2>1. PICK x : CV!Becomes([c EXCEPT !.picked = x, !.selected = x])
    BY <1>9 DEF CV!Pick
  <2>2. Quiet([c EXCEPT !.picked = x, !.selected = x])
    BY <1>1, <1>3, <2>1 DEF SceneTyped, SceneFields
  <2> QED BY <2>2
<1>10. ASSUME CV!Clear PROVE \E s : Quiet(s)
  BY <1>6, <1>10 DEF CV!Clear
<1>11. ASSUME CV!ShowField PROVE \E s : Quiet(s)
  <2>1. SceneTyped([c EXCEPT !.coloured = TRUE])
    BY <1>1 DEF SceneTyped, SceneFields
  <2>2. SceneTyped(CV!Unfielded(c)) /\ CV!Unfielded(c).asked = c.asked /\ CV!Unfielded(c).loading = c.loading
    BY <1>1 DEF SceneTyped, SceneFields, CV!Unfielded
  <2>3. [c EXCEPT !.coloured = TRUE].asked = c.asked /\ [c EXCEPT !.coloured = TRUE].loading = c.loading
    BY <1>1 DEF SceneTyped, SceneFields
  <2>4. CV!Becomes([c EXCEPT !.coloured = TRUE]) \/ CV!Becomes(CV!Unfielded(c))
    BY <1>11 DEF CV!ShowField
  <2> QED BY <1>3, <2>1, <2>2, <2>3, <2>4
<1>12. ASSUME CV!ChooseField PROVE \E s : Quiet(s)
  <2>1. PICK f : scene.coloured /\ CV!Becomes([c EXCEPT !.field = f])
    BY <1>12 DEF CV!ChooseField
  <2>2. Quiet([c EXCEPT !.field = f])
    BY <1>1, <1>3, <2>1 DEF SceneTyped, SceneFields
  <2> QED BY <2>2
<1>13. ASSUME CV!SetVisibility PROVE \E s : Quiet(s)
  <2>1. CASE \E o \in CV!Renderable(scene) :
               CV!Becomes([c EXCEPT !.visible = IF o \in @ THEN @ \ {o} ELSE @ \union {o}])
    BY <1>7, <2>1
  <2>2. CASE ~\E o \in CV!Renderable(scene) :
               CV!Becomes([c EXCEPT !.visible = IF o \in @ THEN @ \ {o} ELSE @ \union {o}])
    BY <1>7, <1>13, <2>2 DEF CV!SetVisibility
  <2> QED BY <2>1, <2>2
<1>14. ASSUME CV!ClosePlayer PROVE \E s : Quiet(s)
  <2>1. Quiet([scene EXCEPT !.player = NoObject])
    BY <1>1, <1>14 DEF CV!ClosePlayer, SceneTyped, SceneFields
  <2> QED BY <2>1
<1> HIDE DEF c
<1>15. PICK s : Quiet(s)
  BY <1>4, <1>5, <1>8, <1>9, <1>10, <1>11, <1>12, <1>13, <1>14
<1> QED BY <1>2, <1>15, QuietScene

\* A layer of an archive object is asked for, of the number that follows.
LEMMA LayerIsAsked ==
  ASSUME CaseInv, NEW s, SceneTyped(s), s.asked = scene.asked, NEW o \in ArchiveObjects,
         NEW frame \in Nat, NEW kind \in {"layer", "first"}
  PROVE  /\ SceneTyped(CV!Install(s, o)) /\ CV!Install(s, o).loading = s.loading
         /\ \A f \in ArchiveObjects : scene.asked[f] <= CV!Install(s, o).asked[f]
         /\ LET l == [CV!InstallCall(scene, o, frame) EXCEPT !.kind = kind]
            IN  l.of = o /\ l.kind = kind /\ l.frame = frame /\ l.id = CV!Install(s, o).asked[o] /\ l.id \in Nat
<1>1. s.asked \in [ArchiveObjects -> Nat]
  BY DEF SceneTyped
<1> DEFINE next == [s.asked EXCEPT ![o] = @ + 1]
<1>2. next \in [ArchiveObjects -> Nat] /\ next[o] = scene.asked[o] + 1 /\ \A f \in ArchiveObjects : scene.asked[f] <= next[f]
  BY <1>1
<1>3. CV!Install(s, o) = [s EXCEPT !.asked = next]
  BY DEF CV!Install
<1> HIDE DEF next
<1>4. SceneTyped(CV!Install(s, o)) /\ CV!Install(s, o).loading = s.loading /\ CV!Install(s, o).asked = next
  BY <1>2, <1>3 DEF SceneTyped, SceneFields
<1>5. CV!InstallCall(scene, o, frame) = [kind |-> "layer", of |-> o, frame |-> frame, id |-> next[o]]
  BY <1>2 DEF CV!InstallCall
<1>6. next[o] \in Nat
  BY <1>2
<1> QED BY <1>2, <1>4, <1>5, <1>6

\* Requests that were sent earlier keep their numbers.
LEMMA OlderLoads ==
  ASSUME CaseInv, NEW s, CV!CaseReviewAssumption, SceneTyped(s), CV!Becomes(s),
         \A o \in ArchiveObjects : scene.asked[o] <= s.asked[o]
  PROVE  \A l \in loads : LoadTyped(l)'
<1>1. scene'.asked = s.asked /\ s.asked \in [ArchiveObjects -> Nat] /\ scene.asked \in [ArchiveObjects -> Nat]
  BY Settles DEF SceneFields, CaseInv, SceneTyped
<1> QED BY <1>1 DEF LoadTyped, CaseInv

LEMMA ActivateStep ==
  ASSUME CV!CaseReviewAssumption, CaseInv, CV!Activate
  PROVE  CaseInv' /\ CV!LaterLayer
<1> DEFINE c == CV!Stepped
<1>1. SceneTyped(c) /\ \A f \in SceneFields \ {"steps"} : c[f] = scene[f]
  BY Counted
<1>2. PICK o \in ArchiveObjects :
        \/ CV!Becomes([c EXCEPT !.selected = <<o>>, !.picked = <<o>>]) /\ UNCHANGED loads
        \/ /\ CV!Becomes([c EXCEPT !.selected = <<o>>, !.loading = o])
           /\ loads' = loads \union {[kind |-> "job", of |-> o]}
  BY DEF CV!Activate
<1> HIDE DEF c
<1>3. c.asked = scene.asked /\ c.loading = scene.loading
  BY <1>1 DEF SceneFields
<1>4. CASE CV!Becomes([c EXCEPT !.selected = <<o>>, !.picked = <<o>>]) /\ UNCHANGED loads
  <2> DEFINE s == [c EXCEPT !.selected = <<o>>, !.picked = <<o>>]
  <2>1. SceneTyped(s) /\ s.asked = scene.asked /\ s.loading = scene.loading
    BY <1>1, <1>3 DEF SceneTyped, SceneFields
  <2> HIDE DEF s
  <2> QED BY <1>4, <2>1, QuietScene DEF s
<1>5. CASE /\ CV!Becomes([c EXCEPT !.selected = <<o>>, !.loading = o])
           /\ loads' = loads \union {[kind |-> "job", of |-> o]}
  <2> DEFINE s == [c EXCEPT !.selected = <<o>>, !.loading = o]
             job == [kind |-> "job", of |-> o]
  <2>1. SceneTyped(s) /\ s.asked = scene.asked /\ s.loading = o
    BY <1>1, <1>3 DEF SceneTyped, SceneFields
  <2>2. CV!Becomes(s) /\ loads' = loads \union {job} /\ job.kind = "job" /\ job.of = o
    BY <1>5
  <2> HIDE DEF s, job
  <2>3. /\ SceneTyped(scene') /\ scene'.loading = o /\ CV!ViewerFollows' /\ CV!FieldIsCommon'
    BY <2>1, <2>2, Settles DEF SceneFields
  <2>4. \A l \in loads : LoadTyped(l)'
    BY <2>1, <2>2, OlderLoads DEF CaseInv, SceneTyped
  <2>5. LoadTyped(job)'
    BY <2>2 DEF LoadTyped, job
  <2>6. CV!LoadingIsBacked'
    BY <2>2, <2>3 DEF CV!LoadingIsBacked
  <2>7. CV!LaterLayer
    BY <2>2 DEF CV!LaterLayer
  <2> QED BY <2>2, <2>3, <2>4, <2>5, <2>6, <2>7 DEF CaseInv
<1> QED BY <1>2, <1>4, <1>5

LEMMA PlayStep ==
  ASSUME CV!CaseReviewAssumption, CaseInv, CV!PlayFrame
  PROVE  CaseInv' /\ CV!LaterLayer
<1> DEFINE c == CV!Stepped
           o == scene.player
<1>1. SceneTyped(c) /\ \A f \in SceneFields \ {"steps"} : c[f] = scene[f]
  BY Counted
<1>2. PICK frame \in Frames : CV!Becomes(CV!Install(c, o)) /\ loads' = loads \union {CV!InstallCall(scene, o, frame)}
  BY DEF CV!PlayFrame
<1>3. o \in ArchiveObjects /\ frame \in Nat
  BY DEF CV!PlayFrame, CaseInv, SceneTyped, CV!CaseReviewAssumption
<1> HIDE DEF c
<1> DEFINE s == CV!Install(c, o)
           l == [CV!InstallCall(scene, o, frame) EXCEPT !.kind = "layer"]
<1>4. c.asked = scene.asked /\ c.loading = scene.loading
  BY <1>1 DEF SceneFields
<1>5. /\ SceneTyped(s) /\ s.loading = scene.loading /\ \A f \in ArchiveObjects : scene.asked[f] <= s.asked[f]
      /\ l.of = o /\ l.kind = "layer" /\ l.frame = frame /\ l.id = s.asked[o] /\ l.id \in Nat
  BY <1>1, <1>3, <1>4, LayerIsAsked
<1>6. CV!InstallCall(scene, o, frame) = l
  BY DEF CV!InstallCall
<1>7. CV!Becomes(s) /\ loads' = loads \union {l}
  BY <1>2, <1>6
<1> HIDE DEF s, l, o
<1>8. /\ SceneTyped(scene') /\ scene'.loading = scene.loading /\ scene'.asked = s.asked
      /\ CV!ViewerFollows' /\ CV!FieldIsCommon'
  BY <1>5, <1>7, Settles DEF SceneFields
<1>9. \A m \in loads : LoadTyped(m)'
  BY <1>5, <1>7, OlderLoads
<1>10. PICK call : call = l
  OBVIOUS
<1>11. LoadTyped(call)'
  <2>1. \A n \in Nat : n <= n
    OBVIOUS
  <2>2. call.of \in ArchiveObjects /\ call.kind = "layer" /\ call.id \in Nat /\ call.frame \in Nat /\ call.id = scene'.asked[call.of]
    BY <1>3, <1>5, <1>8, <1>10
  <2> QED BY <2>1, <2>2 DEF LoadTyped
<1>12. CV!LoadingIsBacked' /\ CV!LaterLayer
  BY <1>7, <1>8 DEF CaseInv, CV!LoadingIsBacked, CV!LaterLayer
<1> QED BY <1>7, <1>8, <1>9, <1>10, <1>11, <1>12 DEF CaseInv

\* The answer to an archive object that was activated: the player opens, or the
\* first layer is asked for.
LEMMA JobStep ==
  ASSUME CV!CaseReviewAssumption, CaseInv, NEW l \in loads, CV!JobArrives(l)
  PROVE  CaseInv' /\ CV!LaterLayer
<1>1. /\ l.of \in ArchiveObjects /\ l.kind = "job" /\ SceneTyped(scene)
      /\ \A f \in ArchiveObjects : scene.asked[f] \in Nat
  BY DEF CV!JobArrives, CaseInv, LoadTyped, SceneTyped
<1>2. CV!LaterLayer
  BY <1>1 DEF CV!LaterLayer, CV!JobArrives
<1>3. CASE CV!Becomes([scene EXCEPT !.loading = NoObject, !.player = l.of]) /\ loads' = loads \ {l}
  <2> DEFINE s == [scene EXCEPT !.loading = NoObject, !.player = l.of]
  <2>1. SceneTyped(s) /\ s.asked = scene.asked /\ s.loading = NoObject
    BY <1>1 DEF SceneTyped, SceneFields
  <2>2. CV!Becomes(s) /\ loads' = loads \ {l}
    BY <1>3
  <2> HIDE DEF s
  <2>3. SceneTyped(scene') /\ scene'.loading = NoObject /\ CV!ViewerFollows' /\ CV!FieldIsCommon'
    BY <2>1, <2>2, Settles DEF SceneFields
  <2>4. \A m \in loads : LoadTyped(m)'
    BY <1>1, <2>1, <2>2, OlderLoads
  <2>5. CV!LoadingIsBacked'
    BY <2>3 DEF CV!LoadingIsBacked
  <2> QED BY <1>2, <2>2, <2>3, <2>4, <2>5 DEF CaseInv
<1>4. CASE /\ CV!Becomes(CV!Install(scene, l.of))
           /\ loads' = (loads \ {l}) \union {[CV!InstallCall(scene, l.of, 1) EXCEPT !.kind = "first"]}
  <2> DEFINE s == CV!Install(scene, l.of)
             first == [CV!InstallCall(scene, l.of, 1) EXCEPT !.kind = "first"]
  <2>1. /\ SceneTyped(s) /\ s.loading = scene.loading /\ \A f \in ArchiveObjects : scene.asked[f] <= s.asked[f]
        /\ first.of = l.of /\ first.kind = "first" /\ first.frame = 1 /\ first.id = s.asked[l.of] /\ first.id \in Nat
    <3>1. 1 \in Nat /\ scene.asked = scene.asked
      OBVIOUS
    <3> QED BY <1>1, <3>1, LayerIsAsked
  <2>2. CV!Becomes(s) /\ loads' = (loads \ {l}) \union {first}
    BY <1>4
  <2> HIDE DEF s, first
  <2>3. /\ SceneTyped(scene') /\ scene'.loading = scene.loading /\ scene'.asked = s.asked
        /\ CV!ViewerFollows' /\ CV!FieldIsCommon'
    BY <2>1, <2>2, Settles DEF SceneFields
  <2>4. \A m \in loads : LoadTyped(m)'
    BY <2>1, <2>2, OlderLoads
  <2>5. PICK call : call = first
    OBVIOUS
  <2>6. LoadTyped(call)'
    <3>1. \A n \in Nat : n <= n
      OBVIOUS
    <3>2. call.of \in ArchiveObjects /\ call.kind = "first" /\ call.id \in Nat /\ call.frame \in Nat /\ call.id = scene'.asked[call.of]
      BY <1>1, <2>1, <2>3, <2>5
    <3> QED BY <3>1, <3>2 DEF LoadTyped
  <2>7. CV!LoadingIsBacked'
    BY <1>1, <2>1, <2>2, <2>3 DEF CaseInv, CV!LoadingIsBacked
  <2> QED BY <1>2, <2>2, <2>3, <2>4, <2>5, <2>6, <2>7 DEF CaseInv
<1> QED BY <1>3, <1>4 DEF CV!JobArrives

\* A layer arrives, is outdated, or has failed.
LEMMA LayerStep ==
  ASSUME CV!CaseReviewAssumption, CaseInv, NEW l \in loads, CV!LayerArrives(l)
  PROVE  CaseInv' /\ CV!LaterLayer
<1> DEFINE s == IF l.kind = "first" THEN [scene EXCEPT !.loading = NoObject] ELSE scene
           shown == [s EXCEPT !.layer[l.of] = l.frame, !.visible = @ \union {l.of},
                              !.selected = <<l.of>>, !.picked = <<l.of>>]
           failed == [s EXCEPT !.player = l.of]
<1>1. /\ l.of \in ArchiveObjects /\ l.kind \in {"layer", "first"} /\ SceneTyped(scene) /\ loads' = loads \ {l}
      /\ l.id \in Nat /\ l.frame \in Nat
  BY DEF CV!LayerArrives, CaseInv, LoadTyped
<1>2. /\ SceneTyped(s) /\ s.asked = scene.asked /\ s.layer = scene.layer
      /\ s.loading = IF l.kind = "first" THEN NoObject ELSE scene.loading
  BY <1>1 DEF SceneTyped, SceneFields
<1>3. PICK t : /\ CV!Becomes(t)
               /\ \/ t = IF l.kind = "first" THEN failed ELSE s
                  \/ t = IF l.id # scene.asked[l.of] THEN s ELSE shown
  BY DEF CV!LayerArrives
<1> HIDE DEF s
<1>4. SceneTyped(failed) /\ failed.asked = scene.asked /\ failed.layer = scene.layer /\ failed.loading = s.loading
  BY <1>1, <1>2 DEF SceneTyped, SceneFields
<1>5. SceneTyped(shown) /\ shown.asked = scene.asked /\ shown.loading = s.loading
  <2> DEFINE layers == [s.layer EXCEPT ![l.of] = l.frame]
             a == [s EXCEPT !.layer = layers, !.visible = @ \union {l.of}]
  <2>1. layers \in [ArchiveObjects -> Nat]
    BY <1>1, <1>2 DEF SceneTyped
  <2>2. shown = [a EXCEPT !.selected = <<l.of>>, !.picked = <<l.of>>]
    OBVIOUS
  <2> HIDE DEF layers
  <2>3. SceneTyped(a) /\ a.asked = scene.asked /\ a.loading = s.loading
    BY <1>2, <2>1 DEF SceneTyped, SceneFields
  <2> HIDE DEF a, shown
  <2> QED BY <2>2, <2>3 DEF SceneTyped, SceneFields
<1> HIDE DEF shown, failed
<1>6. SceneTyped(t) /\ t.asked = scene.asked /\ t.loading = s.loading
      /\ (t.layer # scene.layer => l.id = scene.asked[l.of])
  BY <1>2, <1>3, <1>4, <1>5
<1>7. /\ SceneTyped(scene') /\ scene'.loading = s.loading /\ scene'.layer = t.layer
      /\ CV!ViewerFollows' /\ CV!FieldIsCommon'
  BY <1>3, <1>6, Settles DEF SceneFields
<1>8. \A m \in loads : LoadTyped(m)'
  <2>1. \A o \in ArchiveObjects : scene.asked[o] \in Nat /\ scene.asked[o] <= t.asked[o]
    BY <1>1, <1>6 DEF SceneTyped
  <2> QED BY <1>3, <1>6, <2>1, OlderLoads
<1>9. CV!LoadingIsBacked'
  BY <1>1, <1>2, <1>7 DEF CaseInv, CV!LoadingIsBacked
<1>10. CV!LaterLayer
  <2> SUFFICES ASSUME scene'.layer # scene.layer, NEW m \in loads, m.of = l.of, m.kind \in {"layer", "first"}, m.id > l.id
               PROVE  FALSE
    BY <1>1 DEF CV!LaterLayer
  <2>1. l.id = scene.asked[l.of]
    BY <1>6, <1>7
  <2>2. m.id \in Nat /\ m.id <= scene.asked[l.of]
    BY DEF CaseInv, LoadTyped
  <2> QED BY <1>1, <2>1, <2>2
<1> QED BY <1>1, <1>7, <1>8, <1>9, <1>10 DEF CaseInv

LEMMA CaseInit == CV!CaseReviewAssumption /\ CV!Init => CaseInv
<1> SUFFICES ASSUME CV!CaseReviewAssumption, CV!Init PROVE CaseInv
  OBVIOUS
<1>1. SceneTyped(scene) /\ loads = {}
  BY DEF CV!Init, SceneTyped, SceneFields
<1>2. CV!ViewerFollows /\ CV!FieldIsCommon /\ CV!LoadingIsBacked
  BY DEF CV!Init, CV!ViewerFollows, CV!FieldIsCommon, CV!LoadingIsBacked
<1> QED BY <1>1, <1>2 DEF CaseInv

LEMMA CaseNext == CV!CaseReviewAssumption /\ CaseInv /\ [CV!Next]_CV!vars => CaseInv' /\ [CV!LaterLayer]_CV!vars
<1> SUFFICES ASSUME CV!CaseReviewAssumption, CaseInv, [CV!Next]_CV!vars PROVE CaseInv' /\ [CV!LaterLayer]_CV!vars
  OBVIOUS
<1>1. CASE CV!Next
  BY <1>1, SelectionSteps, ActivateStep, PlayStep, JobStep, LayerStep DEF CV!Next
<1>2. CASE UNCHANGED CV!vars
  <2>1. scene' = scene /\ loads' = loads
    BY <1>2 DEF CV!vars
  <2>2. CV!ViewerFollows' /\ CV!FieldIsCommon' /\ CV!LoadingIsBacked'
    BY <2>1 DEF CaseInv, CV!ViewerFollows, CV!FieldIsCommon, CV!LoadingIsBacked
  <2> QED BY <1>2, <2>1, <2>2 DEF CaseInv, LoadTyped
<1> QED BY <1>1, <1>2

LEMMA CaseAlways == CV!CaseReviewAssumption => (CV!Spec => []CaseInv)
<1> SUFFICES ASSUME CV!CaseReviewAssumption PROVE CV!Spec => []CaseInv
  OBVIOUS
<1> QED BY CaseInit, CaseNext, PTL DEF CV!Spec

\* The viewer of a Case highlights what its inventory selects, whoever selected
\* last and however layers come and go under the selection.
THEOREM ViewerFollowsInventory == CV!CaseReviewAssumption => (CV!Spec => []CV!ViewerFollows)
<1> SUFFICES ASSUME CV!CaseReviewAssumption PROVE CV!Spec => []CV!ViewerFollows
  OBVIOUS
<1>1. CaseInv => CV!ViewerFollows
  BY DEF CaseInv
<1> QED BY <1>1, CaseAlways, PTL

\* The field that colours a selection is one each object in it has.
THEOREM ColouredByCommonField == CV!CaseReviewAssumption => (CV!Spec => []CV!FieldIsCommon)
<1> SUFFICES ASSUME CV!CaseReviewAssumption PROVE CV!Spec => []CV!FieldIsCommon
  OBVIOUS
<1>1. CaseInv => CV!FieldIsCommon
  BY DEF CaseInv
<1> QED BY <1>1, CaseAlways, PTL

\* The spinner of an archive object has its request under way, in whatever order
\* those of several objects are answered.
THEOREM ArchiveSpinnerBacked == CV!CaseReviewAssumption => (CV!Spec => []CV!LoadingIsBacked)
<1> SUFFICES ASSUME CV!CaseReviewAssumption PROVE CV!Spec => []CV!LoadingIsBacked
  OBVIOUS
<1>1. CaseInv => CV!LoadingIsBacked
  BY DEF CaseInv
<1> QED BY <1>1, CaseAlways, PTL

\* An answer changes a layer only when none that is still out was asked for
\* later for the same object.
THEOREM LayersComeInOrder == CV!CaseReviewAssumption => (CV!Spec => [][CV!LaterLayer]_CV!vars)
<1> SUFFICES ASSUME CV!CaseReviewAssumption PROVE CV!Spec => [][CV!LaterLayer]_CV!vars
  OBVIOUS
<1> QED BY CaseAlways, CaseNext, PTL DEF CV!Spec

-----------------------------------------------------------------------------
(***************************************************************************)
(* The panel that follows a preparation, and its playback.  An answer that *)
(* is on its way tells a state the server's record was in: what has ended  *)
(* is told as it is, and of what runs no more frames than there are.       *)
(***************************************************************************)
Preparation == [status : {"queued", "running", "completed", "failed", "cancelled"}, made : 0 .. Len(Archive)]
Told == [id : Nat, status : {"none", "queued", "running", "completed", "failed", "cancelled"}, made : 0 .. Len(Archive)]
PanelTyped ==
  /\ prepared \in Seq(Preparation)
  /\ player \in [loading : BOOLEAN, busy : BOOLEAN, job : Told, clicks : Int]
  /\ \A c \in polls : c.kind \in {"latest", "act", "poll"} /\ c.job \in Told
PlaybackTyped ==
  /\ DOMAIN playing = {"phase", "tracks", "index", "on", "moving", "start", "ready"}
  /\ playing.phase \in {"none", "partial", "whole"} /\ {playing.on, playing.moving} \subseteq BOOLEAN
  /\ playing.phase = "none" => playing.index = 1

\* A record the server has sent is still true of it.
Fits(job) ==
  job # SB!NoJob => /\ job.id \in DOMAIN prepared /\ job.made <= prepared[job.id].made
                    /\ SB!Running(job) \/ job = SB!JobNow(job.id)
OneOfAKind == \A c, d \in polls : c.kind = d.kind /\ c.kind # "poll" => c = d
PlaybackInv ==
  /\ PanelTyped /\ PlaybackTyped /\ OneOfAKind
  /\ SB!BusyIsBacked /\ SB!ShownIsPrepared
  /\ Fits(player.job) /\ \A c \in polls : Fits(c.job)

-----------------------------------------------------------------------------
LEMMA NothingTold ==
  ASSUME SB!SlicePlaybackAssumption
  PROVE  /\ Len(Archive) \in Nat
         /\ SB!NoJob \in Told /\ ~SB!Running(SB!NoJob) /\ SB!NoJob.id = 0 /\ SB!Phase(SB!NoJob) = "none"
         /\ \A job \in Told : job # SB!NoJob => SB!Phase(job) \in {"none", "partial", "whole"}
<1>1. Len(Archive) \in Nat
  <2>1. Archive \in Seq({Archive[i] : i \in DOMAIN Archive})
    BY DEF SB!SlicePlaybackAssumption
  <2> QED BY <2>1
<1> QED BY <1>1 DEF SB!NoJob, Told, SB!Running, SB!Phase, SB!slicePlayerPartialPlaybackReady

\* What the server is asked now is told as it is.
LEMMA ToldNow ==
  ASSUME SB!SlicePlaybackAssumption, PanelTyped, NEW id \in DOMAIN prepared
  PROVE  /\ SB!JobNow(id) \in Told /\ SB!JobNow(id) # SB!NoJob /\ Fits(SB!JobNow(id))
         /\ id \in Nat /\ prepared[id] \in Preparation
         /\ SB!Running(SB!JobNow(id)) <=> SB!Running(prepared[id])
<1>1. id \in Nat \ {0} /\ prepared[id] \in Preparation
  BY DEF PanelTyped
<1>3. prepared[id].made \in Int /\ 0 .. Len(Archive) \subseteq Int
  BY <1>1, NothingTold DEF Preparation
<1>2. SB!JobNow(id) = [id |-> id, status |-> prepared[id].status, made |-> prepared[id].made]
  BY DEF SB!JobNow
<1> QED BY <1>1, <1>2, <1>3 DEF Preparation, Told, SB!NoJob, Fits, SB!Running

\* A request that is sent brings what it was given.
LEMMA SentIs ==
  ASSUME NEW kind, NEW job, SB!Sends(kind, job)
  PROVE  \E call : polls' = polls \cup {call} /\ call.kind = kind /\ call.job = job
<1> DEFINE number == IF polls = {} THEN 1 ELSE SB!Max({c.n : c \in polls}) + 1
           call == [kind |-> kind, job |-> job, n |-> number]
<1>1. polls' = polls \cup {call}
  BY DEF SB!Sends
<1>2. call.kind = kind /\ call.job = job
  OBVIOUS
<1> QED BY <1>1, <1>2

-----------------------------------------------------------------------------
\* The clicks on the playback move nothing of the panel and keep the phase.
LEMMA PlaybackStep ==
  ASSUME SB!SlicePlaybackAssumption, PlaybackInv, playing.phase # "none",
         NEW p, playing' = p, DOMAIN p = DOMAIN playing, p.phase = playing.phase,
         {p.on, p.moving} \subseteq BOOLEAN,
         UNCHANGED <<prepared, polls>>, player' = player \/ player' = SB!Clicks(player)
  PROVE  PlaybackInv'
<1>1. /\ player' \in [loading : BOOLEAN, busy : BOOLEAN, job : Told, clicks : Int]
      /\ player'.loading = player.loading /\ player'.busy = player.busy /\ player'.job = player.job
  BY DEF PlaybackInv, PanelTyped, SB!Clicks
<1>2. PanelTyped' /\ PlaybackTyped' /\ OneOfAKind'
  BY <1>1 DEF PlaybackInv, PanelTyped, PlaybackTyped, OneOfAKind, Preparation, Told
<1>3. SB!BusyIsBacked' /\ SB!ShownIsPrepared'
  BY <1>1 DEF PlaybackInv, SB!BusyIsBacked, SB!ShownIsPrepared, SB!JobNow
<1>4. \A job : Fits(job)' = Fits(job)
  BY DEF Fits, SB!JobNow
<1> QED BY <1>1, <1>2, <1>3, <1>4 DEF PlaybackInv

\* The playback when there is a preparation to show.
LEMMA PlaybackIsTyped ==
  ASSUME SB!SlicePlaybackAssumption, PlaybackInv, NEW job \in Told
  PROVE  /\ SB!PlaybackWith(job).phase = SB!Phase(job)
         /\ playing' = SB!PlaybackWith(job) => PlaybackTyped'
         /\ SB!PlaybackWith(job).phase = playing.phase => SB!PlaybackWith(job).index = playing.index
<1> DEFINE fresh == SB!Mounted(job)
<1>1. DOMAIN fresh = {"phase", "tracks", "index", "on", "moving", "start", "ready"}
      /\ fresh.phase = SB!Phase(job) /\ fresh.index = 1 /\ fresh.on = FALSE /\ fresh.moving = FALSE
  BY DEF SB!Mounted, SB!NoPlayback
<1>2. /\ DOMAIN SB!NoPlayback = {"phase", "tracks", "index", "on", "moving", "start", "ready"}
      /\ SB!NoPlayback.phase = "none" /\ SB!NoPlayback.index = 1 /\ SB!NoPlayback.on = FALSE /\ SB!NoPlayback.moving = FALSE
  BY DEF SB!NoPlayback
<1>3. SB!Phase(job) \in {"none", "partial", "whole"}
  BY DEF SB!Phase
<1> HIDE DEF fresh
<1>4. SB!PlaybackWith(job) = IF SB!Phase(job) = "none" THEN SB!NoPlayback
                             ELSE IF SB!Phase(job) = playing.phase THEN playing ELSE fresh
  BY DEF SB!PlaybackWith, fresh
<1>5. PlaybackTyped
  BY DEF PlaybackInv
<1> QED BY <1>1, <1>2, <1>3, <1>4, <1>5 DEF PlaybackTyped

\* What is told of the server stays true when the server's record goes on.
LEMMA StillFits ==
  ASSUME SB!SlicePlaybackAssumption, PanelTyped, NEW id \in DOMAIN prepared, SB!Running(prepared[id]),
         NEW next \in Preparation, prepared[id].made <= next.made, prepared' = [prepared EXCEPT ![id] = next]
  PROVE  /\ prepared' \in Seq(Preparation) /\ Len(prepared') = Len(prepared)
         /\ \A job \in Told : Fits(job) => Fits(job)'
<1>1. prepared' \in Seq(Preparation) /\ DOMAIN prepared' = DOMAIN prepared /\ Len(prepared') = Len(prepared)
  BY DEF PanelTyped
<1>2. ASSUME NEW job \in Told, Fits(job), job # SB!NoJob PROVE Fits(job)'
  <2>1. CASE job.id = id
    <3>1. SB!Running(job)
      BY <1>2, <2>1, ToldNow DEF Fits
    <3>2. job.made <= next.made
      <4>1. job.made \in Int /\ next.made \in Int /\ prepared[id].made \in Int
        BY NothingTold, ToldNow DEF Preparation, Told
      <4> QED BY <4>1, <1>2, <2>1 DEF Fits
    <3>3. prepared'[id] = next
      BY DEF PanelTyped
    <3> QED BY <1>1, <1>2, <2>1, <3>1, <3>2, <3>3 DEF Fits
  <2>2. CASE job.id # id
    <3>1. job.id \in DOMAIN prepared /\ prepared'[job.id] = prepared[job.id]
      BY <1>2, <2>2 DEF Fits, PanelTyped
    <3>2. SB!JobNow(job.id)' = SB!JobNow(job.id)
      BY <3>1 DEF SB!JobNow
    <3> QED BY <1>1, <1>2, <3>1, <3>2 DEF Fits
  <2> QED BY <2>1, <2>2
<1> QED BY <1>1, <1>2 DEF Fits

\* The server's own steps.
LEMMA PreparationStep ==
  ASSUME SB!SlicePlaybackAssumption, PlaybackInv, NEW id \in DOMAIN prepared,
         SB!PublishPartial(id) \/ SB!Ends(id, "completed") \/ SB!Ends(id, "failed")
  PROVE  PlaybackInv'
<1>1. prepared[id] \in Preparation /\ prepared[id].made \in Nat /\ prepared[id].made <= Len(Archive)
      /\ Len(Archive) \in Nat
  BY ToldNow, NothingTold DEF PlaybackInv, Preparation
<1>2. PICK next \in Preparation : prepared[id].made <= next.made /\ prepared' = [prepared EXCEPT ![id] = next]
  <2>1. CASE SB!PublishPartial(id)
    <3> DEFINE next == [status |-> "running", made |-> prepared[id].made + 1]
    <3>1. next \in Preparation /\ prepared[id].made <= next.made
      BY <1>1, <2>1 DEF SB!PublishPartial, Preparation
    <3>2. prepared' = [prepared EXCEPT ![id] = next]
      BY <2>1 DEF SB!PublishPartial
    <3> QED BY <3>1, <3>2
  <2>2. CASE SB!Ends(id, "completed")
    <3> DEFINE next == [status |-> "completed", made |-> Len(Archive)]
    <3>1. next \in Preparation /\ prepared[id].made <= next.made
      BY <1>1 DEF Preparation
    <3>2. prepared' = [prepared EXCEPT ![id] = next]
      BY <2>2 DEF SB!Ends
    <3> QED BY <3>1, <3>2
  <2>3. CASE SB!Ends(id, "failed")
    <3> DEFINE next == [prepared[id] EXCEPT !.status = "failed"]
    <3>1. next \in Preparation /\ prepared[id].made <= next.made
      BY <1>1 DEF Preparation
    <3>2. prepared' = [prepared EXCEPT ![id] = next]
      BY <2>3 DEF SB!Ends
    <3> QED BY <3>1, <3>2
  <2> QED BY <2>1, <2>2, <2>3
<1>3. SB!Running(prepared[id]) /\ UNCHANGED <<player, playing, polls>>
  BY DEF SB!PublishPartial, SB!Ends
<1>4. prepared' \in Seq(Preparation) /\ \A job \in Told : Fits(job) => Fits(job)'
  BY <1>2, <1>3, StillFits DEF PlaybackInv
<1>5. PanelTyped' /\ PlaybackTyped' /\ OneOfAKind' /\ SB!BusyIsBacked'
  BY <1>3, <1>4 DEF PlaybackInv, PanelTyped, PlaybackTyped, OneOfAKind, SB!BusyIsBacked
<1>6. Fits(player.job)' /\ \A c \in polls' : Fits(c.job)'
  BY <1>3, <1>4 DEF PlaybackInv, PanelTyped
<1>7. SB!ShownIsPrepared'
  BY <1>3, <1>6 DEF PlaybackInv, SB!ShownIsPrepared, Fits, SB!JobNow
<1> QED BY <1>5, <1>6, <1>7 DEF PlaybackInv

\* The preparation that is shown as running is asked after.
LEMMA PollStep ==
  ASSUME SB!SlicePlaybackAssumption, PlaybackInv, SB!Poll
  PROVE  PlaybackInv'
<1> DEFINE now == SB!JobNow(player.job.id)
<1>1. player.job.id \in DOMAIN prepared
  BY NothingTold DEF SB!Poll, PlaybackInv, Fits
<1>2. now \in Told /\ Fits(now)
  BY <1>1, ToldNow DEF PlaybackInv
<1> HIDE DEF now
<1>3. SB!Sends("poll", now) /\ UNCHANGED <<prepared, player, playing>>
  BY DEF SB!Poll, now
<1>4. PICK call : polls' = polls \cup {call} /\ call.kind = "poll" /\ call.job = now
  BY <1>3, SentIs
<1>5. PanelTyped' /\ PlaybackTyped' /\ OneOfAKind' /\ SB!BusyIsBacked'
  BY <1>2, <1>3, <1>4 DEF PlaybackInv, PanelTyped, PlaybackTyped, OneOfAKind, SB!BusyIsBacked
<1>6. \A job : Fits(job)' = Fits(job)
  BY <1>3 DEF Fits, SB!JobNow
<1>7. SB!ShownIsPrepared'
  BY <1>3 DEF PlaybackInv, SB!ShownIsPrepared, SB!JobNow
<1> QED BY <1>2, <1>3, <1>4, <1>5, <1>6, <1>7 DEF PlaybackInv

\* The panel is busy with an operation that was sent: no other is under way.
LEMMA ActIsSent ==
  ASSUME SB!SlicePlaybackAssumption, PlaybackInv, ~player.busy,
         NEW job \in Told, SB!Sends("act", job), player' = [SB!Clicks(player) EXCEPT !.busy = TRUE], UNCHANGED playing,
         prepared' \in Seq(Preparation), \A other \in Told : Fits(other) => Fits(other)', Fits(job)'
  PROVE  PlaybackInv'
<1>1. PICK call : polls' = polls \cup {call} /\ call.kind = "act" /\ call.job = job
  BY SentIs
<1>2. /\ player' \in [loading : BOOLEAN, busy : BOOLEAN, job : Told, clicks : Int]
      /\ player'.loading = player.loading /\ player'.busy = TRUE /\ player'.job = player.job
  <2>1. /\ SB!Clicks(player) \in [loading : BOOLEAN, busy : BOOLEAN, job : Told, clicks : Int]
        /\ SB!Clicks(player).loading = player.loading /\ SB!Clicks(player).job = player.job
    BY DEF PlaybackInv, PanelTyped, SB!Clicks
  <2> QED BY <2>1
<1>3. \A c \in polls : c.kind # "act"
  BY DEF PlaybackInv, SB!BusyIsBacked
<1>4. PanelTyped' /\ PlaybackTyped' /\ OneOfAKind' /\ SB!BusyIsBacked'
  BY <1>1, <1>2, <1>3 DEF PlaybackInv, PanelTyped, PlaybackTyped, OneOfAKind, SB!BusyIsBacked
<1>5. Fits(player.job)' /\ \A c \in polls' : Fits(c.job)'
  <2>1. player.job \in Told /\ Fits(player.job) /\ \A c \in polls : c.job \in Told /\ Fits(c.job)
    BY DEF PlaybackInv, PanelTyped
  <2> QED BY <1>1, <1>2, <2>1
<1>6. SB!ShownIsPrepared'
  BY <1>2, <1>5 DEF PlaybackInv, SB!ShownIsPrepared, Fits, SB!JobNow
<1> QED BY <1>4, <1>5, <1>6 DEF PlaybackInv

LEMMA PrepareStep ==
  ASSUME SB!SlicePlaybackAssumption, PlaybackInv, SB!Prepare
  PROVE  PlaybackInv'
<1> DEFINE queued == [status |-> "queued", made |-> 0]
<1>0. PICK job \in Told : job = [id |-> Len(prepared) + 1, status |-> "queued", made |-> 0]
  <2> DEFINE job == [id |-> Len(prepared) + 1, status |-> "queued", made |-> 0]
  <2>1. Len(prepared) \in Nat
    BY DEF PlaybackInv, PanelTyped
  <2>2. job \in Told
    BY <2>1, NothingTold DEF Told
  <2> QED BY <2>2
<1>1. queued \in Preparation /\ prepared \in Seq(Preparation)
  BY NothingTold DEF Preparation, PlaybackInv, PanelTyped
<1>2. /\ prepared' = Append(prepared, queued) /\ ~player.busy /\ SB!Sends("act", job)
      /\ player' = [SB!Clicks(player) EXCEPT !.busy = TRUE] /\ UNCHANGED playing
  BY <1>0 DEF SB!Prepare
<1>3. job \in Told /\ job.id \in DOMAIN prepared' /\ prepared'[job.id].made = job.made /\ SB!Running(job)
  BY <1>0, <1>1, <1>2 DEF SB!Running
<1>4. \A id \in DOMAIN prepared : id \in DOMAIN prepared' /\ prepared'[id] = prepared[id]
  BY <1>1, <1>2
<1> HIDE DEF queued
<1>5. prepared' \in Seq(Preparation)
  BY <1>1, <1>2
<1>6. \A other \in Told : Fits(other) => Fits(other)'
  BY <1>4 DEF Fits, SB!JobNow
<1>7. Fits(job)'
  <2>1. job.made <= prepared'[job.id].made
    BY <1>0, <1>3
  <2> QED BY <1>3, <2>1 DEF Fits
<1> QED BY <1>2, <1>3, <1>5, <1>6, <1>7, ActIsSent

\* The server cancels what still runs, and refuses what has ended.
LEMMA CancelStep ==
  ASSUME SB!SlicePlaybackAssumption, PlaybackInv, SB!CancelPreparation
  PROVE  PlaybackInv'
<1>1. PICK id : id = player.job.id
  OBVIOUS
<1>2. id \in DOMAIN prepared
  BY <1>1, NothingTold DEF SB!CancelPreparation, PlaybackInv, Fits
<1>3. PICK now \in Told : now = SB!JobNow(id)
  BY <1>2, ToldNow DEF PlaybackInv
<1>4. /\ ~player.busy /\ player' = [SB!Clicks(player) EXCEPT !.busy = TRUE] /\ UNCHANGED playing
      /\ prepared' = IF SB!Running(now) THEN [prepared EXCEPT ![id].status = "cancelled"] ELSE prepared
      /\ SB!Sends("act", IF SB!Running(now) THEN [now EXCEPT !.status = "cancelled"] ELSE SB!NoJob)
  BY <1>1, <1>3 DEF SB!CancelPreparation
<1>5. CASE SB!Running(now)
  <2> DEFINE next == [prepared[id] EXCEPT !.status = "cancelled"]
  <2>1. next \in Preparation /\ prepared[id].made <= next.made /\ next.made = prepared[id].made /\ SB!Running(prepared[id])
    BY <1>2, <1>3, <1>5, ToldNow, NothingTold DEF PlaybackInv, Preparation
  <2>2. prepared' = [prepared EXCEPT ![id] = next]
    BY <1>4, <1>5
  <2>3. PICK job \in Told : job = [now EXCEPT !.status = "cancelled"]
    BY DEF Told
  <2> HIDE DEF next
  <2>4. prepared' \in Seq(Preparation) /\ \A other \in Told : Fits(other) => Fits(other)'
    BY <1>2, <2>1, <2>2, StillFits DEF PlaybackInv
  <2>5. prepared'[id] = next /\ DOMAIN prepared' = DOMAIN prepared
    BY <1>2, <2>2 DEF PlaybackInv, PanelTyped
  <2>6. next.status = "cancelled"
    BY <1>2, ToldNow DEF next, PlaybackInv, Preparation
  <2>7. Fits(job)'
    <3>1. job = [id |-> id, status |-> "cancelled", made |-> prepared[id].made]
      BY <1>3, <2>3 DEF SB!JobNow
    <3>2. job = SB!JobNow(id)'
      BY <2>1, <2>5, <2>6, <3>1 DEF SB!JobNow
    <3>3. job.id = id /\ job.made <= prepared'[id].made
      BY <2>1, <2>5, <3>1
    <3> QED BY <1>2, <2>5, <3>2, <3>3 DEF Fits
  <2> QED BY <1>4, <1>5, <2>3, <2>4, <2>7, ActIsSent
<1>6. CASE ~SB!Running(now)
  <2>1. SB!Sends("act", SB!NoJob) /\ prepared' = prepared
    BY <1>4, <1>6
  <2>2. PICK job \in Told : job = SB!NoJob
    BY NothingTold
  <2>3. prepared' \in Seq(Preparation) /\ \A other \in Told : Fits(other) => Fits(other)'
    BY <2>1 DEF Fits, SB!JobNow, PlaybackInv, PanelTyped
  <2>4. Fits(job)'
    BY <2>2 DEF Fits
  <2> QED BY <1>4, <2>1, <2>2, <2>3, <2>4, ActIsSent
<1> QED BY <1>5, <1>6

\* An answer arrives in whatever order, or a request fails.
LEMMA ArrivesStep ==
  ASSUME SB!SlicePlaybackAssumption, PlaybackInv, NEW call \in polls, NEW ok \in BOOLEAN, SB!Arrives(call, ok)
  PROVE  PlaybackInv'
<1> DEFINE ended == [player EXCEPT !.loading = IF call.kind = "latest" THEN FALSE ELSE @,
                                   !.busy = IF call.kind = "act" THEN FALSE ELSE @]
<1>1. /\ call.kind \in {"latest", "act", "poll"} /\ call.job \in Told /\ Fits(call.job)
      /\ player \in [loading : BOOLEAN, busy : BOOLEAN, job : Told, clicks : Int]
  BY DEF PlaybackInv, PanelTyped
<1>2. /\ ended \in [loading : BOOLEAN, busy : BOOLEAN, job : Told, clicks : Int] /\ ended.job = player.job
      /\ ended.loading = IF call.kind = "latest" THEN FALSE ELSE player.loading
      /\ ended.busy = IF call.kind = "act" THEN FALSE ELSE player.busy
  BY <1>1
<1>3. /\ polls' = polls \ {call} /\ UNCHANGED prepared
      /\ IF ok /\ call.job # SB!NoJob
         THEN player' = [ended EXCEPT !.job = call.job] /\ playing' = SB!PlaybackWith(call.job)
         ELSE player' = ended /\ UNCHANGED playing
  BY <1>1 DEF SB!Arrives
<1> HIDE DEF ended
<1>4. PICK job \in Told : job = IF ok /\ call.job # SB!NoJob THEN call.job ELSE player.job
  BY <1>1
<1>5. /\ player' \in [loading : BOOLEAN, busy : BOOLEAN, job : Told, clicks : Int]
      /\ player'.loading = ended.loading /\ player'.busy = ended.busy /\ player'.job = job
  BY <1>1, <1>2, <1>3, <1>4
<1>6. PlaybackTyped' /\ playing'.phase = SB!Phase(job)
  <2>1. CASE ok /\ call.job # SB!NoJob
    BY <1>1, <1>3, <1>4, <2>1, PlaybackIsTyped
  <2>2. CASE ~(ok /\ call.job # SB!NoJob)
    BY <1>3, <1>4, <2>2 DEF PlaybackInv, PlaybackTyped, SB!ShownIsPrepared
  <2> QED BY <2>1, <2>2
<1>7. \A other : Fits(other)' = Fits(other)
  BY <1>3 DEF Fits, SB!JobNow
<1>8. PanelTyped' /\ OneOfAKind'
  BY <1>3, <1>5 DEF PlaybackInv, PanelTyped, OneOfAKind
<1>9. SB!BusyIsBacked'
  BY <1>1, <1>2, <1>3, <1>5 DEF PlaybackInv, OneOfAKind, SB!BusyIsBacked
<1>10. Fits(player.job)' /\ \A c \in polls' : Fits(c.job)'
  BY <1>1, <1>3, <1>4, <1>5, <1>7 DEF PlaybackInv
<1>11. SB!ShownIsPrepared'
  <2>1. SB!Phase(player.job)' = SB!Phase(job)
    BY <1>5 DEF SB!Phase, SB!slicePlayerPartialPlaybackReady
  <2>2. (SB!ShownIsPrepared!1)'
    BY <1>10 DEF Fits, SB!JobNow
  <2> QED BY <1>6, <2>1, <2>2 DEF SB!ShownIsPrepared
<1> QED BY <1>6, <1>8, <1>9, <1>10, <1>11 DEF PlaybackInv

LEMMA PlaybackClicks ==
  ASSUME SB!SlicePlaybackAssumption, PlaybackInv,
         \/ SB!TogglePlaying \/ SB!SetCameraNavigating \/ SB!handleAssetReady
         \/ \E target \in DOMAIN Archive : SB!MoveTo(target) \/ SB!Tick(target)
         \/ \E track \in SB!TracksOf(Archive) : SB!ToggleTrack(track)
  PROVE  PlaybackInv'
<1>1. PlaybackTyped /\ playing.phase # "none"
  BY DEF PlaybackInv, SB!TogglePlaying, SB!SetCameraNavigating, SB!handleAssetReady, SB!MoveTo, SB!Tick,
         SB!ToggleTrack, SB!Shown, SB!slicePlaybackAdvancing
<1> DEFINE Moved ==
      /\ DOMAIN playing' = DOMAIN playing /\ playing'.phase = playing.phase
      /\ {playing'.on, playing'.moving} \subseteq BOOLEAN
      /\ UNCHANGED <<prepared, polls>> /\ (player' = player \/ player' = SB!Clicks(player))
<1>2. ASSUME SB!TogglePlaying PROVE Moved
  BY <1>1, <1>2 DEF PlaybackTyped, SB!TogglePlaying
<1>3. ASSUME SB!SetCameraNavigating PROVE Moved
  BY <1>1, <1>3 DEF PlaybackTyped, SB!SetCameraNavigating
<1>4. ASSUME SB!handleAssetReady PROVE Moved
  BY <1>1, <1>4 DEF PlaybackTyped, SB!handleAssetReady
<1>5. ASSUME NEW target \in DOMAIN Archive, SB!MoveTo(target) PROVE Moved
  BY <1>1, <1>5 DEF PlaybackTyped, SB!MoveTo
<1>6. ASSUME NEW target \in DOMAIN Archive, SB!Tick(target) PROVE Moved
  BY <1>1, <1>6 DEF PlaybackTyped, SB!Tick
<1>7. ASSUME NEW track \in SB!TracksOf(Archive), SB!ToggleTrack(track) PROVE Moved
  BY <1>1, <1>7 DEF PlaybackTyped, SB!ToggleTrack
<1>8. Moved
  BY <1>2, <1>3, <1>4, <1>5, <1>6, <1>7
<1> QED
  <2>1. PICK p : p = playing'
    OBVIOUS
  <2> QED BY <1>1, <1>8, <2>1, PlaybackStep

LEMMA PlaybackInit == SB!SlicePlaybackAssumption /\ SB!Init => PlaybackInv
<1> SUFFICES ASSUME SB!SlicePlaybackAssumption, SB!Init PROVE PlaybackInv
  OBVIOUS
<1>1. prepared \in Seq(Preparation)
  <2>1. [status |-> "running", made |-> 0] \in Preparation /\ [status |-> "completed", made |-> Len(Archive)] \in Preparation
    BY NothingTold DEF Preparation
  <2> HIDE DEF Preparation
  <2>2. prepared \in {<<>>, << [status |-> "running", made |-> 0] >>, << [status |-> "completed", made |-> Len(Archive)] >>}
    BY DEF SB!Init
  <2>3. \A r \in Preparation : <<r>> \in Seq(Preparation)
    OBVIOUS
  <2>4. << >> \in Seq(Preparation)
    OBVIOUS
  <2> QED BY <2>1, <2>2, <2>3, <2>4, Zenon
<1>2. PICK job \in Told : /\ Fits(job)
                          /\ \E call : call.kind = "latest" /\ call.job = job /\ polls = {call}
  <2>1. CASE prepared = <<>>
    <3>1. polls = {[kind |-> "latest", n |-> 1, job |-> SB!NoJob]}
      BY <2>1 DEF SB!Init
    <3> QED BY <3>1, NothingTold DEF Fits
  <2>2. CASE prepared # <<>>
    <3> DEFINE job == [id |-> 1, status |-> prepared[1].status, made |-> prepared[1].made]
    <3>1. polls = {[kind |-> "latest", n |-> 1, job |-> job]}
      BY <2>2 DEF SB!Init
    <3>2. 1 \in DOMAIN prepared /\ prepared[1] \in Preparation
      BY <1>1, <2>2
    <3>3. job \in Told /\ job = SB!JobNow(1) /\ job.id = 1 /\ job.made = prepared[1].made /\ job.made \in Int
      BY <3>2, NothingTold DEF SB!JobNow, Told, Preparation
    <3>4. Fits(job)
      <4> HIDE DEF job
      <4>1. job.id \in DOMAIN prepared /\ job = SB!JobNow(job.id) /\ job.made <= prepared[job.id].made
        BY <3>2, <3>3
      <4> QED BY <4>1 DEF Fits
    <3> QED BY <3>1, <3>3, <3>4
  <2> QED BY <2>1, <2>2
<1>3. /\ player = [loading |-> TRUE, busy |-> FALSE, job |-> SB!NoJob, clicks |-> MaxPlayerSteps]
      /\ playing = SB!NoPlayback /\ MaxPlayerSteps \in Int
  BY DEF SB!Init, SB!SlicePlaybackAssumption
<1>4. PanelTyped /\ PlaybackTyped /\ OneOfAKind
  BY <1>1, <1>2, <1>3, NothingTold DEF PanelTyped, PlaybackTyped, OneOfAKind, SB!NoPlayback
<1>5. SB!BusyIsBacked /\ SB!ShownIsPrepared /\ Fits(player.job) /\ \A c \in polls : Fits(c.job)
  BY <1>2, <1>3, NothingTold DEF SB!BusyIsBacked, SB!ShownIsPrepared, Fits, SB!NoPlayback
<1> QED BY <1>4, <1>5 DEF PlaybackInv

LEMMA PlaybackNext == SB!SlicePlaybackAssumption /\ PlaybackInv /\ [SB!Next]_SB!playerVars => PlaybackInv'
<1> SUFFICES ASSUME SB!SlicePlaybackAssumption, PlaybackInv, [SB!Next]_SB!playerVars PROVE PlaybackInv'
  OBVIOUS
<1>1. CASE SB!Next
  BY <1>1, PlaybackClicks, PollStep, PrepareStep, CancelStep, ArrivesStep, PreparationStep DEF SB!Next
<1>2. CASE UNCHANGED SB!playerVars
  <2>1. PanelTyped' /\ PlaybackTyped' /\ OneOfAKind'
    BY <1>2 DEF PlaybackInv, PanelTyped, PlaybackTyped, OneOfAKind, SB!playerVars
  <2>2. SB!BusyIsBacked' /\ SB!ShownIsPrepared' /\ (\A job : Fits(job)' = Fits(job))
    BY <1>2 DEF PlaybackInv, SB!BusyIsBacked, SB!ShownIsPrepared, Fits, SB!JobNow, SB!playerVars, SB!Phase, SB!slicePlayerPartialPlaybackReady
  <2> QED BY <1>2, <2>1, <2>2 DEF PlaybackInv, SB!playerVars
<1> QED BY <1>1, <1>2

\* The clock and the viewer alone move the playback without a click.
LEMMA ClockWaits == SB!SlicePlaybackAssumption /\ PlaybackInv /\ [SB!Next]_SB!playerVars => SB!AdvancesWhenReady
<1> SUFFICES ASSUME SB!SlicePlaybackAssumption, PlaybackInv, [SB!Next]_SB!playerVars,
                    playing'.index # playing.index, player'.clicks = player.clicks,
                    playing'.phase = playing.phase
             PROVE  playing.on /\ ~playing.moving /\ playing.ready = SB!CurrentKey
  BY DEF SB!AdvancesWhenReady
<1>1. player.clicks \in Int /\ SB!Clicks(player).clicks = player.clicks - 1 /\ "clicks" \in DOMAIN player
  BY DEF PlaybackInv, PanelTyped, SB!Clicks
<1>2. player' # SB!Clicks(player)
  BY <1>1
<1>3. CASE \E elapsed \in DOMAIN Archive : SB!Tick(elapsed)
  BY <1>3 DEF SB!Tick, SB!slicePlaybackAdvancing
<1>4. CASE SB!handleAssetReady
  BY <1>4 DEF SB!handleAssetReady
<1>5. ASSUME NEW call \in polls, NEW ok \in BOOLEAN, SB!Arrives(call, ok) PROVE FALSE
  BY <1>5, PlaybackIsTyped DEF SB!Arrives, PlaybackInv, PanelTyped
<1>6. playing' # playing
  OBVIOUS
<1> QED BY <1>2, <1>3, <1>4, <1>5, <1>6
  DEF SB!Next, SB!playerVars, SB!TogglePlaying, SB!SetCameraNavigating, SB!Poll, SB!Prepare, SB!CancelPreparation,
      SB!MoveTo, SB!ToggleTrack, SB!PublishPartial, SB!Ends

\* The invariant holds throughout.
LEMMA PlaybackAlways == SB!SlicePlaybackAssumption => (SB!Spec => []PlaybackInv)
<1> SUFFICES ASSUME SB!SlicePlaybackAssumption PROVE SB!Spec => []PlaybackInv
  OBVIOUS
<1> QED BY PlaybackInit, PlaybackNext, PTL DEF SB!Spec

\* The panel of an archive says that it reads or acts only while the one
\* request that ends it is out, whatever polls are answered meanwhile.
THEOREM PlaybackIsBacked == SB!SlicePlaybackAssumption => (SB!Spec => []SB!BusyIsBacked)
<1> SUFFICES ASSUME SB!SlicePlaybackAssumption PROVE SB!Spec => []SB!BusyIsBacked
  OBVIOUS
<1>1. PlaybackInv => SB!BusyIsBacked
  BY DEF PlaybackInv
<1> QED BY <1>1, PlaybackAlways, PTL

\* The panel is never ahead of the server: what it shows as ended has ended as
\* shown, and the playback is that of the preparation that is shown, although
\* polls, a start and a cancellation are answered in any order.
THEOREM NeverAheadOfTheServer == SB!SlicePlaybackAssumption => (SB!Spec => []SB!ShownIsPrepared)
<1> SUFFICES ASSUME SB!SlicePlaybackAssumption PROVE SB!Spec => []SB!ShownIsPrepared
  OBVIOUS
<1>1. PlaybackInv => SB!ShownIsPrepared
  BY DEF PlaybackInv
<1> QED BY <1>1, PlaybackAlways, PTL

\* Without a click the playback moves only from a frame the viewer has loaded,
\* while it plays and the camera rests.
THEOREM ClockWaitsForTheViewer == SB!SlicePlaybackAssumption => (SB!Spec => [][SB!AdvancesWhenReady]_SB!playerVars)
<1> SUFFICES ASSUME SB!SlicePlaybackAssumption PROVE SB!Spec => [][SB!AdvancesWhenReady]_SB!playerVars
  OBVIOUS
<1>1. PlaybackInv /\ [SB!Next]_SB!playerVars => [SB!AdvancesWhenReady]_SB!playerVars
  BY ClockWaits
<1> QED BY <1>1, PlaybackAlways, PTL DEF SB!Spec

-----------------------------------------------------------------------------
(***************************************************************************)
(* ComparePorts.  What a page and its viewports are made of.               *)
(***************************************************************************)
PairFields == {"visual", "candidate", "link", "act", "vis", "steps"}
PortFields == {"loaded", "selected", "shown"}
\* What may be kept of which items are visible.
VisFits(v) == DOMAIN v \subseteq PT!Cases /\ \A c \in DOMAIN v : DOMAIN v[c] \subseteq PT!Ids(GroupsOf[c])
\* A link is to an item of the case it comes from.
LinkFits(link) == link.item # NoItem => link.source \in PT!Cases /\ link.item \in PT!ToSet(GroupsOf[link.source])
PairFits(p) ==
    /\ DOMAIN p = PairFields
    /\ p.visual \in BOOLEAN /\ p.candidate \in PT!ToSet(Tail(Participants)) /\ p.steps \in 0 .. MaxPortSteps
    /\ p.link.source \in PT!Cases \union {NoItem} /\ LinkFits(p.link) /\ VisFits(p.vis)
PortFits(c, port) ==
    /\ DOMAIN port = PortFields /\ port.loaded \in BOOLEAN
    /\ port.selected \in PT!Ids(GroupsOf[c]) \union {NoItem} /\ DOMAIN port.shown \subseteq PT!Ids(GroupsOf[c])
\* What one viewport must have of the page p.
PortKept(c, p, port) ==
    port.loaded =>
      /\ p.link.item # NoItem /\ c = p.link.source => port.selected = p.link.item.id
      /\ \A g \in PT!ToSet(GroupsOf[c]) :
           PT!IsShown(port.shown, g) = PT!IsShown(IF c \in DOMAIN p.vis THEN p.vis[c] ELSE PT!Nothing, g)
PortsInv ==
    /\ PairFits(pair) /\ DOMAIN ports = PT!Cases
    /\ \A c \in PT!Cases : PortFits(c, ports[c])
    /\ \A c \in PT!Mounted(pair) : PortKept(c, pair, ports[c])

\* A set of naturals has a least element.
LEMMA LeastPlace ==
  ASSUME NEW T, T \subseteq Nat, T # {}
  PROVE  \E x \in T : \A y \in T : x <= y
<1>1. PICK x \in T : \A y \in T : ~ (<<y, x>> \in OpToRel(<, Nat))
  BY NatLessThanWellFounded, WFMin
<1>2. \A y \in T : ~ (y < x)
  BY <1>1 DEF OpToRel
<1> QED BY <1>2

\* The first of some places of a list is one of them.
LEMMA FirstIsThere ==
  ASSUME NEW groups, IsList(groups), NEW at \in SUBSET DOMAIN groups
  PROVE  /\ at = {} => PT!FirstAt(groups, at) = NoItem
         /\ at # {} => \E i \in at : PT!FirstAt(groups, at) = groups[i]
<1>1. at = {} => PT!FirstAt(groups, at) = NoItem
  BY DEF PT!FirstAt
<1>2. ASSUME at # {} PROVE \E i \in at : PT!FirstAt(groups, at) = groups[i]
  <2>1. DOMAIN groups \subseteq Nat
    BY DEF IsList
  <2>2. \E i \in at : \A j \in at : i <= j
    BY <1>2, <2>1, LeastPlace
  <2> QED BY <1>2, <2>2 DEF PT!FirstAt
<1> QED BY <1>1, <1>2

\* The items of a case have identifiers of their own.
LEMMA ItemsOfCase ==
  ASSUME PT!ComparePortsAssumption, NEW c \in PT!Cases
  PROVE  /\ IsList(GroupsOf[c]) /\ NoItem \notin PT!ToSet(GroupsOf[c])
         /\ \A g, h \in PT!ToSet(GroupsOf[c]) : g.id = h.id => g = h
         /\ \A g \in PT!ToSet(GroupsOf[c]) : g.id \in PT!Ids(GroupsOf[c])
         /\ IsList(<<>>) /\ PT!ToSet(<<>>) = {} /\ PT!Ids(<<>>) = {}
<1> DEFINE G == GroupsOf[c]
<1>1. G \in Seq(PT!ToSet(G)) /\ NoItem \notin PT!ToSet(G)
      /\ PT!IsInjective([i \in DOMAIN G |-> G[i].id])
  BY DEF PT!ComparePortsAssumption
<1>2. IsList(G)
  BY <1>1 DEF IsList
<1>3. \A i, j \in DOMAIN G : G[i].id = G[j].id => i = j
  BY <1>1 DEF PT!IsInjective
<1>4. IsList(<<>>) /\ PT!ToSet(<<>>) = {} /\ PT!Ids(<<>>) = {}
  BY DEF IsList, PT!ToSet, PT!Ids
<1> QED BY <1>1, <1>2, <1>3, <1>4 DEF PT!ToSet, PT!Ids

\* What is looked for in a list is an item of it, or nothing.
LEMMA MatchIsThere ==
  ASSUME NEW groups, IsList(groups), NEW item
  PROVE  PT!MatchItem(groups, item) \in PT!ToSet(groups) \union {NoItem}
<1> DEFINE byId == {i \in DOMAIN groups : groups[i].id = item.id}
           byPath == {i \in DOMAIN groups : PT!Key(groups[i]) = PT!Key(item)}
           byName == {i \in DOMAIN groups : groups[i].name = item.name}
<1>1. \A at \in SUBSET DOMAIN groups : PT!FirstAt(groups, at) \in PT!ToSet(groups) \union {NoItem}
  BY FirstIsThere DEF PT!ToSet
<1>2. /\ PT!FirstAt(groups, byId) \in PT!ToSet(groups) \union {NoItem}
      /\ PT!FirstAt(groups, byPath) \in PT!ToSet(groups) \union {NoItem}
      /\ PT!FirstAt(groups, byName) \in PT!ToSet(groups) \union {NoItem}
  BY <1>1
<1> QED BY <1>2 DEF PT!MatchItem, PT!WithId

\* In the viewport it comes from, an item is found as what it is.
LEMMA OwnMatch ==
  ASSUME PT!ComparePortsAssumption, NEW c \in PT!Cases, NEW item \in PT!ToSet(GroupsOf[c])
  PROVE  PT!WithId(GroupsOf[c], item.id) = item /\ PT!MatchItem(GroupsOf[c], item) = item
<1> DEFINE G == GroupsOf[c]
           byId == {i \in DOMAIN G : G[i].id = item.id}
<1>1. /\ IsList(G) /\ NoItem \notin PT!ToSet(G)
      /\ \A g, h \in PT!ToSet(G) : g.id = h.id => g = h
  BY ItemsOfCase
<1>2. byId # {} /\ byId \in SUBSET DOMAIN G
  BY DEF PT!ToSet
<1>3. \E i \in byId : PT!FirstAt(G, byId) = G[i]
  BY <1>1, <1>2, FirstIsThere
<1>4. PT!FirstAt(G, byId) \in PT!ToSet(G) /\ PT!FirstAt(G, byId).id = item.id
  BY <1>3 DEF PT!ToSet
<1>5. PT!FirstAt(G, byId) = item
  BY <1>1, <1>4
<1>6. PT!WithId(G, item.id) = item
  BY <1>5 DEF PT!WithId
<1> QED BY <1>1, <1>6 DEF PT!MatchItem

\* A map over another has the entries of both.
LEMMA OverIs ==
  ASSUME NEW f, NEW g
  PROVE  /\ DOMAIN PT!Over(f, g) = DOMAIN f \union DOMAIN g
         /\ \A x \in DOMAIN f : PT!Over(f, g)[x] = f[x]
         /\ \A x \in DOMAIN g \ DOMAIN f : PT!Over(f, g)[x] = g[x]
BY DEF PT!Over

\* A map of one entry.
LEMMA EntryIs ==
  ASSUME NEW x, NEW v
  PROVE  DOMAIN PT!Entry(x, v) = {x} /\ PT!Entry(x, v)[x] = v
BY DEF PT!Entry

\* The cases on the page are of the comparison.
LEMMA MountedAreCases ==
  ASSUME PT!ComparePortsAssumption
  PROVE  /\ Participants[2] \in PT!ToSet(Tail(Participants))
         /\ PT!ToSet(Tail(Participants)) \subseteq PT!Cases /\ Head(Participants) \in PT!Cases
         /\ \A p : p.candidate \in PT!ToSet(Tail(Participants)) => PT!Mounted(p) \subseteq PT!Cases
<1>1. Participants \in Seq(PT!Cases) /\ Len(Participants) > 1 /\ Len(Participants) \in Nat
  BY DEF PT!ComparePortsAssumption
<1>2. Participants \in [1 .. Len(Participants) -> PT!Cases]
  BY <1>1
<1>3. Head(Participants) = Participants[1]
  BY <1>1
<1>4. /\ DOMAIN Tail(Participants) = 1 .. (Len(Participants) - 1)
      /\ \A i \in 1 .. (Len(Participants) - 1) : Tail(Participants)[i] = Participants[i + 1]
  <2>1. Participants # <<>>
    BY <1>1
  <2>2. Tail(Participants) \in Seq(PT!Cases) /\ Len(Tail(Participants)) = Len(Participants) - 1
        /\ \A i \in 1 .. Len(Tail(Participants)) : Tail(Participants)[i] = Participants[i + 1]
    BY <1>1, <2>1, HeadTailProperties
  <2> QED BY <2>2
<1>5. Participants[2] \in PT!ToSet(Tail(Participants))
  <2>1. 1 \in 1 .. (Len(Participants) - 1) /\ Tail(Participants)[1] = Participants[2]
    BY <1>1, <1>4
  <2> QED BY <2>1, <1>4 DEF PT!ToSet
<1>6. PT!ToSet(Tail(Participants)) \subseteq PT!Cases
  <2> SUFFICES ASSUME NEW i \in 1 .. (Len(Participants) - 1) PROVE Tail(Participants)[i] \in PT!Cases
    BY <1>4 DEF PT!ToSet
  <2>1. i + 1 \in 1 .. Len(Participants)
    BY <1>1
  <2> QED BY <2>1, <1>2, <1>4
<1>7. Head(Participants) \in PT!Cases
  BY <1>1, <1>2, <1>3
<1> QED BY <1>5, <1>6, <1>7 DEF PT!Mounted

\* What is shown after an action is of items of the case.
LEMMA ActedFits ==
  ASSUME PT!ComparePortsAssumption, NEW c \in PT!Cases, NEW groups \in {GroupsOf[c], <<>>}, NEW act, PT!Applies(act, groups),
         NEW shown, DOMAIN shown \subseteq PT!Ids(GroupsOf[c])
  PROVE  DOMAIN PT!Acted(act, groups, shown) \subseteq PT!Ids(GroupsOf[c])
<1> DEFINE item == PT!MatchItem(groups, act.item)
<1>1. IsList(groups) /\ PT!Ids(groups) \subseteq PT!Ids(GroupsOf[c])
      /\ \A g \in PT!ToSet(groups) : g.id \in PT!Ids(GroupsOf[c])
  BY ItemsOfCase
<1>2. item \in PT!ToSet(groups) \union {NoItem}
  BY <1>1, MatchIsThere
<1>3. CASE act.type \in {"show-all", "isolate"}
  BY <1>1, <1>3 DEF PT!Acted
<1>4. CASE act.type \notin {"show-all", "isolate"}
  <2>1. item \in PT!ToSet(groups)
    BY <1>2, <1>4 DEF PT!Applies
  <2>2. PT!Acted(act, groups, shown) = PT!Over(PT!Entry(item.id, act.visible), shown)
    BY <1>4 DEF PT!Acted
  <2> DEFINE e == PT!Entry(item.id, act.visible)
  <2>3. DOMAIN PT!Acted(act, groups, shown) = {item.id} \union DOMAIN shown
    <3>1. DOMAIN e = {item.id}
      BY EntryIs
    <3> HIDE DEF e
    <3>2. DOMAIN PT!Over(e, shown) = DOMAIN e \union DOMAIN shown
      BY OverIs
    <3> QED BY <2>2, <3>1, <3>2 DEF e
  <2> QED BY <1>1, <2>1, <2>3
<1> QED BY <1>3, <1>4

\* What a link selects is an item of the case, and in the case it comes from
\* the very item it is to.
LEMMA LinkedFits ==
  ASSUME PT!ComparePortsAssumption, NEW c \in PT!Cases, NEW groups \in {GroupsOf[c], <<>>}, NEW link
  PROVE  /\ PT!Linked(link, groups) \in PT!Ids(GroupsOf[c]) \union {NoItem}
         /\ LinkFits(link) /\ link.item # NoItem /\ link.source = c /\ groups = GroupsOf[c]
              => PT!Linked(link, groups) = link.item.id
<1>1. IsList(groups) /\ NoItem \notin PT!ToSet(GroupsOf[c])
      /\ \A g \in PT!ToSet(groups) : g.id \in PT!Ids(GroupsOf[c])
  BY ItemsOfCase
<1>2. PT!MatchItem(groups, link.item) \in PT!ToSet(groups) \union {NoItem}
  BY <1>1, MatchIsThere
<1>3. PT!Linked(link, groups) \in PT!Ids(GroupsOf[c]) \union {NoItem}
  BY <1>1, <1>2 DEF PT!Linked, PT!IdOf
<1>4. ASSUME LinkFits(link), link.item # NoItem, link.source = c, groups = GroupsOf[c]
      PROVE  PT!Linked(link, groups) = link.item.id
  <2>1. PT!MatchItem(groups, link.item) = link.item
    BY <1>4, OwnMatch DEF LinkFits
  <2> QED BY <2>1, <1>4 DEF PT!Linked, PT!IdOf
<1> QED BY <1>3, <1>4

\* A viewport that is loaded has the items of its case.
LEMMA ManifestIs ==
  ASSUME NEW c
  PROVE  PT!Manifest(c) \in {GroupsOf[c], <<>>} /\ (ports[c].loaded => PT!Manifest(c) = GroupsOf[c])
BY DEF PT!Manifest

\* The page after a step that its viewports follow.
LEMMA PageRemembers ==
  ASSUME PT!ComparePortsAssumption, PortsInv, NEW p, PairFits(p), p.vis = pair.vis
  PROVE  /\ PairFits(PT!Remembered(p)) /\ PT!Mounted(PT!Remembered(p)) = PT!Mounted(p)
         /\ PT!Remembered(p).link = p.link /\ PT!Remembered(p).act = p.act
         /\ \A c \in PT!Mounted(p) \intersect PT!Mounted(pair) :
              IF p.act # pair.act /\ PT!Applies(p.act, PT!Manifest(c))
              THEN /\ c \in DOMAIN PT!Remembered(p).vis
                   /\ PT!Remembered(p).vis[c] = PT!Acted(p.act, PT!Manifest(c), ports[c].shown)
              ELSE /\ c \in DOMAIN PT!Remembered(p).vis <=> c \in DOMAIN pair.vis
                   /\ c \in DOMAIN pair.vis => PT!Remembered(p).vis[c] = pair.vis[c]
<1> DEFINE told == {c \in PT!Mounted(p) :
                      LET groups == IF c \in PT!Mounted(pair) THEN PT!Manifest(c) ELSE <<>>
                      IN  (p.act # pair.act \/ c \notin PT!Mounted(pair)) /\ PT!Applies(p.act, groups)}
           acted == [c \in told |-> IF c \in PT!Mounted(pair) THEN PT!Acted(p.act, PT!Manifest(c), ports[c].shown)
                                   ELSE PT!Nothing]
           v == PT!Over(acted, p.vis)
           q == PT!Remembered(p)
<1>1. q = [p EXCEPT !.vis = v]
  BY DEF PT!Remembered
<1>2. DOMAIN p = PairFields
  BY DEF PairFits
<1>3. /\ DOMAIN q = PairFields /\ q.vis = v /\ q.visual = p.visual /\ q.candidate = p.candidate
      /\ q.link = p.link /\ q.act = p.act /\ q.steps = p.steps
  BY <1>1, <1>2 DEF PairFields
<1>4. PT!Mounted(q) = PT!Mounted(p)
  BY <1>3 DEF PT!Mounted
<1>5. /\ DOMAIN v = told \union DOMAIN p.vis
      /\ \A c \in told : v[c] = acted[c]
      /\ \A c \in DOMAIN p.vis \ told : v[c] = p.vis[c]
  <2>1. DOMAIN acted = told
    OBVIOUS
  <2> HIDE DEF told, acted
  <2>2. /\ DOMAIN PT!Over(acted, p.vis) = DOMAIN acted \union DOMAIN p.vis
        /\ \A c \in DOMAIN acted : PT!Over(acted, p.vis)[c] = acted[c]
        /\ \A c \in DOMAIN p.vis \ DOMAIN acted : PT!Over(acted, p.vis)[c] = p.vis[c]
    BY OverIs
  <2> QED BY <2>1, <2>2
<1>6. PT!Mounted(p) \subseteq PT!Cases
  BY MountedAreCases DEF PairFits
<1>7. VisFits(v)
  <2>1. DOMAIN v \subseteq PT!Cases
    BY <1>5, <1>6 DEF PairFits, VisFits
  <2>2. ASSUME NEW c \in told PROVE DOMAIN v[c] \subseteq PT!Ids(GroupsOf[c])
    <3>1. c \in PT!Cases /\ v[c] = acted[c]
      BY <1>5, <1>6, <2>2
    <3>2. CASE c \in PT!Mounted(pair)
      <4>1. PT!Applies(p.act, PT!Manifest(c)) /\ v[c] = PT!Acted(p.act, PT!Manifest(c), ports[c].shown)
        BY <3>1, <3>2
      <4>2. DOMAIN ports[c].shown \subseteq PT!Ids(GroupsOf[c])
        BY <3>1 DEF PortsInv, PortFits
      <4> QED BY <4>1, <4>2, <3>1, ManifestIs, ActedFits
    <3>3. CASE c \notin PT!Mounted(pair)
      BY <3>1, <3>3 DEF PT!Nothing
    <3> QED BY <3>2, <3>3
  <2>3. ASSUME NEW c \in DOMAIN p.vis \ told PROVE DOMAIN v[c] \subseteq PT!Ids(GroupsOf[c])
    BY <1>5, <2>3 DEF PairFits, VisFits
  <2> QED BY <1>5, <2>1, <2>2, <2>3 DEF VisFits
<1>8. PairFits(q)
  BY <1>3, <1>7 DEF PairFits
<1>9. ASSUME NEW c \in PT!Mounted(p) \intersect PT!Mounted(pair)
      PROVE  IF p.act # pair.act /\ PT!Applies(p.act, PT!Manifest(c))
             THEN c \in DOMAIN v /\ v[c] = PT!Acted(p.act, PT!Manifest(c), ports[c].shown)
             ELSE (c \in DOMAIN v <=> c \in DOMAIN pair.vis) /\ (c \in DOMAIN pair.vis => v[c] = pair.vis[c])
  <2>1. c \in told <=> p.act # pair.act /\ PT!Applies(p.act, PT!Manifest(c))
    OBVIOUS
  <2>2. c \in told => acted[c] = PT!Acted(p.act, PT!Manifest(c), ports[c].shown)
    OBVIOUS
  <2> HIDE DEF told, acted, v
  <2> QED BY <1>5, <2>1, <2>2
<1> HIDE DEF told, acted, v, q
<1>10. \A c \in PT!Mounted(p) \intersect PT!Mounted(pair) :
              IF p.act # pair.act /\ PT!Applies(p.act, PT!Manifest(c))
              THEN c \in DOMAIN q.vis /\ q.vis[c] = PT!Acted(p.act, PT!Manifest(c), ports[c].shown)
              ELSE (c \in DOMAIN q.vis <=> c \in DOMAIN pair.vis) /\ (c \in DOMAIN pair.vis => q.vis[c] = pair.vis[c])
  BY <1>3, <1>9
<1> QED BY <1>3, <1>4, <1>8, <1>10 DEF q

\* No viewport is there at first.
LEMMA PortsStart ==
  ASSUME PT!ComparePortsAssumption, PT!Init
  PROVE  PortsInv
<1>1. PICK v \in SavedVis :
        pair = [visual |-> FALSE, candidate |-> Participants[2], link |-> PT!NoLink, act |-> PT!NoAct, vis |-> v, steps |-> 0]
  BY DEF PT!Init
<1>2. VisFits(v)
  BY <1>1 DEF PT!ComparePortsAssumption, VisFits, PT!Ids
<1>3. PairFits(pair)
  BY <1>1, <1>2, MountedAreCases DEF PairFits, PairFields, PT!NoLink, LinkFits, PT!ComparePortsAssumption
<1>4. PT!Mounted(pair) = {}
  BY <1>1 DEF PT!Mounted
<1>5. DOMAIN ports = PT!Cases /\ \A c \in PT!Cases : PortFits(c, ports[c])
  BY DEF PT!Init, PT!Fresh, PortFits, PortFields, PT!Nothing
<1> QED BY <1>3, <1>4, <1>5 DEF PortsInv

\* A step of the page that its viewports follow.
LEMMA PortsFollow ==
  ASSUME PT!ComparePortsAssumption, PortsInv, NEW p, PairFits(p), p.vis = pair.vis, PT!Does(p)
  PROVE  PortsInv'
<1> DEFINE q == PT!Remembered(p)
<1>1. pair' = q /\ ports' = PT!Ports(q)
  BY DEF PT!Does
<1>2. /\ PairFits(q) /\ PT!Mounted(q) = PT!Mounted(p) /\ q.link = p.link /\ q.act = p.act
      /\ \A c \in PT!Mounted(p) \intersect PT!Mounted(pair) :
           IF p.act # pair.act /\ PT!Applies(p.act, PT!Manifest(c))
           THEN c \in DOMAIN q.vis /\ q.vis[c] = PT!Acted(p.act, PT!Manifest(c), ports[c].shown)
           ELSE (c \in DOMAIN q.vis <=> c \in DOMAIN pair.vis) /\ (c \in DOMAIN pair.vis => q.vis[c] = pair.vis[c])
  BY PageRemembers
<1> HIDE DEF q
<1>3. PT!Mounted(q) \subseteq PT!Cases
  BY <1>2, MountedAreCases DEF PairFits
<1>4. DOMAIN ports' = PT!Cases
  BY <1>1 DEF PT!Ports
<1>5. ASSUME NEW c \in PT!Cases
      PROVE  PortFits(c, ports'[c]) /\ (c \in PT!Mounted(q) => PortKept(c, q, ports'[c]))
  <2> DEFINE groups == PT!Manifest(c)
  <2>1. /\ DOMAIN ports[c] = PortFields /\ ports[c].loaded \in BOOLEAN
        /\ ports[c].selected \in PT!Ids(GroupsOf[c]) \union {NoItem} /\ DOMAIN ports[c].shown \subseteq PT!Ids(GroupsOf[c])
    BY DEF PortsInv, PortFits
  <2>2. CASE c \notin PT!Mounted(q)
    <3>1. ports'[c] = PT!Fresh
      BY <1>1, <2>2 DEF PT!Ports
    <3> QED BY <2>2, <3>1 DEF PT!Fresh, PT!Nothing, PortFits, PortFields
  <2>3. CASE c \in PT!Mounted(q) /\ c \notin PT!Mounted(pair)
    <3>1. ports'[c] = [PT!Fresh EXCEPT !.shown = IF c \in DOMAIN q.vis THEN q.vis[c] ELSE PT!Nothing]
      BY <1>1, <2>3 DEF PT!Ports
    <3>2. c \in DOMAIN q.vis => DOMAIN q.vis[c] \subseteq PT!Ids(GroupsOf[c])
      BY <1>2 DEF PairFits, VisFits
    <3> QED BY <3>1, <3>2 DEF PT!Fresh, PT!Nothing, PortFits, PortFields, PortKept
  <2>4. CASE c \in PT!Mounted(q) /\ c \in PT!Mounted(pair)
    <3> DEFINE acts == q.act # pair.act /\ PT!Applies(q.act, groups)
    <3>1. ports'[c] = [ports[c] EXCEPT !.selected = IF q.link # pair.link THEN PT!Linked(q.link, groups) ELSE @,
                                       !.shown = IF acts THEN PT!Acted(q.act, groups, @) ELSE @]
      BY <1>1, <2>4 DEF PT!Ports
    <3>2. groups \in {GroupsOf[c], <<>>} /\ (ports[c].loaded => groups = GroupsOf[c])
      BY ManifestIs
    <3>3. /\ PT!Linked(q.link, groups) \in PT!Ids(GroupsOf[c]) \union {NoItem}
          /\ LinkFits(q.link) /\ q.link.item # NoItem /\ q.link.source = c /\ groups = GroupsOf[c]
               => PT!Linked(q.link, groups) = q.link.item.id
      BY <3>2, LinkedFits
    <3>4. acts => DOMAIN PT!Acted(q.act, groups, ports[c].shown) \subseteq PT!Ids(GroupsOf[c])
      BY <2>1, <3>2, ActedFits
    <3>5. PortKept(c, pair, ports[c])
      BY <2>4 DEF PortsInv
    <3> HIDE DEF groups
    <3>6. /\ DOMAIN ports'[c] = PortFields /\ ports'[c].loaded = ports[c].loaded
          /\ ports'[c].selected = IF q.link # pair.link THEN PT!Linked(q.link, groups) ELSE ports[c].selected
          /\ ports'[c].shown = IF acts THEN PT!Acted(q.act, groups, ports[c].shown) ELSE ports[c].shown
      BY <2>1, <3>1 DEF PortFields
    <3>7. IF acts THEN c \in DOMAIN q.vis /\ q.vis[c] = PT!Acted(q.act, groups, ports[c].shown)
          ELSE (c \in DOMAIN q.vis <=> c \in DOMAIN pair.vis) /\ (c \in DOMAIN pair.vis => q.vis[c] = pair.vis[c])
      BY <1>2, <2>4 DEF groups
    <3> HIDE DEF acts
    <3>8. PortFits(c, ports'[c])
      BY <2>1, <3>3, <3>4, <3>6 DEF PortFits
    <3>9. ASSUME ports'[c].loaded, q.link.item # NoItem, c = q.link.source PROVE ports'[c].selected = q.link.item.id
      <4>1. LinkFits(q.link)
        BY <1>2 DEF PairFits
      <4> QED BY <3>2, <3>3, <3>5, <3>6, <3>9, <4>1 DEF PortKept
    <3>10. ASSUME ports'[c].loaded, NEW g \in PT!ToSet(GroupsOf[c])
           PROVE  PT!IsShown(ports'[c].shown, g) = PT!IsShown(IF c \in DOMAIN q.vis THEN q.vis[c] ELSE PT!Nothing, g)
      <4>1. CASE acts
        BY <3>6, <3>7, <4>1
      <4>2. CASE ~acts
        <5>1. (IF c \in DOMAIN q.vis THEN q.vis[c] ELSE PT!Nothing) = (IF c \in DOMAIN pair.vis THEN pair.vis[c] ELSE PT!Nothing)
          BY <3>7, <4>2
        <5>2. PT!IsShown(ports[c].shown, g) = PT!IsShown(IF c \in DOMAIN pair.vis THEN pair.vis[c] ELSE PT!Nothing, g)
          BY <3>5, <3>6, <3>10 DEF PortKept
        <5>3. ports'[c].shown = ports[c].shown
          BY <3>6, <4>2
        <5> QED BY <5>1, <5>2, <5>3
      <4> QED BY <4>1, <4>2
    <3> QED BY <3>8, <3>9, <3>10 DEF PortKept
  <2> QED BY <2>2, <2>3, <2>4
<1> QED BY <1>1, <1>2, <1>3, <1>4, <1>5 DEF PortsInv, PT!Mounted

\* Each of the page's own steps leaves a page that fits.
LEMMA PageSteps ==
  ASSUME PT!ComparePortsAssumption, PortsInv, PT!Step
  PROVE  LET q == PT!Stepped
         IN  /\ PairFits(q) /\ q.vis = pair.vis /\ q.visual = pair.visual
             /\ DOMAIN [q EXCEPT !.visual = ~@] = PairFields
             /\ PairFits([q EXCEPT !.visual = ~@]) /\ [q EXCEPT !.visual = ~@].vis = pair.vis
             /\ \A c \in PT!ToSet(Tail(Participants)) :
                  PairFits([q EXCEPT !.candidate = c]) /\ [q EXCEPT !.candidate = c].vis = pair.vis
             /\ \A link : link.source \in PT!Cases \union {NoItem} /\ LinkFits(link) =>
                  PairFits([q EXCEPT !.link = link]) /\ [q EXCEPT !.link = link].vis = pair.vis
             /\ \A act : PairFits([q EXCEPT !.act = act]) /\ [q EXCEPT !.act = act].vis = pair.vis
             /\ \A v : VisFits(v) =>
                  /\ PairFits([q EXCEPT !.vis = v]) /\ PT!Mounted([q EXCEPT !.vis = v]) = PT!Mounted(pair)
                  /\ [q EXCEPT !.vis = v].link = pair.link /\ [q EXCEPT !.vis = v].vis = v
<1> DEFINE q == PT!Stepped
<1>1. PairFits(pair) /\ DOMAIN pair = PairFields /\ pair.steps < MaxPortSteps /\ MaxPortSteps \in Nat
  BY DEF PortsInv, PairFits, PT!Step, PT!ComparePortsAssumption
<1>2. /\ DOMAIN q = PairFields /\ q.vis = pair.vis /\ q.visual = pair.visual /\ q.candidate = pair.candidate
      /\ q.link = pair.link /\ q.act = pair.act /\ q.steps = pair.steps + 1
  BY <1>1 DEF PT!Stepped, PairFields
<1>3. q.steps \in 0 .. MaxPortSteps
  BY <1>1, <1>2 DEF PairFits
<1> HIDE DEF q
<1>4. PairFits(q)
  BY <1>1, <1>2, <1>3 DEF PairFits
<1>5. /\ DOMAIN [q EXCEPT !.visual = ~@] = PairFields
      /\ PairFits([q EXCEPT !.visual = ~@]) /\ [q EXCEPT !.visual = ~@].vis = pair.vis
  BY <1>2, <1>4 DEF PairFits, PairFields
<1>6. \A c \in PT!ToSet(Tail(Participants)) :
        PairFits([q EXCEPT !.candidate = c]) /\ [q EXCEPT !.candidate = c].vis = pair.vis
  BY <1>2, <1>4 DEF PairFits, PairFields
<1>7. \A link : link.source \in PT!Cases \union {NoItem} /\ LinkFits(link) =>
        PairFits([q EXCEPT !.link = link]) /\ [q EXCEPT !.link = link].vis = pair.vis
  BY <1>2, <1>4 DEF PairFits, PairFields
<1>8. \A act : PairFits([q EXCEPT !.act = act]) /\ [q EXCEPT !.act = act].vis = pair.vis
  BY <1>2, <1>4 DEF PairFits, PairFields
<1>9. \A v : VisFits(v) =>
        /\ PairFits([q EXCEPT !.vis = v]) /\ PT!Mounted([q EXCEPT !.vis = v]) = PT!Mounted(pair)
        /\ [q EXCEPT !.vis = v].link = pair.link /\ [q EXCEPT !.vis = v].vis = v
  BY <1>2, <1>4 DEF PairFits, PairFields, PT!Mounted
<1> QED BY <1>2, <1>4, <1>5, <1>6, <1>7, <1>8, <1>9 DEF q

\* A click in the list of one viewport leaves the other as it is.
LEMMA PortsToggle ==
  ASSUME PT!ComparePortsAssumption, PortsInv, PT!ToggleInViewer
  PROVE  PortsInv'
<1>c. PICK c \in PT!Mounted(pair) : \E g \in PT!ToSet(PT!Manifest(c)) :
        LET shown == PT!Over(PT!Entry(g.id, ~PT!IsShown(ports[c].shown, g)), ports[c].shown)
        IN  /\ pair' = [PT!Stepped EXCEPT !.vis = PT!Over(PT!Entry(c, shown), @)]
            /\ ports' = [ports EXCEPT ![c].shown = shown]
  BY DEF PT!ToggleInViewer
<1>1. PICK g \in PT!ToSet(PT!Manifest(c)) :
        LET shown == PT!Over(PT!Entry(g.id, ~PT!IsShown(ports[c].shown, g)), ports[c].shown)
        IN  /\ pair' = [PT!Stepped EXCEPT !.vis = PT!Over(PT!Entry(c, shown), @)]
            /\ ports' = [ports EXCEPT ![c].shown = shown]
  BY <1>c
<1> DEFINE shown == PT!Over(PT!Entry(g.id, ~PT!IsShown(ports[c].shown, g)), ports[c].shown)
           v == PT!Over(PT!Entry(c, shown), pair.vis)
<1>2. PT!Step /\ c \in PT!Cases
  BY MountedAreCases DEF PortsInv, PairFits, PT!ToggleInViewer
<1>3. g.id \in PT!Ids(GroupsOf[c])
  BY <1>2, ManifestIs, ItemsOfCase
<1>4. DOMAIN shown \subseteq PT!Ids(GroupsOf[c])
  <2> DEFINE e == PT!Entry(g.id, ~PT!IsShown(ports[c].shown, g))
  <2>1. DOMAIN e = {g.id}
    BY EntryIs
  <2>2. DOMAIN ports[c].shown \subseteq PT!Ids(GroupsOf[c])
    BY <1>2 DEF PortsInv, PortFits
  <2> HIDE DEF e
  <2>3. DOMAIN PT!Over(e, ports[c].shown) = DOMAIN e \union DOMAIN ports[c].shown
    BY OverIs
  <2> QED BY <1>3, <2>1, <2>2, <2>3 DEF e
<1>5. PT!Stepped.vis = pair.vis
  BY <1>2, PageSteps
<1>6. pair' = [PT!Stepped EXCEPT !.vis = v] /\ ports' = [ports EXCEPT ![c].shown = shown]
  BY <1>1, <1>5
<1> HIDE DEF shown
<1>7. /\ DOMAIN v = {c} \union DOMAIN pair.vis /\ v[c] = shown
      /\ \A d \in DOMAIN pair.vis \ {c} : v[d] = pair.vis[d]
  <2> DEFINE e == PT!Entry(c, shown)
  <2>1. DOMAIN e = {c} /\ e[c] = shown
    BY EntryIs
  <2> HIDE DEF e
  <2>2. /\ DOMAIN PT!Over(e, pair.vis) = DOMAIN e \union DOMAIN pair.vis
        /\ \A x \in DOMAIN e : PT!Over(e, pair.vis)[x] = e[x]
        /\ \A x \in DOMAIN pair.vis \ DOMAIN e : PT!Over(e, pair.vis)[x] = pair.vis[x]
    BY OverIs
  <2> QED BY <2>1, <2>2 DEF e
<1> HIDE DEF v
<1>8. VisFits(v)
  BY <1>2, <1>4, <1>7 DEF PortsInv, PairFits, VisFits
<1>9. /\ PairFits(pair') /\ PT!Mounted(pair') = PT!Mounted(pair)
      /\ pair'.link = pair.link /\ pair'.vis = v
  BY <1>2, <1>6, <1>8, PageSteps
<1>10. DOMAIN ports' = PT!Cases
  BY <1>6 DEF PortsInv
<1>11. ASSUME NEW d \in PT!Cases
       PROVE  PortFits(d, ports'[d]) /\ (d \in PT!Mounted(pair) => PortKept(d, pair', ports'[d]))
  <2>1. PortFits(d, ports[d]) /\ (d \in PT!Mounted(pair) => PortKept(d, pair, ports[d]))
    BY DEF PortsInv
  <2>2. CASE d = c
    <3>1. /\ DOMAIN ports'[c] = PortFields /\ ports'[c].loaded = ports[c].loaded
          /\ ports'[c].selected = ports[c].selected /\ ports'[c].shown = shown
      BY <1>2, <1>6, <2>1, <2>2 DEF PortsInv, PortFits, PortFields
    <3>2. (IF c \in DOMAIN pair'.vis THEN pair'.vis[c] ELSE PT!Nothing) = shown
      BY <1>7, <1>9
    <3> QED BY <1>1, <1>4, <1>9, <2>1, <2>2, <3>1, <3>2 DEF PortFits, PortKept
  <2>3. CASE d # c
    <3>1. ports'[d] = ports[d]
      BY <1>6, <2>3 DEF PortsInv
    <3>2. (IF d \in DOMAIN pair'.vis THEN pair'.vis[d] ELSE PT!Nothing)
            = (IF d \in DOMAIN pair.vis THEN pair.vis[d] ELSE PT!Nothing)
      BY <1>7, <1>9, <2>3
    <3> QED BY <1>9, <2>1, <3>1, <3>2 DEF PortKept
  <2> QED BY <2>2, <2>3
<1>12. PT!Mounted(pair)' = PT!Mounted(pair) /\ PairFits(pair)'
  BY <1>9 DEF PT!Mounted, PairFits, VisFits, LinkFits
<1>13. PT!Mounted(pair) \subseteq PT!Cases
  BY MountedAreCases DEF PortsInv, PairFits
<1> QED BY <1>9, <1>10, <1>11, <1>12, <1>13 DEF PortsInv

\* As a manifest says it: the items of a case, by their identifiers.
LEMMA MadeAsSaid ==
  ASSUME PT!ComparePortsAssumption, NEW c \in PT!Cases, NEW saved, NEW g \in PT!ToSet(GroupsOf[c])
  PROVE  PT!IsShown(PT!Over(saved, PT!AsMade(GroupsOf[c])), g) = PT!IsShown(saved, g)
<1> DEFINE made == PT!AsMade(GroupsOf[c])
<1>1. g.id \in PT!Ids(GroupsOf[c]) /\ PT!WithId(GroupsOf[c], g.id) = g
  BY ItemsOfCase, OwnMatch
<1>2. DOMAIN made = PT!Ids(GroupsOf[c]) /\ made[g.id] = g.visible
  BY <1>1 DEF PT!AsMade
<1> HIDE DEF made
<1>3. /\ DOMAIN PT!Over(saved, made) = DOMAIN saved \union DOMAIN made
      /\ \A x \in DOMAIN saved : PT!Over(saved, made)[x] = saved[x]
      /\ \A x \in DOMAIN made \ DOMAIN saved : PT!Over(saved, made)[x] = made[x]
  BY OverIs
<1>4. PT!IsShown(PT!Over(saved, made), g) = PT!IsShown(saved, g)
  BY <1>1, <1>2, <1>3 DEF PT!IsShown
<1> QED BY <1>4 DEF made

\* A manifest that arrives finds the link and the last action of the page, or
\* what was saved.
LEMMA PortsArrive ==
  ASSUME PT!ComparePortsAssumption, PortsInv, PT!ManifestArrives
  PROVE  PortsInv'
<1>1. PICK c \in PT!Mounted(pair) :
        LET groups == GroupsOf[c]
            acts == PT!Applies(pair.act, groups)
            saved == IF c \in DOMAIN pair.vis THEN pair.vis[c] ELSE PT!Nothing
            shown == IF acts THEN PT!Acted(pair.act, groups, ports[c].shown) ELSE PT!Over(saved, PT!AsMade(groups))
        IN  /\ ~ports[c].loaded
            /\ ports' = [ports EXCEPT ![c] = [loaded |-> TRUE, selected |-> PT!Linked(pair.link, groups), shown |-> shown]]
            /\ pair' = IF acts THEN [pair EXCEPT !.vis = PT!Over(PT!Entry(c, shown), @)] ELSE pair
  BY DEF PT!ManifestArrives
<1> DEFINE groups == GroupsOf[c]
           acts == PT!Applies(pair.act, groups)
           saved == IF c \in DOMAIN pair.vis THEN pair.vis[c] ELSE PT!Nothing
           shown == IF acts THEN PT!Acted(pair.act, groups, ports[c].shown) ELSE PT!Over(saved, PT!AsMade(groups))
           v == IF acts THEN PT!Over(PT!Entry(c, shown), pair.vis) ELSE pair.vis
<1>2. c \in PT!Cases
  BY MountedAreCases DEF PortsInv, PairFits
<1>3. /\ DOMAIN ports[c].shown \subseteq PT!Ids(groups) /\ PairFits(pair) /\ DOMAIN pair = PairFields
  BY <1>2 DEF PortsInv, PortFits, PairFits
<1>4. DOMAIN shown \subseteq PT!Ids(groups)
  <2>1. CASE acts
    BY <1>2, <1>3, <2>1, ActedFits
  <2>2. CASE ~acts
    <3>1. DOMAIN saved \subseteq PT!Ids(groups)
      BY <1>3 DEF PairFits, VisFits, PT!Nothing
    <3>2. DOMAIN PT!AsMade(groups) = PT!Ids(groups)
      BY DEF PT!AsMade
    <3>3. DOMAIN PT!Over(saved, PT!AsMade(groups)) = DOMAIN saved \union DOMAIN PT!AsMade(groups)
      BY DEF PT!Over
    <3> QED BY <2>2, <3>1, <3>2, <3>3
  <2> QED BY <2>1, <2>2
<1>5. \A g \in PT!ToSet(groups) : ~acts => PT!IsShown(shown, g) = PT!IsShown(saved, g)
  BY <1>2, MadeAsSaid
<1>6. PT!Linked(pair.link, groups) \in PT!Ids(groups) \union {NoItem}
      /\ (pair.link.item # NoItem /\ pair.link.source = c => PT!Linked(pair.link, groups) = pair.link.item.id)
  BY <1>2, <1>3, LinkedFits DEF PairFits
<1>7. /\ DOMAIN pair' = PairFields /\ pair'.vis = v /\ pair'.visual = pair.visual
      /\ pair'.candidate = pair.candidate /\ pair'.link = pair.link /\ pair'.steps = pair.steps
  <2>1. CASE acts
    <3>1. pair' = [pair EXCEPT !.vis = v]
      BY <1>1, <2>1
    <3> HIDE DEF v
    <3> QED BY <1>3, <3>1 DEF PairFields
  <2>2. CASE ~acts
    <3>1. pair' = pair /\ v = pair.vis
      BY <1>1, <2>2
    <3> QED BY <1>3, <3>1
  <2> QED BY <2>1, <2>2
<1>8. ports' = [ports EXCEPT ![c] = [loaded |-> TRUE, selected |-> PT!Linked(pair.link, groups), shown |-> shown]]
  BY <1>1
<1> HIDE DEF shown, acts
<1>9. /\ DOMAIN v = (IF acts THEN {c} ELSE {}) \union DOMAIN pair.vis /\ (acts => v[c] = shown)
      /\ ~acts => v = pair.vis
      /\ \A d \in DOMAIN pair.vis \ {c} : v[d] = pair.vis[d]
  <2> DEFINE e == PT!Entry(c, shown)
  <2>1. DOMAIN e = {c} /\ e[c] = shown
    BY EntryIs
  <2> HIDE DEF e
  <2>2. /\ DOMAIN PT!Over(e, pair.vis) = DOMAIN e \union DOMAIN pair.vis
        /\ \A x \in DOMAIN e : PT!Over(e, pair.vis)[x] = e[x]
        /\ \A x \in DOMAIN pair.vis \ DOMAIN e : PT!Over(e, pair.vis)[x] = pair.vis[x]
    BY OverIs
  <2> QED BY <2>1, <2>2 DEF e
<1> HIDE DEF v
<1>10. VisFits(v)
  BY <1>2, <1>3, <1>4, <1>9 DEF PairFits, VisFits
<1>11. /\ PairFits(pair') /\ PT!Mounted(pair') = PT!Mounted(pair)
       /\ pair'.link = pair.link /\ pair'.vis = v
  BY <1>3, <1>7, <1>10 DEF PairFits, PairFields, PT!Mounted
<1>12. DOMAIN ports' = PT!Cases
  BY <1>8 DEF PortsInv
<1>13. ASSUME NEW d \in PT!Cases
       PROVE  PortFits(d, ports'[d]) /\ (d \in PT!Mounted(pair) => PortKept(d, pair', ports'[d]))
  <2>1. PortFits(d, ports[d]) /\ (d \in PT!Mounted(pair) => PortKept(d, pair, ports[d]))
    BY DEF PortsInv
  <2>2. CASE d = c
    <3>1. ports'[c] = [loaded |-> TRUE, selected |-> PT!Linked(pair.link, groups), shown |-> shown]
      BY <1>2, <1>8 DEF PortsInv
    <3>2. PortFits(c, ports'[c])
      BY <1>4, <1>6, <3>1 DEF PortFits, PortFields
    <3>3. \A g \in PT!ToSet(GroupsOf[c]) :
            PT!IsShown(shown, g) = PT!IsShown(IF c \in DOMAIN pair'.vis THEN pair'.vis[c] ELSE PT!Nothing, g)
      <4>1. CASE acts
        BY <1>9, <1>11, <4>1
      <4>2. CASE ~acts
        BY <1>5, <1>9, <1>11, <4>2
      <4> QED BY <4>1, <4>2
    <3> QED BY <1>6, <1>11, <2>2, <3>1, <3>2, <3>3 DEF PortKept
  <2>3. CASE d # c
    <3>1. ports'[d] = ports[d]
      BY <1>8, <2>3 DEF PortsInv
    <3>2. (IF d \in DOMAIN pair'.vis THEN pair'.vis[d] ELSE PT!Nothing)
            = (IF d \in DOMAIN pair.vis THEN pair.vis[d] ELSE PT!Nothing)
      BY <1>9, <1>11, <2>3
    <3> QED BY <1>11, <2>1, <3>1, <3>2 DEF PortKept
  <2> QED BY <2>2, <2>3
<1>14. PT!Mounted(pair)' = PT!Mounted(pair) /\ PairFits(pair)'
  BY <1>11 DEF PT!Mounted, PairFits, VisFits, LinkFits
<1>15. PT!Mounted(pair) \subseteq PT!Cases
  BY <1>3, MountedAreCases DEF PairFits
<1> QED BY <1>11, <1>12, <1>13, <1>14, <1>15 DEF PortsInv

\* Every step keeps the invariant.
LEMMA PortsStep ==
  ASSUME PT!ComparePortsAssumption, PortsInv, [PT!Next]_PT!vars
  PROVE  PortsInv'
<1>1. CASE PT!ChooseView
  BY <1>1, PageSteps, PortsFollow DEF PT!ChooseView
<1>2. CASE PT!ChooseCandidate
  BY <1>2, PageSteps, PortsFollow DEF PT!ChooseCandidate
<1>3. CASE PT!SelectItem
  <2>c. PICK c \in PT!Mounted(pair) : \E item \in PT!ToSet(PT!Manifest(c)) \union {NoItem} :
          PT!Does([PT!Stepped EXCEPT !.link = [source |-> c, item |-> item]])
    BY <1>3 DEF PT!SelectItem
  <2>1. PICK item \in PT!ToSet(PT!Manifest(c)) \union {NoItem} :
          PT!Does([PT!Stepped EXCEPT !.link = [source |-> c, item |-> item]])
    BY <2>c
  <2> DEFINE link == [source |-> c, item |-> item]
  <2>2. PT!Step /\ c \in PT!Cases
    BY <1>3, MountedAreCases DEF PortsInv, PairFits, PT!SelectItem
  <2>3. item # NoItem => item \in PT!ToSet(GroupsOf[c])
    BY <2>2, ManifestIs, ItemsOfCase
  <2>4. link.source \in PT!Cases \union {NoItem} /\ LinkFits(link)
    BY <2>2, <2>3 DEF LinkFits
  <2> HIDE DEF link
  <2>5. PairFits([PT!Stepped EXCEPT !.link = link]) /\ [PT!Stepped EXCEPT !.link = link].vis = pair.vis
    BY <2>2, <2>4, PageSteps
  <2>6. PT!Does([PT!Stepped EXCEPT !.link = link])
    BY <2>1 DEF link
  <2> QED BY <2>5, <2>6, PortsFollow
<1>4. CASE PT!ActOnItem
  <2>1. PICK act : PT!Does([PT!Stepped EXCEPT !.act = act])
    BY <1>4 DEF PT!ActOnItem
  <2>2. PT!Step
    BY <1>4 DEF PT!ActOnItem
  <2> QED BY <2>1, <2>2, PageSteps, PortsFollow
<1>5. CASE PT!ToggleInViewer
  BY <1>5, PortsToggle
<1>6. CASE PT!ManifestArrives
  BY <1>6, PortsArrive
<1>7. CASE UNCHANGED PT!vars
  BY <1>7 DEF PT!vars, PortsInv, PT!Mounted
<1> QED BY <1>1, <1>2, <1>3, <1>4, <1>5, <1>6, <1>7 DEF PT!Next

\* The invariant holds throughout.
LEMMA PortsInvariant ==
  ASSUME PT!ComparePortsAssumption
  PROVE  PT!Spec => []PortsInv
<1>1. PT!Init => PortsInv
  BY PortsStart
<1>2. PortsInv /\ [PT!Next]_PT!vars => PortsInv'
  BY PortsStep
<1> QED BY <1>1, <1>2, PTL DEF PT!Spec

\* The types of the page and of its viewports: a viewport selects and hides
\* only items of its own case, whatever was picked in the other.
THEOREM PortsAreTyped ==
  ASSUME PT!ComparePortsAssumption
  PROVE  PT!Spec => []PT!TypeOK
<1>1. PortsInv => PT!TypeOK
  BY DEF PortsInv, PairFits, PortFits, VisFits, PT!TypeOK
<1> QED BY <1>1, PortsInvariant, PTL

\* The item that is picked in one viewport is the one that this viewport has
\* selected, whatever the other finds of the same name, and what a viewport
\* shows is what the page will save of it (ComparePage.tsx, CompareViewport).
THEOREM PortsAreKept ==
  ASSUME PT!ComparePortsAssumption
  PROVE  PT!Spec => [](PT!PickIsKept /\ PT!VisibilityIsKept)
<1>1. PortsInv => PT!PickIsKept /\ PT!VisibilityIsKept
  BY DEF PortsInv, PortKept, PT!PickIsKept, PT!VisibilityIsKept
<1> QED BY <1>1, PortsInvariant, PTL

=============================================================================
