---------------------------- MODULE ProjectDrafts ----------------------------
(***************************************************************************)
(* The Drafts of a project: the list, the active Draft, its detail, and    *)
(* creating, copying, renaming and deleting Drafts in ProjectDraftBar and  *)
(* DraftManagerPanel.                                                      *)
(*                                                                         *)
(* A request for the list remembers the Draft that the URL asked for when  *)
(* it was made; nothing orders the answers.                                *)
(***************************************************************************)
EXTENDS Naturals, Sequences, FiniteSets, SequencesExt

CONSTANTS
    DraftIds,     \* Drafts, of which some exist from the start
    MaxChanges,   \* bound on the clicks of a behaviour
    NoDraft       \* no Draft

ProjectDraftsAssumption == NoDraft \notin DraftIds /\ IsFiniteSet(DraftIds) /\ MaxChanges \in Nat

VARIABLES
    held,      \* Flow360's Drafts of the project, in the order of their creation
    shelf,     \* the page
    lists,     \* requests for the list under way, with what the server read
    errands    \* the latest detail request, and the operation of the manager

(***************************************************************************)
(* Pure parts.                                                             *)
(***************************************************************************)
ResolveActiveDraftId(drafts, current, requested) ==
    IF requested # NoDraft /\ requested \in ToSet(drafts) THEN requested
    ELSE IF current \in ToSet(drafts) THEN current
    ELSE IF drafts = <<>> THEN NoDraft ELSE Head(drafts)

ActiveDraft(s) == IF s.active \in ToSet(s.drafts) THEN s.active ELSE NoDraft
DraftMode(s) == s.url # NoDraft /\ ActiveDraft(s) # NoDraft

\* What the bar and the manager offer.
BarOffers(s, op) ==
    IF DraftMode(s)
    THEN \/ op = "manage"
         \/ op = "switch" /\ ~s.listing /\ ~s.naming
         \/ op = "name" /\ ~s.detailLoading /\ ~s.naming
         \/ op \in {"rename", "unname"} /\ s.naming /\ ~s.renaming
         \/ op = "refresh" /\ s.detailError
    ELSE \/ op = "manage"
         \/ op = "enter" /\ ~s.listing /\ ~s.listError /\ s.drafts # <<>>
         \/ op = "refresh" /\ s.listError /\ ~s.listing
ManagerOffers(s, op) == \/ op \in {"create", "copy", "renameIn", "delete"} /\ errands.op = NoDraft
                        \/ op \in {"manage", "switch"}

Offers(op) == /\ shelf.changes < MaxChanges
              /\ IF shelf.managing THEN ManagerOffers(shelf, op) ELSE BarOffers(shelf, op)

(***************************************************************************)
(* The page.                                                               *)
(***************************************************************************)
\* loadDraftDetail: the answer to an earlier request is not taken any more.
\* Without an active Draft nothing is asked, and a spinner is left as it is.
LoadDetail(s, e) ==
    /\ shelf' = [s EXCEPT !.detail = NoDraft, !.detailError = FALSE,
                          !.detailLoading = @ \/ s.active # NoDraft]
    /\ errands' = [e EXCEPT !.detail = s.active]

\* loadDrafts
ListRequest(requested) == [for |-> requested, read |-> FALSE, got |-> <<>>]
Listing(s) == [s EXCEPT !.listing = TRUE, !.listError = FALSE]

\* A render: a URL with another Draft asks for the list, another active Draft
\* for its detail; the bar forgets a name that is being edited.
Render(s, e, ls) ==
    LET moved == s.url # shelf.url
        n == IF s.active = shelf.active THEN s ELSE [s EXCEPT !.naming = FALSE]
        r == IF moved THEN Listing(n) ELSE n
    IN  /\ lists' = IF moved THEN ls \union {ListRequest(s.url)} ELSE ls
        /\ IF s.active = shelf.active THEN shelf' = r /\ errands' = e ELSE LoadDetail(r, e)

Init ==
    /\ \E n \in 0..Cardinality(DraftIds), d \in DraftIds \union {NoDraft} :
         /\ held \in {s \in [1..n -> DraftIds] : IsInjective(s)}
         /\ shelf = [drafts |-> <<>>, listing |-> TRUE, listError |-> FALSE, url |-> d,
                     active |-> NoDraft, detail |-> NoDraft, detailLoading |-> FALSE,
                     detailError |-> FALSE, managing |-> FALSE, naming |-> FALSE,
                     renaming |-> FALSE, changes |-> 0]
         /\ lists = {ListRequest(d)}
    /\ errands = [detail |-> NoDraft, op |-> NoDraft, draft |-> NoDraft, waits |-> FALSE,
                  for |-> NoDraft, active |-> NoDraft]

TypeOK ==
    /\ ToSet(held) \subseteq DraftIds /\ ToSet(shelf.drafts) \subseteq DraftIds
    /\ IsInjective(held) /\ IsInjective(shelf.drafts)
    /\ {shelf.url, shelf.active, shelf.detail} \subseteq DraftIds \union {NoDraft}
    /\ \A l \in lists : l.for \in DraftIds \union {NoDraft} /\ ToSet(l.got) \subseteq DraftIds

(* Answers. *)
Idle(e) == [e EXCEPT !.op = NoDraft, !.draft = NoDraft, !.waits = FALSE,
                     !.for = NoDraft, !.active = NoDraft]

\* An operation of the manager that waits for a list goes on when it has come:
\* to the Draft it made, or away from the one it deleted if that was active.
Onward(s, e, l) ==
    LET rest == lists \ {l}
    IN  IF ~e.waits \/ e.for # l.for THEN Render(s, e, rest)
        ELSE IF e.op # "delete"
        THEN Render([s EXCEPT !.url = e.draft, !.managing = FALSE], Idle(e), rest)
        ELSE IF e.draft = e.active
        THEN Render([s EXCEPT !.active = NoDraft, !.url = NoDraft], Idle(e), rest)
        ELSE Render(s, Idle(e), rest)

ServeList == /\ \E l \in lists : ~l.read /\ lists' = (lists \ {l})
                                        \union {[l EXCEPT !.read = TRUE, !.got = held]}
             /\ UNCHANGED <<held, shelf, errands>>

ListArrives(l) ==
    /\ LET s == [shelf EXCEPT !.listing = FALSE]
       IN  \/ /\ l.read
              /\ Onward([s EXCEPT !.drafts = l.got,
                                  !.active = ResolveActiveDraftId(l.got, shelf.active, l.for)],
                        errands, l)
           \/ Onward([s EXCEPT !.listError = TRUE], errands, l)
    /\ UNCHANGED held

DetailArrives ==
    /\ errands.detail # NoDraft
    /\ \E ok \in {FALSE, errands.detail \in ToSet(held)} :
         shelf' = [shelf EXCEPT !.detailLoading = FALSE, !.detailError = ~ok,
                                !.detail = IF ok THEN errands.detail ELSE NoDraft]
    /\ errands' = [errands EXCEPT !.detail = NoDraft]
    /\ UNCHANGED <<held, lists>>

(* The user. *)
Did(s) == [s EXCEPT !.changes = @ + 1]

Manage == /\ Offers("manage")
          /\ Render(Did([shelf EXCEPT !.managing = ~@]), errands, lists)
          /\ UNCHANGED held

\* openDraftContext, from the bar or the manager
OpenDraft ==
    /\ Offers("switch") \/ Offers("enter")
    /\ \E d \in ToSet(shelf.drafts) :
         Render(Did([shelf EXCEPT !.active = d, !.url = d, !.managing = FALSE]), errands, lists)
    /\ UNCHANGED held

\* onRefresh
Refresh == /\ Offers("refresh")
           /\ LoadDetail(Did(Listing(shelf)), errands)
           /\ lists' = lists \union {ListRequest(shelf.url)}
           /\ UNCHANGED held

\* the history
GoBack == /\ shelf.changes < MaxChanges
          /\ \E d \in (DraftIds \union {NoDraft}) \ {shelf.url} :
               Render(Did([shelf EXCEPT !.url = d]), errands, lists)
          /\ UNCHANGED held

Naming == /\ \/ Offers("name") /\ shelf' = Did([shelf EXCEPT !.naming = TRUE])
             \/ Offers("unname") /\ shelf' = Did([shelf EXCEPT !.naming = FALSE])
             \/ Offers("rename") /\ shelf' = Did([shelf EXCEPT !.renaming = TRUE])
          /\ UNCHANGED <<held, lists, errands>>
Renamed == /\ shelf.renaming
           /\ \E ok \in BOOLEAN :
                shelf' = [shelf EXCEPT !.renaming = FALSE, !.naming = @ /\ ~ok]
           /\ UNCHANGED <<held, lists, errands>>

\* DraftManagerPanel.run: one operation at a time, of the Drafts and the URL
\* that the panel showed when it was asked for.
RunOperation(op) ==
    /\ Offers(op)
    /\ \E d \in IF op = "create" THEN {NoDraft} ELSE ToSet(shelf.drafts) :
         errands' = [errands EXCEPT !.op = op, !.draft = d, !.for = shelf.url,
                                    !.active = shelf.active]
    /\ shelf' = Did(shelf)
    /\ UNCHANGED <<held, lists>>

\* createDraftFromResource and copyDraft make the new Draft active before the
\* list has it; deleteDraft only asks for the list.
OperationArrives ==
    /\ errands.op # NoDraft /\ ~errands.waits
    /\ \/ /\ errands.op \in {"create", "copy"}
          /\ \E d \in DraftIds \ ToSet(held) :
               /\ held' = Append(held, d)
               /\ Render(Listing([shelf EXCEPT !.active = d]),
                         [errands EXCEPT !.draft = d, !.waits = TRUE],
                         lists \union {ListRequest(errands.for)})
       \/ /\ errands.op = "delete"
          /\ \E k \in DOMAIN held : held[k] = errands.draft /\ held' = RemoveAt(held, k)
          /\ Render(Listing(shelf), [errands EXCEPT !.waits = TRUE],
                    lists \union {ListRequest(errands.for)})
       \/ Render(shelf, Idle(errands), lists) /\ UNCHANGED held

Next == \/ ServeList \/ \E l \in lists : ListArrives(l)
        \/ DetailArrives \/ Manage \/ OpenDraft \/ Refresh \/ GoBack \/ Naming \/ Renamed
        \/ \E op \in {"create", "copy", "renameIn", "delete"} : RunOperation(op)
        \/ OperationArrives

vars == <<held, shelf, lists, errands>>
Spec == Init /\ [][Next]_vars

(***************************************************************************)
(* Properties.                                                             *)
(***************************************************************************)
\* The detail on screen is that of the active Draft.
DetailIsOfActive == shelf.detail # NoDraft => shelf.detail = shelf.active

\* The active Draft is one of the list, unless the list is on its way or could
\* not be read: an answer that lost a Draft also chooses another.
ActiveIsListed == shelf.active # NoDraft /\ shelf.active \notin ToSet(shelf.drafts)
                      => shelf.listing \/ shelf.listError

\* The bar is busy only while a request is under way.
BusyIsBacked ==
    /\ shelf.listing => lists # {}
    /\ shelf.active # NoDraft /\ shelf.detailLoading => errands.detail = shelf.active
=============================================================================
