----------------------------- MODULE ImportForm -----------------------------
(***************************************************************************)
(* ImportPanel: the dialog that makes a project of a folder, from files    *)
(* that are staged, reviewed and then submitted, or from a validated       *)
(* version of the STEP library.  Its close button works while a request is *)
(* out, and the answer still leads to the new project.                     *)
(*                                                                         *)
(* Every answer of a request that is not awaited by an open panel, a       *)
(* staging answer for example, changes the server only.                    *)
(***************************************************************************)
EXTENDS Naturals, Sequences, FiniteSets, SequencesExt

CONSTANTS
    ImportIds,      \* plans that can be staged
    ReadyVersions,  \* versions of the library that can be ready
    AssetOf,        \* version -> the name of its asset
    MaxImportSteps, \* bound on the user's steps of a behaviour
    NoImport        \* none

ImportFormAssumption ==
    /\ NoImport \notin ImportIds \union ReadyVersions /\ MaxImportSteps \in Nat
    /\ IsFiniteSet(ReadyVersions)
    /\ \A v \in ReadyVersions : AssetOf[v] \notin {"", "typed"}

VARIABLES
    staged,      \* server: status of each import plan
    importing,   \* the panel
    importCalls  \* requests that wait for an answer

\* A panel that is closed; the next one is numbered after it
Closed(steps) == [open |-> FALSE, steps |-> steps, panel |-> importing.panel]
\* What a panel shows first; n numbers the panels that are opened
Opened(n, steps) ==
    [open |-> TRUE, panel |-> n, plan |-> NoImport, status |-> "none", mode |-> "upload", name |-> "",
     files |-> "none", choices |-> <<>>, choice |-> NoImport, loading |-> FALSE, review |-> FALSE,
     confirmed |-> FALSE, asking |-> FALSE, busy |-> FALSE, error |-> FALSE, drafts |-> {}, steps |-> steps]
Call(kind, plan) == [kind |-> kind, panel |-> importing.panel, plan |-> plan, live |-> TRUE]

Init == /\ staged = [i \in ImportIds |-> "none"]
        /\ importing = Opened(1, 0)
        /\ importCalls = {[kind |-> "drafts", panel |-> 1, plan |-> NoImport, live |-> TRUE]}

Kinds == {"drafts", "assets", "stage", "approve", "run", "step", "abort"}
TypeOK ==
    /\ \A i \in ImportIds : staged[i] \in {"none", "draft", "approved", "failed", "submitted", "gone"}
    /\ \A c \in importCalls : c.kind \in Kinds /\ c.plan \in ImportIds \union ReadyVersions \union {NoImport}
    /\ importing.open => /\ importing.plan \in ImportIds \union {NoImport}
                         /\ importing.choice \in ToSet(importing.choices) \union {NoImport}

Step == importing.open /\ importing.steps < MaxImportSteps
Stepped == [importing EXCEPT !.steps = @ + 1]
\* Its last question covers the panel.
Idle == Step /\ ~importing.busy /\ ~importing.asking
Says(p, calls) == importing' = p /\ importCalls' = calls /\ UNCHANGED staged
\* An answer of a panel that has been closed changes nothing that is shown.
ForOpen(c, p) == IF importing.open /\ importing.panel = c.panel THEN p ELSE importing

(***************************************************************************)
(* What is loaded: imports to resume, and the library once it is looked at.*)
(***************************************************************************)
DraftsArrive ==
    \E c \in importCalls :
      /\ c.kind = "drafts" /\ UNCHANGED staged /\ importCalls' = importCalls \ {c}
      /\ \E found \in {{}, {<<i, staged[i]>> : i \in {j \in ImportIds : staged[j] \in {"draft", "failed"}}}} :
           importing' = ForOpen(c, [importing EXCEPT !.drafts = found])
\* A call whose effect was cleaned up answers nothing, its spinner included.
AssetsArrive ==
    \E c \in importCalls, vs \in {<<>>, SetToSeq(ReadyVersions)} :
      LET kept == importing.choice \in ToSet(vs)
          p == [importing EXCEPT !.loading = FALSE, !.choices = vs,
                   !.choice = IF kept THEN @ ELSE IF vs = <<>> THEN NoImport ELSE Head(vs),
                   !.name = IF @ = "" /\ vs # <<>> THEN AssetOf[Head(vs)] ELSE @]
          failed == [importing EXCEPT !.loading = FALSE]
      IN  /\ c.kind = "assets" /\ UNCHANGED staged /\ importCalls' = importCalls \ {c}
          /\ importing' \in {ForOpen(c, IF c.live THEN p ELSE importing),
                             ForOpen(c, IF c.live THEN failed ELSE importing)}
Dropped(calls) == {IF c.kind = "assets" /\ c.panel = importing.panel THEN [c EXCEPT !.live = FALSE] ELSE c : c \in calls}

(***************************************************************************)
(* The form                                                                *)
(***************************************************************************)
OnForm == Step /\ importing.plan = NoImport /\ ~importing.review
\* The library is read when nothing of it is shown and nothing is read.
ChooseSource ==
    /\ OnForm
    /\ \E mode \in {"upload", "library"} \ {importing.mode} :
         LET first == mode = "library" /\ importing.choices # <<>>
             p == [Stepped EXCEPT !.mode = mode, !.files = "none", !.confirmed = FALSE, !.asking = FALSE,
                     !.error = FALSE, !.review = FALSE,
                     !.choice = IF first /\ @ = NoImport THEN importing.choices[1] ELSE @,
                     !.name = IF first /\ @ = "" THEN AssetOf[importing.choices[1]] ELSE @]
         IN  IF mode = "library" /\ importing.choices = <<>> /\ ~importing.loading
             THEN Says([p EXCEPT !.loading = TRUE], Dropped(importCalls) \union {Call("assets", NoImport)})
             ELSE Says(p, Dropped(importCalls))
FillForm ==
    /\ OnForm
    /\ \/ \E name \in {"", "typed"} \ {importing.name} : Says([Stepped EXCEPT !.name = name], importCalls)
       \/ importing.mode = "upload"
          /\ \E files \in {"none", "fitting", "unfitting"} \ {importing.files} :
               Says([Stepped EXCEPT !.files = files], importCalls)
\* Another version names the project, unless its user has named it.
Renamed(name, v) == IF name = "" \/ name \in {AssetOf[u] : u \in ToSet(importing.choices)}
                    THEN AssetOf[v] ELSE name
ChooseVersion ==
    /\ OnForm /\ importing.mode = "library"
    /\ \E v \in ToSet(importing.choices) :
         Says([Stepped EXCEPT !.choice = v, !.name = Renamed(@, v)], importCalls)
Resume == /\ OnForm /\ ~importing.busy
          /\ \E d \in importing.drafts :
               Says([Stepped EXCEPT !.plan = d[1], !.status = d[2], !.confirmed = FALSE, !.asking = FALSE,
                                    !.error = FALSE], importCalls)
SubmitForm ==
    /\ OnForm /\ ~importing.busy /\ importing.name # ""
    /\ \/ importing.mode = "upload" /\ importing.files = "unfitting"
          /\ Says([Stepped EXCEPT !.error = TRUE], importCalls)
       \/ importing.mode = "upload" /\ importing.files = "fitting"
          /\ Says([Stepped EXCEPT !.busy = TRUE, !.error = FALSE], importCalls \union {Call("stage", NoImport)})
       \/ importing.mode = "library" /\ importing.choice # NoImport
          /\ Says([Stepped EXCEPT !.confirmed = FALSE, !.error = FALSE, !.review = TRUE], importCalls)

(***************************************************************************)
(* The review                                                              *)
(***************************************************************************)
Reviewing == importing.plan # NoImport \/ importing.review
Confirm == /\ Idle /\ Reviewing /\ importing.status # "submitted"
           /\ Says([Stepped EXCEPT !.confirmed = ~@], importCalls)
RequestExecute == Idle /\ Reviewing /\ importing.confirmed /\ Says([Stepped EXCEPT !.asking = TRUE], importCalls)
Decline == importing.open /\ importing.asking /\ Says([importing EXCEPT !.asking = FALSE], importCalls)
Back == Idle /\ importing.review
        /\ Says([Stepped EXCEPT !.review = FALSE, !.confirmed = FALSE, !.asking = FALSE, !.error = FALSE], importCalls)
\* execute and executeSTEP: a plan that the panel knows as a draft is approved first.
Execute ==
    /\ importing.open /\ importing.asking /\ ~importing.busy
    /\ LET call == IF importing.plan = NoImport THEN Call("step", importing.choice)
                   ELSE Call(IF importing.status = "draft" THEN "approve" ELSE "run", importing.plan)
       IN  Says([importing EXCEPT !.asking = FALSE, !.busy = TRUE, !.error = FALSE], importCalls \union {call})
Abort == /\ Idle /\ importing.plan # NoImport /\ importing.status # "submitted"
         /\ Says([Stepped EXCEPT !.busy = TRUE, !.error = FALSE], importCalls \union {Call("abort", importing.plan)})
Close == importing.open /\ ~importing.asking /\ Says(Closed(importing.steps), Dropped(importCalls))
Reopen == /\ ~importing.open /\ importing.steps < MaxImportSteps
          /\ LET p == Opened(importing.panel + 1, importing.steps + 1)
             IN  Says(p, importCalls \union {[kind |-> "drafts", panel |-> p.panel, plan |-> NoImport, live |-> TRUE]})

(***************************************************************************)
(* Answers of the requests that change something                           *)
(***************************************************************************)
Settled(c, p) == importing' = ForOpen(c, [p EXCEPT !.busy = FALSE])
\* onCreated: the panel closes, and the page goes to the new project.
Leaves == importing' = Closed(MaxImportSteps)
Staged == \E c \in importCalls, i \in ImportIds :
            /\ c.kind = "stage" /\ staged[i] = "none" /\ importCalls' = importCalls \ {c}
            /\ staged' = [staged EXCEPT ![i] = "draft"]
            /\ Settled(c, [importing EXCEPT !.plan = i, !.status = "draft"])
\* The store approves a draft only.
Approved == \E c \in importCalls :
              /\ c.kind = "approve" /\ staged[c.plan] = "draft"
              /\ staged' = [staged EXCEPT ![c.plan] = "approved"]
              /\ importCalls' = (importCalls \ {c}) \union {[c EXCEPT !.kind = "run"]}
              /\ UNCHANGED importing
Ran == \E c \in importCalls :
         /\ c.kind = "run" /\ staged[c.plan] \in {"approved", "failed"} /\ importCalls' = importCalls \ {c}
         /\ \/ staged' = [staged EXCEPT ![c.plan] = "submitted"] /\ Leaves
            \/ staged' = [staged EXCEPT ![c.plan] = "failed"] /\ Settled(c, [importing EXCEPT !.error = TRUE])
CreatedFromSTEP == \E c \in importCalls : /\ c.kind = "step" /\ UNCHANGED staged
                                          /\ importCalls' = importCalls \ {c} /\ Leaves
Aborted == \E c \in importCalls :
             /\ c.kind = "abort" /\ importCalls' = importCalls \ {c}
             /\ staged' = [staged EXCEPT ![c.plan] = "gone"]
             /\ Settled(c, [importing EXCEPT !.plan = NoImport, !.status = "none", !.files = "none",
                              !.confirmed = FALSE, !.asking = FALSE,
                              !.drafts = {d \in @ : d[1] # c.plan}])
Refused == \E c \in importCalls :
             /\ c.kind \in {"stage", "approve", "run", "step", "abort"} /\ UNCHANGED staged
             /\ importCalls' = importCalls \ {c} /\ Settled(c, [importing EXCEPT !.error = TRUE])

Next == \/ DraftsArrive \/ AssetsArrive \/ ChooseSource \/ FillForm \/ ChooseVersion \/ Resume \/ SubmitForm
        \/ Confirm \/ RequestExecute \/ Decline \/ Back \/ Execute \/ Abort \/ Close \/ Reopen
        \/ Staged \/ Approved \/ Ran \/ CreatedFromSTEP \/ Aborted \/ Refused

vars == <<staged, importing, importCalls>>
Spec == Init /\ [][Next]_vars

(***************************************************************************)
(* Properties                                                              *)
(***************************************************************************)
Changing == {"stage", "approve", "run", "step", "abort"}
\* A panel is busy while exactly one request of its own can change something.
BusyIsBacked ==
    importing.open =>
        Cardinality({c \in importCalls : c.panel = importing.panel /\ c.kind \in Changing})
            = IF importing.busy THEN 1 ELSE 0
\* What is billed was confirmed in the panel that shows it.
RunIsConfirmed ==
    \A c \in importCalls' \ importCalls : c.kind \in {"approve", "run", "step"} =>
        \/ [c EXCEPT !.kind = "approve"] \in importCalls
        \/ importing.confirmed /\ importing.asking
           /\ c.plan = IF importing.review THEN importing.choice ELSE importing.plan
\* The name a user has typed is changed by the user alone.
NameIsKept ==
    importing.open /\ importing'.open /\ importing.name = "typed" /\ importing'.panel = importing.panel
        /\ importing'.name # "typed" => importing'.steps > importing.steps /\ importing'.choice = importing.choice
==============================================================================
