-------------------------- MODULE WorkspaceFolders --------------------------
(***************************************************************************)
(* WorkspacePage: the tree of Flow360 folders and the projects of the one  *)
(* that is selected, each read from the server's cache first and from      *)
(* Flow360 after it, and the dialogs that change a folder or a project.    *)
(* No read is cancelled, and Escape closes a dialog whose request is out.  *)
(*                                                                         *)
(* One action is one answer or one click in the browser.                   *)
(***************************************************************************)
EXTENDS Naturals, Sequences, FiniteSets, SequencesExt

CONSTANTS
    FolderIds,         \* folders below the root that are there or are created
    RootFolder,
    FirstParents,      \* folders there at first -> their parent
    FolderProjects,    \* folder -> its projects at first
    Queries,           \* sets of folders that a text in the search field matches
    MaxWorkspaceSteps, \* bound on the user's steps of a behaviour
    NoFolder

WorkspaceFoldersAssumption ==
    /\ NoFolder \notin FolderIds /\ RootFolder \notin FolderIds \union {NoFolder}
    /\ DOMAIN FirstParents \subseteq FolderIds
    /\ MaxWorkspaceSteps \in Nat

VARIABLES
    cloud,   \* Flow360, and what the server has cached of it
    home,    \* the page
    opened,  \* the dialog, and the requests of dialogs that wait
    reads    \* loadFolders and loadProjects that wait for an answer

All == FolderIds \union {RootFolder}
NoDialog == [mode |-> "none", target |-> NoFolder, parent |-> NoFolder, confirmed |-> FALSE, busy |-> FALSE]

\* The folders above one in a tree; a tree maps a folder to its parent.
AncestorsIn(tree, f) ==
    LET above[g \in All] == IF g \in DOMAIN tree THEN {tree[g]} \union above[tree[g]] ELSE {}
    IN  above[f]
\* folderAncestorIds; a folder that is not in the tree has none
AncestorIds(tree, f) == IF f \in DOMAIN tree THEN AncestorsIn(tree, f) ELSE {}
Within(tree, f) == {f} \union {g \in DOMAIN tree : f \in AncestorsIn(tree, g)}

FoldersRead(cacheFirst) ==
    [of |-> "folders", folder |-> NoFolder, at |-> IF cacheFirst THEN "cache" ELSE "live",
     have |-> FALSE, then |-> NoFolder]
ProjectsRead(f, cacheFirst) == [FoldersRead(cacheFirst) EXCEPT !.of = "projects", !.folder = f]

\* loadProjects, up to its first request
Select(h, f) == [h EXCEPT !.restored = TRUE, !.stored = f, !.selected = f, !.listing = TRUE]
\* The tree opens the folders above what is newly selected.
Expanded(h) == IF h.tree # NoFolder /\ h.selected # home.selected
               THEN [h EXCEPT !.expanded = @ \union AncestorIds(h.tree, h.selected)] ELSE h
\* The folder of the last visit, once a tree has it; the root is not looked for.
Restores(h) == /\ h.tree # NoFolder /\ h.tree # home.tree /\ ~h.restored
               /\ h.stored # NoFolder /\ h.stored \in DOMAIN h.tree
Page(h, rs) ==
    IF Restores(h)
    THEN /\ home' = Expanded(Select(h, h.stored))
         /\ reads' = Append(rs, ProjectsRead(h.stored, TRUE))
    ELSE /\ home' = Expanded(IF h.tree # NoFolder /\ h.stored = NoFolder THEN [h EXCEPT !.restored = TRUE] ELSE h)
         /\ reads' = rs

Init ==
    /\ cloud = [tree |-> FirstParents, projects |-> FolderProjects,
                cachedTree |-> NoFolder, cached |-> <<>>]
    /\ \E stored \in {NoFolder} \union DOMAIN FirstParents :
         home = [tree |-> NoFolder, loading |-> TRUE, stored |-> stored, restored |-> FALSE,
                 selected |-> NoFolder, projects |-> {}, listing |-> FALSE, expanded |-> {RootFolder},
                 query |-> {}, menu |-> NoFolder, steps |-> 0]
    /\ opened = [dialog |-> NoDialog, sent |-> <<>>]
    /\ reads = <<FoldersRead(TRUE)>>

TypeOK ==
    /\ home.selected \in All \union {NoFolder} /\ home.stored \in All \union {NoFolder}
    /\ home.expanded \subseteq All
    /\ opened.dialog.mode \in {"none", "create", "rename", "move", "delete", "deleteProject"}
    /\ \A r \in ToSet(reads) : r.of \in {"folders", "projects"} /\ r.at \in {"cache", "live"}
    /\ \A f \in DOMAIN cloud.tree : cloud.tree[f] \in DOMAIN cloud.tree \union {RootFolder}

Step == home.steps < MaxWorkspaceSteps
Stepped == [home EXCEPT !.steps = @ + 1]

(***************************************************************************)
(* Answers.  A cached one shows first; a live one that fails after it is   *)
(* passed over, and either way the spinner ends.                           *)
(***************************************************************************)
\* An answer opens the folders above what is selected anew.
Redrawn(tree) == [home EXCEPT !.tree = tree, !.expanded = @ \union AncestorIds(tree, home.selected)]
FoldersArrive ==
    \E i \in DOMAIN reads :
      LET r == reads[i]
          rest == RemoveAt(reads, i)
          next == IF r.then = NoFolder THEN rest ELSE Append(rest, ProjectsRead(r.then, TRUE))
          \* after a folder is created, it is selected
          Shown(h) == IF r.then = NoFolder THEN [h EXCEPT !.loading = FALSE]
                      ELSE Select([h EXCEPT !.loading = FALSE], r.then)
      IN  /\ r.of = "folders" /\ UNCHANGED opened
          /\ \/ /\ r.at = "cache" /\ UNCHANGED cloud
                /\ \/ /\ cloud.cachedTree # NoFolder
                      /\ Page([Redrawn(cloud.cachedTree) EXCEPT !.loading = FALSE],
                              [reads EXCEPT ![i].at = "live", ![i].have = TRUE])
                   \/ /\ cloud.cachedTree = NoFolder
                      /\ Page(home, [reads EXCEPT ![i].at = "live"])
             \/ /\ r.at = "live"
                /\ cloud' = [cloud EXCEPT !.cachedTree = cloud.tree]
                /\ Page(Shown(Redrawn(cloud.tree)), next)
             \/ r.at = "live" /\ UNCHANGED cloud /\ Page(Shown(home), next)
ProjectsOf(f) == IF f \in DOMAIN cloud.projects THEN cloud.projects[f] ELSE {}
ProjectsArrive ==
    \E i \in DOMAIN reads :
      LET r == reads[i]
          f == r.folder
          Listed(ps) == [home EXCEPT !.projects = ps, !.listing = FALSE]
      IN  /\ r.of = "projects" /\ UNCHANGED opened
          /\ \/ /\ r.at = "cache" /\ UNCHANGED cloud
                /\ IF f \in DOMAIN cloud.cached
                   THEN Page(Listed(cloud.cached[f]), [reads EXCEPT ![i].at = "live", ![i].have = TRUE])
                   ELSE Page(home, [reads EXCEPT ![i].at = "live"])
             \/ /\ r.at = "live"
                /\ cloud' = [cloud EXCEPT !.cached =
                     [g \in DOMAIN @ \union {f} |-> IF g = f THEN ProjectsOf(f) ELSE @[g]]]
                /\ Page(Listed(ProjectsOf(f)), RemoveAt(reads, i))
             \/ /\ r.at = "live" /\ UNCHANGED cloud
                /\ Page(IF r.have THEN [home EXCEPT !.listing = FALSE] ELSE Listed({}), RemoveAt(reads, i))

(***************************************************************************)
(* The page and its tree.  A dialog covers both.                           *)
(***************************************************************************)
Uncovered == Step /\ opened.dialog = NoDialog /\ home.tree # NoFolder
\* A branch is drawn when its folder or one below it matches the search.
Matching(q, tree, f) == q = {} \/ Within(tree, f) \intersect q # {}
VisibleFolders(h) ==
    {f \in DOMAIN h.tree \union {RootFolder} :
       /\ \A g \in {f} \union AncestorIds(h.tree, f) : Matching(h.query, h.tree, g)
       /\ \A g \in AncestorIds(h.tree, f) : g \in h.expanded \/ h.query # {}}
OpenFolder == /\ Uncovered /\ UNCHANGED <<cloud, opened>>
              /\ \E f \in VisibleFolders(home) :
                   Page(Select(Stepped, f), Append(reads, ProjectsRead(f, TRUE)))
Refresh == /\ Step /\ opened.dialog = NoDialog /\ UNCHANGED <<cloud, opened>>
           /\ \/ ~home.loading /\ Page([Stepped EXCEPT !.loading = TRUE], Append(reads, FoldersRead(TRUE)))
              \/ /\ home.selected # NoFolder /\ ~home.listing
                 /\ Page([Stepped EXCEPT !.listing = TRUE], Append(reads, ProjectsRead(home.selected, TRUE)))
UseTree == /\ Uncovered /\ UNCHANGED <<cloud, opened>>
           /\ \/ \E f \in VisibleFolders(home) :
                   \/ Page([Stepped EXCEPT !.expanded = IF f \in @ THEN @ \ {f} ELSE @ \union {f}], reads)
                   \/ Page([Stepped EXCEPT !.menu = IF @ = f THEN NoFolder ELSE f], reads)
              \/ \E q \in Queries \union {{}} : q # home.query /\ Page([Stepped EXCEPT !.query = q], reads)

(***************************************************************************)
(* FolderMutationDialog and ProjectMutationDialog                          *)
(***************************************************************************)
\* folderOptions: every folder, but for a move those below it and itself
Destinations(d) == (DOMAIN home.tree \union {RootFolder}) \
                   (IF d.mode = "move" THEN Within(home.tree, d.target) ELSE {})
OpenDialog ==
    /\ Uncovered /\ UNCHANGED cloud
    /\ \/ /\ home.menu \in VisibleFolders(home)
          /\ \E mode \in {"create"} \union (IF home.menu = RootFolder THEN {} ELSE {"rename", "move", "delete"}) :
               opened' = [opened EXCEPT !.dialog =
                 [NoDialog EXCEPT !.mode = mode, !.target = home.menu,
                                  !.parent = IF mode = "create" THEN home.menu ELSE RootFolder]]
          /\ Page([Stepped EXCEPT !.menu = NoFolder], reads)
       \/ /\ opened' = [opened EXCEPT !.dialog =
                 [NoDialog EXCEPT !.mode = "create", !.target = RootFolder, !.parent = RootFolder]]
          /\ Page(Stepped, reads)
       \/ \E p \in home.projects :
            /\ opened' = [opened EXCEPT !.dialog = [NoDialog EXCEPT !.mode = "deleteProject", !.target = p]]
            /\ Page(Stepped, reads)
EditDialog ==
    /\ opened.dialog.mode # "none" /\ UNCHANGED <<cloud, home, reads>>
    /\ \/ /\ opened.dialog.mode \in {"create", "move"}
          /\ \E p \in Destinations(opened.dialog) : opened' = [opened EXCEPT !.dialog.parent = p]
       \/ /\ opened.dialog.mode \in {"delete", "deleteProject"}
          /\ opened' = [opened EXCEPT !.dialog.confirmed = ~@]
CloseDialog == /\ opened.dialog.mode # "none"
               /\ opened' = [opened EXCEPT !.dialog = NoDialog] /\ UNCHANGED <<cloud, home, reads>>
Submit ==
    LET d == opened.dialog
    IN  /\ d.mode # "none" /\ ~d.busy
        /\ d.mode \in {"delete", "deleteProject"} => d.confirmed
        /\ opened' = [dialog |-> [d EXCEPT !.busy = TRUE],
                      sent |-> Append(opened.sent, [mode |-> d.mode, target |-> d.target, parent |-> d.parent,
                                                    selected |-> home.selected])]
        /\ UNCHANGED <<cloud, home, reads>>

\* Flow360 refuses what would break the tree.
Renews(tree, f, parent) == [g \in DOMAIN tree \union {f} |-> IF g = f THEN parent ELSE tree[g]]
Mutated(s, f) ==
    CASE s.mode = "create" -> [cloud EXCEPT !.tree = Renews(@, f, s.parent)]
    [] s.mode = "move" -> [cloud EXCEPT !.tree = Renews(@, f, s.parent)]
    [] s.mode = "delete" -> [cloud EXCEPT !.tree = [g \in DOMAIN @ \ {f} |-> @[g]]]
    [] s.mode = "deleteProject" -> [cloud EXCEPT !.projects = [g \in DOMAIN @ |-> @[g] \ {f}]]
    [] OTHER -> cloud
Accepted(s, f) ==
    LET there == DOMAIN cloud.tree
    IN  CASE s.mode = "create" -> f \in FolderIds \ there /\ s.parent \in there \union {RootFolder}
        [] s.mode = "move" -> /\ f = s.target /\ f \in there /\ s.parent \in there \union {RootFolder}
                              /\ s.parent \notin Within(cloud.tree, f)
        [] s.mode = "delete" -> f = s.target /\ f \in there /\ Within(cloud.tree, f) = {f}
        [] OTHER -> f = s.target
\* onComplete closes whichever dialog is open by now.
MutationSucceeds ==
    \E i \in DOMAIN opened.sent : \E f \in FolderIds \union {opened.sent[i].target} :
      LET s == opened.sent[i]
          gone == s.mode = "delete" /\ s.selected = f
          h == IF gone THEN [home EXCEPT !.selected = NoFolder, !.projects = {}, !.stored = NoFolder]
               ELSE home
      IN  /\ Accepted(s, f)
          /\ cloud' = Mutated(s, f)
          /\ opened' = [dialog |-> NoDialog, sent |-> RemoveAt(opened.sent, i)]
          /\ IF s.mode = "deleteProject"
             THEN IF s.selected = NoFolder THEN Page([home EXCEPT !.projects = @ \ {f}], reads)
                  ELSE Page([Select(home, s.selected) EXCEPT !.projects = @ \ {f}],
                            Append(reads, ProjectsRead(s.selected, FALSE)))
             ELSE Page([h EXCEPT !.loading = TRUE],
                       Append(reads, [FoldersRead(FALSE) EXCEPT
                                        !.then = IF s.mode = "create" THEN f ELSE NoFolder]))
\* The error is shown in the dialog that sent the request, if that is open.
MutationFails ==
    \E i \in DOMAIN opened.sent :
      LET s == opened.sent[i]
          d == opened.dialog
      IN  /\ opened' = [dialog |-> IF d.mode = s.mode /\ d.target = s.target THEN [d EXCEPT !.busy = FALSE] ELSE d,
                        sent |-> RemoveAt(opened.sent, i)]
          /\ UNCHANGED <<cloud, home, reads>>

Next == \/ FoldersArrive \/ ProjectsArrive \/ OpenFolder \/ Refresh \/ UseTree
        \/ OpenDialog \/ EditDialog \/ CloseDialog \/ Submit \/ MutationSucceeds \/ MutationFails

vars == <<cloud, home, opened, reads>>
Spec == Init /\ [][Next]_vars

(***************************************************************************)
(* Properties                                                              *)
(***************************************************************************)
\* A spinner, of the tree, of the list or of a dialog, waits for something.
BusyIsBacked ==
    /\ home.loading => \E r \in ToSet(reads) : r.of = "folders"
    /\ home.listing => \E r \in ToSet(reads) : r.of = "projects"
    /\ opened.dialog.busy => \E s \in ToSet(opened.sent) : s.mode = opened.dialog.mode
\* Every folder the search matches is drawn, and nothing that leads to none.
SearchFindsAll ==
    home.tree # NoFolder /\ home.query # {} =>
        /\ home.query \intersect DOMAIN home.tree \subseteq VisibleFolders(home)
        /\ \A f \in VisibleFolders(home) : Within(home.tree, f) \intersect home.query # {}
\* A reload comes back to the folder that is shown.
SelectedIsStored == home.selected # NoFolder => home.stored = home.selected
\* The folder of the last visit never replaces one the user has chosen.
RestoreKeepsChoice ==
    home.selected # NoFolder /\ home'.selected # home.selected =>
        home'.steps > home.steps \/ opened'.sent # opened.sent \/ \E r \in ToSet(reads) : r.then = home'.selected
==============================================================================
