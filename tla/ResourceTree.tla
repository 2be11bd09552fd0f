---------------------------- MODULE ResourceTree ----------------------------
(***************************************************************************)
(* The tree of a project's resources: expansion, filters by type, search,  *)
(* three view modes, and the keyboard.                                     *)
(***************************************************************************)
EXTENDS Naturals, Sequences, SequencesExt

CONSTANTS
    Preorder,    \* the nodes of the tree, as flattenTree walks them
    ParentOf,    \* [nodes but the root -> nodes]
    TypeOf,      \* [nodes -> types]
    ReadyNodes   \* the nodes Flow360 is done with

Nodes == ToSet(Preorder)
Root == Head(Preorder)
ResourceTypes == {TypeOf[n] : n \in Nodes}

ResourceTreeAssumption ==
    /\ IsInjective(Preorder) /\ Preorder # <<>>
    /\ ParentOf \in [Nodes \ {Root} -> Nodes] /\ ReadyNodes \subseteq Nodes

VARIABLE tree

\* collectAncestorIds
Ancestors[n \in Nodes] ==
    IF n = Root THEN {} ELSE {ParentOf[n]} \union Ancestors[ParentOf[n]]
HasChildren(n) == \E m \in Nodes \ {Root} : ParentOf[m] = n

\* A filter opens the way to whatever it lets through.
Filtering(t) == t.types # ResourceTypes
EffectiveExpanded(t) ==
    IF ~Filtering(t) THEN t.expanded
    ELSE t.expanded \union UNION {Ancestors[m] : m \in {n \in Nodes : TypeOf[n] \in t.types}}

\* flattenTree: the rows, of which a filter only leaves some out
FlattenTree(t) == SelectSeq(Preorder, LAMBDA n : /\ Ancestors[n] \subseteq EffectiveExpanded(t)
                                                 /\ TypeOf[n] \in t.types)
VisibleRowIds(t) == IF t.mode = "tree" THEN FlattenTree(t) ELSE <<>>

\* What can be clicked: the rows, the matches of a search, or the items of the
\* flat and the grouped list.
Listed(t) ==
    IF t.mode = "tree" THEN IF t.searching THEN t.matches ELSE ToSet(FlattenTree(t))
    ELSE {n \in Nodes : TypeOf[n] \in t.types /\ (t.searching => n \in t.matches)}

Init == \E n \in Nodes :
          tree = [expanded |-> {Root} \union Ancestors[n], types |-> ResourceTypes, mode |-> "tree",
                  searching |-> FALSE, matches |-> {}, row |-> n, selected |-> n]

\* The effect of a selection opens the way to it.
Select(n) == tree' = [tree EXCEPT !.selected = n, !.row = n,
                                  !.expanded = IF Ancestors[n] = {} THEN @
                                               ELSE @ \union Ancestors[n] \union {Root}]
selectIfReady(n) == n \in ReadyNodes /\ Select(n)

Click == \E n \in Listed(tree) : selectIfReady(n)

\* back and forward in the history
HistoryMoves == \E n \in Nodes \ {tree.selected} : Select(n)

toggle(n) == tree' = [tree EXCEPT !.expanded = IF n \in @ THEN @ \ {n} ELSE @ \union {n}]
Expand == /\ ~tree.searching
          /\ \E n \in ToSet(VisibleRowIds(tree)) : HasChildren(n) /\ toggle(n)

toggleTypeFilter ==
    \E ty \in ResourceTypes :
       tree' = [tree EXCEPT !.types = IF ty \notin @ THEN @ \union {ty}
                                      ELSE IF @ = {ty} THEN ResourceTypes ELSE @ \ {ty}]

SetViewMode == \E m \in {"tree", "flat", "grouped"} \ {tree.mode} : tree' = [tree EXCEPT !.mode = m]

\* Typing into the search.  The keys of the tree are handled for the search
\* field too: an `a' selects the row instead of being typed.
Search == \E m \in {{}, {Root}, Nodes}, searching \in BOOLEAN :
            tree' = [tree EXCEPT !.searching = searching, !.matches = IF searching THEN m ELSE {}]

(* The keyboard moves among the rows of the tree, from the row it was on. *)
Place(n) == IF n \in ToSet(VisibleRowIds(tree))
            THEN CHOOSE i \in DOMAIN VisibleRowIds(tree) : VisibleRowIds(tree)[i] = n ELSE 0
Keys == tree.mode = "tree" /\ VisibleRowIds(tree) # <<>>

focusRow(i) == tree' = [tree EXCEPT !.row = VisibleRowIds(tree)[i]]

ArrowKey == /\ Keys
            /\ LET n == Len(VisibleRowIds(tree))
                   p == Place(tree.row)
               IN  \/ focusRow((p % n) + 1)                          \* ArrowDown
                   \/ focusRow(((p + n + n - 2) % n) + 1)            \* ArrowUp
                   \/ focusRow(1) \/ focusRow(n)                     \* Home, End
OpenKey == /\ Keys /\ HasChildren(tree.row) /\ toggle(tree.row)      \* ArrowRight, ArrowLeft
SelectKey == Keys /\ selectIfReady(tree.row)                         \* a

Next == \/ Click \/ HistoryMoves \/ Expand \/ toggleTypeFilter \/ SetViewMode \/ Search
        \/ ArrowKey \/ OpenKey \/ SelectKey

(***************************************************************************)
(* Properties.                                                             *)
(***************************************************************************)
TypeOK == /\ tree.expanded \subseteq Nodes /\ tree.types \subseteq ResourceTypes
          /\ tree.types # {} /\ {tree.row, tree.selected} \subseteq Nodes
          /\ tree.mode \in {"tree", "flat", "grouped"}

\* A filter shows every resource of its types, however the tree was folded, and
\* the tree, the flat list and the groups agree on what that is.
FilterFindsAll ==
    /\ Filtering(tree) => ToSet(FlattenTree(tree)) = {n \in Nodes : TypeOf[n] \in tree.types}
    /\ tree.mode = "tree" /\ ~Filtering(tree) => Root \in ToSet(VisibleRowIds(tree))
=============================================================================
