---------------------------- MODULE ComparePorts ----------------------------
(***************************************************************************)
(* The two viewports of a comparison, the first case's and a candidate's:  *)
(* an item picked in one is looked for in the other, an action is done in  *)
(* both, and the page keeps what each shows.  A viewport has no items      *)
(* before its manifest is there, and may never get one.  Effects run in    *)
(* the step that calls for them.                                           *)
(***************************************************************************)
EXTENDS Naturals, Sequences, FiniteSets, SequencesExt

CONSTANTS
    Compared,     \* the cases of the comparison, the first one the baseline
    GroupsOf,     \* the items of each case's manifest: [id, path, name, visible]
    SavedVis,     \* what a saved view may have kept: the visibility of items by case
    MaxPortSteps, \* bound on the user's steps of a behaviour
    NoItem        \* no case, no item

Cases == ToSet(Compared)
ComparePortsAssumption ==
    /\ Compared \in Seq(Cases) /\ IsInjective(Compared) /\ Len(Compared) > 1 /\ MaxPortSteps \in Nat
    /\ \A c \in Cases : /\ GroupsOf[c] \in Seq(ToSet(GroupsOf[c])) /\ NoItem \notin ToSet(GroupsOf[c])
                        /\ IsInjective([i \in DOMAIN GroupsOf[c] |-> GroupsOf[c][i].id])
    /\ \A v \in SavedVis : /\ DOMAIN v \subseteq Cases
                            /\ \A c \in DOMAIN v : DOMAIN v[c] \subseteq {GroupsOf[c][i].id : i \in DOMAIN GroupsOf[c]}

VARIABLES
    pair,  \* the page: the candidate, the linked item, the last action, what is kept
    ports  \* the viewport of each case

Key(g) == Append(g.path, g.name)
\* groups.find: the first of the items at some places of the list
FirstAt(groups, at) == IF at = {} THEN NoItem ELSE groups[CHOOSE i \in at : \A j \in at : i <= j]
WithId(groups, id) == FirstAt(groups, {i \in DOMAIN groups : groups[i].id = id})
\* matchCompareManifestItem: the identifier, then the path, then the name
MatchItem(groups, item) ==
    LET byId == WithId(groups, item.id)
        byPath == FirstAt(groups, {i \in DOMAIN groups : Key(groups[i]) = Key(item)})
    IN  IF byId # NoItem THEN byId
        ELSE IF byPath # NoItem THEN byPath
        ELSE FirstAt(groups, {i \in DOMAIN groups : groups[i].name = item.name})
IdOf(g) == IF g = NoItem THEN NoItem ELSE g.id
Nothing == [x \in {} |-> TRUE]
\* One entry of a map, and a map with the entries of another put over it.
Entry(x, v) == [k \in {x} |-> v]
Over(f, g) == [x \in DOMAIN f \union DOMAIN g |-> IF x \in DOMAIN f THEN f[x] ELSE g[x]]
NoLink == [source |-> NoItem, item |-> NoItem]
NoAct == [type |-> "none", item |-> NoItem, visible |-> TRUE, nonce |-> 0]
Manifest(c) == IF ports[c].loaded THEN GroupsOf[c] ELSE <<>>
Ids(groups) == {groups[i].id : i \in DOMAIN groups}
AsMade(groups) == [i \in Ids(groups) |-> WithId(groups, i).visible]
\* The viewer's rule: an item without an entry is as the manifest says.
IsShown(shown, g) == IF g.id \in DOMAIN shown THEN shown[g.id] ELSE g.visible

\* What an action asks of a viewport that shows these items.
Applies(act, groups) ==
    act.type = "show-all" \/ (act.type # "none" /\ MatchItem(groups, act.item) # NoItem)
Acted(act, groups, shown) ==
    LET item == MatchItem(groups, act.item)
    IN  CASE act.type = "show-all" -> [i \in Ids(groups) |-> TRUE]
          [] act.type = "isolate" -> [i \in Ids(groups) |-> i = item.id]
          [] OTHER -> Over(Entry(item.id, act.visible), shown)
Linked(link, groups) == IF link.item = NoItem THEN NoItem ELSE IdOf(MatchItem(groups, link.item))

Fresh == [loaded |-> FALSE, selected |-> NoItem, shown |-> Nothing]
Mounted(p) == IF p.visual THEN {Head(Compared), p.candidate} ELSE {}

\* The effects of a viewport that is new, or whose link or action is.
Ports(p) == [c \in Cases |->
    LET groups == Manifest(c)
    IN  IF c \notin Mounted(p) THEN Fresh
        ELSE IF c \notin Mounted(pair) THEN [Fresh EXCEPT !.shown = IF c \in DOMAIN p.vis THEN p.vis[c] ELSE Nothing]
        ELSE [ports[c] EXCEPT !.selected = IF p.link # pair.link THEN Linked(p.link, groups) ELSE @,
                              !.shown = IF p.act # pair.act /\ Applies(p.act, groups)
                                        THEN Acted(p.act, groups, @) ELSE @]]
\* onVisibilityStateChange: the page remembers what its viewports show.
Remembered(p) ==
    LET told == {c \in Mounted(p) :
                   LET groups == IF c \in Mounted(pair) THEN Manifest(c) ELSE <<>>
                   IN  (p.act # pair.act \/ c \notin Mounted(pair)) /\ Applies(p.act, groups)}
        acted == [c \in told |-> IF c \in Mounted(pair) THEN Acted(p.act, Manifest(c), ports[c].shown) ELSE Nothing]
    IN  [p EXCEPT !.vis = Over(acted, @)]

Does(p) == LET q == Remembered(p) IN pair' = q /\ ports' = Ports(q)
Step == pair.steps < MaxPortSteps
Stepped == [pair EXCEPT !.steps = @ + 1]

Init ==
    /\ ports = [c \in Cases |-> Fresh]
    /\ \E v \in SavedVis :
         pair = [visual |-> FALSE, candidate |-> Compared[2], link |-> NoLink, act |-> NoAct, vis |-> v, steps |-> 0]
TypeOK ==
    /\ pair.visual \in BOOLEAN /\ pair.candidate \in ToSet(Tail(Compared)) /\ pair.steps \in 0 .. MaxPortSteps
    /\ pair.link.source \in Cases \union {NoItem} /\ DOMAIN pair.vis \subseteq Cases
    /\ \A c \in Cases : /\ ports[c].selected \in Ids(GroupsOf[c]) \union {NoItem}
                        /\ DOMAIN ports[c].shown \subseteq Ids(GroupsOf[c])

ChooseView == Step /\ Does([Stepped EXCEPT !.visual = ~@])
ChooseCandidate ==
    /\ Step /\ Mounted(pair) # {}
    /\ \E c \in ToSet(Tail(Compared)) \ {pair.candidate} :
         Does([Stepped EXCEPT !.candidate = c])
\* selectItem, handleViewerSelection
SelectItem ==
    /\ Step /\ \E c \in Mounted(pair) : \E item \in ToSet(Manifest(c)) \union {NoItem} :
         /\ IdOf(item) # ports[c].selected
         /\ Does([Stepped EXCEPT !.link = [source |-> c, item |-> item]])
ActOnItem ==
    /\ Step /\ \E c \in Mounted(pair) : \E type \in {"isolate", "visibility", "show-all"} :
         LET item == WithId(Manifest(c), ports[c].selected)
         IN  /\ item # NoItem
             /\ Does([Stepped EXCEPT !.act = [type |-> type, item |-> item, visible |-> ~IsShown(ports[c].shown, item),
                                             nonce |-> pair.steps + 1]])
\* The viewer's own list hides and shows in one viewport only.
ToggleInViewer ==
    /\ Step /\ \E c \in Mounted(pair) : \E g \in ToSet(Manifest(c)) :
         LET shown == Over(Entry(g.id, ~IsShown(ports[c].shown, g)), ports[c].shown)
         IN  /\ pair' = [Stepped EXCEPT !.vis = Over(Entry(c, shown), @)]
             /\ ports' = [ports EXCEPT ![c].shown = shown]
ManifestArrives ==
    \E c \in Mounted(pair) :
      LET groups == GroupsOf[c]
          acts == Applies(pair.act, groups)
          saved == IF c \in DOMAIN pair.vis THEN pair.vis[c] ELSE Nothing
          shown == IF acts THEN Acted(pair.act, groups, ports[c].shown) ELSE Over(saved, AsMade(groups))
      IN  /\ ~ports[c].loaded
          /\ ports' = [ports EXCEPT ![c] = [loaded |-> TRUE, selected |-> Linked(pair.link, groups), shown |-> shown]]
          /\ pair' = IF acts THEN [pair EXCEPT !.vis = Over(Entry(c, shown), @)] ELSE pair

Next ==
    \/ ChooseView \/ ChooseCandidate \/ SelectItem \/ ActOnItem \/ ToggleInViewer \/ ManifestArrives
vars == <<pair, ports>>
Spec == Init /\ [][Next]_vars

\* The viewport an item was picked in keeps the pick, when the link comes back to it.
PickIsKept ==
    pair.link.item # NoItem =>
    \A c \in Mounted(pair) : c = pair.link.source /\ ports[c].loaded => ports[c].selected = pair.link.item.id
\* What a viewport shows is what the page has kept for it.
VisibilityIsKept ==
    \A c \in Mounted(pair) : ports[c].loaded =>
      \A g \in ToSet(GroupsOf[c]) :
        IsShown(ports[c].shown, g) = IsShown(IF c \in DOMAIN pair.vis THEN pair.vis[c] ELSE Nothing, g)
=============================================================================
