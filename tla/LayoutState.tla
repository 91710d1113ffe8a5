---------------------------- MODULE LayoutState ----------------------------
(***************************************************************************)
(* The server's layout (state.rs): sessions, each a tree of tabs, splits   *)
(* and views under a root tabs node, its popups, the focus and the zoom.   *)
(* Every definition is one method of `ServerState`: the queries are        *)
(* functions of a state `s`, the mutations give [ok, s], the state they    *)
(* leave behind and whether they succeeded; a mutation that fails half way *)
(* leaves what it had done. A container may come to list a child that is   *)
(* gone (NormalizeNode); a search that meets one fails.                    *)
(***************************************************************************)
EXTENDS TabOrder, FiniteSets, Functions, TLC

CONSTANT HistoryLimit   \* entries kept of a session's focus history

None == 0               \* Option::None; every id is positive
Gone == -1              \* what a search gives that met a node that is gone

Ok(s) == [ok |-> TRUE, s |-> s]
Err(s) == [ok |-> FALSE, s |-> s]
AndThen(r, F(_)) == IF r.ok THEN F(r.s) ELSE r
OrElse(r, F(_)) == IF r.ok THEN r ELSE F(r.s)

----------------------------------------------------------------------------
(* The records. `kids` are a split's children or the children of a tabs    *)
(* node's tabs, `last` the last focused descendant.                        *)

View(sid, b) == [kind |-> "view", sess |-> sid, parent |-> None, kids |-> <<>>,
                 sizes |-> <<>>, active |-> 0, last |-> None, buf |-> b,
                 focused |-> FALSE]

Tabs(sid, p, kids, last) ==
    [View(sid, None) EXCEPT !.kind = "tabs", !.parent = p, !.kids = kids, !.last = last]

Split(sid, p, kids, last) ==
    [Tabs(sid, p, kids, last) EXCEPT !.kind = "split", !.sizes = [i \in DOMAIN kids |-> 1]]

\* A map with one entry more.
Put(map, key, value) == [k \in DOMAIN map \cup {key} |-> IF k = key THEN value ELSE map[k]]

IsKind(s, n, kind) == n \in DOMAIN s.nodes /\ s.nodes[n].kind = kind
SessionOf(s, n) == s.nodes[n].sess
RootOf(s, sid) == s.sessions[sid].root
SetParent(s, n, p) == [s EXCEPT !.nodes[n].parent = p]
DropNode(s, n) == [s EXCEPT !.nodes = Restrict(@, DOMAIN @ \ {n})]

\* The next node id is taken, whether or not the node stays.
InsertNode(s, node) ==
    [s EXCEPT !.nodes = Put(@, s.nextNode, node), !.nextNode = @ + 1]

----------------------------------------------------------------------------
(* Queries.                                                                *)

\* A node and its ancestors, upwards.
PathUp(s, n) ==
    LET up[m \in DOMAIN s.nodes] ==
            IF s.nodes[m].parent = None THEN <<m>> ELSE <<m>> \o up[s.nodes[m].parent]
    IN  up[n]

TopRoot(s, n) == Last(PathUp(s, n))
IsSessionRoot(s, n) == \E sid \in DOMAIN s.sessions : RootOf(s, sid) = n

FloatByRoot(s, n) ==
    IF \E f \in DOMAIN s.floats : s.floats[f].root = n
    THEN CHOOSE f \in DOMAIN s.floats : s.floats[f].root = n
    ELSE None

FloatOf(s, n) == FloatByRoot(s, TopRoot(s, n))

\* The nodes of the tree under n, through the children it lists.
Below(s, n) ==
    LET under[m \in DOMAIN s.nodes] ==
            {m} \cup UNION {under[k] : k \in ToSet(s.nodes[m].kids) \cap DOMAIN s.nodes}
    IN  under[n]

\* Whether the tree under n lists a child that is gone.
Severed(s, n) == \E m \in Below(s, n) : ~(ToSet(s.nodes[m].kids) \subseteq DOMAIN s.nodes)

\* The order in which a walk of the tree under n comes to what it lists.
Walk(s, n) ==
    LET from[m \in DOMAIN s.nodes] ==
            <<m>> \o FlattenSeq([i \in DOMAIN s.nodes[m].kids |->
                        LET k == s.nodes[m].kids[i] IN IF k \in DOMAIN s.nodes THEN from[k] ELSE <<k>>])
    IN  from[n]

FirstGone(s, walk) == SelectInSeq(walk, LAMBDA x : x \notin DOMAIN s.nodes)

\* Looking for n under a root, the walk meets a child that is gone first.
Blocked(s, root, n) ==
    Severed(s, root) /\ LET walk == Walk(s, root)
                       IN  n \notin ToSet(SubSeq(walk, 1, FirstGone(s, walk) - 1))

\* The child an index selects, and the one shown: the first when the index
\* is out of range.
ActiveKid(node) == IF node.active < Len(node.kids) THEN TabAt(node.kids, node.active) ELSE None
ShownKid(node) == IF ActiveKid(node) = None /\ node.kids # <<>> THEN Head(node.kids)
                  ELSE ActiveKid(node)

IsVisibleFrom(s, root, n) ==
    LET seen[m \in DOMAIN s.nodes] ==
            \/ m = root
            \/ /\ s.nodes[m].parent # None
               /\ IsKind(s, s.nodes[m].parent, "tabs") => ActiveKid(s.nodes[s.nodes[m].parent]) = m
               /\ seen[s.nodes[m].parent]
    IN  n \in Below(s, root) /\ seen[n]

IsVisible(s, sid, n) ==
    LET root == TopRoot(s, n)
    IN  /\ root = RootOf(s, sid) \/ FloatByRoot(s, root) # None
        /\ IsVisibleFrom(s, root, n)

\* Whether a node shows cannot be told: its session is gone, or the search fails.
Unsure(s, sid, n) ==
    LET root == TopRoot(s, n)
    IN  \/ sid \notin DOMAIN s.sessions
        \/ (root = RootOf(s, sid) \/ FloatByRoot(s, root) # None) /\ Blocked(s, root, n)

\* The first element of a list that is not None.
FirstSome(list) == LET i == SelectInSeq(list, LAMBDA x : x # None)
                   IN  IF i = 0 THEN None ELSE list[i]

\* What a search found for a node, and for each of a list.
At(s, found, n) == IF n \in DOMAIN s.nodes THEN found[n] ELSE Gone
Each(s, list, found) == [i \in DOMAIN list |-> At(s, found, list[i])]

\* The pane that focusing a node lands on: the one it last focused, if that
\* is still visible, or its first; a tabs node leaves it to its active tab.
FocusCandidate(s, n) ==
    LET pick[m \in DOMAIN s.nodes] ==
            CASE IsKind(s, m, "view") -> m
              [] IsKind(s, m, "split") ->
                   IF s.nodes[m].last \in DOMAIN s.nodes /\ Blocked(s, m, s.nodes[m].last) THEN Gone
                   ELSE IF s.nodes[m].last \in DOMAIN s.nodes /\ IsVisibleFrom(s, m, s.nodes[m].last)
                   THEN s.nodes[m].last
                   ELSE FirstSome(Each(s, s.nodes[m].kids, pick))
              [] OTHER ->
                   IF ShownKid(s.nodes[m]) = None THEN None ELSE At(s, pick, ShownKid(s.nodes[m]))
    IN  At(s, pick, n)

\* The first pane shown under a node.
VisibleLeaf(s, n) ==
    LET pick[m \in DOMAIN s.nodes] ==
            CASE IsKind(s, m, "view") -> m
              [] IsKind(s, m, "split") ->
                   FirstSome(Each(s, s.nodes[m].kids, pick))
              [] OTHER ->
                   IF ShownKid(s.nodes[m]) = None THEN None ELSE At(s, pick, ShownKid(s.nodes[m]))
    IN  pick[n]

FloatFocus(s, f) ==
    LET float == s.floats[f]
        known == float.last \in DOMAIN s.nodes /\ TopRoot(s, float.last) = float.root
    IN  IF known /\ Blocked(s, float.root, float.last) THEN Gone
        ELSE IF known /\ IsVisibleFrom(s, float.root, float.last) THEN float.last
        ELSE FocusCandidate(s, float.root)

RootsOf(s, sid) == {RootOf(s, sid)} \cup {s.floats[f].root : f \in ToSet(s.sessions[sid].floats)}
SessionNodes(s, sid) == UNION {Below(s, r) : r \in RootsOf(s, sid)}

\* A session whose nodes cannot all be listed counts as one without panes.
HasPanes(s, sid) ==
    /\ \A r \in RootsOf(s, sid) : ~Severed(s, r)
    /\ \E n \in SessionNodes(s, sid) : IsKind(s, n, "view")
SessionsWithPanes(s) == {sid \in DOMAIN s.sessions : HasPanes(s, sid)}

\* The window a pane is in: the root tab that holds it. None in a popup.
WindowOf(s, sid, n) ==
    LET path == PathUp(s, n)
    IN  IF Len(path) > 1 /\ Last(path) = RootOf(s, sid) THEN path[Len(path) - 1] ELSE None

NearestTabs(s, n) ==
    IF n = None THEN None
    ELSE LET path == PathUp(s, n)
             i == SelectInSeq(path, LAMBDA m : s.nodes[m].kind = "tabs")
         IN  IF i = 0 THEN None ELSE path[i]

----------------------------------------------------------------------------
(* Focus.                                                                  *)

\* Mutant: the pane that loses the focus stays marked.
ClearFocus_KeepsMark(s, sid) ==
    [s EXCEPT !.floats = [f \in DOMAIN @ |-> [@[f] EXCEPT !.focused = FALSE]],
              !.sessions[sid].leaf = None, !.sessions[sid].float = None]

\* No pane of the session is focused any more.
ClearFocus(s, sid) ==
    LET session == s.sessions[sid]
        leaf == session.leaf
    IN  [s EXCEPT !.nodes = IF IsKind(s, leaf, "view") THEN [@ EXCEPT ![leaf].focused = FALSE] ELSE @,
                  !.floats = [f \in DOMAIN @ |-> IF f \in ToSet(session.floats)
                                                 THEN [@[f] EXCEPT !.focused = FALSE] ELSE @[f]],
                  !.sessions[sid].leaf = None,
                  !.sessions[sid].float = None]

\* The pane that lost the focus becomes the newest of the history, which
\* forgets it elsewhere, and forgets nodes that are gone.
RememberFocus(s, sid, leaf) ==
    LET kept == SelectSeq(s.sessions[sid].history, LAMBDA e : e # leaf /\ e \in DOMAIN s.nodes)
        all  == Append(kept, leaf)
    IN  [s EXCEPT !.sessions[sid].history =
            IF Len(all) > HistoryLimit THEN SubSeq(all, Len(all) - HistoryLimit + 1, Len(all))
            ELSE all]

\* Along a path up from a pane, every split remembers it and every tabs node
\* also activates the tab it is in.
Activate(s, path) ==
    [s EXCEPT !.nodes = [n \in DOMAIN @ |->
        IF n \notin ToSet(Tail(path)) THEN @[n]
        ELSE LET child == path[Position(path, n)]
                 node  == s.nodes[n]
             IN  [node EXCEPT !.last = path[1],
                              !.active = IF node.kind = "tabs" THEN Position(node.kids, child)
                                         ELSE node.active]]]

Focusable(s, sid, leaf) ==
    /\ sid \in DOMAIN s.sessions /\ IsKind(s, leaf, "view") /\ SessionOf(s, leaf) = sid
    /\ TopRoot(s, leaf) = RootOf(s, sid) \/ FloatOf(s, leaf) # None

FocusLeaf(s, sid, leaf) ==
    IF ~Focusable(s, sid, leaf) THEN Err(s)
    ELSE LET previous == s.sessions[sid].leaf
             owner    == FloatOf(s, leaf)
             cleared  == [ClearFocus(s, sid) EXCEPT !.nodes[leaf].focused = TRUE]
             noted    == IF previous \notin {None, leaf} THEN RememberFocus(cleared, sid, previous)
                         ELSE cleared
             pointed  == [noted EXCEPT
                            !.sessions[sid].leaf = leaf,
                            !.sessions[sid].float = owner,
                            !.floats = IF owner = None THEN @
                                       ELSE [@ EXCEPT ![owner].focused = TRUE, ![owner].last = leaf]]
         IN  Ok(Activate(pointed, PathUp(s, leaf)))

\* The pane a search found gets the focus: without one it fails, or nothing
\* is focused.
FocusFound(s, sid, leaf) == IF leaf = None THEN Err(s) ELSE FocusLeaf(s, sid, leaf)
FocusOrClear(s, sid, leaf) == IF leaf = None THEN Ok(ClearFocus(s, sid)) ELSE FocusLeaf(s, sid, leaf)

\* Focus goes to the focused popup if that has a pane, else to the root
\* tree, else to the first popup with one.
HealFocus(s, sid) ==
    LET session  == s.sessions[sid]
        inFloat  == [i \in DOMAIN session.floats |-> FloatFocus(s, session.floats[i])]
        focused  == IF session.float \in DOMAIN s.floats THEN FloatFocus(s, session.float)
                    ELSE None
    IN  FocusOrClear(s, sid, FirstSome(<<focused, FocusCandidate(s, session.root)>> \o inFloat))

\* Focus the pane a node leads to, or whatever is left to focus.
FocusInto(s, sid, n) ==
    IF FocusCandidate(s, n) = None THEN HealFocus(s, sid)
    ELSE FocusLeaf(s, sid, FocusCandidate(s, n))

\* The pane becomes the one its window focuses; the focus moves only when the
\* window is current, or the pane in a popup.
SelectPane(s, sid, leaf) ==
    IF ~Focusable(s, sid, leaf) THEN Err(s)
    ELSE LET window == WindowOf(s, sid, leaf)
             path   == PathUp(s, leaf)
         IN  IF window # None /\ Blocked(s, RootOf(s, sid), window) THEN Err(s)
             ELSE IF window = None \/ IsVisibleFrom(s, RootOf(s, sid), window)
             THEN FocusLeaf(s, sid, leaf)
             ELSE Ok(Activate(s, SubSeq(path, 1, Position(path, window) + 1)))

ShowNode(s, sid, n) ==
    IF SessionOf(s, n) # sid THEN Err(s) ELSE FocusFound(s, sid, FocusCandidate(s, n))

\* The newest pane of the history that is still in the focused pane's window.
LastPane(s, sid) ==
    LET focused == s.sessions[sid].leaf
        history == s.sessions[sid].history
        window  == IF focused \notin DOMAIN s.nodes THEN None ELSE WindowOf(s, sid, focused)
        i == SelectLastInSeq(history, LAMBDA e : /\ e # focused
                                                 /\ IsKind(s, e, "view")
                                                 /\ WindowOf(s, sid, e) = window)
    IN  IF window = None \/ i = 0 THEN None ELSE history[i]

FocusLastPane(s, sid) == FocusFound(s, sid, LastPane(s, sid))

\* A node request to focus a node of any kind: its first visible pane.
FocusNode(s, sid, n) == FocusFound(s, sid, VisibleLeaf(s, n))

----------------------------------------------------------------------------
(* Zoom.                                                                   *)

\* The zoom is dropped when its node is gone or no longer visible.
NormalizeZoom(s, sid) ==
    LET zoom == s.sessions[sid].zoom
        keep == /\ zoom \in DOMAIN s.nodes
                /\ SessionOf(s, zoom) = sid
                /\ IsVisible(s, sid, zoom)
    IN  [s EXCEPT !.sessions[sid].zoom = IF keep THEN zoom ELSE None]

\* Nothing is dropped, and the operation fails, when that cannot be told.
CheckZoom(s, sid) ==
    LET zoom == s.sessions[sid].zoom
    IN  IF \/ sid \notin DOMAIN s.sessions
           \/ zoom \in DOMAIN s.nodes /\ SessionOf(s, zoom) = sid /\ Unsure(s, sid, zoom)
        THEN Err(s) ELSE Ok(NormalizeZoom(s, sid))

SetZoom(s, sid, n) == [s EXCEPT !.sessions[sid].zoom = n]

Zoom(s, n) ==
    LET sid  == SessionOf(s, n)
        leaf == s.sessions[sid].leaf
        refocused == IF leaf # None /\ n \in ToSet(PathUp(s, leaf)) THEN Ok(s)
                     ELSE FocusOrClear(s, sid, FocusCandidate(s, n))
    IN  IF \/ Unsure(s, sid, n) \/ ~IsVisible(s, sid, n)
           \/ leaf # None /\ leaf \notin DOMAIN s.nodes
        THEN Err(s)
        ELSE AndThen(refocused, LAMBDA x : Ok(SetZoom(x, sid, n)))

ToggleZoom(s, n) ==
    IF SessionOf(s, n) \in DOMAIN s.sessions /\ s.sessions[SessionOf(s, n)].zoom = n THEN Ok(SetZoom(s, SessionOf(s, n), None))
    ELSE Zoom(s, n)

----------------------------------------------------------------------------
(* Views and their buffers.                                                *)

\* A buffer takes a view, whose previous buffer is left without one.
AttachBuffer(s, b, n) ==
    IF b \notin DOMAIN s.buffers \/ s.buffers[b].att \notin {None, n} THEN Err(s)
    ELSE LET old == s.nodes[n].buf
         IN  Ok([s EXCEPT !.nodes[n].buf = b,
                          !.buffers = [x \in DOMAIN @ |->
                              IF x = b THEN [@[x] EXCEPT !.att = n, !.ever = TRUE]
                              ELSE IF x = old /\ @[x].att = n THEN [@[x] EXCEPT !.att = None]
                              ELSE @[x]]])

\* A view of the buffer, in no container yet, as the next node. A refused
\* attachment takes the view away again.
CreateView(s, sid, b) ==
    IF sid \notin DOMAIN s.sessions \/ b \notin DOMAIN s.buffers THEN Err(s)
    ELSE OrElse(AttachBuffer(InsertNode(s, View(sid, b)), b, s.nextNode),
                LAMBDA x : Err(DropNode(x, s.nextNode)))

\* Mutant: the buffers it showed stay attached.
RemoveSubtree_KeepsAttached(s, n) ==
    [s EXCEPT !.nodes = Restrict(@, DOMAIN @ \ Below(s, n))]

\* A subtree is removed, children first, and the buffers it showed are
\* detached. A child that is gone ends that: its ancestors and what comes
\* after it stay (RemoveTree fails).
RemoveSubtree(s, n) ==
    LET walk == Walk(s, n)
        to   == FirstGone(s, walk)
        gone == IF ~Severed(s, n) THEN Below(s, n)
                ELSE {m \in ToSet(SubSeq(walk, 1, to - 1)) : walk[to] \notin ToSet(Walk(s, m))}
    IN  [s EXCEPT !.nodes = Restrict(@, DOMAIN @ \ gone),
                  !.buffers = [b \in DOMAIN @ |->
                      IF /\ @[b].att \in gone
                         /\ s.nodes[@[b].att].buf = b
                      THEN [@[b] EXCEPT !.att = None] ELSE @[b]]]

RemoveTree(s, n) == [ok |-> ~Severed(s, n), s |-> RemoveSubtree(s, n)]

----------------------------------------------------------------------------
(* Containers.                                                             *)

RemoveChild(s, p, c) ==
    LET node  == s.nodes[p]
        index == Position(node.kids, c)
        kids  == RemovedAt(node.kids, index)
        cut   == [s EXCEPT
                    !.nodes[p].kids = kids,
                    !.nodes[p].sizes = IF index < Len(@) THEN RemovedAt(@, index) ELSE @,
                    !.nodes[p].active = IF node.kind = "tabs"
                                        THEN ActiveAfterRemove(Len(kids), @, index) ELSE @]
    IN  IF c \in DOMAIN s.nodes THEN SetParent(cut, c, None) ELSE cut

ReplaceKid(s, p, old, new) ==
    SetParent([s EXCEPT !.nodes[p].kids = ReplaceAt(@, Position(@, old) + 1, new)], new, p)

\* Whoever held `old` (a container, a session, a popup) now holds `new`.
RepointOwner(s, sid, owner, old, new) ==
    CASE owner # None -> Ok(ReplaceKid(s, owner, old, new))
      [] owner = None /\ IsSessionRoot(s, old) ->
           Ok(SetParent([s EXCEPT !.sessions[sid].root = new], new, None))
      [] owner = None /\ ~IsSessionRoot(s, old) /\ FloatByRoot(s, old) # None ->
           Ok(SetParent([s EXCEPT !.floats[FloatByRoot(s, old)].root = new], new, None))
      [] OTHER -> Err(s)

\* The same for a container that collapses into its child; the holder's last
\* focused pane follows when it was inside.
ReplaceInOwner(s, old, new) ==
    LET owner == s.nodes[old].parent
        last  == IF owner = None THEN None ELSE s.nodes[owner].last
        moves == last # None /\ (last \in DOMAIN s.nodes => last \in Below(s, old))
        orphaned(x) == Ok(SetParent(x, old, None))
    IN  IF FocusCandidate(s, new) = Gone \/ (last \in DOMAIN s.nodes /\ Blocked(s, old, last))
        THEN Err(s)
        ELSE AndThen(RepointOwner(s, SessionOf(s, old), owner, old, new),
                LAMBDA x : orphaned(IF moves
                                    THEN [x EXCEPT !.nodes[owner].last = FocusCandidate(s, new)]
                                    ELSE x))

RemoveFloat(s, f) ==
    LET sid == s.floats[f].sess
    IN  [s EXCEPT !.floats = Restrict(@, DOMAIN @ \ {f}),
                  !.sessions[sid].floats = Without(@, f),
                  !.sessions[sid].float = IF @ = f THEN None ELSE @]

\* Mutant: only splits are normalised.
NormalizeNode_TabsStay(s, n) ==
    LET node == s.nodes[n]
    IN  IF node.kind = "split" /\ Len(node.kids) = 1
        THEN [ok |-> TRUE, s |-> DropNode(ReplaceInOwner(s, n, Head(node.kids)).s, n),
              up |-> Head(node.kids)]
        ELSE [ok |-> TRUE, s |-> s, up |-> node.parent]

\* A container with a single child gives way to it; an empty popup goes; the
\* session's root and a popup's root tabs stay. [ok, s, up]: `up` is where the
\* walk goes on.
NormalizeNode(s, n) ==
    LET node  == s.nodes[n]
        float == FloatByRoot(s, n)
        root  == IsSessionRoot(s, n)
        size  == Len(node.kids)
        to(r, up) == [ok |-> r.ok, s |-> r.s, up |-> up]
    IN  CASE node.kind = "view" -> to(Ok(s), node.parent)
          [] node.kind = "split" /\ size = 0 -> to(Err(s), None)
          [] size = 1 /\ (node.kind = "split" \/ (node.kind = "tabs" /\ ~root /\ float = None)) ->
               to(AndThen(ReplaceInOwner(s, n, Head(node.kids)), LAMBDA x : Ok(DropNode(x, n))),
                  Head(node.kids))
          [] node.kind = "split" /\ size > 1 ->
               to(Ok([s EXCEPT !.nodes[n].sizes = IF Len(@) = size /\ 0 \notin ToSet(@) THEN @
                                                  ELSE [i \in 1..size |-> 1]]), node.parent)
          [] node.kind = "tabs" /\ size = 0 /\ root ->
               to(Ok([s EXCEPT !.nodes[n].active = 0, !.nodes[n].last = None]), node.parent)
          [] node.kind = "tabs" /\ size = 0 /\ ~root /\ float # None ->
               to(Ok(DropNode(RemoveFloat(s, float), n)), None)
          [] node.kind = "tabs" /\ size = 0 /\ ~root /\ float = None ->
               to(Ok(DropNode(s, n)), node.parent)
          [] OTHER -> to(Ok([s EXCEPT !.nodes[n].active = IF @ >= size THEN size - 1 ELSE @]),
                         node.parent)

\* The walk ends within two steps for each node there was: it goes up, but for a
\* look at a child that took its parent's place.
NormalizeUpwards(s, n) ==
    LET step(r) == IF r.ok /\ r.up \in DOMAIN r.s.nodes THEN NormalizeNode(r.s, r.up) ELSE r
        steps == 2 * Cardinality(DOMAIN s.nodes) + 1
        walk[k \in 0..steps] ==
            IF k = 0 THEN [ok |-> TRUE, s |-> s, up |-> n] ELSE step(walk[k - 1])
    IN  [ok |-> walk[steps].ok, s |-> walk[steps].s]

\* What every closing operation ends with.
Settle(s, sid) == AndThen(CheckZoom(s, sid), LAMBDA x : HealFocus(x, sid))

----------------------------------------------------------------------------
(* Sessions and popups.                                                    *)

CreateSession(s) ==
    LET sid == s.nextSession
    IN  [InsertNode(s, Tabs(sid, None, <<>>, None)) EXCEPT
            !.sessions = Put(@, sid, [root |-> s.nextNode, floats |-> <<>>, leaf |-> None,
                                      float |-> None, zoom |-> None, history |-> <<>>]),
            !.nextSession = @ + 1]

CloseFloating(s, f) ==
    LET float == s.floats[f]
    IN  AndThen(RemoveTree(RemoveFloat(s, f), float.root), LAMBDA x : Settle(x, float.sess))

CloseSession(s, sid) ==
    LET floats == s.sessions[sid].floats
        one(r, f) == IF r.ok THEN CloseFloating(r.s, f) ELSE r
        closed[i \in 0..Len(floats)] == IF i = 0 THEN Ok(s) ELSE one(closed[i - 1], floats[i])
    IN  AndThen(AndThen(closed[Len(floats)], LAMBDA x : RemoveTree(x, RootOf(s, sid))),
                LAMBDA x : Ok([x EXCEPT !.sessions = Restrict(@, DOMAIN @ \ {sid})]))

\* Closing the root starts the session over with an empty one.
ClearSessionRoot(s, sid) ==
    LET fresh(x) == InsertNode(x, Tabs(sid, None, <<>>, None))
    IN  AndThen(RemoveTree(s, RootOf(s, sid)),
                LAMBDA x : HealFocus([fresh(x) EXCEPT !.sessions[sid].root = s.nextNode,
                                                      !.sessions[sid].zoom = None], sid))

FocusFloating(s, f) == FocusFound(s, s.floats[f].sess, FloatFocus(s, f))

\* A popup around a node that no container, session or popup holds.
CreateFloating(s, sid, n, focus) ==
    IF \/ SessionOf(s, n) # sid \/ s.nodes[n].parent # None
       \/ IsSessionRoot(s, n) \/ FloatByRoot(s, n) # None
    THEN Err(s)
    ELSE LET f == s.nextFloat
             opened == [s EXCEPT
                          !.floats = Put(@, f, [sess |-> sid, root |-> n,
                                                focused |-> FALSE, last |-> None]),
                          !.sessions[sid].floats = Append(@, f),
                          !.nextFloat = @ + 1]
             undone(x) == [x EXCEPT !.floats = Restrict(@, DOMAIN @ \ {f}),
                                    !.sessions[sid].floats = Without(@, f)]
         IN  IF focus THEN OrElse(FocusFloating(opened, f), LAMBDA x : Err(undone(x)))
             ELSE Ok(opened)

----------------------------------------------------------------------------
(* Tabs, splits and panes.                                                 *)

\* A free node becomes a tab, which is made active whether or not it gets
\* the focus.
AddTab(s, t, index, child, focus) ==
    IF \/ ~IsKind(s, t, "tabs") \/ child = t \/ SessionOf(s, child) # SessionOf(s, t)
       \/ s.nodes[child].parent # None \/ IsSessionRoot(s, child)
       \/ FloatByRoot(s, child) # None \/ index > Len(s.nodes[t].kids)
    THEN Err(s)
    ELSE LET added == [SetParent(s, child, t) EXCEPT
                          !.nodes[t].kids = InsertedAt(@, index, child),
                          !.nodes[t].active = index]
         IN  IF focus THEN FocusInto(added, SessionOf(s, t), child) ELSE Ok(added)

\* Closing a node, with what is under it.
CloseNode(s, n) ==
    LET sid == SessionOf(s, n)
        p   == s.nodes[n].parent
        f   == FloatByRoot(s, n)
        removed == IF p # None THEN AndThen(RemoveTree(RemoveChild(s, p, n), n),
                                            LAMBDA x : NormalizeUpwards(x, p))
                   ELSE IF f # None THEN RemoveTree(RemoveFloat(s, f), n)
                   ELSE Err(s)
    IN  IF IsSessionRoot(s, n) THEN ClearSessionRoot(s, sid)
        ELSE AndThen(removed, LAMBDA x : Settle(x, sid))

CloseTab(s, t, index) ==
    IF ~IsKind(s, t, "tabs") \/ index >= Len(s.nodes[t].kids) THEN Err(s)
    ELSE LET child == TabAt(s.nodes[t].kids, index)
             cut   == RemoveChild(s, t, child)
             emptied == [cut EXCEPT !.nodes[t].last = IF cut.nodes[t].kids = <<>> THEN None ELSE @]
         IN  IF child \notin DOMAIN s.nodes THEN Err(emptied)
             ELSE AndThen(AndThen(RemoveTree(emptied, child), LAMBDA x : NormalizeUpwards(x, t)),
                          LAMBDA x : Settle(x, SessionOf(s, t)))

\* A view that found no place: closed where it is, or else just dropped.
DiscardView(s, n) ==
    OrElse(IF s.nodes[n].parent = None THEN Err(s) ELSE CloseNode(s, n),
           LAMBDA x : Ok(IF n \in DOMAIN x.nodes THEN RemoveSubtree(x, n) ELSE x)).s

\* A new view of the buffer becomes a tab, or a popup, or nothing changes.
AddTabFromBuffer(s, t, index, b) ==
    IF ~IsKind(s, t, "tabs") THEN Err(s)
    ELSE AndThen(CreateView(s, SessionOf(s, t), b),
                 LAMBDA x : OrElse(AddTab(x, t, index, s.nextNode, TRUE),
                                   LAMBDA y : Err(DiscardView(y, s.nextNode))))

CreateFloatingFromBuffer(s, sid, b, focus) ==
    AndThen(CreateView(s, sid, b),
            LAMBDA x : OrElse(CreateFloating(x, sid, s.nextNode, focus),
                              LAMBDA y : Err(DiscardView(y, s.nextNode))))

\* The tab is selected; the focus follows only into a tabs node that shows.
SwitchTab(s, t, index) ==
    IF ~IsKind(s, t, "tabs") \/ index >= Len(s.nodes[t].kids) THEN Err(s)
    ELSE LET sid == SessionOf(s, t)
             x   == [s EXCEPT !.nodes[t].active = index]
         IN  IF Unsure(x, sid, t) THEN Err(x)
             ELSE IF IsVisible(x, sid, t) THEN FocusInto(x, sid, TabAt(s.nodes[t].kids, index))
             ELSE Ok(x)

SplitLeaf(s, leaf, b) ==
    IF ~IsKind(s, leaf, "view") THEN Err(s)
    ELSE LET sid == SessionOf(s, leaf)
             p   == s.nodes[leaf].parent
             new == s.nextNode
             split == new + 1
             placed(x) == SetParent(SetParent(InsertNode(x, Split(sid, p, <<leaf, new>>, new)),
                                              leaf, split), new, split)
         IN  AndThen(CreateView(s, sid, b),
                     LAMBDA x : AndThen(RepointOwner(placed(x), sid, p, leaf, split),
                                        LAMBDA y : FocusLeaf(y, sid, new)))

Resize(s, n, sizes) ==
    IF \/ ~IsKind(s, n, "split") \/ Len(sizes) # Len(s.nodes[n].kids) \/ 0 \in ToSet(sizes)
    THEN Err(s) ELSE Ok([s EXCEPT !.nodes[n].sizes = sizes])

\* Mutant: the buffer's own view is closed before the sessions are compared.
MoveBufferToLeaf_ClosesFirst(s, b, leaf) ==
    LET from == s.buffers[b].att
        freed == IF from = None THEN Ok(s) ELSE CloseNode(s, from)
    IN  IF ~IsKind(s, leaf, "view") \/ from = leaf THEN Err(s)
        ELSE IF from # None /\ SessionOf(s, from) # SessionOf(s, leaf) THEN Err(freed.s)
        ELSE AndThen(freed, LAMBDA x : AndThen(AttachBuffer(x, b, leaf),
                                               LAMBDA y : FocusLeaf(y, SessionOf(s, leaf), leaf)))

\* A buffer moves into an existing view of the same session, out of its own.
MoveBufferToLeaf(s, b, leaf) ==
    LET sid  == SessionOf(s, leaf)
        from == s.buffers[b].att
        freed == IF from = None THEN Ok(s)
                 ELSE IF SessionOf(s, from) # sid THEN Err(s)
                 ELSE CloseNode(s, from)
    IN  IF ~IsKind(s, leaf, "view") THEN Err(s)
        ELSE IF from = leaf THEN FocusLeaf(s, sid, leaf)
        ELSE AndThen(freed, LAMBDA x : AndThen(AttachBuffer(x, b, leaf),
                                               LAMBDA y : FocusLeaf(y, sid, leaf)))

SharedParent(s, n, m) ==
    IF n # m /\ s.nodes[n].parent = s.nodes[m].parent THEN s.nodes[n].parent ELSE None

SwapSiblings(s, n, m) ==
    LET p == SharedParent(s, n, m)
        i == Position(s.nodes[p].kids, n)
        j == Position(s.nodes[p].kids, m)
    IN  IF n = m THEN Ok(s)
        ELSE IF p = None THEN Err(s)
        ELSE Ok([s EXCEPT
                    !.nodes[p].kids = Swapped(@, i, j),
                    !.nodes[p].sizes = IF @ = <<>> THEN @ ELSE Swapped(@, i, j),
                    !.nodes[p].active = IF s.nodes[p].kind = "tabs" THEN ActiveAfterSwap(@, i, j)
                                        ELSE @])

MoveNode(s, n, sibling, before) ==
    LET p    == SharedParent(s, n, sibling)
        from == Position(s.nodes[p].kids, n)
        at   == InsertPosition(from, Position(s.nodes[p].kids, sibling), before)
    IN  IF n = sibling THEN Ok(s)
        ELSE IF p = None THEN Err(s)
        ELSE Ok([s EXCEPT
                    !.nodes[p].kids = Moved(@, from, at),
                    !.nodes[p].sizes = IF @ = <<>> THEN @ ELSE Moved(@, from, at),
                    !.nodes[p].active = IF s.nodes[p].kind = "tabs"
                                        THEN ActiveAfterMove(@, from, at) ELSE @])

\* A node that could not be placed goes back to where it was in `s`.
PutBack(s, x, n) ==
    LET sid == SessionOf(s, n)
        p   == s.nodes[n].parent
        f   == FloatByRoot(s, n)
        at  == Position(s.nodes[p].kids, n)
        now == x.nodes[n].parent
        free == IF now # None THEN RemoveChild(x, now, n)
                ELSE IF FloatByRoot(x, n) # None THEN RemoveFloat(x, FloatByRoot(x, n))
                ELSE x
    IN  IF p # None
        THEN SetParent([free EXCEPT
                 !.nodes[p].kids = InsertedAt(@, at, n),
                 !.nodes[p].sizes = IF IsKind(s, p, "split")
                                    THEN InsertedAt(@, at, s.nodes[p].sizes[at + 1]) ELSE @,
                 !.nodes[p].active = s.nodes[p].active,
                 !.nodes[p].last = s.nodes[p].last], n, p)
        ELSE [free EXCEPT
                 !.floats = Put(@, f, s.floats[f]),
                 !.sessions[sid].floats = InsertedAt(@, Position(s.sessions[sid].floats, f), f),
                 !.sessions[sid].float = s.sessions[sid].float]

\* A node leaves its container or popup and becomes a popup, or the last tab
\* of the nearest tabs node. A node that already is one stays where it is.
BreakNode(s, n, toFloat) ==
    LET sid == SessionOf(s, n)
        p   == s.nodes[n].parent
        f   == FloatByRoot(s, n)
        cut == IF p # None THEN RemoveChild(s, p, n) ELSE RemoveFloat(s, f)
        t   == IF NearestTabs(cut, p) = None THEN RootOf(cut, sid) ELSE NearestTabs(cut, p)
        placed == IF toFloat THEN CreateFloating(cut, sid, n, TRUE)
                  ELSE AddTab(cut, t, Len(cut.nodes[t].kids), n, IsVisible(s, sid, n))
    IN  IF \/ toFloat /\ p = None /\ f # None
           \/ ~toFloat /\ p # None /\ IsKind(s, p, "tabs")
        THEN Ok(s)
        ELSE IF (p = None /\ f = None) \/ FocusCandidate(s, n) = Gone \/ Unsure(s, sid, n) THEN Err(s)
        ELSE AndThen(AndThen(OrElse(placed, LAMBDA x : Err(PutBack(s, x, n))),
                             LAMBDA x : IF p = None THEN Ok(x) ELSE NormalizeUpwards(x, p)),
                     LAMBDA x : CheckZoom(x, sid))

\* A node and a free view share a new split.
WrapInSplit(s, n, view, before, focus) ==
    LET sid == SessionOf(s, n)
        p   == s.nodes[n].parent
        split == s.nextNode
        kids == IF before THEN <<view, n>> ELSE <<n, view>>
        wrapped == SetParent(SetParent(InsertNode(s, Split(sid, p, kids, FocusCandidate(s, view))),
                                       n, split), view, split)
    IN  IF \/ SessionOf(s, view) # sid \/ n = view \/ s.nodes[view].parent # None
           \/ IsSessionRoot(s, view) \/ FloatByRoot(s, view) # None \/ IsSessionRoot(s, n)
        THEN Err(s)
        ELSE AndThen(RepointOwner(wrapped, sid, p, n, split),
                     LAMBDA x : IF focus THEN FocusInto(x, sid, view) ELSE Ok(x))

WrapInTabs(s, n) ==
    LET p == s.nodes[n].parent
        wrapped == SetParent(InsertNode(s, Tabs(SessionOf(s, n), p, <<n>>, s.nodes[n].last)),
                             n, s.nextNode)
    IN  RepointOwner(wrapped, SessionOf(s, n), p, n, s.nextNode)

\* The free view becomes a tab beside the node: in the node itself if that is
\* a tabs node, in the tabs node that holds it, or in a new one around it.
JoinTab(s, n, view, before, focus) ==
    LET p == s.nodes[n].parent
        beside == IF before THEN 0 ELSE 1
        own    == Len(s.nodes[n].kids)
        after  == s.nodes[n].active + beside
        place  == CASE IsKind(s, n, "tabs") -> <<n, IF after < own THEN after ELSE own>>
                    [] ~IsKind(s, n, "tabs") /\ IsKind(s, p, "tabs") ->
                         <<p, Position(s.nodes[p].kids, n) + beside>>
                    [] OTHER -> <<s.nextNode, beside>>
    IN  AndThen(IF place[1] = s.nextNode THEN WrapInTabs(s, n) ELSE Ok(s),
                LAMBDA x : AddTab(x, place[1], place[2], view, focus))

\* A buffer, from its own view in the session if it has one, joins a node. The
\* new view is in place before the old one is closed.
JoinBuffer(s, n, b, place) ==
    LET sid  == SessionOf(s, n)
        from == s.buffers[b].att
        view == s.nextNode
        focus == IsVisible(s, sid, n)
        created == IF from = None THEN CreateView(s, sid, b) ELSE Ok(InsertNode(s, View(sid, b)))
        before == place \in {"before", "tabBefore"}
        wraps  == /\ place \in {"tabBefore", "tabAfter"}
                  /\ ~IsKind(s, n, "tabs") /\ ~IsKind(s, s.nodes[n].parent, "tabs")
        untitled(x) == wraps /\ FocusCandidate(x, n) = Gone
        unheld(x)   == wraps /\ ~WrapInTabs(x, n).ok
        placed(x) == IF place \in {"before", "after"} THEN WrapInSplit(x, n, view, before, focus)
                     ELSE JoinTab(x, n, view, before, focus)
        moved(x) ==
            IF from = None THEN Ok(x)
            ELSE AndThen(OrElse(CloseNode(x, from), LAMBDA y : Err(CloseNode(y, view).s)),
                         LAMBDA y : Ok([y EXCEPT !.buffers[b].att = view, !.buffers[b].ever = TRUE]))
    IN  IF \/ from # None /\ (SessionOf(s, from) # sid \/ n \in ToSet(PathUp(s, from)))
           \/ Unsure(s, sid, n)
        THEN Err(s)
        ELSE AndThen(created, LAMBDA x :
                 IF untitled(x) THEN Err(x)
                 ELSE IF unheld(x) THEN Err(WrapInTabs(x, n).s)
                 ELSE AndThen(OrElse(placed(x), LAMBDA y : Err(DiscardView(y, view))), LAMBDA y :
                          AndThen(moved(y), LAMBDA z : CheckZoom(z, sid))))

DetachBuffer(s, b) ==
    IF s.buffers[b].att = None THEN Ok(s) ELSE CloseNode(s, s.buffers[b].att)

----------------------------------------------------------------------------
(* Clean-up after a request or an exit.                                    *)

RemoveBuffer(s, b) == [s EXCEPT !.buffers = Restrict(@, DOMAIN @ \ {b})]

\* Exited buffers, in the order of their ids, lose their view, unless they remain
\* on exit, and their record, unless they were never shown or are watched and
\* not shown. [s, changed]: the sessions a view was closed in.
DisposeExited(s, remain, watched) ==
    LET closing(acc, b, view, closed) ==
            IF ~closed.ok THEN [acc EXCEPT !.s = closed.s]
            ELSE [s |-> RemoveBuffer(closed.s, b),
                  changed |-> acc.changed \cup {SessionOf(acc.s, view)}]
        one(acc, b) ==
            LET view == s.buffers[b].att
            IN  IF view # None
                THEN IF b \in remain THEN acc ELSE closing(acc, b, view, CloseNode(acc.s, view))
                ELSE IF s.buffers[b].ever /\ b \notin watched THEN [acc EXCEPT !.s = RemoveBuffer(@, b)] ELSE acc
        last == Max(DOMAIN s.buffers \cup {0})
        upTo[b \in 0..last] ==
            IF b = 0 THEN [s |-> s, changed |-> {}]
            ELSE IF b \in DOMAIN s.buffers /\ s.buffers[b].exited THEN one(upTo[b - 1], b)
            ELSE upTo[b - 1]
    IN  upTo[last]

\* Mutant: the noted sessions are taken to be empty still.
DestroyEmptied_Unchecked(s, had) ==
    LET one(acc, sid) ==
            IF sid \in had \cap DOMAIN acc.sessions THEN CloseSession(acc, sid).s ELSE acc
        upTo[sid \in 0..(s.nextSession - 1)] == IF sid = 0 THEN s ELSE one(upTo[sid - 1], sid)
    IN  upTo[s.nextSession - 1]

\* Of the sessions that had panes, those left without one are closed.
DestroyEmptied(s, had) ==
    LET one(acc, sid) ==
            IF sid \in had \cap DOMAIN acc.sessions /\ ~HasPanes(acc, sid)
            THEN CloseSession(acc, sid).s ELSE acc
        upTo[sid \in 0..(s.nextSession - 1)] == IF sid = 0 THEN s ELSE one(upTo[sid - 1], sid)
    IN  upTo[s.nextSession - 1]
=============================================================================
