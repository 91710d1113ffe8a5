------------------------------- MODULE Layout -------------------------------
(***************************************************************************)
(* The server's layout under the requests of its clients (server.rs) and   *)
(* the exits of its buffers' commands. A request is several steps, each    *)
(* under the state lock of its own: the closing requests first note which  *)
(* sessions have panes, then the request's change is made, then exited     *)
(* buffers are cleaned up, then sessions left without panes are destroyed. *)
(* Tasks (connections, and the monitors that record exits) interleave      *)
(* between the steps.                                                      *)
(***************************************************************************)
EXTENDS LayoutState

CONSTANTS
    Tasks,          \* connections and exit monitors
    Buffers,        \* buffer ids
    Exiting,        \* the buffers whose commands exit
    Remain,         \* the buffers with remain-on-exit
    MaxNode,        \* the last node id given out
    MaxSession,     \* the last session id given out
    MaxFloat,       \* the last popup id given out
    Weights,        \* split weights a resize asks for
    Places,         \* where a join puts a buffer
    AfterNesting    \* whether requests go on after one nested a lone tab

ASSUME LayoutAssumption ==
    /\ Buffers \subseteq Nat \ {0} /\ IsFiniteSet(Buffers) /\ Remain \subseteq Buffers
    /\ {MaxNode, MaxSession, MaxFloat, HistoryLimit} \subseteq Nat /\ Weights \subseteq Nat

VARIABLES
    st,     \* the server state: [nodes, sessions, floats, buffers, next ids]
    task,   \* task -> [step, had, changed, ok]: `had` the sessions it noted
    nested  \* history: a tabs node with one tab was put into a tree

vars == <<st, task, nested>>

Idle == [step |-> "idle", had |-> {}, changed |-> {}, ok |-> TRUE]

\* A new server with the buffers its clients created, none of them shown yet.
Empty == [nodes |-> <<>>, sessions |-> <<>>, floats |-> <<>>,
          buffers |-> [b \in Buffers |-> [att |-> None, ever |-> FALSE, exited |-> FALSE]],
          nextNode |-> 1, nextSession |-> 1, nextFloat |-> 1]

Init == st = CreateSession(Empty) /\ task = [a \in Tasks |-> Idle] /\ nested = FALSE

\* Clients ask on; after a lone tab was nested, as far as the bound lets them.
Asking == AfterNesting \/ ~nested

Room(nodes) == st.nextNode + nodes <= MaxNode + 1

----------------------------------------------------------------------------
(* The steps of a request.                                                 *)

Nodes == DOMAIN st.nodes
Sessions == DOMAIN st.sessions
Floats == DOMAIN st.floats
Shown == DOMAIN st.buffers

\* A request that closes panes first notes the sessions that have some.
AskToClose(a) ==
    /\ task[a].step = "idle" /\ Asking
    /\ task' = [task EXCEPT ![a] = [Idle EXCEPT !.step = "asked", !.had = SessionsWithPanes(st)]]
    /\ UNCHANGED <<st, nested>>

Apply(a, from, r) ==
    /\ task[a].step = from
    /\ st' = r.s
    /\ task' = [task EXCEPT ![a].step = "applied", ![a].ok = r.ok]

Request(a, r) == Asking /\ Apply(a, "idle", r) /\ UNCHANGED nested
Closing(a, r) == Apply(a, "asked", r) /\ UNCHANGED nested

\* A request that puts a tabs node with one tab into a tree, if `lone` and unless
\* it changes nothing.
Nesting(a, lone, r) == Asking /\ Apply(a, "idle", r) /\ nested' = (nested \/ (lone /\ st' # st))

\* What a task still has to do: a round over no sessions does nothing.
Rest(changed, had) ==
    IF changed # {} THEN [Idle EXCEPT !.step = "disposed", !.changed = changed, !.had = had]
    ELSE IF had # {} THEN [Idle EXCEPT !.step = "closing", !.had = had]
    ELSE Idle

\* Exited buffers are cleaned up, which may close views. Clients may watch
\* any of them at any time.
Dispose(a) ==
    /\ task[a].step = "applied"
    /\ \E watched \in SUBSET (Exiting \cap Shown) : \E d \in {DisposeExited(st, Remain, watched)} :
          /\ st' = d.s
          /\ task' = [task EXCEPT ![a] = Rest(d.changed, @.had)]
    /\ UNCHANGED nested

\* The sessions the clean-up left without panes are destroyed.
DestroyChanged(a) ==
    /\ task[a].step = "disposed"
    /\ st' = DestroyEmptied(st, task[a].changed)
    /\ task' = [task EXCEPT ![a] = Rest({}, @.had)]
    /\ UNCHANGED nested

\* Then, after a request that closes panes, those it noted that have none now.
DestroyNoted(a) ==
    /\ task[a].step = "closing"
    /\ st' = DestroyEmptied(st, task[a].had)
    /\ task' = [task EXCEPT ![a] = Idle]
    /\ UNCHANGED nested

----------------------------------------------------------------------------
(* The requests.                                                           *)

\* One index beyond the last, for the requests that name a place among tabs.
Indices(n) == 0..(Len(st.nodes[n].kids) + 1)

SessionCreate(a) == /\ Room(1) /\ st.nextSession <= MaxSession
                    /\ Request(a, Ok(CreateSession(st)))
SessionClose(a) == \E sid \in Sessions : Request(a, CloseSession(st, sid))
AddRootTab(a) == \E sid \in Sessions, b \in Shown :
                    /\ Room(1)
                    /\ LET t == RootOf(st, sid)
                       IN  Request(a, AddTabFromBuffer(st, t, Len(st.nodes[t].kids), b))
CloseRootTab(a) == \E sid \in Sessions : \E i \in Indices(RootOf(st, sid)) :
                    Closing(a, CloseTab(st, RootOf(st, sid), i))

NodeSplit(a) == \E n \in Nodes, b \in Shown : Room(2) /\ Request(a, SplitLeaf(st, n, b))
NodeAddTab(a) == \E n \in Nodes, b \in Shown : \E i \in Indices(n) :
                    Room(1) /\ Request(a, AddTabFromBuffer(st, n, i, b))
\* A session's windows are selected the same way, through its root.
SelectTab(a) == \E n \in Nodes : \E i \in Indices(n) : Request(a, SwitchTab(st, n, i))
NodeFocus(a) == \E sid \in Sessions, n \in Nodes : Request(a, FocusNode(st, sid, n))
NodeSelectPane(a) == \E sid \in Sessions, n \in Nodes : Request(a, SelectPane(st, sid, n))
NodeFocusLast(a) == \E sid \in Sessions : Request(a, FocusLastPane(st, sid))
\* Closing a session's root starts it over with a fresh root node.
NodeClose(a) == \E n \in Nodes : Room(1) /\ Closing(a, CloseNode(st, n))
\* What a closing request names may be gone by the time it is applied.
CloseGone(a) == Closing(a, Err(st))
NodeResize(a) == \E n \in Nodes : \E sizes \in [DOMAIN st.nodes[n].kids -> Weights] :
                    Request(a, Resize(st, n, sizes))
NodeMoveBuffer(a) == \E n \in Nodes, b \in Shown : Request(a, MoveBufferToLeaf(st, b, n))
NodeZoom(a) == \E n \in Nodes : Request(a, Zoom(st, n))
NodeUnzoom(a) == \E sid \in Sessions : Request(a, Ok(SetZoom(st, sid, None)))
NodeToggleZoom(a) == \E n \in Nodes : Request(a, ToggleZoom(st, n))
NodeSwap(a) == \E n, m \in Nodes : Request(a, SwapSiblings(st, n, m))
NodeMove(a) == \E n, m \in Nodes, before \in BOOLEAN : Request(a, MoveNode(st, n, m, before))

\* A tabs node with a single tab, which gives way to it anywhere but at the
\* root of a session, which stays there, or of a popup. Nothing normalises it
\* where it is put.
LoneTabs(n) == IsKind(st, n, "tabs") /\ Len(st.nodes[n].kids) <= 1 /\ ~IsSessionRoot(st, n)

NodeBreak(a) == \E n \in Nodes, toFloat \in BOOLEAN :
    /\ toFloat => st.nextFloat <= MaxFloat
    /\ Nesting(a, ~toFloat /\ LoneTabs(n), BreakNode(st, n, toFloat))
NodeJoin(a) == \E n \in Nodes, b \in Shown, place \in Places :
    /\ Room(2)
    /\ Nesting(a, place \in {"before", "after"} /\ LoneTabs(n), JoinBuffer(st, n, b, place))
\* The new tabs node has one tab, the node, and takes its place.
NodeWrapInTabs(a) == \E n \in Nodes :
    /\ Room(1)
    /\ Nesting(a, FloatByRoot(st, n) = None \/ LoneTabs(n), WrapInTabs(st, n))

FloatingCreate(a) == \E sid \in Sessions, b \in Shown, focus \in BOOLEAN :
                    /\ Room(1) /\ st.nextFloat <= MaxFloat
                    /\ Request(a, CreateFloatingFromBuffer(st, sid, b, focus))
FloatingClose(a) == \E f \in Floats : Closing(a, CloseFloating(st, f))
FloatingFocus(a) == \E f \in Floats : Request(a, FocusFloating(st, f))

BufferDetach(a) == \E b \in Shown : Request(a, DetachBuffer(st, b))

\* A client switching to a window or pane shows it; nothing is cleaned up.
ClientSwitch(a) == \E sid \in Sessions, n \in Nodes :
    /\ task[a].step = "idle" /\ Asking
    /\ st' = ShowNode(st, sid, n).s
    /\ UNCHANGED <<task, nested>>

\* A buffer's command exits; its monitor records it and cleans up.
Exit(a) == \E b \in Shown \cap Exiting :
    /\ ~st.buffers[b].exited
    /\ Request(a, Ok([st EXCEPT !.buffers[b].exited = TRUE]))

Next == \E a \in Tasks :
    \/ AskToClose(a) \/ Dispose(a) \/ DestroyChanged(a) \/ DestroyNoted(a)
    \/ SessionCreate(a) \/ SessionClose(a) \/ AddRootTab(a) \/ CloseRootTab(a)
    \/ NodeSplit(a) \/ NodeAddTab(a) \/ SelectTab(a) \/ NodeFocus(a)
    \/ NodeSelectPane(a) \/ NodeFocusLast(a) \/ NodeClose(a) \/ CloseGone(a) \/ NodeResize(a)
    \/ NodeMoveBuffer(a) \/ NodeZoom(a) \/ NodeUnzoom(a) \/ NodeToggleZoom(a)
    \/ NodeSwap(a) \/ NodeMove(a) \/ NodeBreak(a) \/ NodeJoin(a) \/ NodeWrapInTabs(a)
    \/ FloatingCreate(a) \/ FloatingClose(a) \/ FloatingFocus(a)
    \/ BufferDetach(a) \/ ClientSwitch(a) \/ Exit(a)

Spec == Init /\ [][Next]_vars

----------------------------------------------------------------------------
(* Properties. A request that puts a tabs node with a single tab into a    *)
(* tree (Nesting) ends what they promise: such a node may later be dropped *)
(* while its container still lists it, and searches then fail half way     *)
(* through a request. NestedToo says what does not hold from there on.     *)

\* Every tree is a tree: child lists and parents agree, no node has two
\* holders, none is left over, splits have at least two children and a weight
\* for each, and active tabs exist (what `validate` demands of the tree).
Trees(s) ==
    LET roots == {RootOf(s, sid) : sid \in DOMAIN s.sessions}
                 \cup {s.floats[f].root : f \in DOMAIN s.floats}
    IN  /\ \A n \in DOMAIN s.nodes :
              LET node == s.nodes[n]
              IN  /\ node.sess \in DOMAIN s.sessions
                  /\ (node.parent = None) <=> (n \in roots)
                  /\ node.parent # None =>
                        /\ node.parent \in DOMAIN s.nodes
                        /\ Contains(s.nodes[node.parent].kids, n)
                        /\ s.nodes[node.parent].sess = node.sess
                  /\ \A i, j \in DOMAIN node.kids : node.kids[i] = node.kids[j] => i = j
                  /\ \A k \in ToSet(node.kids) : k \in DOMAIN s.nodes /\ s.nodes[k].parent = n
                  /\ node.kind = "split" => Len(node.kids) >= 2 /\ Len(node.sizes) = Len(node.kids)
                  /\ node.kind = "tabs" /\ node.kids # <<>> => node.active < Len(node.kids)
                  /\ node.kind = "tabs" /\ node.kids = <<>> => node.active = 0
        /\ roots \subseteq DOMAIN s.nodes
        /\ \A sid \in DOMAIN s.sessions :
              /\ s.nodes[RootOf(s, sid)].kind = "tabs"
              /\ ToSet(s.sessions[sid].floats) = {f \in DOMAIN s.floats : s.floats[f].sess = sid}
              /\ SessionNodes(s, sid) = {n \in DOMAIN s.nodes : s.nodes[n].sess = sid}

\* A buffer's attachment and the view that shows it name each other.
Attachments(s) ==
    /\ \A b \in DOMAIN s.buffers : s.buffers[b].att # None =>
          IsKind(s, s.buffers[b].att, "view") /\ s.nodes[s.buffers[b].att].buf = b
    /\ \A n \in DOMAIN s.nodes : s.nodes[n].kind = "view" =>
          s.nodes[n].buf \in DOMAIN s.buffers /\ s.buffers[s.nodes[n].buf].att = n

\* The layout is sound (Trees, Attachments) between any two steps of any
\* requests and clean-ups, until a tabs node with one tab is put into a tree.
LayoutSound == ~nested => Trees(st) /\ Attachments(st)

\* The same without the exception, which does not hold.
NestedToo == Trees(st) /\ Attachments(st)

\* Every node but a session's root leads to a pane: no empty container stays
\* in a layout (breaking out or focusing a node relies on it), until a tabs
\* node with one tab is put into a tree.
PanesEverywhere == ~nested =>
    \A n \in Nodes : IsSessionRoot(st, n) \/ FocusCandidate(st, n) # None

\* A session's focused pane is its only view marked focused, its focused popup
\* the one that holds it and the only one marked focused, and a session with a
\* pane in a window has a focused one, until a tabs node with one tab is put
\* into a tree.
FocusAgrees == ~nested =>
    \A sid \in Sessions :
        LET session == st.sessions[sid]
        IN  /\ {n \in Nodes : SessionOf(st, n) = sid /\ st.nodes[n].focused}
                 = {session.leaf} \ {None}
            /\ session.leaf # None => session.float = FloatOf(st, session.leaf)
            /\ {f \in ToSet(session.floats) : st.floats[f].focused} = {session.float} \ {None}
            /\ session.leaf = None => FocusCandidate(st, session.root) = None

AttachmentsOf(s) == [b \in DOMAIN s.buffers |-> s.buffers[b].att]

\* A request that is refused, some of them after they had begun, leaves the
\* layout and every attachment as they were: what it had made, taken out or
\* attached is undone. Not so once a tabs node with one tab is in a tree.
RefusedChangesNothing ==
    [][(~nested' /\ \E a \in Tasks : task[a].step # "applied" /\ task'[a].step = "applied" /\ ~task'[a].ok)
          => /\ st'.nodes = st.nodes /\ st'.sessions = st.sessions /\ st'.floats = st.floats
             /\ AttachmentsOf(st') = AttachmentsOf(st)]_vars

\* Destroying the sessions that were found empty detaches no buffer, whatever
\* other tasks did since they were noted. (Once a tabs node with one tab is in
\* a tree, a session whose nodes cannot be listed is taken to be empty.)
CleanupDetachesNothing ==
    [][(~nested' /\ \E a \in Tasks : task[a].step \in {"disposed", "closing"} /\ task'[a] # task[a])
          => AttachmentsOf(st') = AttachmentsOf(st)]_vars

ShownPanes(s) ==
    {n \in DOMAIN s.nodes : s.nodes[n].kind = "view" /\ IsVisible(s, s.nodes[n].sess, n)}

WeightsOf(s, p) == {<<s.nodes[p].kids[i], s.nodes[p].sizes[i]>> : i \in DOMAIN s.nodes[p].sizes}

\* Whichever siblings a client reorders, every window and popup goes on showing
\* the panes it showed, and every child of a split keeps its weight, until a
\* tabs node with one tab is put into a tree.
ReorderShowsTheSame ==
    LET shown == ShownPanes(st)
    IN  (~nested /\ \E a \in Tasks : task[a].step = "idle") =>
        \A p \in Nodes : \A n, m \in ToSet(st.nodes[p].kids) : n # m =>
            \A r \in {SwapSiblings(st, n, m), MoveNode(st, n, m, TRUE), MoveNode(st, n, m, FALSE)} :
                r.ok /\ ShownPanes(r.s) = shown /\ WeightsOf(r.s, p) = WeightsOf(st, p)

\* All that `validate` demands: the focused pane and the zoomed node show.
Valid ==
    /\ LayoutSound
    /\ \A sid \in Sessions : \A n \in {st.sessions[sid].leaf, st.sessions[sid].zoom} \ {None} :
          n \in Nodes /\ SessionOf(st, n) = sid /\ IsVisible(st, sid, n)
=============================================================================
