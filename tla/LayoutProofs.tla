---------------------------- MODULE LayoutProofs ----------------------------
(***************************************************************************)
(* Proofs about Layout for every set of tasks and buffers and every bound  *)
(* on nodes, sessions and popups: every request, from the lemmas about the *)
(* operations it is made of (LayoutLemmas), and the theorems.  The         *)
(* inductive invariant LayoutInv says that the state between two steps is  *)
(* Sound, without exceptions.                                              *)
(***************************************************************************)
EXTENDS LayoutLemmas

-----------------------------------------------------------------------------
(* Closing *)

\* The views among G are gone, and the buffers they showed are detached.
CutViews(s, x, G) ==
    /\ DOMAIN x.buffers = DOMAIN s.buffers /\ DOMAIN x.sessions = DOMAIN s.sessions
    /\ \A b \in DOMAIN s.buffers :
          /\ x.buffers[b].exited = s.buffers[b].exited /\ x.buffers[b].ever = s.buffers[b].ever
          /\ x.buffers[b].att = IF s.buffers[b].att \in G THEN None ELSE s.buffers[b].att
    /\ \A n \in DOMAIN s.nodes : s.nodes[n].kind = "view" /\ n \notin G =>
          /\ n \in DOMAIN x.nodes /\ x.nodes[n].kind = "view"
          /\ x.nodes[n].buf = s.nodes[n].buf /\ x.nodes[n].sess = s.nodes[n].sess
    /\ \A n \in DOMAIN x.nodes : x.nodes[n].kind = "view" =>
          n \in DOMAIN s.nodes /\ s.nodes[n].kind = "view" /\ n \notin G

\* Removing a tree removes the views in it.
LEMMA CutOffViews ==
    ASSUME NEW s, NEW x, NEW n, NEW V, CutOff(s, x, n), Attached(s, V),
           Below(s, n) \subseteq DOMAIN s.nodes, None \notin DOMAIN s.nodes
    PROVE  CutViews(s, x, Below(s, n))
<1> DEFINE G == Below(s, n)
<1>0. G \subseteq DOMAIN s.nodes
  OBVIOUS
<1>1. /\ DOMAIN x.nodes = DOMAIN s.nodes \ G /\ \A m \in DOMAIN x.nodes : x.nodes[m] = s.nodes[m]
      /\ x.sessions = s.sessions
  BY DEF CutOff, CutNodes
<1>2. /\ DOMAIN x.buffers = DOMAIN s.buffers
      /\ \A b \in DOMAIN s.buffers :
          /\ x.buffers[b].exited = s.buffers[b].exited /\ x.buffers[b].ever = s.buffers[b].ever
          /\ x.buffers[b].att = IF s.buffers[b].att \in G /\ s.nodes[s.buffers[b].att].buf = b
                                THEN None ELSE s.buffers[b].att
  BY DEF CutOff
<1>3. \A b \in DOMAIN s.buffers : s.buffers[b].att # None => s.nodes[s.buffers[b].att].buf = b
  BY DEF Attached
<1>4. None \notin G
  BY <1>0
<1> HIDE DEF G
<1>5. \A b \in DOMAIN s.buffers :
          x.buffers[b].att = IF s.buffers[b].att \in G THEN None ELSE s.buffers[b].att
  BY <1>2, <1>3, <1>4
<1>6. CutViews(s, x, G)
  BY <1>1, <1>2, <1>5 DEF CutViews
<1>. QED BY <1>6 DEF G

\* The removal among steps that keep the views.
LEMMA CutViewsAfter ==
    ASSUME NEW s, NEW x, NEW y, NEW G, SameViews(s, x), CutViews(x, y, G)
    PROVE  CutViews(s, y, G)
BY DEF SameViews, CutViews

\* The same with the removal first.
LEMMA CutViewsBefore ==
    ASSUME NEW s, NEW x, NEW y, NEW G, CutViews(s, x, G), SameViews(x, y)
    PROVE  CutViews(s, y, G)
BY DEF SameViews, CutViews

\* Views and buffers still name each other.
LEMMA CutViewsAttached ==
    ASSUME NEW s, NEW x, NEW G, NEW V, CutViews(s, x, G), Attached(s, V)
    PROVE  Attached(x, V)
BY DEF CutViews, Attached

\* A parent is not under its child.
LEMMA ParentAbove ==
    ASSUME NEW s, IsState(s), Linked(s), Ranked(s), NEW n \in DOMAIN s.nodes, s.nodes[n].parent # None
    PROVE  s.nodes[n].parent \notin Below(s, n)
<1> DEFINE p == s.nodes[n].parent
<1>1. PICK top \in Nat : \E rank \in [DOMAIN s.nodes -> 0 .. top] :
        \A m \in DOMAIN s.nodes : s.nodes[m].parent # None => rank[m] < rank[s.nodes[m].parent]
  BY DEF Ranked
<1>2. PICK rank \in [DOMAIN s.nodes -> 0 .. top] :
        \A m \in DOMAIN s.nodes : s.nodes[m].parent # None => rank[m] < rank[s.nodes[m].parent]
  BY <1>1
<1>3. \A m \in DOMAIN s.nodes : rank[m] \in Nat
  BY <1>2
<1> DEFINE X == {m \in DOMAIN s.nodes : rank[m] <= rank[n]}
<1>4. \A m \in X \cap DOMAIN s.nodes : Kids(s, m) \subseteq X
  <2> SUFFICES ASSUME NEW m \in DOMAIN s.nodes, rank[m] <= rank[n], NEW k \in Kids(s, m)
               PROVE  k \in DOMAIN s.nodes /\ rank[k] <= rank[n]
    OBVIOUS
  <2>1. k \in DOMAIN s.nodes /\ s.nodes[k].parent = m
    BY DEF Linked
  <2>2. m # None
    BY DEF IsState, None
  <2>3. rank[k] < rank[m]
    BY <1>2, <2>1, <2>2
  <2>. QED BY <1>3, <2>1, <2>3
<1>5. n \in X
  BY <1>3
<1> HIDE DEF X
<1>6. Below(s, n) \subseteq X
  BY <1>4, <1>5, BelowLeast
<1>7. p \in DOMAIN s.nodes /\ rank[n] < rank[p]
  BY <1>2 DEF Linked
<1>8. p \notin X
  BY <1>3, <1>7 DEF X
<1>. QED BY <1>6, <1>8

\* What is under a node is still under it when it is on its own.
LEMMA BelowAlone ==
    ASSUME NEW s, Forest(s, {}, None), NEW p \in DOMAIN s.nodes, NEW c \in Kids(s, p),
           NEW x, NEW F, NEW e, Forest(x, F, e), ChildRemoved(s, x, p, c)
    PROVE  Below(x, c) = Below(s, c) /\ p \notin Below(s, c) /\ c \in DOMAIN s.nodes
<1>1. IsState(s) /\ Linked(s) /\ Ranked(s) /\ IsState(x) /\ Linked(x) /\ Ranked(x)
  BY DEF Forest
<1>2. c \in DOMAIN s.nodes /\ s.nodes[c].parent = p /\ p # None /\ s.nodes[p].kids \in Seq(Nat)
      /\ Distinct(s.nodes[p].kids)
  <2>1. s.nodes \in [DOMAIN s.nodes -> NodeType]
    BY <1>1 DEF IsState
  <2>2. s.nodes[p].kids \in Seq(Nat)
    BY <2>1, NodeFields
  <2>. QED BY <1>1, <2>2 DEF Linked, IsState, None
<1>3. p \notin Below(s, c)
  BY <1>1, <1>2, ParentAbove
<1>4. DOMAIN x.nodes = DOMAIN s.nodes
  BY DEF ChildRemoved
<1>5. \A m \in DOMAIN s.nodes : Kids(x, m) \subseteq Kids(s, m) /\ (m # p => Kids(x, m) = Kids(s, m))
  <2>1. ToSet(RemovedAt(s.nodes[p].kids, Position(s.nodes[p].kids, c))) = ToSet(s.nodes[p].kids) \ {c}
    BY <1>2, RemovedSet DEF Kids
  <2>2. \A m \in DOMAIN s.nodes :
           x.nodes[m].kids = IF m = p THEN RemovedAt(s.nodes[p].kids, Position(s.nodes[p].kids, c)) ELSE s.nodes[m].kids
    BY DEF ChildRemoved
  <2>. QED BY <2>1, <2>2 DEF Kids
<1>6. Below(x, c) \subseteq Below(s, c)
  <2>1. c \in Below(s, c) /\ \A m \in Below(s, c) : Kids(s, m) \subseteq Below(s, c) /\ m \in DOMAIN s.nodes
    BY <1>1, <1>2, BelowFacts
  <2>2. \A m \in Below(s, c) \cap DOMAIN x.nodes : Kids(x, m) \subseteq Below(s, c)
    BY <1>5, <2>1
  <2>. QED BY <1>1, <1>2, <1>4, <2>1, <2>2, BelowLeast
<1>7. Below(s, c) \subseteq Below(x, c)
  <2>1. c \in Below(x, c) /\ \A m \in Below(x, c) : Kids(x, m) \subseteq Below(x, c) /\ m \in DOMAIN x.nodes
    BY <1>1, <1>2, <1>4, BelowFacts
  <2>2. \A m \in Below(x, c) \cap DOMAIN s.nodes : Kids(s, m) \subseteq Below(x, c)
    BY <1>3, <1>5, <1>6, <2>1
  <2>. QED BY <1>1, <1>2, <2>1, <2>2, BelowLeast
<1>. QED BY <1>2, <1>3, <1>6, <1>7

\* What closing the nodes G gives.
Closed(s, r, G) == r.ok = TRUE /\ Forest(r.s, {}, None) /\ CutViews(s, r.s, G)

\* Closing ends with a settled focus and zoom, which change no view.
LEMMA ClosedSettled ==
    ASSUME NEW s, NEW r, NEW G, Closed(s, r, G), NEW sid \in DOMAIN s.sessions
    PROVE  Closed(s, Settle(r.s, sid), G) /\ r.ok = TRUE
<1>1. r.ok = TRUE /\ Forest(r.s, {}, None) /\ CutViews(s, r.s, G) /\ sid \in DOMAIN r.s.sessions
  BY DEF Closed, CutViews
<1> DEFINE q == Settle(r.s, sid)
<1>3. q.ok /\ Forest(q.s, {}, None) /\ SameTree(r.s, q.s)
  BY <1>1, SettleKeeps
<1>4. q.ok = TRUE
  <2>1. Kept(NormalizeZoom(r.s, sid), q, {}, None)
    <3>1. Forest(NormalizeZoom(r.s, sid), {}, None) /\ SameTree(r.s, NormalizeZoom(r.s, sid))
      BY <1>1, NormalizeZoomKeeps
    <3>2. sid \in DOMAIN NormalizeZoom(r.s, sid).sessions
      BY <1>1, <3>1 DEF SameTree
    <3>3. q = HealFocus(NormalizeZoom(r.s, sid), sid)
      BY <1>1, CheckZoomIs DEF Settle, AndThen, Ok
    <3>. QED BY <3>1, <3>2, <3>3, HealFocusKeeps
  <2>. QED BY <1>3, <2>1 DEF Kept
<1> HIDE DEF q
<1>5. CutViews(s, q.s, G)
  BY <1>1, <1>3, SameTreeViews, CutViewsBefore
<1>6. Closed(s, q, G)
  BY <1>3, <1>4, <1>5 DEF Closed
<1>. QED BY <1>1, <1>6 DEF q

\* A child that was taken out of its container is removed, and the containers
\* above are normalised.
LEMMA CutChildCloses ==
    ASSUME NEW s, NEW V, Attached(s, V), NEW p, NEW c, NEW y, Forest(y, {c}, p), SameViews(s, y),
           p \in DOMAIN y.nodes, p \notin Below(y, c)
    PROVE  Closed(s, NormalizeUpwards(RemoveSubtree(y, c), p), Below(y, c))
<1> DEFINE z == RemoveSubtree(y, c)
           r == NormalizeUpwards(z, p)
<1>1. IsState(y) /\ Linked(y) /\ Ranked(y) /\ c \in DOMAIN y.nodes /\ None \notin DOMAIN y.nodes
  BY DEF Forest, IsState, None, Rooted
<1>2. Forest(z, {c} \ {c}, p) /\ CutOff(y, z, c)
  BY RemoveFreeKeeps
<1>3. {c} \ {c} = {}
  OBVIOUS
<1>4. Below(y, c) \subseteq DOMAIN y.nodes
  BY <1>1, BelowFacts
<1>5. Attached(y, V)
  BY SameViewsAttached
<1>6. CutViews(y, z, Below(y, c))
  BY <1>1, <1>2, <1>4, <1>5, CutOffViews
<1>7. p \in DOMAIN z.nodes
  BY <1>2 DEF CutOff, CutNodes
<1>8. Forest(z, {}, p)
  BY <1>2, <1>3
<1> HIDE DEF z
<1>9. r.ok = TRUE /\ Forest(r.s, {}, None) /\ SameViews(z, r.s)
  BY <1>7, <1>8, NormalizeUpwardsKeeps
<1> HIDE DEF r
<1>10. CutViews(s, r.s, Below(y, c))
  BY <1>6, <1>9, CutViewsAfter, CutViewsBefore
<1>11. Closed(s, r, Below(y, c))
  BY <1>9, <1>10 DEF Closed
<1>. QED BY <1>11 DEF r, z

\* A tree that nothing holds can be removed.
LEMMA FreeTreeGoes ==
    ASSUME NEW s, NEW F, Trunk(s, F), NEW n \in F
    PROVE  ~Severed(s, n) /\ RemoveTree(s, n) = Ok(RemoveSubtree(s, n))
<1>1. ~Severed(s, n)
  BY Unsevered DEF Trunk, Rooted
<1>. QED BY <1>1, RemoveTreeIs

\* A popup goes with its tree; the sessions and the other popups keep theirs.
PopupGone(s, z, f) ==
    /\ Forest(z, {}, None) /\ CutViews(s, z, Below(s, s.floats[f].root))
    /\ DOMAIN z.floats = DOMAIN s.floats \ {f}
    /\ \A g \in DOMAIN z.floats : z.floats[g].sess = s.floats[g].sess
    /\ \A a \in DOMAIN s.sessions : z.sessions[a].root = s.sessions[a].root

\* A popup is taken from its session and its tree removed.
LEMMA PopupCut ==
    ASSUME NEW s, NEW V, Forest(s, {}, None), Attached(s, V), NEW f \in DOMAIN s.floats
    PROVE  /\ PopupGone(s, RemoveSubtree(RemoveFloat(s, f), s.floats[f].root), f)
           /\ RemoveTree(RemoveFloat(s, f), s.floats[f].root)
                = Ok(RemoveSubtree(RemoveFloat(s, f), s.floats[f].root))
<1> DEFINE n == s.floats[f].root
           y == RemoveFloat(s, f)
           z == RemoveSubtree(y, n)
<1>1. Trunk(s, {}) /\ Shaped(s, None) /\ IsState(s) /\ Linked(s) /\ Ranked(s)
      /\ s.nodes \in [DOMAIN s.nodes -> NodeType] /\ None \notin DOMAIN s.nodes
  BY ForestIs DEF Forest, IsState, None
<1>2. n \in DOMAIN s.nodes /\ n \notin SessionRoots(s) /\ n \in FloatRoots(s)
  BY DEF Forest, Rooted, FloatRoots
<1>3. Unheld(s, y, f)
  BY <1>1, RemoveFloatIs
<1> HIDE DEF y
<1>4. /\ Trunk(y, {n}) /\ y.nodes = s.nodes /\ y.buffers = s.buffers
      /\ SessionRoots(y) = SessionRoots(s) /\ FloatRoots(y) = FloatRoots(s) \ {n}
      /\ DOMAIN y.sessions = DOMAIN s.sessions /\ DOMAIN y.floats = DOMAIN s.floats \ {f}
      /\ \A a \in DOMAIN s.sessions : y.sessions[a].root = s.sessions[a].root
      /\ \A g \in DOMAIN y.floats : y.floats[g] = s.floats[g]
  BY <1>3 DEF Unheld
<1>5. IsState(y) /\ Linked(y) /\ Ranked(y)
  BY <1>4 DEF Trunk
<1> HIDE DEF n
<1>6. \A m \in DOMAIN s.nodes : Fits(s.nodes[m], IF m = n THEN 1 ELSE 0, Least(y, m))
  <2>1. \A m \in DOMAIN s.nodes : Fits(s.nodes[m], IF m = None THEN 1 ELSE 0, Least(s, m))
    BY <1>1, ShapedIs
  <2> SUFFICES ASSUME NEW m \in DOMAIN s.nodes PROVE Fits(s.nodes[m], IF m = n THEN 1 ELSE 0, Least(y, m))
    OBVIOUS
  <2>2. Fits(s.nodes[m], 0, Least(s, m))
    BY <1>1, <2>1
  <2>3. CASE m = n
    <3>1. Least(s, m) = 1 /\ Least(y, m) = 2
      BY <1>2, <1>4, <2>3 DEF Least
    <3>2. Fits(s.nodes[m], 0, 1)
      BY <2>2, <3>1
    <3>3. Fits(s.nodes[m], 1, 2)
      <4>1. s.nodes[m] \in NodeType
        BY <1>1
      <4>2. Len(s.nodes[m].kids) \in Nat
        BY <4>1, NodeFields
      <4> DEFINE size == Len(s.nodes[m].kids)
      <4> HIDE DEF size
      <4>. QED BY <3>2, <4>2 DEF Fits
    <3>. QED BY <2>3, <3>1, <3>3
  <2>4. CASE m # n
    <3>1. Least(y, m) = Least(s, m)
      BY <1>4, <2>4 DEF Least
    <3>. QED BY <2>2, <2>4, <3>1
  <2>. QED BY <2>3, <2>4
<1>7. Shaped(y, n)
  BY <1>1, <1>4, <1>6, ShapedIs
<1>8. Forest(y, {n}, n)
  BY <1>4, <1>7, ForestIs
<1>9. n \in Below(y, n) /\ Below(y, n) \subseteq DOMAIN y.nodes
  BY <1>2, <1>4, <1>5, BelowFacts
<1>10. Forest(z, {n} \ {n}, None) /\ CutOff(y, z, n)
  BY <1>8, <1>9, RemoveFreeKeeps
<1>11. {n} \ {n} = {}
  OBVIOUS
<1>12. Below(y, n) = Below(s, n)
  BY <1>4 DEF Below
<1>13. SameViews(s, y)
  BY <1>4 DEF SameViews
<1>14. CutViews(y, z, Below(y, n))
  BY <1>1, <1>4, <1>9, <1>10, <1>13, CutOffViews, SameViewsAttached
<1>15. CutViews(s, z, Below(s, n))
  BY <1>12, <1>13, <1>14, CutViewsAfter
<1>16. z.sessions = y.sessions /\ z.floats = y.floats
  BY <1>10 DEF CutOff, CutNodes
<1>17. Forest(z, {}, None)
  BY <1>10, <1>11
<1> HIDE DEF z
<1>18. PopupGone(s, z, f)
  BY <1>4, <1>15, <1>16, <1>17 DEF PopupGone, n
<1>19. RemoveTree(y, n) = Ok(z)
  BY <1>4, FreeTreeGoes DEF z
<1>. QED BY <1>18, <1>19 DEF n, y, z

\* The session whose tree was cut, with a new and empty root.
Restarted(s, x, w, sid, y) ==
    /\ IsState(w)
    /\ DOMAIN w.nodes = DOMAIN x.nodes \cup {s.nextNode} /\ w.nodes[s.nextNode] = y
    /\ \A m \in DOMAIN x.nodes : w.nodes[m] = s.nodes[m]
    /\ DOMAIN w.sessions = DOMAIN s.sessions
    /\ \A a \in DOMAIN s.sessions :
          /\ w.sessions[a].root = IF a = sid THEN s.nextNode ELSE s.sessions[a].root
          /\ w.sessions[a].floats = s.sessions[a].floats /\ w.sessions[a].float = s.sessions[a].float
    /\ w.floats = s.floats /\ w.buffers = x.buffers
    /\ w.nextNode = s.nextNode + 1 /\ w.nextSession = s.nextSession /\ w.nextFloat = s.nextFloat

\* What ClearSessionRoot writes before it heals the focus.
LEMMA RestartedIs ==
    ASSUME NEW s, IsState(s), NEW sid \in DOMAIN s.sessions, NEW x, IsState(x), NEW n, CutOff(s, x, n)
    PROVE  LET y == Tabs(sid, None, <<>>, None)
               w == [InsertNode(x, y) EXCEPT !.sessions[sid].root = s.nextNode,
                                             !.sessions[sid].zoom = None]
           IN  /\ y \in NodeType /\ y.kind = "tabs" /\ y.sess = sid /\ y.parent = None /\ y.kids = <<>>
               /\ y.sizes = <<>> /\ y.active = 0 /\ y.last = None
               /\ Restarted(s, x, w, sid, y)
<1> DEFINE y == Tabs(sid, None, <<>>, None)
           i == InsertNode(x, y)
           w == [i EXCEPT !.sessions[sid].root = s.nextNode, !.sessions[sid].zoom = None]
<1>0. sid \in Nat /\ s.nextNode \in Nat
  BY DEF IsState
<1>1. /\ y \in NodeType /\ y.kind = "tabs" /\ y.sess = sid /\ y.parent = None /\ y.kids = <<>>
      /\ y.sizes = <<>> /\ y.active = 0 /\ y.last = None
  <2> DEFINE v == View(sid, None)
  <2>1. /\ v \in NodeType /\ v.sess = sid /\ v.sizes = <<>> /\ v.active = 0
    BY <1>0 DEF View, NodeType, None
  <2>2. y = [v EXCEPT !.kind = "tabs", !.parent = None, !.kids = <<>>, !.last = None]
    BY DEF Tabs
  <2> HIDE DEF v, y
  <2>3. None \in Nat /\ <<>> \in Seq(Nat)
    BY ShortLists DEF None
  <2>. QED BY <2>1, <2>2, <2>3 DEF NodeType
<1> HIDE DEF y
<1>2. IsState(i) /\ Inserted(x, i, y)
  BY <1>1, InsertNodeIs
<1>3. /\ x.sessions = s.sessions /\ x.floats = s.floats /\ x.nextNode = s.nextNode
      /\ x.nextSession = s.nextSession /\ x.nextFloat = s.nextFloat
      /\ \A m \in DOMAIN x.nodes : x.nodes[m] = s.nodes[m]
  BY DEF CutOff, CutNodes
<1> HIDE DEF i
<1>4. /\ i.sessions = s.sessions /\ i.floats = s.floats /\ i.nextNode = s.nextNode + 1
      /\ i.nextSession = s.nextSession /\ i.nextFloat = s.nextFloat /\ i.buffers = x.buffers
      /\ DOMAIN i.nodes = DOMAIN x.nodes \cup {s.nextNode} /\ i.nodes[s.nextNode] = y
      /\ \A m \in DOMAIN x.nodes : i.nodes[m] = s.nodes[m]
  BY <1>2, <1>3 DEF Inserted
<1> DEFINE u == s.sessions[sid]
           v == [u EXCEPT !.root = s.nextNode, !.zoom = None]
<1>5. Shape(i) /\ IsSession(u) /\ i.sessions = [a \in DOMAIN s.sessions |-> i.sessions[a]]
  BY <1>2, <1>4 DEF IsState
<1>6. /\ Shape(w) /\ w.sessions = [i.sessions EXCEPT ![sid] = v]
      /\ w.nodes = i.nodes /\ w.floats = i.floats /\ w.buffers = i.buffers
      /\ w.nextNode = i.nextNode /\ w.nextSession = i.nextSession /\ w.nextFloat = i.nextFloat
  BY <1>4, <1>5 DEF Shape
<1> HIDE DEF w, u
<1>7. /\ IsSession(v) /\ v.root = s.nextNode /\ v.floats = u.floats /\ v.float = u.float
  BY <1>0, <1>5 DEF IsSession
<1> HIDE DEF v
<1>8. /\ w.sessions = [a \in DOMAIN s.sessions |-> w.sessions[a]]
      /\ \A a \in DOMAIN s.sessions : w.sessions[a] = IF a = sid THEN v ELSE s.sessions[a]
  BY <1>4, <1>5, <1>6
<1>9. \A a \in DOMAIN s.sessions :
          /\ w.sessions[a].root = IF a = sid THEN s.nextNode ELSE s.sessions[a].root
          /\ w.sessions[a].floats = s.sessions[a].floats /\ w.sessions[a].float = s.sessions[a].float
          /\ IsSession(w.sessions[a])
  <2>1. \A a \in DOMAIN s.sessions : IsSession(s.sessions[a])
    BY DEF IsState
  <2>. QED BY <1>7, <1>8, <2>1 DEF u
<1>10. DOMAIN w.sessions = DOMAIN s.sessions
  BY <1>8
<1>11. IsState(w)
  <2>1. \A a \in DOMAIN s.sessions : a \in 1 .. s.nextSession - 1
    BY DEF IsState
  <2>2. w.sessions = [a \in DOMAIN w.sessions |-> w.sessions[a]]
    BY <1>8, <1>10
  <2>3. /\ i.nextNode \in Nat \ {0} /\ i.nextSession \in Nat \ {0} /\ i.nextFloat \in Nat \ {0}
        /\ i.nodes \in [DOMAIN i.nodes -> NodeType] /\ DOMAIN i.nodes \subseteq 1 .. i.nextNode - 1
        /\ i.floats \in [DOMAIN i.floats -> FloatType] /\ DOMAIN i.floats \subseteq 1 .. i.nextFloat - 1
        /\ i.buffers \in [DOMAIN i.buffers -> BufferType] /\ DOMAIN i.buffers \subseteq Buffers
    BY <1>2 DEF IsState
  <2>. QED BY <1>4, <1>6, <1>9, <1>10, <2>1, <2>2, <2>3 DEF IsState
<1>12. Restarted(s, x, w, sid, y)
  BY <1>4, <1>6, <1>9, <1>10, <1>11 DEF Restarted
<1>. QED BY <1>1, <1>12 DEF w, i, y

\* A session that starts over is in order.
LEMMA RestartedForest ==
    ASSUME NEW s, Forest(s, {}, None), NEW sid \in DOMAIN s.sessions,
           NEW x, IsState(x), CutOff(s, x, s.sessions[sid].root),
           NEW y \in NodeType, y.kind = "tabs", y.sess = sid, y.parent = None, y.kids = <<>>,
           y.sizes = <<>>, y.active = 0, y.last = None,
           NEW w, Restarted(s, x, w, sid, y)
    PROVE  Forest(w, {}, None)
<1> DEFINE n == s.sessions[sid].root
           new == s.nextNode
<1>1. Trunk(s, {}) /\ Shaped(s, None) /\ IsState(s) /\ Linked(s) /\ Ranked(s) /\ Rooted(s, {})
      /\ s.nodes \in [DOMAIN s.nodes -> NodeType] /\ None \notin DOMAIN s.nodes
      /\ new \in Nat \ {0} /\ new \notin DOMAIN s.nodes
  <2>1. Trunk(s, {}) /\ Shaped(s, None)
    BY ForestIs
  <2>2. IsState(s) /\ Linked(s) /\ Ranked(s) /\ Rooted(s, {})
    BY DEF Forest
  <2>3. /\ s.nodes \in [DOMAIN s.nodes -> NodeType] /\ DOMAIN s.nodes \subseteq 1 .. new - 1
        /\ new \in Nat \ {0}
    BY <2>2 DEF IsState
  <2>4. None \notin DOMAIN s.nodes /\ new \notin DOMAIN s.nodes
    BY <2>3 DEF None
  <2>. QED BY <2>1, <2>2, <2>3, <2>4
<1>2. /\ n \in DOMAIN s.nodes /\ s.nodes[n].parent = None /\ n \in SessionRoots(s) /\ n \notin FloatRoots(s)
      /\ \A a \in DOMAIN s.sessions : s.sessions[a].root = n => a = sid
  <2>1. /\ \A a \in DOMAIN s.sessions : s.sessions[a].root \in DOMAIN s.nodes
                                         /\ s.nodes[s.sessions[a].root].sess = a
        /\ \A f \in DOMAIN s.floats : s.floats[f].root \notin SessionRoots(s)
        /\ \A m \in SessionRoots(s) : m \in DOMAIN s.nodes => s.nodes[m].parent = None
    BY <1>1 DEF Rooted
  <2>. QED BY <2>1 DEF SessionRoots, FloatRoots
<1>3. CutNodes(s, x, n)
  BY DEF CutOff
<1>4. /\ Linked(x) /\ Pointed(x) /\ Remembered(x) /\ Owned(x) /\ Ranked(x)
      /\ \A m \in DOMAIN s.nodes : s.nodes[m].parent = None /\ m # n => m \in DOMAIN x.nodes
  BY <1>1, <1>2, <1>3, CutKeeps
<1>5. n \notin DOMAIN x.nodes /\ DOMAIN x.nodes \subseteq DOMAIN s.nodes /\ x.sessions = s.sessions
      /\ x.floats = s.floats /\ x.nextNode = s.nextNode /\ x.nextFloat = s.nextFloat
      /\ \A m \in DOMAIN x.nodes : x.nodes[m] = s.nodes[m]
  <2>1. n \in Below(s, n)
    BY <1>1, <1>2, BelowFacts
  <2>. QED BY <1>3, <2>1 DEF CutNodes
<1>6. /\ IsState(w) /\ DOMAIN w.nodes = DOMAIN x.nodes \cup {new} /\ w.nodes[new] = y
      /\ \A m \in DOMAIN x.nodes : w.nodes[m] = s.nodes[m] /\ w.nodes[m] = x.nodes[m]
      /\ DOMAIN w.sessions = DOMAIN s.sessions
      /\ \A a \in DOMAIN s.sessions :
          /\ w.sessions[a].root = IF a = sid THEN new ELSE s.sessions[a].root
          /\ w.sessions[a].floats = s.sessions[a].floats /\ w.sessions[a].float = s.sessions[a].float
      /\ w.floats = s.floats /\ w.nextNode = s.nextNode + 1 /\ w.nextFloat = s.nextFloat
  BY <1>5 DEF Restarted
<1>7. SessionRoots(w) = (SessionRoots(s) \ {n}) \cup {new} /\ FloatRoots(w) = FloatRoots(s)
  BY <1>2, <1>6 DEF SessionRoots, FloatRoots
<1> HIDE DEF n, new
<1>8. Linked(w)
  <2> SUFFICES ASSUME NEW m \in DOMAIN w.nodes
               PROVE  /\ w.nodes[m].sess \in DOMAIN w.sessions
                      /\ w.nodes[m].parent # None =>
                            /\ w.nodes[m].parent \in DOMAIN w.nodes
                            /\ m \in Kids(w, w.nodes[m].parent)
                            /\ w.nodes[w.nodes[m].parent].sess = w.nodes[m].sess
                      /\ Distinct(w.nodes[m].kids)
                      /\ \A k \in Kids(w, m) : k \in DOMAIN w.nodes /\ w.nodes[k].parent = m
    BY DEF Linked
  <2>1. CASE m = new
    <3>1. Distinct(<<>>) /\ Kids(w, m) = {}
      BY <1>6, <2>1, ShortLists DEF Kids
    <3>. QED BY <1>6, <2>1, <3>1
  <2>2. CASE m \in DOMAIN x.nodes
    <3>1. /\ x.nodes[m].sess \in DOMAIN x.sessions
          /\ x.nodes[m].parent # None =>
                /\ x.nodes[m].parent \in DOMAIN x.nodes
                /\ m \in Kids(x, x.nodes[m].parent)
                /\ x.nodes[x.nodes[m].parent].sess = x.nodes[m].sess
          /\ Distinct(x.nodes[m].kids)
          /\ \A k \in Kids(x, m) : k \in DOMAIN x.nodes /\ x.nodes[k].parent = m
      BY <1>4, <2>2 DEF Linked
    <3>2. \A k \in DOMAIN x.nodes : Kids(w, k) = Kids(x, k)
      BY <1>6 DEF Kids
    <3>. QED BY <1>5, <1>6, <2>2, <3>1, <3>2
  <2>. QED BY <1>6, <2>1, <2>2
<1>9. Rooted(w, {})
  <2>1. /\ \A m \in DOMAIN s.nodes : s.nodes[m].parent = None <=> m \in SessionRoots(s) \/ m \in FloatRoots(s)
        /\ \A a \in DOMAIN s.sessions :
              /\ s.sessions[a].root \in DOMAIN s.nodes
              /\ s.nodes[s.sessions[a].root].kind = "tabs" /\ s.nodes[s.sessions[a].root].sess = a
              /\ Distinct(s.sessions[a].floats)
              /\ ToSet(s.sessions[a].floats) = {f \in DOMAIN s.floats : s.floats[f].sess = a}
        /\ \A f \in DOMAIN s.floats :
              /\ s.floats[f].root \in DOMAIN s.nodes /\ s.floats[f].root \notin SessionRoots(s)
              /\ s.floats[f].sess \in DOMAIN s.sessions /\ s.nodes[s.floats[f].root].sess = s.floats[f].sess
              /\ \A g \in DOMAIN s.floats : s.floats[g].root = s.floats[f].root => g = f
    BY <1>1 DEF Rooted
  <2>2. \A m \in DOMAIN w.nodes : w.nodes[m].parent = None <=> m \in SessionRoots(w) \/ m \in FloatRoots(w)
    <3> SUFFICES ASSUME NEW m \in DOMAIN w.nodes
                 PROVE  w.nodes[m].parent = None <=> m \in SessionRoots(w) \/ m \in FloatRoots(w)
      OBVIOUS
    <3>1. CASE m = new
      BY <1>6, <1>7, <3>1
    <3>2. CASE m \in DOMAIN x.nodes
      <4>1. m # n /\ m # new /\ m \in DOMAIN s.nodes
        BY <1>1, <1>5, <3>2
      <4>. QED BY <1>6, <1>7, <2>1, <3>2, <4>1
    <3>. QED BY <1>6, <3>1, <3>2
  <2>3. \A a \in DOMAIN w.sessions :
              /\ w.sessions[a].root \in DOMAIN w.nodes
              /\ w.nodes[w.sessions[a].root].kind = "tabs" /\ w.nodes[w.sessions[a].root].sess = a
              /\ Distinct(w.sessions[a].floats)
              /\ ToSet(w.sessions[a].floats) = {f \in DOMAIN w.floats : w.floats[f].sess = a}
    <3> SUFFICES ASSUME NEW a \in DOMAIN s.sessions
                 PROVE  /\ w.sessions[a].root \in DOMAIN w.nodes
                        /\ w.nodes[w.sessions[a].root].kind = "tabs" /\ w.nodes[w.sessions[a].root].sess = a
      BY <1>6, <2>1
    <3>1. CASE a = sid
      BY <1>6, <3>1
    <3>2. CASE a # sid
      <4>1. s.sessions[a].root # n /\ s.sessions[a].root \in SessionRoots(s)
        BY <1>2, <3>2 DEF SessionRoots
      <4>2. s.sessions[a].root \in DOMAIN x.nodes
        BY <1>4, <2>1, <4>1
      <4>. QED BY <1>6, <2>1, <3>2, <4>2
    <3>. QED BY <3>1, <3>2
  <2>4. \A f \in DOMAIN w.floats :
              /\ w.floats[f].root \in DOMAIN w.nodes /\ w.floats[f].root \notin SessionRoots(w)
              /\ w.floats[f].sess \in DOMAIN w.sessions /\ w.nodes[w.floats[f].root].sess = w.floats[f].sess
              /\ \A g \in DOMAIN w.floats : w.floats[g].root = w.floats[f].root => g = f
    <3> SUFFICES ASSUME NEW f \in DOMAIN s.floats
                 PROVE  /\ s.floats[f].root \in DOMAIN x.nodes /\ s.floats[f].root # new
      BY <1>6, <1>7, <2>1
    <3>1. s.floats[f].root \in FloatRoots(s)
      BY DEF FloatRoots
    <3>. QED BY <1>1, <1>2, <1>4, <2>1, <3>1
  <2>5. {} \subseteq DOMAIN w.nodes
    OBVIOUS
  <2>. QED BY <2>2, <2>3, <2>4, <2>5 DEF Rooted
<1>10. Shaped(w, None)
  <2>1. w.nodes \in [DOMAIN w.nodes -> NodeType] /\ None \notin DOMAIN w.nodes
    BY <1>6 DEF IsState, None
  <2>2. \A m \in DOMAIN s.nodes : Fits(s.nodes[m], IF m = None THEN 1 ELSE 0, Least(s, m))
    BY <1>1, ShapedIs
  <2>3. \A m \in DOMAIN w.nodes : Fits(w.nodes[m], IF m = None THEN 1 ELSE 0, Least(w, m))
    <3> SUFFICES ASSUME NEW m \in DOMAIN w.nodes PROVE Fits(w.nodes[m], 0, Least(w, m))
      BY <2>1
    <3>1. CASE m = new
      <4>1. Least(w, m) = 0
        BY <1>7, <3>1 DEF Least
      <4>2. Fits(y, 0, 0)
        BY ShortLists DEF Fits
      <4>. QED BY <1>6, <3>1, <4>1, <4>2
    <3>2. CASE m \in DOMAIN x.nodes
      <4>1. m # n /\ m # new /\ m \in DOMAIN s.nodes
        BY <1>1, <1>5, <3>2
      <4>2. Least(w, m) = Least(s, m)
        BY <1>7, <4>1 DEF Least
      <4>3. Fits(s.nodes[m], 0, Least(s, m))
        BY <1>1, <2>2, <4>1
      <4>. QED BY <1>6, <3>2, <4>2, <4>3
    <3>. QED BY <1>6, <3>1, <3>2
  <2>. QED BY <2>1, <2>3, ShapedIs
<1>11. Pointed(w)
  BY <1>4, <1>6 DEF Pointed
<1>12. Remembered(w)
  <2>1. /\ \A m \in DOMAIN x.nodes : x.nodes[m].last < s.nextNode
                 /\ (x.nodes[m].last \in DOMAIN x.nodes => x.nodes[x.nodes[m].last].kind = "view")
        /\ \A f \in DOMAIN s.floats : s.floats[f].last < s.nextNode
                 /\ (s.floats[f].last \in DOMAIN x.nodes => x.nodes[s.floats[f].last].kind = "view")
    BY <1>4, <1>5 DEF Remembered
  <2>2. /\ \A m \in DOMAIN x.nodes : x.nodes[m].last \in Nat
        /\ \A f \in DOMAIN s.floats : s.floats[f].last \in Nat
    <3>1. x.nodes \in [DOMAIN x.nodes -> NodeType] /\ s.floats \in [DOMAIN s.floats -> FloatType]
      BY <1>1 DEF IsState
    <3>2. \A m \in DOMAIN x.nodes : x.nodes[m].last \in Nat
      BY <3>1, NodeFields
    <3>. QED BY <3>1, <3>2 DEF FloatType
  <2>3. \A l \in Nat : l < s.nextNode => l < w.nextNode /\ l # new
    BY <1>1, <1>6 DEF new
  <2>4. \A m \in DOMAIN w.nodes : w.nodes[m].last < w.nextNode
                 /\ (w.nodes[m].last \in DOMAIN w.nodes => w.nodes[w.nodes[m].last].kind = "view")
    <3> SUFFICES ASSUME NEW m \in DOMAIN w.nodes
                 PROVE  w.nodes[m].last < w.nextNode
                        /\ (w.nodes[m].last \in DOMAIN w.nodes => w.nodes[w.nodes[m].last].kind = "view")
      OBVIOUS
    <3>1. CASE m = new
      <4>1. w.nodes[m].last = None /\ None \notin DOMAIN w.nodes /\ None < w.nextNode
        BY <1>1, <1>5, <1>6, <3>1 DEF None, new
      <4>. QED BY <4>1
    <3>2. CASE m \in DOMAIN x.nodes
      BY <1>6, <2>1, <2>2, <2>3, <3>2
    <3>. QED BY <1>6, <3>1, <3>2
  <2>5. \A f \in DOMAIN w.floats : w.floats[f].last < w.nextNode
                 /\ (w.floats[f].last \in DOMAIN w.nodes => w.nodes[w.floats[f].last].kind = "view")
    BY <1>6, <2>1, <2>2, <2>3
  <2>. QED BY <2>4, <2>5 DEF Remembered
<1>13. Owned(w)
  BY <1>4, <1>5, <1>6 DEF Owned
<1>14. Ranked(w)
  <2>1. PICK top \in Nat : \E rank \in [DOMAIN x.nodes -> 0 .. top] :
          \A m \in DOMAIN x.nodes : x.nodes[m].parent # None => rank[m] < rank[x.nodes[m].parent]
    BY <1>4 DEF Ranked
  <2>2. PICK rank \in [DOMAIN x.nodes -> 0 .. top] :
          \A m \in DOMAIN x.nodes : x.nodes[m].parent # None => rank[m] < rank[x.nodes[m].parent]
    BY <2>1
  <2> DEFINE more == [m \in DOMAIN w.nodes |-> IF m = new THEN 0 ELSE rank[m]]
  <2>3. more \in [DOMAIN w.nodes -> 0 .. top]
    BY <1>6, <2>1, <2>2
  <2>4. \A m \in DOMAIN w.nodes : w.nodes[m].parent # None => more[m] < more[w.nodes[m].parent]
    <3> SUFFICES ASSUME NEW m \in DOMAIN w.nodes, w.nodes[m].parent # None
                 PROVE  more[m] < more[w.nodes[m].parent]
      OBVIOUS
    <3>1. m \in DOMAIN x.nodes /\ m # new
      BY <1>1, <1>5, <1>6
    <3>2. x.nodes[m].parent \in DOMAIN x.nodes /\ x.nodes[m].parent # new /\ w.nodes[m].parent = x.nodes[m].parent
      BY <1>1, <1>4, <1>5, <1>6, <3>1 DEF Linked
    <3>. QED BY <1>6, <2>2, <3>1, <3>2
  <2> HIDE DEF more
  <2>. QED BY <2>1, <2>3, <2>4 DEF Ranked
<1>. QED BY <1>6, <1>8, <1>9, <1>10, <1>11, <1>12, <1>13, <1>14 DEF Forest

\* Closing a session's root leaves the session with an empty one.
LEMMA ClearRootCloses ==
    ASSUME NEW s, NEW V, Forest(s, {}, None), Attached(s, V), NEW sid \in DOMAIN s.sessions
    PROVE  Closed(s, ClearSessionRoot(s, sid), Below(s, s.sessions[sid].root))
<1> DEFINE n == s.sessions[sid].root
           x == RemoveSubtree(s, n)
           y == Tabs(sid, None, <<>>, None)
           w == [InsertNode(x, y) EXCEPT !.sessions[sid].root = s.nextNode, !.sessions[sid].zoom = None]
           r == HealFocus(w, sid)
<1>1. IsState(s) /\ Linked(s) /\ Ranked(s) /\ Rooted(s, {}) /\ None \notin DOMAIN s.nodes
      /\ s.nextNode \notin DOMAIN s.nodes
  BY DEF Forest, IsState, None
<1>2. n \in DOMAIN s.nodes
  BY <1>1 DEF Rooted
<1>a. ~Severed(s, n)
  BY <1>1, <1>2, Unsevered
<1>3. IsState(x) /\ CutOff(s, x, n)
  BY <1>1, <1>a, RemoveSubtreeIs
<1>4. ClearSessionRoot(s, sid) = r
  <2> DEFINE q == RemoveTree(s, n)
             F(a) == HealFocus([InsertNode(a, y) EXCEPT !.sessions[sid].root = s.nextNode,
                                                        !.sessions[sid].zoom = None], sid)
  <2>1. ClearSessionRoot(s, sid) = IF q.ok THEN F(q.s) ELSE q
    BY DEF ClearSessionRoot, RootOf, AndThen
  <2>2. q = Ok(x)
    BY <1>a, RemoveTreeIs
  <2>3. q.ok = TRUE /\ q.s = x
    BY <2>2 DEF Ok
  <2>4. F(x) = r
    OBVIOUS
  <2> HIDE DEF F, q, r
  <2>. QED BY <2>1, <2>3, <2>4
<1> HIDE DEF x
<1>5. /\ y \in NodeType /\ y.kind = "tabs" /\ y.sess = sid /\ y.parent = None /\ y.kids = <<>>
      /\ y.sizes = <<>> /\ y.active = 0 /\ y.last = None
      /\ Restarted(s, x, w, sid, y)
  BY <1>1, <1>3, RestartedIs, Zenon
<1> HIDE DEF y, w
<1>6. Forest(w, {}, None)
  BY <1>3, <1>5, RestartedForest
<1>7. Below(s, n) \subseteq DOMAIN s.nodes
  BY <1>1, <1>2, BelowFacts
<1>8. CutViews(s, x, Below(s, n))
  BY <1>1, <1>3, <1>7, CutOffViews
<1>9. SameViews(x, w)
  <2>1. /\ DOMAIN x.nodes \subseteq DOMAIN s.nodes /\ x.sessions = s.sessions
        /\ \A m \in DOMAIN x.nodes : x.nodes[m] = s.nodes[m]
    BY <1>3 DEF CutOff, CutNodes
  <2>2. /\ DOMAIN w.nodes = DOMAIN x.nodes \cup {s.nextNode} /\ w.nodes[s.nextNode] = y
        /\ \A m \in DOMAIN x.nodes : w.nodes[m] = s.nodes[m]
        /\ DOMAIN w.sessions = DOMAIN s.sessions /\ w.buffers = x.buffers
    BY <1>5 DEF Restarted
  <2>3. y.kind # "view"
    BY <1>5
  <2>. QED BY <2>1, <2>2, <2>3 DEF SameViews
<1>10. sid \in DOMAIN w.sessions
  BY <1>5 DEF Restarted
<1>11. Kept(w, r, {}, None) /\ r.ok
  BY <1>6, <1>10, HealFocusKeeps
<1> HIDE DEF r
<1>12. r.ok = TRUE /\ Forest(r.s, {}, None) /\ SameViews(w, r.s)
  BY <1>11, SameTreeViews DEF Kept
<1>13. CutViews(s, r.s, Below(s, n))
  BY <1>8, <1>9, <1>12, CutViewsBefore
<1>14. Closed(s, r, Below(s, n))
  BY <1>12, <1>13 DEF Closed
<1>. QED BY <1>4, <1>14

\* Closing a popup.
LEMMA CloseFloatingCloses ==
    ASSUME NEW s, NEW V, Forest(s, {}, None), Attached(s, V), NEW f \in DOMAIN s.floats
    PROVE  /\ Closed(s, CloseFloating(s, f), Below(s, s.floats[f].root))
           /\ DOMAIN CloseFloating(s, f).s.floats = DOMAIN s.floats \ {f}
           /\ \A g \in DOMAIN CloseFloating(s, f).s.floats :
                 CloseFloating(s, f).s.floats[g].sess = s.floats[g].sess
           /\ \A a \in DOMAIN s.sessions : CloseFloating(s, f).s.sessions[a].root = s.sessions[a].root
<1> DEFINE n == s.floats[f].root
           z == RemoveSubtree(RemoveFloat(s, f), n)
           sid == s.floats[f].sess
<1>1. PopupGone(s, z, f)
  BY PopupCut
<1>2. sid \in DOMAIN s.sessions
  BY DEF Forest, Rooted
<1>a. RemoveTree(RemoveFloat(s, f), n) = Ok(z)
  BY PopupCut
<1>3. CloseFloating(s, f) = Settle(z, sid)
  BY <1>a DEF CloseFloating, AndThen, Ok
<1> HIDE DEF z
<1>4. /\ Forest(z, {}, None) /\ CutViews(s, z, Below(s, n)) /\ DOMAIN z.floats = DOMAIN s.floats \ {f}
      /\ \A g \in DOMAIN z.floats : z.floats[g].sess = s.floats[g].sess
      /\ \A a \in DOMAIN s.sessions : z.sessions[a].root = s.sessions[a].root
  BY <1>1 DEF PopupGone
<1>5. Closed(s, Ok(z), Below(s, n)) /\ Ok(z).ok = TRUE /\ Ok(z).s = z
  BY <1>4 DEF Closed, Ok
<1>7. Closed(s, Settle(z, sid), Below(s, n))
  <2>1. Closed(s, Settle(Ok(z).s, sid), Below(s, n))
    BY <1>2, <1>5, ClosedSettled
  <2>. QED BY <1>5, <2>1
<1>8. DOMAIN z.sessions = DOMAIN s.sessions
  BY <1>4 DEF CutViews
<1>9. SameTree(z, Settle(z, sid).s)
  BY <1>2, <1>4, <1>8, SettleKeeps
<1>. QED BY <1>3, <1>4, <1>7, <1>8, <1>9, Zenon DEF SameTree

\* Closing a node removes what is under it, and nothing else. It does not fail.
LEMMA CloseNodeCloses ==
    ASSUME NEW s, NEW V, Forest(s, {}, None), Attached(s, V), NEW n \in DOMAIN s.nodes
    PROVE  Closed(s, CloseNode(s, n), Below(s, n))
<1> DEFINE sid == s.nodes[n].sess
           p == s.nodes[n].parent
           f == FloatByRoot(s, n)
<1>1. IsState(s) /\ Linked(s) /\ Ranked(s) /\ Rooted(s, {})
  BY DEF Forest
<1>2. sid \in DOMAIN s.sessions
  BY <1>1 DEF Linked
<1>3. CASE n \in SessionRoots(s)
  <2>1. s.sessions[sid].root = n
    BY <1>1, <1>3 DEF Rooted, SessionRoots
  <2>2. CloseNode(s, n) = ClearSessionRoot(s, sid)
    BY <1>3, IsSessionRootIs DEF CloseNode, SessionOf
  <2>. QED BY <1>2, <2>1, <2>2, ClearRootCloses
<1>4. CASE n \notin SessionRoots(s) /\ p # None
  <2> DEFINE y == RemoveChild(s, p, n)
             r == NormalizeUpwards(RemoveSubtree(y, n), p)
  <2>1. p \in DOMAIN s.nodes /\ n \in Kids(s, p)
    BY <1>1, <1>4 DEF Linked
  <2>2. Forest(y, {n}, p) /\ SameViews(s, y) /\ ChildRemoved(s, y, p, n)
    BY <2>1, RemoveChildKeeps
  <2>a. RemoveTree(y, n) = Ok(RemoveSubtree(y, n))
    BY <2>2, FreeTreeGoes, ForestIs
  <2>3. CloseNode(s, n) = IF r.ok THEN Settle(r.s, sid) ELSE r
    BY <1>4, <2>a, IsSessionRootIs DEF CloseNode, SessionOf, AndThen, Ok
  <2> HIDE DEF y
  <2>4. Below(y, n) = Below(s, n) /\ p \notin Below(s, n)
    BY <2>1, <2>2, BelowAlone
  <2>5. p \in DOMAIN y.nodes
    BY <2>1, <2>2 DEF ChildRemoved
  <2>6. Closed(s, r, Below(s, n))
    BY <2>2, <2>4, <2>5, CutChildCloses
  <2> HIDE DEF r
  <2>7. Closed(s, Settle(r.s, sid), Below(s, n)) /\ r.ok = TRUE
    BY <1>2, <2>6, ClosedSettled
  <2>8. CloseNode(s, n) = Settle(r.s, sid)
    BY <2>3, <2>7
  <2>. QED BY <2>7, <2>8
<1>5. CASE n \notin SessionRoots(s) /\ p = None
  <2>1. n \in FloatRoots(s)
    BY <1>1, <1>5 DEF Rooted
  <2>2. f # None /\ f \in DOMAIN s.floats /\ s.floats[f].root = n
    BY <1>1, <2>1, FloatByRootIs
  <2> DEFINE z == RemoveSubtree(RemoveFloat(s, f), n)
  <2>4. PopupGone(s, z, f) /\ RemoveTree(RemoveFloat(s, f), n) = Ok(z)
    BY <2>2, PopupCut
  <2>3. CloseNode(s, n) = AndThen(Ok(z), LAMBDA x : Settle(x, sid))
    BY <1>5, <2>2, <2>4, IsSessionRootIs DEF CloseNode, SessionOf
  <2> HIDE DEF z
  <2>5. Closed(s, Ok(z), Below(s, n))
    BY <2>2, <2>4 DEF PopupGone, Closed, Ok
  <2>6. Closed(s, Settle(Ok(z).s, sid), Below(s, n)) /\ Ok(z).ok = TRUE
    BY <1>2, <2>5, ClosedSettled
  <2>7. CloseNode(s, n) = Settle(Ok(z).s, sid)
    BY <2>3, <2>6 DEF AndThen
  <2>. QED BY <2>6, <2>7
<1>. QED BY <1>3, <1>4, <1>5

\* A request that closed something.
LEMMA ClosedDone ==
    ASSUME NEW s, Sound(s), NEW r, NEW G, Closed(s, r, G)
    PROVE  Done(s, r)
<1>1. Attached(s, {})
  BY DEF Sound
<1>2. Attached(r.s, {})
  BY <1>1, CutViewsAttached DEF Closed
<1>. QED BY <1>2 DEF Closed, Done, Sound

\* Closing a tab by its index.
LEMMA CloseTabDone ==
    ASSUME NEW s, Sound(s), NEW t \in DOMAIN s.nodes, NEW index \in Nat
    PROVE  Done(s, CloseTab(s, t, index))
<1>1. CASE ~IsKind(s, t, "tabs") \/ index >= Len(s.nodes[t].kids)
  <2>1. CloseTab(s, t, index) = Err(s)
    BY <1>1 DEF CloseTab
  <2>. QED BY <2>1, DoneErr
<1>2. CASE IsKind(s, t, "tabs") /\ ~(index >= Len(s.nodes[t].kids))
  <2> DEFINE child == TabAt(s.nodes[t].kids, index)
             cut == RemoveChild(s, t, child)
             v == IF cut.nodes[t].kids = <<>> THEN None ELSE cut.nodes[t].last
             y == [cut EXCEPT !.nodes[t].last = v]
             r == NormalizeUpwards(RemoveSubtree(y, child), t)
             sid == s.nodes[t].sess
  <2>1. Forest(s, {}, None) /\ Attached(s, {}) /\ IsState(s) /\ Linked(s) /\ Ranked(s)
        /\ s.nodes \in [DOMAIN s.nodes -> NodeType]
    BY DEF Sound, Forest, IsState
  <2>2. s.nodes[t].kids \in Seq(Nat)
    BY <2>1, NodeFields
  <2>3. child \in Kids(s, t)
    <3>1. index + 1 \in DOMAIN s.nodes[t].kids
      BY <1>2, <2>2
    <3>. QED BY <2>2, <3>1 DEF TabAt, Kids, ToSet
  <2>5. Forest(cut, {child}, t) /\ SameViews(s, cut) /\ ChildRemoved(s, cut, t, child)
    BY <2>1, <2>3, RemoveChildKeeps
  <2> HIDE DEF cut, child
  <2>6. Below(cut, child) = Below(s, child) /\ t \notin Below(s, child)
    BY <2>1, <2>3, <2>5, BelowAlone
  <2>7. t \in DOMAIN cut.nodes /\ IsState(cut) /\ cut.nodes \in [DOMAIN cut.nodes -> NodeType]
    BY <2>5 DEF ChildRemoved, Forest, IsState
  <2>8. v \in Nat /\ v \in {cut.nodes[t].last, None}
    BY <2>7, NodeFields DEF None
  <2> HIDE DEF v
  <2>9. /\ IsState(y) /\ DOMAIN y.nodes = DOMAIN cut.nodes
        /\ \A m \in DOMAIN cut.nodes :
             /\ y.nodes[m].kind = cut.nodes[m].kind /\ y.nodes[m].sess = cut.nodes[m].sess
             /\ y.nodes[m].parent = cut.nodes[m].parent
             /\ y.nodes[m].kids = cut.nodes[m].kids
             /\ y.nodes[m].active = cut.nodes[m].active /\ y.nodes[m].sizes = cut.nodes[m].sizes
             /\ y.nodes[m].last = IF m = t THEN v ELSE cut.nodes[m].last
             /\ y.nodes[m].buf = cut.nodes[m].buf
        /\ y.floats = cut.floats /\ y.sessions = cut.sessions /\ y.buffers = cut.buffers
        /\ y.nextNode = cut.nextNode /\ y.nextSession = cut.nextSession /\ y.nextFloat = cut.nextFloat
    BY <2>7, <2>8, LastIs
  <2> HIDE DEF y
  <2>10. SameTree(cut, y)
    BY <2>9 DEF SameTree
  <2>11. Forest(y, {child}, t)
    <3>1. Pointed(cut) /\ Remembered(cut) /\ Owned(cut)
      BY <2>5 DEF Forest
    <3>2. Pointed(y) /\ Owned(y)
      BY <2>9, <3>1 DEF Pointed, Owned
    <3>3. Remembered(y)
      <4>1. None < cut.nextNode /\ None \notin DOMAIN cut.nodes
        BY <2>7 DEF IsState, None
      <4>2. /\ \A m \in DOMAIN cut.nodes : cut.nodes[m].last < cut.nextNode
                 /\ (cut.nodes[m].last \in DOMAIN cut.nodes => cut.nodes[cut.nodes[m].last].kind = "view")
            /\ \A g \in DOMAIN cut.floats : cut.floats[g].last < cut.nextNode
                 /\ (cut.floats[g].last \in DOMAIN cut.nodes => cut.nodes[cut.floats[g].last].kind = "view")
        BY <3>1 DEF Remembered
      <4>. QED BY <2>8, <2>9, <4>1, <4>2 DEF Remembered
    <3>. QED BY <2>5, <2>9, <2>10, <3>2, <3>3, SameForest
  <2>12. SameViews(s, y)
    BY <2>5, <2>10, SameTreeViews, SameViewsTrans
  <2>13. Below(y, child) = Below(cut, child)
    <3>1. IsState(y) /\ Linked(y) /\ Ranked(y) /\ IsState(cut) /\ Linked(cut) /\ Ranked(cut)
      BY <2>5, <2>11 DEF Forest
    <3>2. \A m \in DOMAIN cut.nodes : Kids(y, m) = Kids(cut, m)
      BY <2>9 DEF Kids
    <3>3. child \in DOMAIN cut.nodes
      BY <2>5 DEF Forest, Rooted
    <3>4. Below(y, child) \subseteq Below(cut, child)
      <4>1. child \in Below(cut, child) /\ \A m \in Below(cut, child) : Kids(cut, m) \subseteq Below(cut, child) /\ m \in DOMAIN cut.nodes
        BY <3>1, <3>3, BelowFacts
      <4>2. \A m \in Below(cut, child) \cap DOMAIN y.nodes : Kids(y, m) \subseteq Below(cut, child)
        BY <3>2, <4>1
      <4>. QED BY <2>9, <3>1, <3>3, <4>1, <4>2, BelowLeast
    <3>5. Below(cut, child) \subseteq Below(y, child)
      <4>1. child \in Below(y, child) /\ \A m \in Below(y, child) : Kids(y, m) \subseteq Below(y, child) /\ m \in DOMAIN y.nodes
        BY <2>9, <3>1, <3>3, BelowFacts
      <4>2. \A m \in Below(y, child) \cap DOMAIN cut.nodes : Kids(cut, m) \subseteq Below(y, child)
        BY <3>2, <4>1
      <4>. QED BY <3>1, <3>3, <4>1, <4>2, BelowLeast
    <3>. QED BY <3>4, <3>5
  <2>14. Closed(s, r, Below(s, child))
    BY <2>1, <2>6, <2>7, <2>9, <2>11, <2>12, <2>13, CutChildCloses
  <2>4. CloseTab(s, t, index) = IF r.ok THEN Settle(r.s, sid) ELSE r
    <3>1. RemoveTree(y, child) = Ok(RemoveSubtree(y, child))
      BY <2>11, FreeTreeGoes, ForestIs
    <3>2. child \in DOMAIN s.nodes
      BY <2>1, <2>3 DEF Linked
    <3> DEFINE q == RemoveTree(y, child)
               z == IF q.ok THEN NormalizeUpwards(q.s, t) ELSE q
    <3>3. CloseTab(s, t, index) = IF z.ok THEN Settle(z.s, sid) ELSE z
      BY <1>2, <3>2, Zenon DEF CloseTab, SessionOf, AndThen, child, cut, y, v
    <3>4. z = r
      BY <3>1 DEF Ok
    <3> HIDE DEF z, r
    <3>. QED BY <3>3, <3>4
  <2> HIDE DEF r
  <2>15. sid \in DOMAIN s.sessions
    BY <2>1 DEF Linked
  <2>16. Closed(s, Settle(r.s, sid), Below(s, child)) /\ r.ok = TRUE
    BY <2>14, <2>15, ClosedSettled
  <2>17. CloseTab(s, t, index) = Settle(r.s, sid)
    BY <2>4, <2>16
  <2>. QED BY <2>16, <2>17, ClosedDone
<1>. QED BY <1>1, <1>2

-----------------------------------------------------------------------------
(* Placing a node *)

\* The same nodes, of the same sessions, with the same views.
Placed(s, x, e) ==
    /\ Forest(x, {}, e) /\ SameViews(s, x) /\ DOMAIN x.nodes = DOMAIN s.nodes

\* What adding a tab gives.
TabPlaced(s, r, t, index, c, e) ==
    /\ r.ok \in BOOLEAN
    /\ ~ r.ok => r.s = s
    /\ r.ok <=> /\ s.nodes[t].kind = "tabs" /\ s.nodes[c].sess = s.nodes[t].sess
                /\ index <= Len(s.nodes[t].kids)
    /\ r.ok => Placed(s, r.s, e) /\ (e = t => Placed(s, r.s, None))

\* A free node becomes a tab of a tabs node of its session; nothing else is
\* refused, and what is refused changes nothing.
LEMMA AddTabPlaces ==
    ASSUME NEW s, NEW e, NEW c, Forest(s, {c}, e), NEW t \in DOMAIN s.nodes, t \notin Below(s, c),
           NEW index \in Nat, NEW focus \in BOOLEAN
    PROVE  TabPlaced(s, AddTab(s, t, index, c, focus), t, index, c, e)
<1> DEFINE added == [SetParent(s, c, t) EXCEPT !.nodes[t].kids = InsertedAt(@, index, c),
                                               !.nodes[t].active = index]
           r == AddTab(s, t, index, c, focus)
           sid == s.nodes[t].sess
<1>1. IsState(s) /\ Linked(s) /\ Ranked(s) /\ Rooted(s, {c}) /\ s.nodes \in [DOMAIN s.nodes -> NodeType]
  BY DEF Forest, IsState
<1>2. /\ c \in DOMAIN s.nodes /\ s.nodes[c].parent = None /\ c \notin SessionRoots(s) /\ c \notin FloatRoots(s)
  BY <1>1 DEF Rooted
<1>3. c # t
  BY <1>1, <1>2, BelowFacts
<1>4. Len(s.nodes[t].kids) \in Nat
  BY <1>1, NodeFields
<1>5. CASE ~(/\ s.nodes[t].kind = "tabs" /\ s.nodes[c].sess = s.nodes[t].sess
             /\ index <= Len(s.nodes[t].kids))
  <2>1. r = Err(s)
    BY <1>4, <1>5 DEF AddTab, IsKind, SessionOf
  <2> HIDE DEF r
  <2>2. r.ok = FALSE /\ r.s = s
    BY <2>1 DEF Err
  <2>3. TabPlaced(s, r, t, index, c, e)
    BY <1>5, <2>2 DEF TabPlaced
  <2>. QED BY <2>3 DEF r
<1>6. CASE /\ s.nodes[t].kind = "tabs" /\ s.nodes[c].sess = s.nodes[t].sess
           /\ index <= Len(s.nodes[t].kids)
  <2>1. r = IF focus THEN FocusInto(added, sid, c) ELSE Ok(added)
    <3>1. FloatByRoot(s, c) = None /\ ~IsSessionRoot(s, c) /\ ~(index > Len(s.nodes[t].kids))
      BY <1>1, <1>2, <1>4, <1>6, FloatByRootIs, IsSessionRootIs
    <3>. QED BY <1>2, <1>3, <1>6, <3>1 DEF AddTab, IsKind, SessionOf
  <2>2. TabAdded(s, added, t, index, c)
    BY <1>1, <1>2, <1>3, TabAddedIs, Zenon
  <2>3. index \in 0 .. Len(s.nodes[t].kids)
    BY <1>4, <1>6
  <2> HIDE DEF added
  <2>4. /\ Forest(added, {c} \ {c}, e) /\ SameViews(s, added)
        /\ e = t => Forest(added, {c} \ {c}, None)
    BY <1>6, <2>2, <2>3, AddedKeeps
  <2>5. {c} \ {c} = {}
    OBVIOUS
  <2>6. DOMAIN added.nodes = DOMAIN s.nodes /\ added.nodes[c].sess = sid
    <3>1. added.nodes[c] = [s.nodes[c] EXCEPT !.parent = t] /\ s.nodes[c] \in NodeType
      BY <1>1, <1>2, <2>2 DEF TabAdded
    <3>2. added.nodes[c].sess = s.nodes[c].sess
      BY <3>1 DEF NodeType
    <3>. QED BY <1>6, <2>2, <3>2 DEF TabAdded
  <2>7. Forest(added, {}, e) /\ (e = t => Forest(added, {}, None))
    BY <2>4, <2>5
  <2> HIDE DEF r
  <2>8. ASSUME NEW d, Forest(added, {}, d) PROVE Placed(s, r.s, d) /\ r.ok = TRUE
    <3>1. CASE ~focus
      <4>1. r.s = added /\ r.ok = TRUE
        BY <2>1, <3>1 DEF Ok
      <4>. QED BY <2>4, <2>6, <2>8, <4>1 DEF Placed
    <3>2. CASE focus
      <4>1. r = FocusInto(added, added.nodes[c].sess, c)
        BY <2>1, <2>6, <3>2
      <4>2. Kept(added, r, {}, d) /\ r.ok
        BY <1>2, <2>6, <2>8, <4>1, FocusIntoKeeps
      <4>3. r.ok = TRUE /\ Forest(r.s, {}, d) /\ SameTree(added, r.s)
        BY <4>2 DEF Kept
      <4>4. SameViews(s, r.s)
        BY <2>4, <4>3, SameTreeViews, SameViewsTrans
      <4>5. DOMAIN r.s.nodes = DOMAIN s.nodes
        BY <2>6, <4>3 DEF SameTree
      <4>. QED BY <4>3, <4>4, <4>5 DEF Placed
    <3>. QED BY <3>1, <3>2
  <2>9. Placed(s, r.s, e) /\ r.ok = TRUE /\ (e = t => Placed(s, r.s, None))
    BY <2>7, <2>8
  <2>10. TabPlaced(s, r, t, index, c, e)
    BY <1>6, <2>9 DEF TabPlaced
  <2>. QED BY <2>10 DEF r
<1>. QED BY <1>5, <1>6

\* A popup takes a free node that leads to a pane.
LEMMA CreateFloatingPlaces ==
    ASSUME NEW s, NEW e, NEW n, Forest(s, {n}, e), e # n, NEW focus \in BOOLEAN
    PROVE  LET r == CreateFloating(s, s.nodes[n].sess, n, focus)
           IN  r.ok = TRUE /\ Placed(s, r.s, e)
<1> DEFINE sid == s.nodes[n].sess
           f == s.nextFloat
           opened == Opened(s, sid, n)
           q == FocusFloating(opened, f)
           r == CreateFloating(s, sid, n, focus)
<1>1. IsState(s) /\ Linked(s) /\ Rooted(s, {n}) /\ Trunk(s, {n}) /\ Shaped(s, e)
      /\ s.nodes \in [DOMAIN s.nodes -> NodeType]
  BY ForestIs DEF Forest, IsState
<1>2. /\ n \in DOMAIN s.nodes /\ s.nodes[n].parent = None /\ n \notin SessionRoots(s) /\ n \notin FloatRoots(s)
  BY <1>1 DEF Rooted
<1>3. FloatByRoot(s, n) = None /\ ~IsSessionRoot(s, n)
  BY <1>1, <1>2, FloatByRootIs, IsSessionRootIs
<1>4. q.ok => r = IF focus THEN q ELSE Ok(opened)
  BY <1>2, <1>3 DEF CreateFloating, Opened, OrElse, SessionOf
<1>5. Held(s, opened, n)
  BY <1>1, OpenedIs
<1> HIDE DEF opened
<1>6. /\ Trunk(opened, {}) /\ opened.nodes = s.nodes /\ opened.buffers = s.buffers
      /\ SessionRoots(opened) = SessionRoots(s) /\ FloatRoots(opened) = FloatRoots(s) \cup {n}
      /\ f \in DOMAIN opened.floats /\ opened.floats[f].root = n
  BY <1>5 DEF Held
<1>7. \A m \in DOMAIN s.nodes : Fits(s.nodes[m], IF m = e THEN 1 ELSE 0, Least(s, m))
  BY <1>1, ShapedIs
<1>8. Shaped(opened, e)
  <2> SUFFICES ASSUME NEW m \in DOMAIN s.nodes
               PROVE  Fits(s.nodes[m], IF m = e THEN 1 ELSE 0, Least(opened, m))
    BY <1>1, <1>6, ShapedIs
  <2> DEFINE less == IF m = e THEN 1 ELSE 0
  <2>1. less \in Nat /\ less <= less
    OBVIOUS
  <2>2. Least(s, m) \in Nat /\ Least(opened, m) \in Nat /\ Least(opened, m) <= Least(s, m)
    BY <1>6 DEF Least
  <2>3. Fits(s.nodes[m], less, Least(s, m)) /\ s.nodes[m] \in NodeType
    BY <1>1, <1>7
  <2> HIDE DEF less
  <2>4. Fits(s.nodes[m], less, Least(opened, m))
    BY <2>1, <2>2, <2>3, FitsMore
  <2>. QED BY <2>4 DEF less
<1>9. Forest(opened, {}, e)
  BY <1>6, <1>8, ForestIs
<1>10. s.nodes[n].kind = "view" \/ s.nodes[n].kids # <<>>
  <2>1. Fits(s.nodes[n], 0, 2)
    <3>1. Least(s, n) = 2
      BY <1>2 DEF Least
    <3>. QED BY <1>2, <1>7, <3>1
  <2>2. Len(<<>>) = 0 /\ s.nodes[n].kind \in {"view", "split", "tabs"}
    BY <1>1, <1>2, NodeFields
  <2>. QED BY <2>1, <2>2 DEF Fits
<1>11. Kept(opened, q, {}, e) /\ q.ok
  BY <1>6, <1>9, <1>10, FocusFloatingKeeps
<1>12. DOMAIN opened.sessions = DOMAIN s.sessions
  <2>1. IsState(s) /\ sid \in DOMAIN s.sessions
    BY <1>1, <1>2 DEF Linked
  <2>2. s.sessions = [a \in DOMAIN s.sessions |-> s.sessions[a]] /\ Shape(s)
    BY <2>1 DEF IsState
  <2>. QED BY <2>1, <2>2 DEF opened, Opened, Shape
<1>13. SameViews(s, opened)
  BY <1>6, <1>12 DEF SameViews
<1>14. CASE focus
  <2>1. r = q
    BY <1>4, <1>11, <1>14
  <2>2. q.ok = TRUE /\ Forest(q.s, {}, e) /\ SameTree(opened, q.s)
    BY <1>11 DEF Kept
  <2> HIDE DEF q, r
  <2>3. SameViews(s, q.s)
    BY <1>13, <2>2, SameTreeViews, SameViewsTrans
  <2>4. DOMAIN q.s.nodes = DOMAIN s.nodes
    BY <1>6, <2>2 DEF SameTree
  <2>5. r.ok = TRUE /\ Placed(s, r.s, e)
    BY <2>1, <2>2, <2>3, <2>4 DEF Placed
  <2>. QED BY <2>5 DEF r
<1>15. CASE ~focus
  <2>1. r = Ok(opened)
    BY <1>4, <1>11, <1>15
  <2> HIDE DEF r
  <2>2. r.ok = TRUE /\ r.s = opened
    BY <2>1 DEF Ok
  <2>3. r.ok = TRUE /\ Placed(s, r.s, e)
    BY <1>6, <1>9, <1>13, <2>2 DEF Placed
  <2>. QED BY <2>3 DEF r
<1>. QED BY <1>14, <1>15

-----------------------------------------------------------------------------
(* The requests *)

\* A view that found no place is taken away, and with it all that was done.
LEMMA DiscardUndone ==
    ASSUME NEW s, Sound(s), NEW sid, NEW b, NEW x, Forest(x, {s.nextNode}, None), NewView(s, x, sid, b),
           DOMAIN x.buffers = DOMAIN s.buffers,
           \A y \in DOMAIN s.buffers :
              \/ x.buffers[y].att = s.buffers[y].att
              \/ y = b /\ x.buffers[y].att = s.nextNode /\ s.buffers[y].att = None
    PROVE  Undone(s, DiscardView(x, s.nextNode))
<1> DEFINE n == s.nextNode
           z == RemoveSubtree(x, n)
<1>1. /\ DOMAIN x.nodes = DOMAIN s.nodes \cup {n} /\ n \notin DOMAIN s.nodes /\ n # None
      /\ \A m \in DOMAIN s.nodes : x.nodes[m] = s.nodes[m]
      /\ x.nodes[n].parent = None /\ x.nodes[n].kids = <<>> /\ x.nodes[n].buf = b
      /\ x.sessions = s.sessions /\ x.floats = s.floats /\ x.nextNode = s.nextNode + 1
      /\ x.nextFloat = s.nextFloat
  BY DEF NewView
<1>2. DiscardView(x, n) = z
  BY <1>1 DEF DiscardView, OrElse, Err, Ok
<1>3. IsState(x) /\ Linked(x) /\ Ranked(x) /\ IsState(s) /\ Attached(s, {})
  BY DEF Forest, Sound
<1>4a. ~Severed(x, n)
  BY <1>1, <1>3, Unsevered
<1>4. IsState(z) /\ CutOff(x, z, n)
  BY <1>1, <1>3, <1>4a, RemoveSubtreeIs
<1>5. Below(x, n) = {n}
  <2>1. Kids(x, n) = {}
    BY <1>1, ShortLists DEF Kids
  <2>. QED BY <1>1, <1>3, <2>1, BelowFacts
<1> HIDE DEF z, n
<1>6. /\ DOMAIN z.nodes = DOMAIN s.nodes /\ \A m \in DOMAIN s.nodes : z.nodes[m] = s.nodes[m]
      /\ z.sessions = s.sessions /\ z.floats = s.floats /\ z.nextNode = x.nextNode /\ z.nextFloat = x.nextFloat
  BY <1>1, <1>4, <1>5 DEF CutOff, CutNodes
<1>7. z.nodes = s.nodes
  <2>1. s.nodes \in [DOMAIN s.nodes -> NodeType] /\ z.nodes \in [DOMAIN z.nodes -> NodeType]
    BY <1>3, <1>4 DEF IsState
  <2>. QED BY <1>6, <2>1
<1>8. AttachmentsOf(z) = AttachmentsOf(s)
  <2>1. DOMAIN z.buffers = DOMAIN s.buffers
    BY <1>4 DEF CutOff
  <2>2. ASSUME NEW y \in DOMAIN s.buffers PROVE z.buffers[y].att = s.buffers[y].att
    <3>1. z.buffers[y].att = IF x.buffers[y].att = n /\ x.nodes[n].buf = y THEN None ELSE x.buffers[y].att
      BY <1>4, <1>5 DEF CutOff
    <3>2. s.buffers[y].att # n
      BY <1>1, <1>3 DEF Attached
    <3>3. CASE x.buffers[y].att = s.buffers[y].att
      BY <3>1, <3>2, <3>3
    <3>4. CASE y = b /\ x.buffers[y].att = n /\ s.buffers[y].att = None
      BY <1>1, <3>1, <3>4
    <3>. QED BY <3>3, <3>4 DEF n
  <2>. QED BY <2>1, <2>2 DEF AttachmentsOf
<1>9. s.nextNode \in Nat /\ s.nextFloat \in Nat
  BY <1>3 DEF IsState
<1>10. z.nextNode >= s.nextNode /\ z.nextFloat >= s.nextFloat
  BY <1>1, <1>6, <1>9
<1>11. Undone(s, z)
  BY <1>4, <1>6, <1>7, <1>8, <1>10 DEF Undone
<1>. QED BY <1>2, <1>11 DEF n

\* What was refused before anything else was done.
LEMMA UndoneDone ==
    ASSUME NEW s, Sound(s), NEW r, r.ok = FALSE, Undone(s, r.s)
    PROVE  Done(s, r)
BY UndoneSound DEF Done

\* What was placed with every view in order.
LEMMA PlacedDone ==
    ASSUME NEW s, NEW x, Attached(x, {}), NEW r, r.ok = TRUE, Placed(x, r.s, None)
    PROVE  Done(s, r)
<1>1. Attached(r.s, {})
  BY SameViewsAttached DEF Placed
<1>. QED BY <1>1 DEF Done, Sound, Placed

\* A buffer becomes a tab, and is refused or placed as a whole.
LEMMA AddTabFromBufferDone ==
    ASSUME NEW s, Sound(s), NEW t \in DOMAIN s.nodes, NEW index \in Nat, NEW b \in DOMAIN s.buffers
    PROVE  Done(s, AddTabFromBuffer(s, t, index, b))
<1>1. CASE ~IsKind(s, t, "tabs")
  <2>1. AddTabFromBuffer(s, t, index, b) = Err(s)
    BY <1>1 DEF AddTabFromBuffer
  <2>. QED BY <2>1, DoneErr
<1>2. CASE IsKind(s, t, "tabs")
  <2> DEFINE sid == s.nodes[t].sess
             n == s.nextNode
             c == CreateView(s, sid, b)
             x == c.s
             a == AddTab(x, t, index, n, TRUE)
             r == AddTabFromBuffer(s, t, index, b)
  <2>1. sid \in DOMAIN s.sessions
    BY DEF Sound, Forest, Linked
  <2>2. /\ c.ok \in BOOLEAN
        /\ ~ c.ok => Undone(s, c.s)
        /\ c.ok => /\ Forest(x, {n}, None) /\ NewView(s, x, sid, b)
                   /\ Attached(x, {})
                   /\ s.buffers[b].att = None /\ DOMAIN x.buffers = DOMAIN s.buffers
                   /\ \A y \in DOMAIN s.buffers :
                        x.buffers[y].att = IF y = b THEN n ELSE s.buffers[y].att
    BY <2>1, CreateViewIs
  <2>3. r = IF c.ok THEN (IF a.ok THEN a ELSE Err(DiscardView(a.s, n))) ELSE c
    BY <1>2 DEF AddTabFromBuffer, AndThen, OrElse, SessionOf
  <2> HIDE DEF c, r
  <2>4. CASE ~c.ok
    <3>1. r = c /\ c.ok = FALSE
      BY <2>2, <2>3, <2>4
    <3>. QED BY <2>2, <3>1, UndoneDone DEF r
  <2>5. CASE c.ok
    <3>1. Forest(x, {n}, None) /\ NewView(s, x, sid, b) /\ Attached(x, {})
      BY <2>2, <2>5
    <3>2. Below(x, n) = {n}
      <4>1. Kids(x, n) = {} /\ n \in DOMAIN x.nodes
        BY <3>1, ShortLists DEF Kids, NewView
      <4>. QED BY <3>1, <4>1, BelowFacts DEF Forest
    <3>3. t \in DOMAIN x.nodes /\ t \notin Below(x, n)
      BY <3>1, <3>2 DEF NewView
    <3>4. /\ a.ok \in BOOLEAN
          /\ ~ a.ok => a.s = x
          /\ a.ok => Placed(x, a.s, None)
      <4>1. TabPlaced(x, a, t, index, n, None)
        BY <3>1, <3>3, AddTabPlaces
      <4> HIDE DEF a
      <4>. QED BY <4>1 DEF TabPlaced
    <3> HIDE DEF a, x
    <3>5. CASE a.ok
      <4>1. r = a /\ a.ok = TRUE
        BY <2>3, <2>5, <3>4, <3>5
      <4>. QED BY <3>1, <3>4, <4>1, PlacedDone DEF r
    <3>6. CASE ~a.ok
      <4>1. r = Err(DiscardView(x, n))
        <5>1. a.s = x
          BY <3>4, <3>6
        <5>2. r = Err(DiscardView(a.s, n))
          BY <2>3, <2>5, <3>6
        <5>. QED BY <5>1, <5>2
      <4>2. r.ok = FALSE /\ r.s = DiscardView(x, n)
        BY <4>1 DEF Err
      <4>3. Undone(s, DiscardView(x, n))
        <5>1. /\ DOMAIN x.buffers = DOMAIN s.buffers
              /\ \A y \in DOMAIN s.buffers :
                    \/ x.buffers[y].att = s.buffers[y].att
                    \/ y = b /\ x.buffers[y].att = n /\ s.buffers[y].att = None
          BY <2>2, <2>5 DEF x
        <5>. QED BY <3>1, <5>1, DiscardUndone
      <4>. QED BY <4>2, <4>3, UndoneDone DEF r
    <3>. QED BY <3>5, <3>6
  <2>. QED BY <2>4, <2>5
<1>. QED BY <1>1, <1>2

\* A buffer becomes a popup.
LEMMA CreateFloatingFromBufferDone ==
    ASSUME NEW s, Sound(s), NEW sid \in DOMAIN s.sessions, NEW b \in DOMAIN s.buffers, NEW focus \in BOOLEAN
    PROVE  Done(s, CreateFloatingFromBuffer(s, sid, b, focus))
<1> DEFINE n == s.nextNode
           c == CreateView(s, sid, b)
           x == c.s
           a == CreateFloating(x, sid, n, focus)
           r == CreateFloatingFromBuffer(s, sid, b, focus)
<1>2. /\ c.ok \in BOOLEAN
      /\ ~ c.ok => Undone(s, c.s)
      /\ c.ok => Forest(x, {n}, None) /\ NewView(s, x, sid, b) /\ Attached(x, {})
  BY CreateViewIs
<1>3. r = IF c.ok THEN (IF a.ok THEN a ELSE Err(DiscardView(a.s, n))) ELSE c
  BY DEF CreateFloatingFromBuffer, AndThen, OrElse
<1> HIDE DEF c, r
<1>4. CASE ~c.ok
  <2>1. r = c /\ c.ok = FALSE
    BY <1>2, <1>3, <1>4
  <2>. QED BY <1>2, <2>1, UndoneDone DEF r
<1>5. CASE c.ok
  <2>1. x.nodes[n].sess = sid /\ n # None /\ Forest(x, {n}, None)
    BY <1>2, <1>5 DEF NewView
  <2>2. a.ok = TRUE /\ Placed(x, a.s, None)
    <3>1. a = CreateFloating(x, x.nodes[n].sess, n, focus)
      BY <2>1
    <3>. QED BY <2>1, <3>1, CreateFloatingPlaces
  <2> HIDE DEF a
  <2>3. r = a
    BY <1>3, <1>5, <2>2
  <2>. QED BY <1>2, <1>5, <2>2, <2>3, PlacedDone DEF r
<1>. QED BY <1>4, <1>5

\* The tab is selected, and the focus moves only into one that shows.
LEMMA SwitchTabDone ==
    ASSUME NEW s, Sound(s), NEW t \in DOMAIN s.nodes, NEW index \in Nat
    PROVE  Done(s, SwitchTab(s, t, index))
<1>1. CASE ~IsKind(s, t, "tabs") \/ index >= Len(s.nodes[t].kids)
  <2>1. SwitchTab(s, t, index) = Err(s)
    BY <1>1 DEF SwitchTab
  <2>. QED BY <2>1, DoneErr
<1>2. CASE IsKind(s, t, "tabs") /\ ~(index >= Len(s.nodes[t].kids))
  <2> DEFINE sid == s.nodes[t].sess
             x == [s EXCEPT !.nodes[t].active = index]
             k == TabAt(s.nodes[t].kids, index)
             r == SwitchTab(s, t, index)
  <2>1. Forest(s, {}, None) /\ Attached(s, {}) /\ IsState(s) /\ Linked(s)
        /\ s.nodes \in [DOMAIN s.nodes -> NodeType]
    BY DEF Sound, Forest, IsState
  <2>2. s.nodes[t].kids \in Seq(Nat) /\ s.nodes[t].last \in Nat
    BY <2>1, NodeFields
  <2>3. index < Len(s.nodes[t].kids) /\ index + 1 \in DOMAIN s.nodes[t].kids
    BY <1>2, <2>2
  <2>4. k \in Kids(s, t)
    BY <2>2, <2>3 DEF TabAt, Kids, ToSet
  <2>5. Pointing(s, x, t, index, s.nodes[t].last)
    BY <2>1, <2>2, ActiveLastIs, Zenon
  <2>6a. r = IF Unsure(x, sid, t) THEN Err(x)
             ELSE IF IsVisible(x, sid, t) THEN FocusInto(x, sid, k) ELSE Ok(x)
    BY <1>2 DEF SwitchTab, SessionOf
  <2> HIDE DEF x, r
  <2>7. /\ IsState(x) /\ SameTree(s, x) /\ x.sessions = s.sessions /\ x.floats = s.floats
        /\ \A m \in DOMAIN s.nodes : /\ x.nodes[m].active = IF m = t THEN index ELSE s.nodes[m].active
                                     /\ x.nodes[m].last \in {s.nodes[m].last, None}
    BY <2>5 DEF Pointing
  <2>8. Forest(x, {}, None)
    BY <2>1, <2>3, <2>7, TabsKeep
  <2>6. r = IF IsVisible(x, sid, t) THEN FocusInto(x, sid, k) ELSE Ok(x)
    <3>1. sid \in DOMAIN x.sessions /\ t \in DOMAIN x.nodes
      BY <2>1, <2>7 DEF Linked, SameTree
    <3>2. ~Unsure(x, sid, t)
      BY <2>8, <3>1, CanTell
    <3>. QED BY <2>6a, <3>2
  <2>9. SameViews(s, x)
    BY <2>7, SameTreeViews
  <2>10. k \in DOMAIN s.nodes /\ s.nodes[k].sess = sid
    BY <2>1, <2>4 DEF Linked, IsState, None
  <2>11. k \in DOMAIN x.nodes /\ x.nodes[k].sess = sid
    BY <2>7, <2>10 DEF SameTree
  <2>12. Attached(x, {})
    BY <2>1, <2>9, SameViewsAttached
  <2>13. Sound(x)
    BY <2>8, <2>12 DEF Sound
  <2>14. CASE IsVisible(x, sid, t)
    <3>1. r = FocusInto(x, x.nodes[k].sess, k)
      BY <2>6, <2>11, <2>14
    <3>2. Kept(x, r, {}, None) /\ r.ok
      BY <2>8, <2>11, <3>1, FocusIntoKeeps
    <3>3. Done(x, r)
      BY <2>13, <3>2, KeptDone
    <3>. QED BY <3>2, <3>3 DEF Done, r
  <2>15. CASE ~IsVisible(x, sid, t)
    <3>1. r.ok = TRUE /\ r.s = x
      BY <2>6, <2>15 DEF Ok
    <3>. QED BY <2>13, <3>1 DEF Done, r
  <2>. QED BY <2>14, <2>15
<1>. QED BY <1>1, <1>2

\* New weights for a split.
LEMMA ResizeDone ==
    ASSUME NEW s, Sound(s), NEW n \in DOMAIN s.nodes, NEW sizes \in Seq(Nat)
    PROVE  Done(s, Resize(s, n, sizes))
<1> DEFINE r == Resize(s, n, sizes)
           x == [s EXCEPT !.nodes[n].sizes = sizes]
<1>1. CASE ~IsKind(s, n, "split") \/ Len(sizes) # Len(s.nodes[n].kids) \/ 0 \in ToSet(sizes)
  <2>1. r = Err(s)
    BY <1>1 DEF Resize
  <2>. QED BY <2>1, DoneErr
<1>2. CASE ~(~IsKind(s, n, "split") \/ Len(sizes) # Len(s.nodes[n].kids) \/ 0 \in ToSet(sizes))
  <2>1. r = Ok(x)
    BY <1>2 DEF Resize
  <2>2. s.nodes[n].kind = "split" /\ Len(sizes) = Len(s.nodes[n].sizes)
    BY <1>2 DEF IsKind, Sound, Forest, Shaped
  <2>3. Forest(x, {}, None) /\ SameViews(s, x)
    BY <2>2, SizesKeep DEF Sound
  <2> HIDE DEF x
  <2>4. Sound(x)
    BY <2>3, SameViewsAttached DEF Sound
  <2>5. Ok(x).ok = TRUE /\ Ok(x).s = x
    BY DEF Ok
  <2>6. Done(s, Ok(x))
    BY <2>4, <2>5 DEF Done
  <2>. QED BY <2>1, <2>6
<1>. QED BY <1>1, <1>2

\* A buffer's view is closed.
LEMMA DetachBufferDone ==
    ASSUME NEW s, Sound(s), NEW b \in DOMAIN s.buffers
    PROVE  Done(s, DetachBuffer(s, b))
<1>1. CASE s.buffers[b].att = None
  <2>1. DetachBuffer(s, b) = Ok(s)
    BY <1>1 DEF DetachBuffer
  <2>. QED BY <2>1, DoneErr
<1>2. CASE s.buffers[b].att # None
  <2>1. s.buffers[b].att \in DOMAIN s.nodes /\ Forest(s, {}, None) /\ Attached(s, {})
    BY <1>2 DEF Sound, Attached
  <2>2. DetachBuffer(s, b) = CloseNode(s, s.buffers[b].att)
    BY <1>2 DEF DetachBuffer
  <2>3. Closed(s, CloseNode(s, s.buffers[b].att), Below(s, s.buffers[b].att))
    BY <2>1, CloseNodeCloses
  <2>. QED BY <2>2, <2>3, ClosedDone
<1>. QED BY <1>1, <1>2

\* What is under a view is the view.
LEMMA BelowView ==
    ASSUME NEW s, NEW F, NEW e, Forest(s, F, e), NEW n \in DOMAIN s.nodes, s.nodes[n].kind = "view"
    PROVE  Below(s, n) = {n}
<1>1. s.nodes[n].kids = <<>>
  BY DEF Forest, Shaped
<1>2. Kids(s, n) = {}
  BY <1>1, ShortLists DEF Kids
<1>. QED BY <1>2, BelowFacts DEF Forest

\* A buffer moves into a view of the same session, out of its own.
LEMMA MoveBufferToLeafDone ==
    ASSUME NEW s, Sound(s), NEW b \in DOMAIN s.buffers, NEW leaf \in DOMAIN s.nodes
    PROVE  Done(s, MoveBufferToLeaf(s, b, leaf))
<1> DEFINE sid == s.nodes[leaf].sess
           from == s.buffers[b].att
           freed == IF from = None THEN Ok(s) ELSE CloseNode(s, from)
           x == freed.s
           t == AttachBuffer(x, b, leaf)
           q == FocusLeaf(t.s, sid, leaf)
           r == MoveBufferToLeaf(s, b, leaf)
<1>0. Forest(s, {}, None) /\ Attached(s, {})
  BY DEF Sound
<1>1. CASE ~IsKind(s, leaf, "view")
  <2>1. r = Err(s)
    BY <1>1 DEF MoveBufferToLeaf
  <2>. QED BY <2>1, DoneErr
<1>2. CASE IsKind(s, leaf, "view") /\ from = leaf
  <2>1. r = FocusLeaf(s, sid, leaf)
    BY <1>2 DEF MoveBufferToLeaf, SessionOf
  <2>2. Kept(s, r, {}, None)
    BY <1>0, <2>1, FocusLeafKeeps
  <2> HIDE DEF r
  <2>3. Done(s, r)
    BY <2>2, KeptDone
  <2>. QED BY <2>3 DEF r
<1>3. CASE IsKind(s, leaf, "view") /\ from # leaf /\ from # None /\ s.nodes[from].sess # sid
  <2>1. r = Err(s)
    BY <1>3 DEF MoveBufferToLeaf, SessionOf, AndThen, Err
  <2>. QED BY <2>1, DoneErr
<1>4. CASE IsKind(s, leaf, "view") /\ from # leaf /\ (from = None \/ s.nodes[from].sess = sid)
  <2>1. /\ freed.ok = TRUE /\ Forest(x, {}, None) /\ Attached(x, {}) /\ DOMAIN x.buffers = DOMAIN s.buffers
        /\ x.buffers[b].att = None /\ leaf \in DOMAIN x.nodes /\ x.nodes[leaf].kind = "view"
        /\ x.nodes[leaf].sess = sid
    <3>1. CASE from = None
      <4>1. freed.ok = TRUE /\ x = s
        BY <3>1 DEF Ok
      <4>. QED BY <1>0, <1>4, <3>1, <4>1 DEF IsKind
    <3>2. CASE from # None
      <4>1. from \in DOMAIN s.nodes /\ s.nodes[from].kind = "view"
        BY <1>0, <3>2 DEF Attached
      <4>2. Closed(s, CloseNode(s, from), Below(s, from))
        BY <1>0, <4>1, CloseNodeCloses
      <4>3. Below(s, from) = {from}
        BY <1>0, <4>1, BelowView
      <4>4. freed = CloseNode(s, from)
        BY <3>2
      <4> HIDE DEF freed
      <4>5. freed.ok = TRUE /\ Forest(x, {}, None) /\ CutViews(s, x, {from})
        BY <4>2, <4>3, <4>4 DEF Closed
      <4>6. Attached(x, {})
        BY <1>0, <4>5, CutViewsAttached
      <4>7. /\ DOMAIN x.buffers = DOMAIN s.buffers /\ x.buffers[b].att = None
        BY <4>5 DEF CutViews
      <4>8. leaf \in DOMAIN x.nodes /\ x.nodes[leaf].kind = "view" /\ x.nodes[leaf].sess = sid
        BY <1>4, <4>5, Zenon DEF CutViews, IsKind
      <4>. QED BY <4>5, <4>6, <4>7, <4>8
    <3>. QED BY <3>1, <3>2
  <2>2. r = IF t.ok THEN q ELSE t
    <3>1. r = AndThen(freed, LAMBDA z : AndThen(AttachBuffer(z, b, leaf), LAMBDA y : FocusLeaf(y, sid, leaf)))
      BY <1>4 DEF MoveBufferToLeaf, SessionOf
    <3>. QED BY <2>1, <3>1 DEF AndThen
  <2> HIDE DEF x
  <2>3. IsState(x) /\ None \notin DOMAIN x.nodes
    BY <2>1 DEF Forest, IsState, None
  <2>4. t.ok /\ IsState(t.s) /\ AttachedTo(x, t.s, b, leaf)
    BY <2>1, <2>3, AttachBufferIs
  <2> HIDE DEF t, r, q
  <2>5. Attached(t.s, {} \ {leaf})
    BY <2>1, <2>3, <2>4, AttachedToAttached
  <2>6. Attached(t.s, {})
    <3>1. {} \ {leaf} = {}
      OBVIOUS
    <3>. QED BY <2>5, <3>1
  <2>7. Forest(t.s, {}, None)
    BY <2>1, <2>4, LinksForest DEF AttachedTo
  <2>8. /\ leaf \in DOMAIN t.s.nodes /\ t.s.nodes[leaf].kind = "view" /\ t.s.nodes[leaf].sess = sid
    BY <2>1, <2>4 DEF AttachedTo, SameLinks
  <2>9. sid \in DOMAIN t.s.sessions
    BY <2>7, <2>8 DEF Forest, Linked
  <2>10. q.ok /\ Kept(t.s, q, {}, None)
    BY <2>7, <2>8, <2>9, FocusableIs, FocusLeafKeeps DEF q
  <2>11. Sound(t.s)
    BY <2>6, <2>7 DEF Sound
  <2>12. Done(t.s, q)
    BY <2>10, <2>11, KeptDone
  <2>13. r = q
    BY <2>2, <2>4
  <2>14. Done(s, r)
    BY <2>10, <2>12, <2>13 DEF Done
  <2>. QED BY <2>14 DEF r
<1>. QED BY <1>1, <1>2, <1>3, <1>4

-----------------------------------------------------------------------------
(* Splitting and joining *)

\* A new split of two, and a new tabs node of one.
LEMMA SplitIs ==
    ASSUME NEW sid \in Nat, NEW p \in Nat, NEW a \in Nat, NEW c \in Nat, a # c, NEW last \in Nat
    PROVE  LET y == Split(sid, p, <<a, c>>, last)
           IN  /\ y \in NodeType /\ y.kind = "split" /\ y.sess = sid /\ y.parent = p
               /\ ToSet(y.kids) = {a, c} /\ Distinct(y.kids) /\ y.active = 0 /\ y.last = last
               /\ Fits(y, 0, 2)
<1> DEFINE v == View(sid, None)
           t == Tabs(sid, p, <<a, c>>, last)
           y == Split(sid, p, <<a, c>>, last)
           ones == [i \in DOMAIN <<a, c>> |-> 1]
<1>1. /\ v \in NodeType /\ v.sess = sid /\ v.sizes = <<>> /\ v.active = 0
  BY DEF View, NodeType, None
<1>2. t = [v EXCEPT !.kind = "tabs", !.parent = p, !.kids = <<a, c>>, !.last = last]
  BY DEF Tabs
<1>3. y = [t EXCEPT !.kind = "split", !.sizes = ones]
  BY DEF Split
<1>4. <<a, c>> \in Seq(Nat) /\ Len(<<a, c>>) = 2 /\ ToSet(<<a, c>>) = {a, c} /\ Distinct(<<a, c>>)
  BY ShortLists
<1>5. ones \in Seq(Nat) /\ Len(ones) = 2
  <2>1. ones \in [1 .. 2 -> Nat]
    OBVIOUS
  <2>. QED BY <2>1, ListOf
<1> DEFINE two == <<a, c>>
<1> HIDE DEF v, ones
<1>6. t \in NodeType /\ t.sess = sid /\ t.parent = p /\ t.kids = two /\ t.active = 0 /\ t.last = last
  <2>1. t = [v EXCEPT !.kind = "tabs", !.parent = p, !.kids = two, !.last = last] /\ two \in Seq(Nat)
    BY <1>2, <1>4
  <2> HIDE DEF t, two
  <2>. QED BY <1>1, <2>1 DEF NodeType
<1> HIDE DEF t, y, two
<1>7. /\ y \in NodeType /\ y.kind = "split" /\ y.sess = sid /\ y.parent = p /\ y.kids = two
      /\ y.sizes = ones /\ y.active = 0 /\ y.last = last
  BY <1>3, <1>5, <1>6 DEF NodeType
<1>8. two \in Seq(Nat) /\ Len(two) = 2 /\ ToSet(two) = {a, c} /\ Distinct(two)
  BY <1>4 DEF two
<1>9. Fits(y, 0, 2)
  BY <1>5, <1>7, <1>8 DEF Fits
<1>. QED BY <1>7, <1>8, <1>9 DEF y, two

\* A tabs node around one node, which may have one tab for now.
LEMMA TabsIs ==
    ASSUME NEW sid \in Nat, NEW p \in Nat, NEW a \in Nat, NEW last \in Nat
    PROVE  LET y == Tabs(sid, p, <<a>>, last)
           IN  /\ y \in NodeType /\ y.kind = "tabs" /\ y.sess = sid /\ y.parent = p
               /\ ToSet(y.kids) = {a} /\ Distinct(y.kids) /\ Len(y.kids) = 1 /\ y.active = 0 /\ y.last = last
               /\ Fits(y, 1, 2)
<1> DEFINE v == View(sid, None)
           y == Tabs(sid, p, <<a>>, last)
           one == <<a>>
<1>1. /\ v \in NodeType /\ v.sess = sid /\ v.sizes = <<>> /\ v.active = 0
  BY DEF View, NodeType, None
<1>2. y = [v EXCEPT !.kind = "tabs", !.parent = p, !.kids = one, !.last = last]
  BY DEF Tabs
<1>3. one \in Seq(Nat) /\ Len(one) = 1 /\ ToSet(one) = {a} /\ Distinct(one)
  BY ShortLists
<1> HIDE DEF v, y, one
<1>4. /\ y \in NodeType /\ y.kind = "tabs" /\ y.sess = sid /\ y.parent = p /\ y.kids = one
      /\ y.sizes = <<>> /\ y.active = 0 /\ y.last = last
  BY <1>1, <1>2, <1>3 DEF NodeType
<1>5. Fits(y, 1, 2)
  <2>1. y.kind = "tabs" /\ y.sizes = <<>> /\ Len(y.kids) + 1 >= 2
    <3>1. y.kind = "tabs" /\ y.sizes = <<>> /\ y.kids = one
      BY <1>4
    <3>2. Len(y.kids) = 1
      BY <1>3, <3>1
    <3>3. Len(y.kids) + 1 >= 2
      BY <3>2
    <3>. QED BY <3>1, <3>3
  <2>2. y.kind # "view" /\ y.kind # "split"
    BY <2>1
  <2>. QED BY <2>1, <2>2 DEF Fits
<1>. QED BY <1>3, <1>4, <1>5 DEF y

\* What placing a free view gives: it is in the trees, with the views there were.
Joined(s, r) == r.ok = TRUE /\ Forest(r.s, {}, None) /\ SameViews(s, r.s)

\* A node and a free view in a split of their own.
LEMMA SplitPlaces ==
    ASSUME NEW s, NEW v, Forest(s, {v}, None), s.nodes[v].kind = "view",
           NEW n \in DOMAIN s.nodes, n # v, n \notin SessionRoots(s), s.nodes[v].sess = s.nodes[n].sess,
           Fits(s.nodes[n], 0, 2), NEW a, NEW c, {a, c} = {n, v}, a # c,
           NEW last \in Nat, last < s.nextNode, last \in DOMAIN s.nodes => s.nodes[last].kind = "view",
           NEW sid
    PROVE  LET y == Split(s.nodes[n].sess, s.nodes[n].parent, <<a, c>>, last)
               w == SetParent(SetParent(InsertNode(s, y), n, s.nextNode), v, s.nextNode)
           IN  Joined(s, RepointOwner(w, sid, s.nodes[n].parent, n, s.nextNode))
<1> DEFINE y == Split(s.nodes[n].sess, s.nodes[n].parent, <<a, c>>, last)
           w == SetParent(SetParent(InsertNode(s, y), n, s.nextNode), v, s.nextNode)
           r == RepointOwner(w, sid, s.nodes[n].parent, n, s.nextNode)
<1>1. IsState(s) /\ Rooted(s, {v}) /\ s.nodes \in [DOMAIN s.nodes -> NodeType] /\ DOMAIN s.nodes \subseteq Nat
      /\ s.nextNode \in Nat \ {0}
  BY DEF Forest, IsState
<1>2. v \in DOMAIN s.nodes
  BY <1>1 DEF Rooted
<1>3. a \in Nat /\ c \in Nat
  BY <1>1, <1>2
<1>4. s.nodes[n].sess \in Nat /\ s.nodes[n].parent \in Nat
  BY <1>1, NodeFields
<1>5. /\ y \in NodeType /\ y.kind = "split" /\ y.sess = s.nodes[n].sess /\ y.parent = s.nodes[n].parent
      /\ ToSet(y.kids) = {a, c} /\ Distinct(y.kids) /\ y.active = 0 /\ y.last = last
      /\ Fits(y, 0, 2)
  BY <1>3, <1>4, SplitIs
<1> HIDE DEF y
<1>6. IsState(w) /\ Gathered(s, w, n, {v}, y)
  BY <1>1, <1>2, <1>5, GatherTwo
<1> HIDE DEF w
<1>7. r.ok = TRUE /\ IsState(r.s) /\ Wrapped(s, r.s, n, {v}, y)
  BY <1>5, <1>6, WrappedIs
<1> HIDE DEF r
<1> DEFINE H == {}
<1>8. /\ Forest(s, {v} \cup H, None) /\ {v} \cap H = {} /\ n \notin {v} /\ n \notin H
      /\ \A u \in {v} : s.nodes[u].kids = <<>> /\ s.nodes[u].sess = s.nodes[n].sess
  <2>1. {v} \cup H = {v}
    OBVIOUS
  <2>2. s.nodes[v].kids = <<>>
    BY <1>2 DEF Forest, Shaped
  <2>. QED BY <2>1, <2>2
<1>9. ToSet(y.kids) = {v} \cup {n} /\ y.kind # "view" /\ None # s.nextNode
  BY <1>1, <1>5 DEF None
<1>10. Fits(y, IF None = s.nextNode THEN 1 ELSE 0, 2)
  BY <1>5, <1>9
<1> HIDE DEF H
<1>11. Forest(r.s, H, None) /\ SameViews(s, r.s)
  BY <1>5, <1>7, <1>8, <1>9, <1>10, WrapKeeps
<1>12. Joined(s, r)
  BY <1>7, <1>11 DEF Joined, H
<1>. QED BY <1>12 DEF r, w, y

\* Splitting a pane.
LEMMA SplitLeafDone ==
    ASSUME NEW s, Sound(s), NEW leaf \in DOMAIN s.nodes, NEW b \in DOMAIN s.buffers
    PROVE  Done(s, SplitLeaf(s, leaf, b))
<1>1. CASE ~IsKind(s, leaf, "view")
  <2>1. SplitLeaf(s, leaf, b) = Err(s)
    BY <1>1 DEF SplitLeaf
  <2>. QED BY <2>1, DoneErr
<1>2. CASE IsKind(s, leaf, "view")
  <2> DEFINE sid == s.nodes[leaf].sess
             p == s.nodes[leaf].parent
             new == s.nextNode
             split == new + 1
             c == CreateView(s, sid, b)
             x == c.s
             w == SetParent(SetParent(InsertNode(x, Split(sid, p, <<leaf, new>>, new)), leaf, split), new, split)
             o == RepointOwner(w, sid, p, leaf, split)
             q == FocusLeaf(o.s, sid, new)
             r == SplitLeaf(s, leaf, b)
  <2>1. sid \in DOMAIN s.sessions
    BY DEF Sound, Forest, Linked
  <2>2. /\ c.ok \in BOOLEAN
        /\ ~ c.ok => Undone(s, c.s)
        /\ c.ok => Forest(x, {new}, None) /\ NewView(s, x, sid, b) /\ Attached(x, {})
    BY <2>1, CreateViewIs
  <2>3. r = IF c.ok THEN (IF o.ok THEN q ELSE o) ELSE c
    BY <1>2 DEF SplitLeaf, AndThen, SessionOf
  <2> HIDE DEF c, r
  <2>4. CASE ~c.ok
    <3>1. r = c /\ c.ok = FALSE
      BY <2>2, <2>3, <2>4
    <3>. QED BY <2>2, <3>1, UndoneDone DEF r
  <2>5. CASE c.ok
    <3>1. Forest(x, {new}, None) /\ NewView(s, x, sid, b) /\ Attached(x, {})
      BY <2>2, <2>5
    <3>2. /\ x.nextNode = split /\ leaf \in DOMAIN x.nodes /\ x.nodes[leaf] = s.nodes[leaf] /\ leaf # new
          /\ new \in DOMAIN x.nodes /\ x.nodes[new].kind = "view" /\ x.nodes[new].sess = sid
          /\ x.sessions = s.sessions
      BY <3>1 DEF NewView
    <3>3. leaf \notin SessionRoots(x) /\ x.nodes[leaf].kind = "view"
      <4>1. s.nodes[leaf].kind = "view"
        BY <1>2 DEF IsKind
      <4>. QED BY <3>1, <3>2, <4>1 DEF Forest, Rooted, SessionRoots
    <3>4. Fits(x.nodes[leaf], 0, 2)
      <4>1. x.nodes[leaf].kids = <<>> /\ x.nodes[leaf].sizes = <<>>
        BY <3>1, <3>2, <3>3 DEF Forest, Shaped
      <4>. QED BY <3>3, <4>1 DEF Fits
    <3>5. new \in Nat /\ new < x.nextNode
      BY <3>1, <3>2 DEF Forest, IsState
    <3> HIDE DEF x
    <3>6. Joined(x, o)
      <4>1. {leaf, new} = {leaf, new} /\ leaf # new
        BY <3>2
      <4>2. Joined(x, RepointOwner(
               SetParent(SetParent(InsertNode(x, Split(x.nodes[leaf].sess, x.nodes[leaf].parent, <<leaf, new>>, new)),
                                   leaf, x.nextNode), new, x.nextNode),
               sid, x.nodes[leaf].parent, leaf, x.nextNode))
        BY <3>1, <3>2, <3>3, <3>4, <3>5, <4>1, SplitPlaces
      <4>. QED BY <3>2, <4>2
    <3> HIDE DEF w, o
    <3>7. o.ok = TRUE /\ Forest(o.s, {}, None) /\ SameViews(x, o.s)
      BY <3>6 DEF Joined
    <3>8. new \in DOMAIN o.s.nodes /\ o.s.nodes[new].kind = "view" /\ o.s.nodes[new].sess = sid
          /\ sid \in DOMAIN o.s.sessions
      BY <2>1, <3>2, <3>7 DEF SameViews
    <3>9. Sound(o.s)
      BY <3>1, <3>7, SameViewsAttached DEF Sound
    <3>10. q.ok /\ Kept(o.s, q, {}, None)
      BY <3>7, <3>8, FocusableIs, FocusLeafKeeps
    <3> HIDE DEF q
    <3>11. Done(o.s, q)
      BY <3>9, <3>10, KeptDone
    <3>12. r = q
      BY <2>3, <2>5, <3>7
    <3>. QED BY <3>10, <3>11, <3>12 DEF Done, r
  <2>. QED BY <2>4, <2>5
<1>. QED BY <1>1, <1>2

\* Once placed, the node may get the focus.
LEMMA JoinedFocus ==
    ASSUME NEW s, NEW r, Joined(s, r), NEW v \in DOMAIN r.s.nodes, NEW focus \in BOOLEAN
    PROVE  Joined(s, IF focus THEN FocusInto(r.s, r.s.nodes[v].sess, v) ELSE Ok(r.s))
<1> DEFINE q == FocusInto(r.s, r.s.nodes[v].sess, v)
<1>1. r.ok = TRUE /\ Forest(r.s, {}, None) /\ SameViews(s, r.s)
  BY DEF Joined
<1>2. Kept(r.s, q, {}, None) /\ q.ok
  BY <1>1, FocusIntoKeeps
<1> HIDE DEF q
<1>3. q.ok = TRUE /\ Forest(q.s, {}, None) /\ SameViews(s, q.s)
  BY <1>1, <1>2, SameTreeViews, SameViewsTrans DEF Kept
<1>4. Joined(s, q)
  BY <1>3 DEF Joined
<1>5. Joined(s, Ok(r.s))
  BY <1>1 DEF Joined, Ok
<1>. QED BY <1>4, <1>5 DEF q

\* A free view joins a node in a split. A session's root refuses.
LEMMA WrapInSplitPlaces ==
    ASSUME NEW s, NEW v, Forest(s, {v}, None), s.nodes[v].kind = "view",
           NEW n \in DOMAIN s.nodes, n # v, s.nodes[v].sess = s.nodes[n].sess,
           n \in SessionRoots(s) \/ Fits(s.nodes[n], 0, 2), NEW before \in BOOLEAN, NEW focus \in BOOLEAN
    PROVE  LET r == WrapInSplit(s, n, v, before, focus) IN r = Err(s) \/ Joined(s, r)
<1> DEFINE r == WrapInSplit(s, n, v, before, focus)
           sid == s.nodes[n].sess
           p == s.nodes[n].parent
           kids == IF before THEN <<v, n>> ELSE <<n, v>>
           y == Split(sid, p, kids, FocusCandidate(s, v))
           w == SetParent(SetParent(InsertNode(s, y), n, s.nextNode), v, s.nextNode)
           o == RepointOwner(w, sid, p, n, s.nextNode)
<1>1. IsState(s) /\ Linked(s) /\ Rooted(s, {v}) /\ DOMAIN s.nodes \subseteq 1 .. s.nextNode - 1
      /\ s.nextNode \in Nat \ {0}
  BY DEF Forest, IsState
<1>2. v \in DOMAIN s.nodes /\ s.nodes[v].parent = None /\ v \notin SessionRoots(s) /\ v \notin FloatRoots(s)
  BY <1>1 DEF Rooted
<1>3. CASE n \in SessionRoots(s)
  <2>1. r = Err(s)
    BY <1>3, IsSessionRootIs DEF WrapInSplit
  <2>. QED BY <2>1
<1>4. CASE n \notin SessionRoots(s)
  <2>1. FloatByRoot(s, v) = None /\ ~IsSessionRoot(s, v) /\ ~IsSessionRoot(s, n)
    BY <1>1, <1>2, <1>4, FloatByRootIs, IsSessionRootIs
  <2>2. r = IF o.ok THEN (IF focus THEN FocusInto(o.s, sid, v) ELSE Ok(o.s)) ELSE o
    BY <1>2, <2>1 DEF WrapInSplit, SessionOf, AndThen
  <2> DEFINE last == FocusCandidate(s, v)
  <2>3. last \in Nat /\ last < s.nextNode /\ (last \in DOMAIN s.nodes => s.nodes[last].kind = "view")
    <3>1. last \in PanesOf(s, s.nodes[v].sess)
      BY <1>2, CandidatePanes
    <3>2. None \in Nat /\ None < s.nextNode /\ None \notin DOMAIN s.nodes
      BY <1>1 DEF None
    <3>3. \A m \in DOMAIN s.nodes : m \in Nat /\ m < s.nextNode
      BY <1>1
    <3> HIDE DEF last
    <3>. QED BY <3>1, <3>2, <3>3 DEF PanesOf
  <2> HIDE DEF last
  <2>4. Joined(s, o)
    <3>1. {v, n} = {n, v} /\ {n, v} = {n, v} /\ v # n
      OBVIOUS
    <3>2. CASE before
      <4>1. Joined(s, RepointOwner(SetParent(SetParent(InsertNode(s, Split(sid, p, <<v, n>>, last)),
                        n, s.nextNode), v, s.nextNode), sid, p, n, s.nextNode))
        BY <1>4, <2>3, <3>1, SplitPlaces
      <4>. QED BY <3>2, <4>1 DEF last
    <3>3. CASE ~before
      <4>1. Joined(s, RepointOwner(SetParent(SetParent(InsertNode(s, Split(sid, p, <<n, v>>, last)),
                        n, s.nextNode), v, s.nextNode), sid, p, n, s.nextNode))
        BY <1>4, <2>3, <3>1, SplitPlaces
      <4>. QED BY <3>3, <4>1 DEF last
    <3>. QED BY <3>2, <3>3
  <2> HIDE DEF o, r
  <2>5. o.ok = TRUE /\ v \in DOMAIN o.s.nodes /\ o.s.nodes[v].sess = sid
    BY <1>2, <2>4 DEF Joined, SameViews
  <2>6. Joined(s, IF focus THEN FocusInto(o.s, o.s.nodes[v].sess, v) ELSE Ok(o.s))
    BY <2>4, <2>5, JoinedFocus
  <2>7. r = IF focus THEN FocusInto(o.s, o.s.nodes[v].sess, v) ELSE Ok(o.s)
    BY <2>2, <2>5
  <2>8. Joined(s, r)
    BY <2>6, <2>7
  <2>. QED BY <2>8 DEF r
<1>. QED BY <1>3, <1>4

\* A node gets a tabs node around it.
LEMMA WrapInTabsPlaces ==
    ASSUME NEW s, NEW V, Forest(s, V, None), NEW n \in DOMAIN s.nodes, n \notin V, n \notin SessionRoots(s),
           Fits(s.nodes[n], 0, 2)
    PROVE  LET r == WrapInTabs(s, n)
               new == s.nextNode
           IN  /\ r.ok = TRUE /\ Forest(r.s, V, new) /\ SameViews(s, r.s)
               /\ new \in DOMAIN r.s.nodes /\ r.s.nodes[new].kind = "tabs"
               /\ r.s.nodes[new].sess = s.nodes[n].sess /\ Len(r.s.nodes[new].kids) = 1
               /\ r.s.nodes[new].parent = s.nodes[n].parent
<1> DEFINE y == Tabs(s.nodes[n].sess, s.nodes[n].parent, <<n>>, s.nodes[n].last)
           w == SetParent(InsertNode(s, y), n, s.nextNode)
           r == RepointOwner(w, s.nodes[n].sess, s.nodes[n].parent, n, s.nextNode)
           new == s.nextNode
<1>1. IsState(s) /\ Remembered(s) /\ s.nodes \in [DOMAIN s.nodes -> NodeType] /\ DOMAIN s.nodes \subseteq Nat
      /\ s.nextNode \in Nat \ {0}
  BY DEF Forest, IsState
<1>2. s.nodes[n].sess \in Nat /\ s.nodes[n].parent \in Nat /\ s.nodes[n].last \in Nat
  BY <1>1, NodeFields
<1>3. /\ y \in NodeType /\ y.kind = "tabs" /\ y.sess = s.nodes[n].sess /\ y.parent = s.nodes[n].parent
      /\ ToSet(y.kids) = {n} /\ Distinct(y.kids) /\ Len(y.kids) = 1 /\ y.active = 0
      /\ y.last = s.nodes[n].last /\ Fits(y, 1, 2)
  <2> DEFINE sid == s.nodes[n].sess
             p == s.nodes[n].parent
             last == s.nodes[n].last
  <2>1. sid \in Nat /\ p \in Nat /\ last \in Nat /\ n \in Nat
    BY <1>1, <1>2
  <2> HIDE DEF sid, p, last, y
  <2>2. y = Tabs(sid, p, <<n>>, last)
    BY DEF y, sid, p, last
  <2>3. /\ y \in NodeType /\ y.kind = "tabs" /\ y.sess = sid /\ y.parent = p
        /\ ToSet(y.kids) = {n} /\ Distinct(y.kids) /\ Len(y.kids) = 1 /\ y.active = 0
        /\ y.last = last /\ Fits(y, 1, 2)
    <3>1. y \in NodeType
      BY <2>1, <2>2, TabsIs
    <3>2. y.kind = "tabs" /\ y.sess = sid /\ y.parent = p
      BY <2>1, <2>2, TabsIs
    <3>3. ToSet(y.kids) = {n} /\ Distinct(y.kids)
      <4>1. Distinct(y.kids)
        BY <2>1, <2>2, TabsIs
      <4>2. \A m : m \in ToSet(y.kids) <=> m = n
        <5>1. y.kids = <<n>>
          BY <2>2 DEF Tabs, View
        <5>. QED BY <2>1, <5>1, ShortLists
      <4>. QED BY <4>1, <4>2
    <3>4. Len(y.kids) = 1 /\ y.active = 0 /\ y.last = last
      BY <2>1, <2>2, TabsIs
    <3>5. Fits(y, 1, 2)
      BY <2>1, <2>2, TabsIs
    <3>. QED BY <3>1, <3>2, <3>3, <3>4, <3>5
  <2>. QED BY <2>3 DEF sid, p, last
<1>4. WrapInTabs(s, n) = r
  BY DEF WrapInTabs, SessionOf
<1> HIDE DEF y
<1> DEFINE F == {}
<1>5. IsState(w) /\ Gathered(s, w, n, F, y)
  BY <1>1, <1>3, GatherOne
<1> HIDE DEF w
<1>6. r.ok = TRUE /\ IsState(r.s) /\ Wrapped(s, r.s, n, F, y)
  BY <1>3, <1>5, WrappedIs
<1>7. /\ Forest(s, F \cup V, None) /\ F \cap V = {} /\ n \notin F
      /\ \A u \in F : s.nodes[u].kids = <<>> /\ s.nodes[u].sess = s.nodes[n].sess
      /\ ToSet(y.kids) = F \cup {n} /\ y.kind # "view"
  <2>1. F \cup V = V /\ F \cup {n} = {n}
    OBVIOUS
  <2>. QED BY <1>3, <2>1
<1>8. /\ y.last < s.nextNode /\ (y.last \in DOMAIN s.nodes => s.nodes[y.last].kind = "view")
  BY <1>1, <1>3 DEF Remembered
<1>9. Fits(y, IF new = s.nextNode THEN 1 ELSE 0, 2) /\ new \in {None, s.nextNode}
  BY <1>3
<1> HIDE DEF F, r
<1>10. Forest(r.s, V, new) /\ SameViews(s, r.s)
  BY <1>3, <1>6, <1>7, <1>8, <1>9, WrapKeeps
<1>11. /\ new \in DOMAIN r.s.nodes /\ r.s.nodes[new].kind = "tabs"
       /\ r.s.nodes[new].sess = s.nodes[n].sess /\ Len(r.s.nodes[new].kids) = 1
       /\ r.s.nodes[new].parent = s.nodes[n].parent
  BY <1>3, <1>6, Zenon DEF Wrapped
<1>. QED BY <1>4, <1>6, <1>10, <1>11

\* A popup gets a tabs node around what it shows.
LEMMA WrapPopupDone ==
    ASSUME NEW s, Sound(s), NEW n \in DOMAIN s.nodes, n \in FloatRoots(s), Fits(s.nodes[n], 0, 2)
    PROVE  Done(s, WrapInTabs(s, n))
<1> DEFINE r == WrapInTabs(s, n)
           x == r.s
           new == s.nextNode
<1>1. Forest(s, {}, None) /\ Attached(s, {}) /\ Rooted(s, {}) /\ IsState(s)
  BY DEF Sound, Forest
<1>2. n \notin SessionRoots(s) /\ s.nodes[n].parent = None /\ new # None
  BY <1>1 DEF Rooted, FloatRoots, IsState, None
<1>3. /\ r.ok = TRUE /\ Forest(x, {}, new) /\ SameViews(s, x) /\ new \in DOMAIN x.nodes
      /\ x.nodes[new].kind = "tabs" /\ Len(x.nodes[new].kids) = 1 /\ x.nodes[new].parent = None
  <2>1. n \notin {}
    OBVIOUS
  <2>. QED BY <1>1, <1>2, <2>1, WrapInTabsPlaces
<1> HIDE DEF r
<1>4. x.nodes \in [DOMAIN x.nodes -> NodeType] /\ Shaped(x, new) /\ Trunk(x, {}) /\ None \notin DOMAIN x.nodes
  BY <1>3, ForestIs DEF Forest, IsState, None
<1>5. Least(x, new) <= 1 /\ Least(x, new) \in Nat
  BY <1>3 DEF Forest, Rooted, Least
<1>6. \A m \in DOMAIN x.nodes : Fits(x.nodes[m], IF m = None THEN 1 ELSE 0, Least(x, m))
  <2>1. TAKE m \in DOMAIN x.nodes
  <2>2. Fits(x.nodes[m], IF m = new THEN 1 ELSE 0, Least(x, m))
    BY <1>4, ShapedIs
  <2>3. CASE m = new
    <3>1. 1 + 0 >= Least(x, m)
      BY <1>5, <2>3
    <3>. QED BY <1>3, <1>4, <2>2, <2>3, <3>1 DEF Fits
  <2>4. CASE m # new
    BY <1>4, <2>2, <2>4
  <2>. QED BY <2>3, <2>4
<1>7. Shaped(x, None)
  BY <1>4, <1>6, ShapedIs
<1>8. Sound(x)
  BY <1>1, <1>3, <1>4, <1>7, ForestIs, SameViewsAttached DEF Sound
<1>. QED BY <1>3, <1>8 DEF Done, r

\* What is placed among tabs.
LEMMA AddTabJoins ==
    ASSUME NEW s, NEW e, NEW v, Forest(s, {v}, e), s.nodes[v].kind = "view", NEW t \in DOMAIN s.nodes, t # v,
           s.nodes[t].kind = "tabs", s.nodes[v].sess = s.nodes[t].sess,
           NEW index \in Nat, index <= Len(s.nodes[t].kids), NEW focus \in BOOLEAN, e \in {None, t}
    PROVE  Joined(s, AddTab(s, t, index, v, focus))
<1> DEFINE r == AddTab(s, t, index, v, focus)
<1>1. v \in DOMAIN s.nodes
  BY DEF Forest, Rooted
<1>2. Below(s, v) = {v}
  BY <1>1, BelowView
<1>3. t \notin Below(s, v)
  BY <1>2
<1>4. TabPlaced(s, r, t, index, v, e)
  BY <1>3, AddTabPlaces
<1> HIDE DEF r
<1>5. r.ok = TRUE /\ Placed(s, r.s, None)
  BY <1>4 DEF TabPlaced
<1>6. Joined(s, r)
  BY <1>5 DEF Joined, Placed
<1>. QED BY <1>6 DEF r

\* A free view joins a node as a tab.
LEMMA JoinTabPlaces ==
    ASSUME NEW s, NEW v, Forest(s, {v}, None), s.nodes[v].kind = "view",
           NEW n \in DOMAIN s.nodes, n # v, s.nodes[v].sess = s.nodes[n].sess,
           NEW before \in BOOLEAN, NEW focus \in BOOLEAN
    PROVE  Joined(s, JoinTab(s, n, v, before, focus))
<1> DEFINE r == JoinTab(s, n, v, before, focus)
           p == s.nodes[n].parent
           beside == IF before THEN 0 ELSE 1
           own == Len(s.nodes[n].kids)
           after == s.nodes[n].active + beside
           new == s.nextNode
<1>1. IsState(s) /\ Linked(s) /\ Rooted(s, {v}) /\ Shaped(s, None) /\ s.nodes \in [DOMAIN s.nodes -> NodeType]
      /\ new \notin DOMAIN s.nodes /\ None \notin DOMAIN s.nodes
  BY DEF Forest, IsState, None
<1>2. beside \in Nat /\ own \in Nat /\ after \in Nat
  BY <1>1, NodeFields
<1>3. v \in DOMAIN s.nodes
  BY <1>1 DEF Rooted
<1>4. CASE IsKind(s, n, "tabs")
  <2> DEFINE index == IF after < own THEN after ELSE own
  <2>1. index \in Nat /\ index <= own
    BY <1>2
  <2>2. r = AddTab(s, n, index, v, focus)
    <3>1. <<n, index>>[1] = n /\ <<n, index>>[2] = index /\ n # new
      BY <1>1
    <3>. QED BY <1>4, <3>1 DEF JoinTab, AndThen, Ok
  <2> HIDE DEF index
  <2>3. Joined(s, AddTab(s, n, index, v, focus))
    BY <1>4, <2>1, AddTabJoins DEF IsKind
  <2>. QED BY <2>2, <2>3
<1>5. CASE ~IsKind(s, n, "tabs") /\ IsKind(s, p, "tabs")
  <2> DEFINE index == Position(s.nodes[p].kids, n) + beside
  <2>0. p # None /\ p \in DOMAIN s.nodes /\ s.nodes[p].kind = "tabs"
    BY <1>1, <1>5 DEF IsKind
  <2>1. n \in Kids(s, p) /\ s.nodes[p].sess = s.nodes[n].sess
    BY <1>1, <2>0 DEF Linked
  <2>2. s.nodes[p].kids \in Seq(Nat)
    BY <1>1, <2>0, NodeFields
  <2>3. Position(s.nodes[p].kids, n) \in 0 .. Len(s.nodes[p].kids) - 1
    BY <2>1, <2>2, PositionIs DEF Kids
  <2>4. index \in Nat /\ index <= Len(s.nodes[p].kids)
    <3> DEFINE size == Len(s.nodes[p].kids)
               at == Position(s.nodes[p].kids, n)
    <3>1. size \in Nat /\ at \in 0 .. size - 1
      BY <2>2, <2>3
    <3> HIDE DEF size, at
    <3>2. at + beside \in Nat /\ at + beside <= size
      BY <3>1
    <3>. QED BY <3>2 DEF size, at
  <2>5. r = AddTab(s, p, index, v, focus)
    <3>1. <<p, index>>[1] = p /\ <<p, index>>[2] = index /\ p # new
      BY <1>1, <2>0
    <3>. QED BY <1>5, <3>1 DEF JoinTab, AndThen, Ok
  <2> HIDE DEF index
  <2>6. p # v
    <3>1. s.nodes[v].kind # "tabs"
      OBVIOUS
    <3>. QED BY <2>0, <3>1
  <2>7. Joined(s, AddTab(s, p, index, v, focus))
    BY <2>0, <2>1, <2>4, <2>6, AddTabJoins
  <2>. QED BY <2>5, <2>7
<1>6. CASE ~IsKind(s, n, "tabs") /\ ~IsKind(s, p, "tabs")
  <2> DEFINE o == WrapInTabs(s, n)
             a == AddTab(o.s, new, beside, v, focus)
  <2>1. r = IF o.ok THEN a ELSE o
    <3>1. <<new, beside>>[1] = new /\ <<new, beside>>[2] = beside
      OBVIOUS
    <3>. QED BY <1>6, <3>1 DEF JoinTab, AndThen
  <2>2. n \notin SessionRoots(s)
    BY <1>1, <1>6 DEF Rooted, SessionRoots, IsKind
  <2>3. Fits(s.nodes[n], 0, 2)
    <3>1. \A m \in DOMAIN s.nodes : Fits(s.nodes[m], IF m = None THEN 1 ELSE 0, Least(s, m))
      BY <1>1, ShapedIs
    <3>2. Fits(s.nodes[n], 0, Least(s, n))
      BY <1>1, <3>1
    <3>. QED BY <1>6, <3>2 DEF Fits, IsKind
  <2>4. /\ o.ok = TRUE /\ Forest(o.s, {v}, new) /\ SameViews(s, o.s)
        /\ new \in DOMAIN o.s.nodes /\ o.s.nodes[new].kind = "tabs"
        /\ o.s.nodes[new].sess = s.nodes[n].sess /\ Len(o.s.nodes[new].kids) = 1
    <3>1. n \notin {v}
      OBVIOUS
    <3>. QED BY <2>2, <2>3, <3>1, WrapInTabsPlaces
  <2> HIDE DEF o
  <2>5. v \in DOMAIN o.s.nodes /\ o.s.nodes[v].kind = "view" /\ o.s.nodes[v].sess = s.nodes[n].sess
    BY <1>3, <2>4 DEF SameViews
  <2>6. new # v /\ beside <= 1
    BY <1>1, <1>3
  <2> HIDE DEF beside
  <2>7. Joined(o.s, a)
    BY <1>2, <2>4, <2>5, <2>6, AddTabJoins
  <2> HIDE DEF a
  <2>8. Joined(s, a)
    BY <2>4, <2>7, SameViewsTrans DEF Joined
  <2>. QED BY <2>1, <2>4, <2>8
<1>. QED BY <1>4, <1>5, <1>6

\* A buffer that has no view any more takes one that was made for it.
LEMMA ReattachKeeps ==
    ASSUME NEW s, Forest(s, {}, None), NEW v, Attached(s, {v}), v \in DOMAIN s.nodes,
           s.nodes[v].kind = "view", NEW b \in DOMAIN s.buffers, s.nodes[v].buf = b,
           s.buffers[b].att = None
    PROVE  Sound([s EXCEPT !.buffers[b].att = v, !.buffers[b].ever = TRUE])
<1> DEFINE x == [s EXCEPT !.buffers[b].att = v, !.buffers[b].ever = TRUE]
<1>1. /\ IsState(s) /\ Shape(s) /\ v \in Nat /\ s.buffers \in [DOMAIN s.buffers -> BufferType]
      /\ DOMAIN s.buffers \subseteq Buffers /\ None \notin DOMAIN s.nodes
  BY DEF Forest, IsState, None
<1>2. /\ Shape(x) /\ x.nodes = s.nodes /\ x.sessions = s.sessions /\ x.floats = s.floats
      /\ x.nextNode = s.nextNode /\ x.nextSession = s.nextSession /\ x.nextFloat = s.nextFloat
  BY <1>1 DEF Shape
<1>3. /\ DOMAIN x.buffers = DOMAIN s.buffers
      /\ x.buffers = [s.buffers EXCEPT ![b] = [s.buffers[b] EXCEPT !.att = v, !.ever = TRUE]]
  BY <1>1 DEF Shape, BufferType
<1>4. \A y \in DOMAIN s.buffers : x.buffers[y].att = IF y = b THEN v ELSE s.buffers[y].att
  BY <1>1, <1>3 DEF BufferType
<1>5. x.buffers \in [DOMAIN x.buffers -> BufferType]
  <2> DEFINE y == [s.buffers[b] EXCEPT !.att = v, !.ever = TRUE]
  <2>1. y \in BufferType
    BY <1>1 DEF BufferType
  <2>2. x.buffers = [s.buffers EXCEPT ![b] = y]
    BY <1>3
  <2> HIDE DEF y, x
  <2>. QED BY <1>1, <1>3, <2>1, <2>2
<1> HIDE DEF x
<1>6. IsState(x)
  BY <1>1, <1>2, <1>3, <1>5 DEF IsState
<1>7. SameLinks(s, x)
  BY <1>2 DEF SameLinks
<1>8. Forest(x, {}, None)
  BY <1>6, <1>7, LinksForest
<1>9. Attached(x, {})
  BY <1>1, <1>2, <1>3, <1>4 DEF Attached
<1>. QED BY <1>8, <1>9 DEF Sound, x

\* What placing the view of a buffer comes to, once the buffer has left its own.
LEMMA MovedDone ==
    ASSUME NEW s, NEW x, NEW y, NEW b \in DOMAIN x.buffers, NEW from, NEW v, NEW sid, from # v,
           Attached(x, {v}), v \in DOMAIN x.nodes, x.nodes[v].kind = "view", x.nodes[v].buf = b,
           Forest(y, {}, None), SameViews(x, y), x.buffers[b].att = from, from # None,
           sid \in DOMAIN y.sessions
    PROVE  LET c == CloseNode(y, from)
               w == [c.s EXCEPT !.buffers[b].att = v, !.buffers[b].ever = TRUE]
           IN  c.ok = TRUE /\ Done(s, CheckZoom(w, sid))
<1> DEFINE c == CloseNode(y, from)
           w == [c.s EXCEPT !.buffers[b].att = v, !.buffers[b].ever = TRUE]
           q == NormalizeZoom(w, sid)
<1>1. Attached(y, {v}) /\ y.buffers = x.buffers
  BY SameViewsAttached DEF SameViews
<1>2. from \in DOMAIN y.nodes /\ y.nodes[from].kind = "view"
  BY <1>1 DEF Attached
<1>3. Closed(y, c, Below(y, from))
  BY <1>1, <1>2, CloseNodeCloses
<1>4. Below(y, from) = {from}
  BY <1>2, BelowView
<1> HIDE DEF c
<1>5. c.ok = TRUE /\ Forest(c.s, {}, None) /\ CutViews(y, c.s, {from})
  BY <1>3, <1>4 DEF Closed
<1>6. Attached(c.s, {v})
  BY <1>1, <1>5, CutViewsAttached
<1>7. v \in DOMAIN y.nodes /\ y.nodes[v].kind = "view" /\ y.nodes[v].buf = b
  BY DEF SameViews
<1>8. /\ v \in DOMAIN c.s.nodes /\ c.s.nodes[v].kind = "view" /\ c.s.nodes[v].buf = b
      /\ b \in DOMAIN c.s.buffers /\ c.s.buffers[b].att = None /\ sid \in DOMAIN c.s.sessions
  BY <1>1, <1>5, <1>7 DEF CutViews
<1>9. Sound(w)
  BY <1>5, <1>6, <1>8, ReattachKeeps, Zenon
<1>9a. sid \in DOMAIN w.sessions
  BY <1>5, <1>8 DEF Forest, IsState, Shape
<1> HIDE DEF w
<1>9b. CheckZoom(w, sid) = Ok(q)
  BY <1>9, <1>9a, CheckZoomIs DEF Sound
<1>10. Forest(q, {}, None) /\ SameTree(w, q)
  BY <1>9, <1>9a, NormalizeZoomKeeps DEF Sound
<1> HIDE DEF q
<1>11. Sound(q)
  BY <1>9, <1>10, SameTreeViews, SameViewsAttached DEF Sound
<1>12. Done(s, CheckZoom(w, sid))
  BY <1>9b, <1>11 DEF Done, Ok
<1>. QED BY <1>5, <1>12 DEF w, c

\* Where a join puts a free view, in a split or among tabs.
JoinedAt(x, n, v, place, focus) ==
    IF place \in {"before", "after"} THEN WrapInSplit(x, n, v, place \in {"before", "tabBefore"}, focus)
    ELSE JoinTab(x, n, v, place \in {"before", "tabBefore"}, focus)

\* A free view joins a node, or is refused with nothing changed.
LEMMA JoinPlaces ==
    ASSUME NEW x, NEW v, Forest(x, {v}, None), x.nodes[v].kind = "view",
           NEW n \in DOMAIN x.nodes, n # v, x.nodes[v].sess = x.nodes[n].sess, NEW place,
           place \in {"before", "after"} => n \in SessionRoots(x) \/ Fits(x.nodes[n], 0, 2),
           NEW focus \in BOOLEAN
    PROVE  LET q == JoinedAt(x, n, v, place, focus) IN q = Err(x) \/ Joined(x, q)
<1> DEFINE before == place \in {"before", "tabBefore"}
<1>1. before \in BOOLEAN
  OBVIOUS
<1> HIDE DEF before
<1>2. CASE place \in {"before", "after"}
  <2>1. JoinedAt(x, n, v, place, focus) = WrapInSplit(x, n, v, before, focus)
    BY <1>2 DEF JoinedAt, before
  <2>2. WrapInSplit(x, n, v, before, focus) = Err(x) \/ Joined(x, WrapInSplit(x, n, v, before, focus))
    BY <1>1, <1>2, WrapInSplitPlaces
  <2>. QED BY <2>1, <2>2
<1>3. CASE place \notin {"before", "after"}
  <2>1. JoinedAt(x, n, v, place, focus) = JoinTab(x, n, v, before, focus)
    BY <1>3 DEF JoinedAt, before
  <2>2. Joined(x, JoinTab(x, n, v, before, focus))
    BY <1>1, JoinTabPlaces
  <2>. QED BY <2>1, <2>2
<1>. QED BY <1>2, <1>3

\* What was placed, once the zoom is in order.
LEMMA ZoomedDone ==
    ASSUME NEW s, NEW x, Forest(x, {}, None), Attached(x, {}), NEW sid \in DOMAIN x.sessions
    PROVE  Done(s, CheckZoom(x, sid))
<1> DEFINE q == NormalizeZoom(x, sid)
<1>0. CheckZoom(x, sid) = Ok(q)
  BY CheckZoomIs
<1>1. Forest(q, {}, None) /\ SameTree(x, q)
  BY NormalizeZoomKeeps
<1> HIDE DEF q
<1>2. Sound(q)
  BY <1>1, SameTreeViews, SameViewsAttached DEF Sound
<1>. QED BY <1>0, <1>2 DEF Done, Ok

\* A search for a pane meets no node that is gone.
LEMMA CandidateThere ==
    ASSUME NEW s, NEW F, NEW e, Forest(s, F, e), NEW n \in DOMAIN s.nodes
    PROVE  FocusCandidate(s, n) # Gone
<1>1. FocusCandidate(s, n) \in PanesOf(s, s.nodes[n].sess)
  BY CandidatePanes
<1>2. \A m \in DOMAIN s.nodes : m \in Nat
  BY DEF Forest, IsState
<1>. QED BY <1>1, <1>2 DEF PanesOf, Gone, None

\* Anything but a tabs node can get one around it.
LEMMA OtherWraps ==
    ASSUME NEW s, NEW V, Forest(s, V, None), NEW n \in DOMAIN s.nodes, n \notin V, ~IsKind(s, n, "tabs")
    PROVE  WrapInTabs(s, n).ok = TRUE
<1>1. IsState(s) /\ Rooted(s, V) /\ Shaped(s, None) /\ s.nodes \in [DOMAIN s.nodes -> NodeType]
      /\ None \notin DOMAIN s.nodes
  BY DEF Forest, IsState, None
<1>2. n \notin SessionRoots(s)
  BY <1>1 DEF Rooted, SessionRoots, IsKind
<1>3. Fits(s.nodes[n], 0, 2)
  <2>1. \A m \in DOMAIN s.nodes : Fits(s.nodes[m], IF m = None THEN 1 ELSE 0, Least(s, m))
    BY <1>1, ShapedIs
  <2>2. Fits(s.nodes[n], 0, Least(s, n))
    BY <1>1, <2>1
  <2>. QED BY <2>2 DEF Fits, IsKind
<1>. QED BY <1>2, <1>3, WrapInTabsPlaces

\* A buffer joins a node, with its view or with a new one, and is refused or
\* placed as a whole.
LEMMA JoinBufferDone ==
    ASSUME NEW s, Sound(s), NEW n \in DOMAIN s.nodes, NEW b \in DOMAIN s.buffers, NEW place,
           place \in {"before", "after"} => n \in SessionRoots(s) \/ Fits(s.nodes[n], 0, 2)
    PROVE  Done(s, JoinBuffer(s, n, b, place))
<1> DEFINE sid == s.nodes[n].sess
           from == s.buffers[b].att
           v == s.nextNode
           focus == IsVisible(s, sid, n)
           c == IF from = None THEN CreateView(s, sid, b) ELSE Ok(InsertNode(s, View(sid, b)))
           x == c.s
           q == JoinedAt(x, n, v, place, focus)
           y == q.s
           k == CloseNode(y, from)
           w == [k.s EXCEPT !.buffers[b].att = v, !.buffers[b].ever = TRUE]
           m == IF from = None THEN Ok(y) ELSE IF k.ok THEN Ok(w) ELSE Err(CloseNode(k.s, v).s)
           wraps == /\ place \in {"tabBefore", "tabAfter"}
                    /\ ~IsKind(s, n, "tabs") /\ ~IsKind(s, s.nodes[n].parent, "tabs")
           r == JoinBuffer(s, n, b, place)
<1>0. Forest(s, {}, None) /\ Attached(s, {}) /\ sid \in DOMAIN s.sessions
  BY DEF Sound, Forest, Linked
<1>0a. ~Unsure(s, sid, n)
  BY <1>0, CanTell
<1>1. CASE from # None /\ (s.nodes[from].sess # sid \/ n \in ToSet(PathUp(s, from)))
  <2>1. r = Err(s)
    BY <1>1 DEF JoinBuffer, SessionOf
  <2>. QED BY <2>1, DoneErr
<1>2. CASE ~(from # None /\ (s.nodes[from].sess # sid \/ n \in ToSet(PathUp(s, from))))
  <2>1a. r = IF ~c.ok THEN c
             ELSE IF wraps /\ FocusCandidate(x, n) = Gone THEN Err(x)
             ELSE IF wraps /\ ~WrapInTabs(x, n).ok THEN Err(WrapInTabs(x, n).s)
             ELSE IF ~q.ok THEN Err(DiscardView(y, v))
             ELSE IF m.ok THEN CheckZoom(m.s, sid) ELSE m
    <3> DEFINE P(a) == JoinedAt(a, n, v, place, focus)
               O(a) == OrElse(P(a), LAMBDA d : Err(DiscardView(d, v)))
               K(a) == OrElse(CloseNode(a, from), LAMBDA d : Err(CloseNode(d, v).s))
               N(a) == IF from = None THEN Ok(a)
                       ELSE AndThen(K(a),
                                    LAMBDA d : Ok([d EXCEPT !.buffers[b].att = v, !.buffers[b].ever = TRUE]))
               Z(a) == AndThen(N(a), LAMBDA d : CheckZoom(d, sid))
               S(a) == AndThen(O(a), LAMBDA d : Z(d))
               R(a) == IF wraps /\ FocusCandidate(a, n) = Gone THEN Err(a)
                       ELSE IF wraps /\ ~WrapInTabs(a, n).ok THEN Err(WrapInTabs(a, n).s)
                       ELSE S(a)
    <3>1. r = AndThen(c, LAMBDA a : R(a))
      BY <1>0a, <1>2 DEF JoinBuffer, SessionOf, JoinedAt
    <3>2. r = IF c.ok THEN R(x) ELSE c
      BY <3>1, Zenon DEF AndThen
    <3>3. O(x) = IF q.ok THEN q ELSE Err(DiscardView(y, v))
      BY DEF OrElse
    <3>4. ASSUME NEW a PROVE Z(a) = IF N(a).ok THEN CheckZoom(N(a).s, sid) ELSE N(a)
      BY DEF AndThen
    <3>5. N(y) = m
      <4>1. K(y) = IF k.ok THEN k ELSE Err(CloseNode(k.s, v).s)
        BY DEF OrElse
      <4>2. N(y) = IF from = None THEN Ok(y)
                   ELSE IF K(y).ok THEN Ok([K(y).s EXCEPT !.buffers[b].att = v, !.buffers[b].ever = TRUE])
                   ELSE K(y)
        BY DEF AndThen
      <4>3. Err(CloseNode(k.s, v).s).ok = FALSE
        BY DEF Err
      <4> HIDE DEF K, k
      <4>. QED BY <4>1, <4>2, <4>3
    <3>6. S(x) = IF O(x).ok THEN Z(O(x).s) ELSE O(x)
      BY DEF AndThen
    <3>7. Err(DiscardView(y, v)).ok = FALSE
      BY DEF Err
    <3>8. S(x) = IF q.ok THEN (IF m.ok THEN CheckZoom(m.s, sid) ELSE m) ELSE Err(DiscardView(y, v))
      <4> HIDE DEF R, Z, N, O, S, q, y, c, m, r
      <4>. QED BY <3>3, <3>4, <3>5, <3>6, <3>7 DEF y
    <3>9. R(x) = IF wraps /\ FocusCandidate(x, n) = Gone THEN Err(x)
                 ELSE IF wraps /\ ~WrapInTabs(x, n).ok THEN Err(WrapInTabs(x, n).s)
                 ELSE S(x)
      OBVIOUS
    <3> HIDE DEF R, S, q, y, c, m, r, wraps
    <3>. QED BY <3>2, <3>8, <3>9
  <2>2. /\ c.ok \in BOOLEAN
        /\ ~ c.ok => Undone(s, c.s)
        /\ c.ok => /\ Forest(x, {v}, None) /\ NewView(s, x, sid, b) /\ DOMAIN x.buffers = DOMAIN s.buffers
                   /\ Attached(x, IF from = None THEN {} ELSE {v})
                   /\ \A a \in DOMAIN s.buffers :
                        \/ x.buffers[a].att = s.buffers[a].att
                        \/ a = b /\ x.buffers[a].att = v /\ s.buffers[a].att = None
    <3>1. CASE from = None
      <4>1. c = CreateView(s, sid, b) /\ (IF from = None THEN {} ELSE {v}) = {}
        BY <3>1
      <4>2. LET d == CreateView(s, sid, b)
            IN  /\ d.ok \in BOOLEAN
                /\ ~ d.ok => Undone(s, d.s)
                /\ d.ok => /\ Forest(d.s, {s.nextNode}, None) /\ NewView(s, d.s, sid, b)
                           /\ Attached(d.s, {})
                           /\ s.buffers[b].att = None /\ DOMAIN d.s.buffers = DOMAIN s.buffers
                           /\ \A a \in DOMAIN s.buffers :
                                d.s.buffers[a].att = IF a = b THEN s.nextNode ELSE s.buffers[a].att
        BY <1>0, CreateViewIs
      <4> HIDE DEF c
      <4>. QED BY <4>1, <4>2
    <3>2. CASE from # None
      <4>1. x = InsertNode(s, View(sid, b)) /\ c.ok = TRUE /\ (IF from = None THEN {} ELSE {v}) = {v}
        BY <3>2 DEF Ok
      <4>2. LET d == InsertNode(s, View(sid, b))
            IN  /\ Forest(d, {s.nextNode}, None) /\ NewView(s, d, sid, b) /\ d.buffers = s.buffers
                /\ Attached(d, {s.nextNode})
        BY <1>0, InsertViewIs
      <4> HIDE DEF c
      <4>. QED BY <4>1, <4>2
    <3>. QED BY <3>1, <3>2, Zenon
  <2>3. focus \in BOOLEAN
    BY DEF IsVisible
  <2> HIDE DEF c, r, focus
  <2>1. /\ ~c.ok => r = c
        /\ c.ok /\ ~q.ok => r = Err(DiscardView(y, v))
        /\ c.ok /\ q.ok => r = IF m.ok THEN CheckZoom(m.s, sid) ELSE m
    <3>1. ASSUME c.ok PROVE ~(wraps /\ FocusCandidate(x, n) = Gone) /\ ~(wraps /\ ~WrapInTabs(x, n).ok)
      <4>1. Forest(x, {v}, None) /\ n \in DOMAIN x.nodes /\ n # v /\ x.nodes[n] = s.nodes[n]
        BY <2>2, <3>1 DEF NewView
      <4>2. FocusCandidate(x, n) # Gone
        BY <4>1, CandidateThere
      <4>3. ~IsKind(s, n, "tabs") => WrapInTabs(x, n).ok = TRUE
        <5>1. ~IsKind(s, n, "tabs") => ~IsKind(x, n, "tabs")
          BY <4>1 DEF IsKind
        <5>2. n \notin {v}
          BY <4>1
        <5>. QED BY <4>1, <5>1, <5>2, OtherWraps
      <4>. QED BY <4>2, <4>3
    <3> HIDE DEF q, y, m, wraps, x
    <3>. QED BY <2>1a, <3>1
  <2>4. CASE ~c.ok
    <3>1. r = c /\ c.ok = FALSE
      BY <2>1, <2>2, <2>4, Zenon
    <3>. QED BY <2>2, <3>1, UndoneDone DEF r
  <2>5. CASE c.ok
    <3>1. Forest(x, {v}, None) /\ NewView(s, x, sid, b) /\ DOMAIN x.buffers = DOMAIN s.buffers
      BY <2>2, <2>5
    <3>2. /\ n \in DOMAIN x.nodes /\ n # v /\ x.nodes[v].sess = x.nodes[n].sess /\ x.nodes[v].kind = "view"
          /\ SessionRoots(x) = SessionRoots(s) /\ x.nodes[n] = s.nodes[n]
          /\ v \in DOMAIN x.nodes /\ x.nodes[v].buf = b
      BY <3>1 DEF NewView, SessionRoots
    <3>3. q = Err(x) \/ Joined(x, q)
      BY <2>3, <3>1, <3>2, JoinPlaces
    <3> HIDE DEF q
    <3>4. CASE q = Err(x)
      <4>1. r = Err(DiscardView(x, v))
        <5>1. q.ok = FALSE /\ y = x
          BY <3>4 DEF Err
        <5>. QED BY <2>1, <2>5, <5>1, Zenon
      <4>2. r.ok = FALSE /\ r.s = DiscardView(x, v)
        BY <4>1 DEF Err
      <4>3. Undone(s, DiscardView(x, v))
        BY <2>2, <2>5, <3>1, DiscardUndone
      <4>. QED BY <4>2, <4>3, UndoneDone DEF r
    <3>5. CASE Joined(x, q)
      <4>1. q.ok = TRUE /\ Forest(y, {}, None) /\ SameViews(x, y)
        BY <3>5 DEF Joined
      <4>2. sid \in DOMAIN y.sessions
        BY <1>0, <3>1, <4>1 DEF SameViews, NewView
      <4>3. CASE from = None
        <5>1. r = CheckZoom(y, sid)
          <6>1. m.ok = TRUE /\ m.s = y
            BY <4>3 DEF Ok
          <6> HIDE DEF m
          <6>. QED BY <2>1, <2>5, <4>1, <6>1
        <5>2. Attached(x, {})
          BY <2>2, <2>5, <4>3
        <5>3. Attached(y, {})
          BY <4>1, <5>2, SameViewsAttached
        <5>. QED BY <4>1, <4>2, <5>1, <5>3, ZoomedDone DEF r
      <4>4. CASE from # None
        <5>1. Attached(x, {v}) /\ x.buffers[b].att = from
          BY <2>2, <2>5, <4>4
        <5>2. from # v
          <6>1. from \in DOMAIN s.nodes
            BY <1>0, <4>4 DEF Attached
          <6>. QED BY <3>1, <6>1 DEF NewView
        <5>3. b \in DOMAIN x.buffers
          BY <3>1
        <5>4. k.ok = TRUE /\ Done(s, CheckZoom(w, sid))
          BY <3>2, <4>1, <4>2, <4>4, <5>1, <5>2, <5>3, MovedDone, Zenon
        <5>5. m.ok = TRUE /\ m.s = w
          BY <4>4, <5>4, Zenon DEF Ok
        <5> HIDE DEF m, w
        <5>6. r = CheckZoom(w, sid)
          BY <2>1, <2>5, <4>1, <5>5
        <5>. QED BY <5>4, <5>6 DEF r
      <4>. QED BY <4>3, <4>4
    <3>. QED BY <3>3, <3>4, <3>5
  <2>. QED BY <2>4, <2>5
<1>. QED BY <1>1, <1>2

\* A chain upwards that starts outside of what is closed under children stays
\* outside, and in its session.
LEMMA ChainOutside ==
    ASSUME NEW s, IsState(s), Linked(s), NEW p, NEW path, IsChain(s, p, path), NEW B, p \notin B,
           \A m \in B : Kids(s, m) \subseteq B
    PROVE  \A i \in 1 .. Len(path) : path[i] \notin B /\ s.nodes[path[i]].sess = s.nodes[p].sess
<1> DEFINE X == {i \in 1 .. Len(path) : path[i] \in B \/ s.nodes[path[i]].sess # s.nodes[p].sess}
<1>1. SUFFICES ASSUME X # {} PROVE FALSE
  OBVIOUS
<1>2. X \in SUBSET Nat /\ X \subseteq 1 .. Len(path) /\ Len(path) \in Nat
  BY DEF IsChain
<1>2a. \A i \in X : path[i] \in B \/ s.nodes[path[i]].sess # s.nodes[p].sess
  OBVIOUS
<1>2b. \A i \in 1 .. Len(path) : i \notin X => path[i] \notin B /\ s.nodes[path[i]].sess = s.nodes[p].sess
  OBVIOUS
<1> HIDE DEF X
<1> DEFINE j == Min(X)
<1>3. j \in X /\ \A i \in X : j <= i
  BY <1>1, <1>2, MinIs
<1> HIDE DEF j
<1>4. j \in 2 .. Len(path)
  <2>1. path[1] = p
    BY DEF IsChain
  <2>2. 1 \notin X
    BY <2>1, <1>2a
  <2>. QED BY <1>2, <1>3, <2>2
<1>5. j - 1 \in 1 .. Len(path) /\ j - 1 \notin X /\ j - 1 \in 1 .. Len(path) - 1 /\ (j - 1) + 1 = j
  BY <1>2, <1>3, <1>4
<1>6. path[j - 1] \notin B /\ s.nodes[path[j - 1]].sess = s.nodes[p].sess
  BY <1>2b, <1>5
<1>7. /\ path[j - 1] \in DOMAIN s.nodes /\ path[j] \in DOMAIN s.nodes
      /\ s.nodes[path[j - 1]].parent = path[j]
  BY <1>4, <1>5 DEF IsChain
<1>8. path[j] # None
  BY <1>7 DEF IsState, None
<1>9. path[j - 1] \in Kids(s, path[j]) /\ s.nodes[path[j]].sess = s.nodes[path[j - 1]].sess
  BY <1>7, <1>8 DEF Linked
<1>. QED BY <1>2a, <1>3, <1>6, <1>9

\* The nearest tabs node is above, of the same session.
LEMMA NearestTabsIs ==
    ASSUME NEW s, IsState(s), Linked(s), Ranked(s), NEW p \in DOMAIN s.nodes, NEW B, p \notin B,
           \A m \in B : Kids(s, m) \subseteq B
    PROVE  LET t == NearestTabs(s, p)
           IN  t = None \/ (t \in DOMAIN s.nodes /\ s.nodes[t].kind = "tabs" /\ t \notin B
                            /\ s.nodes[t].sess = s.nodes[p].sess)
<1> DEFINE path == PathUp(s, p)
           I == {i \in 1 .. Len(path) : s.nodes[path[i]].kind = "tabs"}
           t == NearestTabs(s, p)
<1>1. p # None
  BY DEF IsState, None
<1>2. IsChain(s, p, path)
  BY PathUpFacts DEF IsPath
<1> HIDE DEF path
<1>3. SelectInSeq(path, LAMBDA m : s.nodes[m].kind = "tabs") = IF I # {} THEN Min(I) ELSE 0
  BY DEF SelectInSeq
<1>4. I \in SUBSET Nat /\ \A i \in I : i \in 1 .. Len(path) /\ s.nodes[path[i]].kind = "tabs"
  BY <1>2 DEF IsChain
<1>5. CASE I = {}
  BY <1>1, <1>3, <1>5 DEF NearestTabs, path
<1>6. CASE I # {}
  <2> HIDE DEF I
  <2>1. Min(I) \in I
    BY <1>4, <1>6, MinIs
  <2>2. t = path[Min(I)]
    <3>1. Min(I) # 0
      BY <1>4, <2>1
    <3>. QED BY <1>1, <1>3, <1>6, <3>1 DEF NearestTabs, path
  <2>3. Min(I) \in 1 .. Len(path) /\ s.nodes[path[Min(I)]].kind = "tabs"
    BY <1>4, <2>1
  <2>4. path[Min(I)] \in DOMAIN s.nodes
    BY <1>2, <2>3 DEF IsChain
  <2>5. path[Min(I)] \notin B /\ s.nodes[path[Min(I)]].sess = s.nodes[p].sess
    BY <1>2, <2>3, ChainOutside
  <2>. QED BY <2>2, <2>3, <2>4, <2>5
<1>. QED BY <1>5, <1>6

\* A free node becomes the last tab of the nearest tabs node or of its session.
LEMMA BreakToTabPlaces ==
    ASSUME NEW s, NEW n, NEW p, p = None \/ p \in DOMAIN s.nodes,
           NEW e, Forest(s, {n}, e), p \in DOMAIN s.nodes => p \notin Below(s, n) /\ s.nodes[p].sess = s.nodes[n].sess,
           NEW focus \in BOOLEAN, NEW t,
           t = IF NearestTabs(s, p) = None THEN RootOf(s, s.nodes[n].sess) ELSE NearestTabs(s, p)
    PROVE  LET r == AddTab(s, t, Len(s.nodes[t].kids), n, focus)
           IN  r.ok = TRUE /\ Placed(s, r.s, e)
<1> DEFINE B == Below(s, n)
           sid == s.nodes[n].sess
           r == AddTab(s, t, Len(s.nodes[t].kids), n, focus)
<1>1. /\ IsState(s) /\ Linked(s) /\ Ranked(s) /\ Rooted(s, {n}) /\ n \in DOMAIN s.nodes
      /\ None \notin DOMAIN s.nodes /\ s.nodes[n].parent = None /\ n \notin SessionRoots(s)
      /\ sid \in DOMAIN s.sessions
  BY DEF Forest, Rooted, Linked, IsState, None
<1>2. /\ B \subseteq DOMAIN s.nodes /\ \A m \in B : Kids(s, m) \subseteq B
      /\ \A m \in B : m = n \/ s.nodes[m].parent \in B
  BY <1>1, BelowFacts
<1> HIDE DEF B
<1>3. t \in DOMAIN s.nodes /\ s.nodes[t].kind = "tabs" /\ t \notin B /\ s.nodes[t].sess = sid
  <2>1. CASE NearestTabs(s, p) = None
    <3>1. t = s.sessions[sid].root
      BY <2>1 DEF RootOf
    <3>2. t \in DOMAIN s.nodes /\ s.nodes[t].kind = "tabs" /\ s.nodes[t].sess = sid /\ t \in SessionRoots(s)
      BY <1>1, <3>1 DEF Rooted, SessionRoots
    <3>3. s.nodes[t].parent = None
      BY <1>1, <3>2 DEF Rooted
    <3>4. t \notin B
      BY <1>1, <1>2, <3>2, <3>3
    <3>. QED BY <3>2, <3>4
  <2>2. CASE NearestTabs(s, p) # None
    <3>1. p \in DOMAIN s.nodes
      BY <2>2 DEF NearestTabs
    <3>2. p \notin B
      BY <3>1 DEF B
    <3>. QED BY <1>1, <1>2, <2>2, <3>1, <3>2, NearestTabsIs
  <2>. QED BY <2>1, <2>2
<1>4. Len(s.nodes[t].kids) \in Nat
  BY <1>1, <1>3, NodeFields DEF IsState
<1>5. TabPlaced(s, r, t, Len(s.nodes[t].kids), n, e)
  BY <1>3, <1>4, AddTabPlaces DEF B
<1> HIDE DEF r
<1>6. r.ok = TRUE /\ Placed(s, r.s, e)
  BY <1>3, <1>4, <1>5 DEF TabPlaced
<1>. QED BY <1>6, Zenon DEF r

\* A popup's tree on its own.
LEMMA UnheldForest ==
    ASSUME NEW s, Forest(s, {}, None), NEW f \in DOMAIN s.floats, NEW x, Unheld(s, x, f),
           Fits(s.nodes[s.floats[f].root], 0, 2)
    PROVE  Forest(x, {s.floats[f].root}, None) /\ SameViews(s, x)
<1> DEFINE n == s.floats[f].root
<1>1. /\ Trunk(x, {n}) /\ x.nodes = s.nodes /\ x.buffers = s.buffers /\ DOMAIN x.sessions = DOMAIN s.sessions
      /\ SessionRoots(x) = SessionRoots(s) /\ FloatRoots(x) = FloatRoots(s) \ {n}
  BY DEF Unheld
<1>2. s.nodes \in [DOMAIN s.nodes -> NodeType] /\ None \notin DOMAIN s.nodes /\ Shaped(s, None)
  BY DEF Forest, IsState, None
<1>3. \A m \in DOMAIN s.nodes : Fits(s.nodes[m], 0, Least(s, m))
  BY <1>2, ShapedIs
<1>4. \A m \in DOMAIN x.nodes : Fits(x.nodes[m], IF m = None THEN 1 ELSE 0, Least(x, m))
  <2>1. TAKE m \in DOMAIN x.nodes
  <2>2. (IF m = None THEN 1 ELSE 0) = 0
    BY <1>1, <1>2
  <2>3. CASE m = n
    <3>1. Fits(s.nodes[m], 0, 2) /\ s.nodes[m] \in NodeType
      BY <1>1, <1>2, <2>3
    <3>2. Least(x, m) \in Nat /\ Least(x, m) <= 2
      BY DEF Least
    <3>. QED BY <1>1, <2>2, <3>1, <3>2, FitsMore
  <2>4. CASE m # n
    <3>1. Least(x, m) = Least(s, m)
      BY <1>1, <2>4 DEF Least
    <3>. QED BY <1>1, <1>3, <2>2, <3>1
  <2>. QED BY <2>3, <2>4
<1>5. Shaped(x, None)
  BY <1>1, <1>2, <1>4, ShapedIs
<1>6. Forest(x, {n}, None)
  BY <1>1, <1>5, ForestIs
<1>7. SameViews(s, x)
  BY <1>1 DEF SameViews
<1>. QED BY <1>6, <1>7

\* A node breaks out of its container or popup. It is refused only to a session's
\* root, before anything is done.
LEMMA BreakNodeDone ==
    ASSUME NEW s, Sound(s), NEW n \in DOMAIN s.nodes, NEW toFloat \in BOOLEAN,
           toFloat \/ n \notin FloatRoots(s) \/ Fits(s.nodes[n], 0, 2)
    PROVE  Done(s, BreakNode(s, n, toFloat))
<1> DEFINE sid == s.nodes[n].sess
           p   == s.nodes[n].parent
           f   == FloatByRoot(s, n)
           cut == IF p # None THEN RemoveChild(s, p, n) ELSE RemoveFloat(s, f)
           t   == IF NearestTabs(cut, p) = None THEN RootOf(cut, sid) ELSE NearestTabs(cut, p)
           focus == IsVisible(s, sid, n)
           placed == IF toFloat THEN CreateFloating(cut, sid, n, TRUE)
                     ELSE AddTab(cut, t, Len(cut.nodes[t].kids), n, focus)
           up == IF p = None THEN Ok(placed.s) ELSE NormalizeUpwards(placed.s, p)
           r == BreakNode(s, n, toFloat)
<1>0. Forest(s, {}, None) /\ Attached(s, {}) /\ sid \in DOMAIN s.sessions /\ IsState(s) /\ Linked(s)
  BY DEF Sound, Forest, Linked
<1>1. CASE (toFloat /\ p = None /\ f # None) \/ (~toFloat /\ p # None /\ IsKind(s, p, "tabs"))
  <2>1. r = Ok(s)
    BY <1>1 DEF BreakNode
  <2>. QED BY <2>1, DoneErr
<1>2. CASE ~((toFloat /\ p = None /\ f # None) \/ (~toFloat /\ p # None /\ IsKind(s, p, "tabs")))
           /\ p = None /\ f = None
  <2>1. r = Err(s)
    BY <1>2 DEF BreakNode
  <2>. QED BY <2>1, DoneErr
<1>3. CASE ~((toFloat /\ p = None /\ f # None) \/ (~toFloat /\ p # None /\ IsKind(s, p, "tabs")))
           /\ ~(p = None /\ f = None)
  <2>1. placed.ok => r = IF up.ok THEN CheckZoom(up.s, sid) ELSE up
    <3> DEFINE B == OrElse(placed, LAMBDA a : Err(PutBack(s, a, n)))
               U(a) == IF p = None THEN Ok(a) ELSE NormalizeUpwards(a, p)
               W == AndThen(B, LAMBDA a : U(a))
    <3>0. FocusCandidate(s, n) # Gone /\ ~Unsure(s, sid, n)
      BY <1>0, CandidateThere, CanTell
    <3>1. r = AndThen(W, LAMBDA a : CheckZoom(a, sid))
      <4>1. r = IF (toFloat /\ p = None /\ f # None) \/ (~toFloat /\ p # None /\ IsKind(s, p, "tabs"))
                THEN Ok(s)
                ELSE IF (p = None /\ f = None) \/ FocusCandidate(s, n) = Gone \/ Unsure(s, sid, n) THEN Err(s)
                ELSE AndThen(W, LAMBDA a : CheckZoom(a, sid))
        BY DEF BreakNode, SessionOf
      <4> HIDE DEF W, r, f, p, sid
      <4>. QED BY <1>3, <3>0, <4>1
    <3>2. placed.ok => W = up
      <4>1. placed.ok => B = placed
        BY DEF OrElse
      <4>2. W = IF B.ok THEN U(B.s) ELSE B
        BY DEF AndThen
      <4> HIDE DEF B, placed
      <4>. QED BY <4>1, <4>2
    <3> HIDE DEF W, placed, up
    <3>3. r = IF W.ok THEN CheckZoom(W.s, sid) ELSE W
      BY <3>1 DEF AndThen
    <3>. QED BY <3>2, <3>3
  <2>2. focus \in BOOLEAN
    BY DEF IsVisible
  <2> DEFINE e == p
  <2>3. /\ Forest(cut, {n}, e) /\ SameViews(s, cut) /\ cut.nodes[n].sess = sid
        /\ p \in DOMAIN cut.nodes => p \notin Below(cut, n) /\ cut.nodes[p].sess = sid
        /\ p = None \/ p \in DOMAIN cut.nodes
        /\ p # n
    <3>1. CASE p # None
      <4>1. cut = RemoveChild(s, p, n) /\ p \in DOMAIN s.nodes /\ n \in Kids(s, p) /\ s.nodes[p].sess = sid
        BY <1>0, <3>1 DEF Linked
      <4>2. Forest(cut, {n}, p) /\ SameViews(s, cut) /\ ChildRemoved(s, cut, p, n)
        BY <1>0, <4>1, RemoveChildKeeps
      <4> HIDE DEF cut
      <4>3. Below(cut, n) = Below(s, n) /\ p \notin Below(s, n)
        BY <1>0, <4>1, <4>2, BelowAlone
      <4>4. n \in Below(s, n)
        BY <1>0, BelowFacts DEF Forest
      <4>5. DOMAIN cut.nodes = DOMAIN s.nodes /\ \A m \in DOMAIN s.nodes : cut.nodes[m].sess = s.nodes[m].sess
        BY <4>2 DEF ChildRemoved
      <4>. QED BY <4>1, <4>2, <4>3, <4>4, <4>5
    <3>2. CASE p = None
      <4>1. f # None /\ cut = RemoveFloat(s, f) /\ ~toFloat
        <5>1. cut = RemoveFloat(s, f)
          BY <3>2
        <5> HIDE DEF cut, f, p
        <5>. QED BY <1>3, <3>2, <5>1
      <4>2. f \in DOMAIN s.floats /\ s.floats[f].root = n /\ n \in FloatRoots(s)
        BY <1>0, <4>1, FloatByRootIs DEF FloatRoots
      <4>3. Unheld(s, cut, f)
        BY <1>0, <4>1, <4>2, RemoveFloatIs, ForestIs
      <4> HIDE DEF cut, f
      <4>4. Forest(cut, {n}, None) /\ SameViews(s, cut)
        BY <1>0, <4>1, <4>2, <4>3, UnheldForest
      <4>5. cut.nodes = s.nodes
        BY <4>3 DEF Unheld
      <4>6. None \notin DOMAIN s.nodes
        BY <1>0 DEF IsState, None
      <4>. QED BY <3>2, <4>4, <4>5, <4>6
    <3>. QED BY <3>1, <3>2, Zenon
  <2> HIDE DEF cut, focus
  <2>4. placed.ok = TRUE /\ Placed(cut, placed.s, e)
    <3>1. CASE toFloat
      <4>1. placed = CreateFloating(cut, cut.nodes[n].sess, n, TRUE)
        BY <2>3, <3>1
      <4> HIDE DEF placed
      <4>. QED BY <2>3, <4>1, CreateFloatingPlaces
    <3>2. CASE ~toFloat
      <4>1. placed = AddTab(cut, t, Len(cut.nodes[t].kids), n, focus)
        BY <3>2
      <4>2. t = IF NearestTabs(cut, p) = None THEN RootOf(cut, cut.nodes[n].sess) ELSE NearestTabs(cut, p)
        BY <2>3
      <4> HIDE DEF placed, t, e
      <4>. QED BY <2>2, <2>3, <4>1, <4>2, BreakToTabPlaces, Zenon
    <3>. QED BY <3>1, <3>2
  <2> HIDE DEF placed
  <2>5. up.ok = TRUE /\ Forest(up.s, {}, None) /\ SameViews(placed.s, up.s)
    <3>1. CASE p = None
      <4>1. up.ok = TRUE /\ up.s = placed.s
        BY <3>1 DEF Ok
      <4> HIDE DEF up
      <4>2. SameViews(placed.s, placed.s)
        BY DEF SameViews
      <4>. QED BY <2>4, <3>1, <4>1, <4>2 DEF Placed
    <3>2. CASE p # None
      <4>1. up = NormalizeUpwards(placed.s, p) /\ p \in DOMAIN placed.s.nodes
        BY <2>3, <2>4, <3>2 DEF Placed
      <4>2. e \in {None, p} /\ Forest(placed.s, {}, e)
        BY <2>4 DEF Placed
      <4> HIDE DEF up, e
      <4>. QED BY <4>1, <4>2, NormalizeUpwardsKeeps
    <3>. QED BY <3>1, <3>2
  <2> HIDE DEF up, r
  <2>6. SameViews(s, up.s)
    BY <2>3, <2>4, <2>5, SameViewsTrans DEF Placed
  <2>7. Attached(up.s, {}) /\ sid \in DOMAIN up.s.sessions
    BY <1>0, <2>6, SameViewsAttached DEF SameViews
  <2>8. Done(s, CheckZoom(up.s, sid))
    BY <2>5, <2>7, ZoomedDone
  <2>. QED BY <2>1, <2>4, <2>5, <2>8 DEF r
<1>. QED BY <1>1, <1>2, <1>3

-----------------------------------------------------------------------------
(* Reordering siblings *)

\* The children of p in another order, with their weights and the active tab.
Reordered(s, x, p, K, Z, A) ==
    /\ DOMAIN x.nodes = DOMAIN s.nodes
    /\ \A m \in DOMAIN s.nodes : m # p => x.nodes[m] = s.nodes[m]
    /\ x.nodes[p].kind = s.nodes[p].kind /\ x.nodes[p].sess = s.nodes[p].sess
    /\ x.nodes[p].parent = s.nodes[p].parent /\ x.nodes[p].last = s.nodes[p].last
    /\ x.nodes[p].buf = s.nodes[p].buf
    /\ x.nodes[p].kids = K /\ x.nodes[p].sizes = Z /\ x.nodes[p].active = A
    /\ x.sessions = s.sessions /\ x.floats = s.floats /\ x.buffers = s.buffers
    /\ x.nextNode = s.nextNode /\ x.nextSession = s.nextSession /\ x.nextFloat = s.nextFloat

\* An update of the three fields of one node.
LEMMA ReorderIs ==
    ASSUME NEW s, IsState(s), NEW p \in DOMAIN s.nodes, NEW K \in Seq(Nat), NEW Z \in Seq(Nat), NEW A \in Nat
    PROVE  LET x == [s EXCEPT !.nodes[p].kids = K, !.nodes[p].sizes = Z, !.nodes[p].active = A]
           IN  IsState(x) /\ Reordered(s, x, p, K, Z, A)
<1> DEFINE z == s.nodes[p]
           y == [z EXCEPT !.kids = K, !.sizes = Z, !.active = A]
           x == [s EXCEPT !.nodes[p].kids = K, !.nodes[p].sizes = Z, !.nodes[p].active = A]
<1>0. Shape(s) /\ s.nodes \in [DOMAIN s.nodes -> NodeType]
  BY DEF IsState
<1>1. /\ x.nodes = [s.nodes EXCEPT ![p] = y] /\ Shape(x)
      /\ x.floats = s.floats /\ x.sessions = s.sessions /\ x.buffers = s.buffers
      /\ x.nextNode = s.nextNode /\ x.nextSession = s.nextSession /\ x.nextFloat = s.nextFloat
  BY <1>0 DEF Shape
<1>2. z \in NodeType
  BY <1>0
<1> HIDE DEF x, z
<1>3. /\ y \in NodeType /\ y.kind = z.kind /\ y.sess = z.sess /\ y.parent = z.parent /\ y.kids = K
      /\ y.active = A /\ y.sizes = Z /\ y.last = z.last /\ y.buf = z.buf
  BY <1>2 DEF NodeType
<1> HIDE DEF y
<1>4. /\ x.nodes \in [DOMAIN s.nodes -> NodeType] /\ x.nodes[p] = y /\ DOMAIN x.nodes = DOMAIN s.nodes
      /\ \A m \in DOMAIN s.nodes : m # p => x.nodes[m] = s.nodes[m]
  BY <1>0, <1>1, <1>3
<1>5. IsState(x)
  BY <1>1, <1>4 DEF IsState
<1>6. Reordered(s, x, p, K, Z, A)
  BY <1>1, <1>3, <1>4 DEF Reordered, z
<1>. QED BY <1>5, <1>6 DEF x

\* Whatever the order, the trees are the same trees.
LEMMA ReorderKeeps ==
    ASSUME NEW s, Forest(s, {}, None), NEW p \in DOMAIN s.nodes, NEW K, NEW Z, NEW A,
           ToSet(K) = Kids(s, p), Distinct(K), Len(K) = Len(s.nodes[p].kids),
           s.nodes[p].kids # <<>>, K # <<>>,
           Len(Z) = Len(s.nodes[p].sizes), s.nodes[p].sizes = <<>> => Z = <<>>,
           s.nodes[p].kind = "tabs" => A < Len(K),
           NEW x, IsState(x), Reordered(s, x, p, K, Z, A)
    PROVE  Forest(x, {}, None) /\ SameViews(s, x)
<1>0. IsState(s) /\ Linked(s) /\ Rooted(s, {}) /\ Shaped(s, None) /\ Ranked(s) /\ Pointed(s) /\ Remembered(s) /\ Owned(s)
  BY DEF Forest
<1>1. /\ DOMAIN x.nodes = DOMAIN s.nodes
      /\ x.sessions = s.sessions /\ x.floats = s.floats /\ x.buffers = s.buffers
      /\ x.nextNode = s.nextNode /\ x.nextSession = s.nextSession /\ x.nextFloat = s.nextFloat
  BY DEF Reordered
<1>2. \A n \in DOMAIN s.nodes :
          /\ x.nodes[n].kind = s.nodes[n].kind /\ x.nodes[n].sess = s.nodes[n].sess
          /\ x.nodes[n].parent = s.nodes[n].parent /\ x.nodes[n].last = s.nodes[n].last
          /\ x.nodes[n].buf = s.nodes[n].buf
          /\ Len(x.nodes[n].kids) = Len(s.nodes[n].kids)
          /\ s.nodes[n].kids = <<>> => x.nodes[n].kids = <<>>
          /\ Len(x.nodes[n].sizes) = Len(s.nodes[n].sizes)
          /\ s.nodes[n].sizes = <<>> => x.nodes[n].sizes = <<>>
          /\ Kids(x, n) = Kids(s, n)
  BY DEF Reordered, Kids
<1>3. \A n \in DOMAIN s.nodes : Distinct(x.nodes[n].kids)
  BY <1>0 DEF Reordered, Linked
<1>4. Linked(x)
  BY <1>0, <1>1, <1>2, <1>3 DEF Linked
<1>5. SessionRoots(x) = SessionRoots(s) /\ FloatRoots(x) = FloatRoots(s)
  BY <1>1 DEF SessionRoots, FloatRoots
<1> DEFINE H == {}
<1>6. Rooted(x, H)
  <2>1. Rooted(s, H) /\ H \subseteq DOMAIN x.nodes /\ \A m \in H : FALSE
    BY <1>0
  <2> HIDE DEF H
  <2>2. \A m \in SessionRoots(s) \cup FloatRoots(s) : m \in DOMAIN s.nodes
    BY <1>0 DEF Rooted, SessionRoots, FloatRoots
  <2>3. \A m \in SessionRoots(s) \cup FloatRoots(s) :
           m \in DOMAIN x.nodes /\ x.nodes[m].kind = s.nodes[m].kind /\ x.nodes[m].sess = s.nodes[m].sess
    BY <1>1, <1>2, <2>2
  <2>4. \A m \in DOMAIN x.nodes :
           x.nodes[m].parent = None <=> m \in SessionRoots(s) \/ m \in FloatRoots(s) \/ m \in H
    BY <1>1, <1>2, <2>1 DEF Rooted
  <2>5. \A m \in H : m \notin SessionRoots(s) /\ m \notin FloatRoots(s)
    BY <2>1
  <2>. QED BY <1>1, <2>1, <2>3, <2>4, <2>5, RootedSame
<1>7. Shaped(x, None)
  <2>1. s.nodes \in [DOMAIN s.nodes -> NodeType] /\ x.nodes \in [DOMAIN x.nodes -> NodeType]
    BY <1>0 DEF IsState
  <2>2. \A n \in DOMAIN s.nodes : Fits(s.nodes[n], IF n = None THEN 1 ELSE 0, Least(s, n))
    BY <1>0, <2>1, ShapedIs
  <2>3. \A n : Least(x, n) = Least(s, n)
    BY <1>5 DEF Least
  <2>4. ASSUME NEW n \in DOMAIN s.nodes, NEW less, NEW least, Fits(s.nodes[n], less, least)
        PROVE  Fits(x.nodes[n], less, least)
    BY <1>2, <2>4 DEF Fits
  <2>5. \A n \in DOMAIN x.nodes : Fits(x.nodes[n], IF n = None THEN 1 ELSE 0, Least(x, n))
    BY <1>1, <2>2, <2>3, <2>4
  <2>. QED BY <2>1, <2>5, ShapedIs
<1>8. Ranked(x)
  BY <1>0, <1>1, <1>2 DEF Ranked
<1>9. Pointed(x)
  <2>1. ASSUME NEW n \in DOMAIN s.nodes, s.nodes[n].kind = "tabs"
        PROVE  x.nodes[n].active < Len(x.nodes[n].kids) \/ (x.nodes[n].kids = <<>> /\ x.nodes[n].active = 0)
    <3>1. CASE n = p
      BY <2>1, <3>1 DEF Reordered
    <3>2. CASE n # p
      <4>1. x.nodes[n] = s.nodes[n]
        BY <3>2 DEF Reordered
      <4>. QED BY <1>0, <2>1, <4>1 DEF Pointed
    <3>. QED BY <3>1, <3>2
  <2>. QED BY <1>1, <1>2, <2>1 DEF Pointed
<1>10. Remembered(x) /\ Owned(x)
  BY <1>0, <1>1, <1>2 DEF Remembered, Owned
<1>11. SameViews(s, x)
  BY <1>1, <1>2 DEF SameViews
<1>. QED BY <1>4, <1>6, <1>7, <1>8, <1>9, <1>10, <1>11 DEF Forest, H

\* A list in which two entries trade places.
LEMMA SwappedIs ==
    ASSUME NEW s \in Seq(Nat), NEW i \in 0 .. Len(s) - 1, NEW j \in 0 .. Len(s) - 1
    PROVE  /\ Swapped(s, i, j) \in Seq(Nat) /\ Len(Swapped(s, i, j)) = Len(s)
           /\ \A k \in 1 .. Len(s) :
                Swapped(s, i, j)[k] = IF k = j + 1 THEN s[i + 1] ELSE IF k = i + 1 THEN s[j + 1] ELSE s[k]
<1> DEFINE r == Swapped(s, i, j)
<1>1. DOMAIN s = 1 .. Len(s) /\ Len(s) \in Nat /\ i + 1 \in 1 .. Len(s) /\ j + 1 \in 1 .. Len(s)
      /\ \A k \in 1 .. Len(s) : s[k] \in Nat
  OBVIOUS
<1>2. r = [[s EXCEPT ![i + 1] = s[j + 1]] EXCEPT ![j + 1] = s[i + 1]]
  BY DEF Swapped, TabAt
<1>3. /\ DOMAIN r = 1 .. Len(s)
      /\ \A k \in 1 .. Len(s) : r[k] = IF k = j + 1 THEN s[i + 1] ELSE IF k = i + 1 THEN s[j + 1] ELSE s[k]
  BY <1>1, <1>2
<1>3a. r = [k \in 1 .. Len(s) |-> r[k]]
  BY <1>1, <1>2
<1> HIDE DEF r
<1>4. r \in [1 .. Len(s) -> Nat]
  BY <1>1, <1>3, <1>3a
<1>5. r \in Seq(Nat) /\ Len(r) = Len(s)
  BY <1>1, <1>4, ListOf
<1>. QED BY <1>3, <1>5 DEF r

\* A swap keeps the entries.
LEMMA SwappedSet ==
    ASSUME NEW s \in Seq(Nat), Distinct(s), NEW i \in 0 .. Len(s) - 1, NEW j \in 0 .. Len(s) - 1
    PROVE  Distinct(Swapped(s, i, j)) /\ ToSet(Swapped(s, i, j)) = ToSet(s)
<1> DEFINE r == Swapped(s, i, j)
<1>1. /\ r \in Seq(Nat) /\ Len(r) = Len(s)
      /\ \A k \in 1 .. Len(s) : r[k] = IF k = j + 1 THEN s[i + 1] ELSE IF k = i + 1 THEN s[j + 1] ELSE s[k]
  BY SwappedIs
<1> HIDE DEF r
<1>2. DOMAIN s = 1 .. Len(s) /\ DOMAIN r = 1 .. Len(s) /\ i + 1 \in 1 .. Len(s) /\ j + 1 \in 1 .. Len(s)
      /\ Len(s) \in Nat
  BY <1>1
<1>3. Distinct(r)
  BY <1>1, <1>2 DEF Distinct
<1>4. \A k \in 1 .. Len(s) : \E l \in 1 .. Len(s) : r[l] = s[k]
  BY <1>1, <1>2
<1>5. \A k \in 1 .. Len(s) : \E l \in 1 .. Len(s) : s[l] = r[k]
  BY <1>1, <1>2
<1>6. ToSet(r) = ToSet(s)
  <2>1. ToSet(r) = {r[k] : k \in 1 .. Len(s)} /\ ToSet(s) = {s[k] : k \in 1 .. Len(s)}
    BY <1>2 DEF ToSet
  <2>. QED BY <1>4, <1>5, <2>1, Zenon
<1>. QED BY <1>3, <1>6 DEF r

\* The siblings of a node, and the container they share.
LEMMA SharedParentIs ==
    ASSUME NEW s, Forest(s, {}, None), NEW n \in DOMAIN s.nodes, NEW m \in DOMAIN s.nodes,
           NEW p, p = SharedParent(s, n, m), p # None
    PROVE  /\ n # m /\ p \in DOMAIN s.nodes /\ n \in Kids(s, p) /\ m \in Kids(s, p)
           /\ s.nodes[p] \in NodeType /\ Distinct(s.nodes[p].kids) /\ s.nodes[p].kind # "view"
           /\ s.nodes[p].kids # <<>> /\ s.nodes[p].kids \in Seq(Nat) /\ s.nodes[p].sizes \in Seq(Nat)
           /\ s.nodes[p].active \in Nat
           /\ s.nodes[p].sizes # <<>> => Len(s.nodes[p].sizes) = Len(s.nodes[p].kids)
           /\ s.nodes[p].kind = "tabs" => s.nodes[p].active < Len(s.nodes[p].kids)
<1>0. IsState(s) /\ Linked(s) /\ Shaped(s, None) /\ Pointed(s) /\ s.nodes \in [DOMAIN s.nodes -> NodeType]
  BY DEF Forest, IsState
<1>1. n # m /\ p = s.nodes[n].parent /\ p = s.nodes[m].parent
  BY DEF SharedParent
<1>2. p \in DOMAIN s.nodes /\ n \in Kids(s, p) /\ m \in Kids(s, p)
  <2>1. s.nodes[n].parent # None /\ s.nodes[m].parent # None
    BY <1>1
  <2>2. /\ s.nodes[n].parent \in DOMAIN s.nodes /\ n \in Kids(s, s.nodes[n].parent)
        /\ m \in Kids(s, s.nodes[m].parent)
    BY <1>0, <2>1 DEF Linked
  <2>. QED BY <1>1, <2>2
<1>3. s.nodes[p] \in NodeType /\ Distinct(s.nodes[p].kids)
  BY <1>0, <1>2 DEF Linked
<1>4. s.nodes[p].kids # <<>>
  BY <1>2, ShortLists DEF Kids
<1>5. s.nodes[p].kids \in Seq(Nat) /\ s.nodes[p].sizes \in Seq(Nat) /\ s.nodes[p].active \in Nat
  BY <1>3, NodeFields
<1>6. s.nodes[p].kind # "view"
  BY <1>0, <1>2, <1>4 DEF Shaped
<1>7. s.nodes[p].sizes # <<>> => Len(s.nodes[p].sizes) = Len(s.nodes[p].kids)
  BY <1>0, <1>2 DEF Shaped
<1>8. s.nodes[p].kind = "tabs" => s.nodes[p].active < Len(s.nodes[p].kids)
  BY <1>0, <1>2, <1>4 DEF Pointed
<1>. QED BY <1>1, <1>2, <1>3, <1>4, <1>5, <1>6, <1>7, <1>8, Zenon

\* A reordering is a request that does not fail.
LEMMA ReorderDone ==
    ASSUME NEW s, Sound(s), NEW p \in DOMAIN s.nodes, NEW K \in Seq(Nat), NEW Z \in Seq(Nat), NEW A \in Nat,
           ToSet(K) = Kids(s, p), Distinct(K), Len(K) = Len(s.nodes[p].kids),
           s.nodes[p].kids # <<>>, Len(Z) = Len(s.nodes[p].sizes), s.nodes[p].sizes = <<>> => Z = <<>>,
           s.nodes[p].kind = "tabs" => A < Len(K)
    PROVE  Done(s, Ok([s EXCEPT !.nodes[p].kids = K, !.nodes[p].sizes = Z, !.nodes[p].active = A]))
<1> DEFINE x == [s EXCEPT !.nodes[p].kids = K, !.nodes[p].sizes = Z, !.nodes[p].active = A]
<1>1. Forest(s, {}, None) /\ Attached(s, {}) /\ IsState(s) /\ s.nodes[p] \in NodeType
  BY DEF Sound, Forest, IsState
<1>2. IsState(x) /\ Reordered(s, x, p, K, Z, A)
  BY <1>1, ReorderIs, Zenon
<1>3. K # <<>>
  <2>1. s.nodes[p].kids \in Seq(Nat)
    BY <1>1, NodeFields
  <2>. QED BY <2>1, ShortLists
<1> HIDE DEF x
<1>4. Forest(x, {}, None) /\ SameViews(s, x)
  BY <1>1, <1>2, <1>3, ReorderKeeps
<1>5. Attached(x, {})
  BY <1>1, <1>4, SameViewsAttached
<1>. QED BY <1>4, <1>5 DEF Done, Sound, Ok, x

\* Two siblings trade places.
LEMMA SwapSiblingsDone ==
    ASSUME NEW s, Sound(s), NEW n \in DOMAIN s.nodes, NEW m \in DOMAIN s.nodes
    PROVE  Done(s, SwapSiblings(s, n, m))
<1> DEFINE p == SharedParent(s, n, m)
           z == s.nodes[p]
           i == Position(z.kids, n)
           j == Position(z.kids, m)
           K == Swapped(z.kids, i, j)
           Z == IF z.sizes = <<>> THEN z.sizes ELSE Swapped(z.sizes, i, j)
           A == IF z.kind = "tabs" THEN ActiveAfterSwap(z.active, i, j) ELSE z.active
<1>1. CASE n = m
  <2>1. SwapSiblings(s, n, m) = Ok(s)
    BY <1>1 DEF SwapSiblings
  <2>. QED BY <2>1, DoneErr
<1>2. CASE n # m /\ p = None
  <2>1. SwapSiblings(s, n, m) = Err(s)
    BY <1>2 DEF SwapSiblings
  <2>. QED BY <2>1, DoneErr
<1>3. CASE n # m /\ p # None
  <2>0. SwapSiblings(s, n, m) = Ok([s EXCEPT
            !.nodes[p].kids = Swapped(@, i, j),
            !.nodes[p].sizes = IF @ = <<>> THEN @ ELSE Swapped(@, i, j),
            !.nodes[p].active = IF z.kind = "tabs" THEN ActiveAfterSwap(@, i, j) ELSE @])
    BY <1>3 DEF SwapSiblings
  <2> HIDE DEF p
  <2>1. /\ p \in DOMAIN s.nodes /\ n \in Kids(s, p) /\ m \in Kids(s, p)
        /\ z \in NodeType /\ Distinct(z.kids) /\ z.kids # <<>> /\ z.kids \in Seq(Nat) /\ z.sizes \in Seq(Nat)
        /\ z.active \in Nat
        /\ z.sizes # <<>> => Len(z.sizes) = Len(z.kids)
        /\ z.kind = "tabs" => z.active < Len(z.kids)
    BY <1>3, SharedParentIs DEF p, Sound
  <2>2. /\ i \in 0 .. Len(z.kids) - 1 /\ j \in 0 .. Len(z.kids) - 1
    BY <2>1, PositionIs DEF Kids
  <2>3. Len(z.kids) \in Nat /\ i \in Nat /\ j \in Nat /\ i < Len(z.kids) /\ j < Len(z.kids)
    BY <2>1, <2>2
  <2> HIDE DEF i, j, z
  <2>4. K \in Seq(Nat) /\ Len(K) = Len(z.kids) /\ Distinct(K) /\ ToSet(K) = ToSet(z.kids)
    BY <2>1, <2>2, SwappedIs, SwappedSet
  <2>5. Z \in Seq(Nat) /\ Len(Z) = Len(z.sizes) /\ (z.sizes = <<>> => Z = <<>>)
    <3>1. CASE z.sizes = <<>>
      BY <2>1, <3>1
    <3>2. CASE z.sizes # <<>>
      <4> DEFINE l == z.sizes
      <4>1. i \in 0 .. Len(l) - 1 /\ j \in 0 .. Len(l) - 1 /\ l \in Seq(Nat)
        BY <2>1, <2>2, <3>2
      <4>2. Z = Swapped(l, i, j)
        BY <3>2
      <4> HIDE DEF l, Z
      <4>3. Z \in Seq(Nat) /\ Len(Z) = Len(l)
        BY <4>1, <4>2, SwappedIs
      <4>. QED BY <3>2, <4>3 DEF l
    <3>. QED BY <3>1, <3>2
  <2>6. A \in Nat /\ (z.kind = "tabs" => A < Len(K))
    BY <2>1, <2>3, <2>4 DEF ActiveAfterSwap
  <2>7. SwapSiblings(s, n, m) =
           Ok([s EXCEPT !.nodes[p].kids = K, !.nodes[p].sizes = Z, !.nodes[p].active = A])
    BY <2>0, <2>1 DEF z
  <2> HIDE DEF K, Z, A
  <2>8. Done(s, Ok([s EXCEPT !.nodes[p].kids = K, !.nodes[p].sizes = Z, !.nodes[p].active = A]))
    BY <2>1, <2>4, <2>5, <2>6, ReorderDone, Zenon DEF z, Kids
  <2>. QED BY <2>7, <2>8
<1>. QED BY <1>1, <1>2, <1>3

\* A list in which an entry has moved.
LEMMA MovedIs ==
    ASSUME NEW s \in Seq(Nat), NEW i \in 0 .. Len(s) - 1, NEW at \in 0 .. Len(s) - 1
    PROVE  /\ Moved(s, i, at) \in Seq(Nat) /\ Len(Moved(s, i, at)) = Len(s)
<1> DEFINE r == RemovedAt(s, i)
<1>1. r \in Seq(Nat) /\ Len(r) = Len(s) - 1
  BY RemovedAtIs
<1>2. TabAt(s, i) \in Nat
  BY DEF TabAt
<1> HIDE DEF r
<1>3. at \in 0 .. Len(r) /\ Len(s) \in Nat
  BY <1>1
<1>4. InsertedAt(r, at, TabAt(s, i)) \in Seq(Nat) /\ Len(InsertedAt(r, at, TabAt(s, i))) = Len(r) + 1
  BY <1>1, <1>2, <1>3, InsertedAtIs
<1>5. Len(r) + 1 = Len(s)
  BY <1>1, <1>3
<1>. QED BY <1>4, <1>5 DEF Moved, r

\* A move keeps the entries.
LEMMA MovedSet ==
    ASSUME NEW s \in Seq(Nat), Distinct(s), NEW x \in ToSet(s), NEW at \in 0 .. Len(s) - 1
    PROVE  Distinct(Moved(s, Position(s, x), at)) /\ ToSet(Moved(s, Position(s, x), at)) = ToSet(s)
<1> DEFINE i == Position(s, x)
           r == RemovedAt(s, i)
<1>1. r \in Seq(Nat) /\ Len(r) = Len(s) - 1 /\ Distinct(r) /\ ToSet(r) = ToSet(s) \ {x}
  BY RemovedSet
<1>2. TabAt(s, i) = x /\ i + 1 \in DOMAIN s /\ s[i + 1] = x
  BY PositionIs
<1>3. x \in Nat
  BY <1>2
<1>4. Moved(s, i, at) = InsertedAt(r, at, x)
  BY <1>2 DEF Moved
<1> HIDE DEF r, i
<1>5. at \in 0 .. Len(r)
  BY <1>1
<1>6. /\ Distinct(InsertedAt(r, at, x)) /\ ToSet(InsertedAt(r, at, x)) = ToSet(r) \cup {x}
  BY <1>1, <1>3, <1>5, InsertedSet
<1>7. ToSet(r) \cup {x} = ToSet(s)
  BY <1>1
<1>. QED BY <1>4, <1>6, <1>7 DEF i

\* The active index stays within the list.
LEMMA MovedActive ==
    ASSUME NEW N \in Nat, NEW a \in Nat, a < N, NEW i \in Nat, i < N, NEW at \in 0 .. N - 1
    PROVE  ActiveAfterMove(a, i, at) \in Nat /\ ActiveAfterMove(a, i, at) < N
BY DEF ActiveAfterMove

\* A node moves to stand before or after a sibling.
LEMMA MoveNodeDone ==
    ASSUME NEW s, Sound(s), NEW n \in DOMAIN s.nodes, NEW m \in DOMAIN s.nodes, NEW before \in BOOLEAN
    PROVE  Done(s, MoveNode(s, n, m, before))
<1> DEFINE p == SharedParent(s, n, m)
           z == s.nodes[p]
           i == Position(z.kids, n)
           j == Position(z.kids, m)
           at == InsertPosition(i, j, before)
           K == Moved(z.kids, i, at)
           Z == IF z.sizes = <<>> THEN z.sizes ELSE Moved(z.sizes, i, at)
           A == IF z.kind = "tabs" THEN ActiveAfterMove(z.active, i, at) ELSE z.active
<1>1. CASE n = m
  <2>1. MoveNode(s, n, m, before) = Ok(s)
    BY <1>1 DEF MoveNode
  <2>. QED BY <2>1, DoneErr
<1>2. CASE n # m /\ p = None
  <2>1. MoveNode(s, n, m, before) = Err(s)
    BY <1>2 DEF MoveNode
  <2>. QED BY <2>1, DoneErr
<1>3. CASE n # m /\ p # None
  <2>0. MoveNode(s, n, m, before) = Ok([s EXCEPT
            !.nodes[p].kids = Moved(@, i, at),
            !.nodes[p].sizes = IF @ = <<>> THEN @ ELSE Moved(@, i, at),
            !.nodes[p].active = IF z.kind = "tabs" THEN ActiveAfterMove(@, i, at) ELSE @])
    BY <1>3 DEF MoveNode
  <2> HIDE DEF p
  <2>1. /\ p \in DOMAIN s.nodes /\ n \in Kids(s, p) /\ m \in Kids(s, p)
        /\ z \in NodeType /\ Distinct(z.kids) /\ z.kids # <<>> /\ z.kids \in Seq(Nat) /\ z.sizes \in Seq(Nat)
        /\ z.active \in Nat
        /\ z.sizes # <<>> => Len(z.sizes) = Len(z.kids)
        /\ z.kind = "tabs" => z.active < Len(z.kids)
    BY <1>3, SharedParentIs DEF p, Sound
  <2>2. /\ i \in 0 .. Len(z.kids) - 1 /\ j \in 0 .. Len(z.kids) - 1
        /\ z.kids[i + 1] = n /\ z.kids[j + 1] = m
    BY <2>1, PositionIs DEF Kids
  <2>3. Len(z.kids) \in Nat /\ i \in Nat /\ j \in Nat /\ i < Len(z.kids) /\ j < Len(z.kids) /\ i # j
    BY <1>3, <2>1, <2>2
  <2>4. at \in 0 .. Len(z.kids) - 1
    <3> HIDE DEF i, j, z
    <3>. QED BY <2>3 DEF InsertPosition
  <2>5. K \in Seq(Nat) /\ Len(K) = Len(z.kids) /\ Distinct(K) /\ ToSet(K) = ToSet(z.kids)
    <3> HIDE DEF at, z
    <3>. QED BY <2>1, <2>2, <2>4, MovedIs, MovedSet DEF Kids, z
  <2> HIDE DEF i, j, z, at
  <2>6. Z \in Seq(Nat) /\ Len(Z) = Len(z.sizes) /\ (z.sizes = <<>> => Z = <<>>)
    <3>1. CASE z.sizes = <<>>
      BY <2>1, <3>1
    <3>2. CASE z.sizes # <<>>
      <4> DEFINE l == z.sizes
      <4>1. i \in 0 .. Len(l) - 1 /\ at \in 0 .. Len(l) - 1 /\ l \in Seq(Nat)
        BY <2>1, <2>2, <2>4, <3>2
      <4>2. Z = Moved(l, i, at)
        BY <3>2
      <4> HIDE DEF l, Z
      <4>3. Z \in Seq(Nat) /\ Len(Z) = Len(l)
        BY <4>1, <4>2, MovedIs
      <4>. QED BY <3>2, <4>3 DEF l
    <3>. QED BY <3>1, <3>2
  <2>7. A \in Nat /\ (z.kind = "tabs" => A < Len(K))
    <3>1. CASE z.kind = "tabs"
      <4>1. A = ActiveAfterMove(z.active, i, at)
        BY <3>1
      <4> HIDE DEF A, K
      <4>. QED BY <2>1, <2>3, <2>4, <2>5, <3>1, <4>1, MovedActive
    <3>2. CASE z.kind # "tabs"
      BY <2>1, <3>2
    <3>. QED BY <3>1, <3>2
  <2>8. MoveNode(s, n, m, before) =
           Ok([s EXCEPT !.nodes[p].kids = K, !.nodes[p].sizes = Z, !.nodes[p].active = A])
    BY <2>0, <2>1 DEF z
  <2> HIDE DEF K, Z, A
  <2>9. Done(s, Ok([s EXCEPT !.nodes[p].kids = K, !.nodes[p].sizes = Z, !.nodes[p].active = A]))
    BY <2>1, <2>5, <2>6, <2>7, ReorderDone, Zenon DEF z, Kids
  <2>. QED BY <2>8, <2>9
<1>. QED BY <1>1, <1>2, <1>3

-----------------------------------------------------------------------------
(* Sessions *)

\* A new session, with an empty root and no popups.
Begun(s, w, sid, y) ==
    /\ IsState(w)
    /\ DOMAIN w.nodes = DOMAIN s.nodes \cup {s.nextNode} /\ w.nodes[s.nextNode] = y
    /\ \A m \in DOMAIN s.nodes : w.nodes[m] = s.nodes[m]
    /\ DOMAIN w.sessions = DOMAIN s.sessions \cup {sid} /\ sid \notin DOMAIN s.sessions
    /\ \A a \in DOMAIN s.sessions : w.sessions[a] = s.sessions[a]
    /\ w.sessions[sid].root = s.nextNode /\ w.sessions[sid].floats = <<>> /\ w.sessions[sid].float = None
    /\ w.floats = s.floats /\ w.buffers = s.buffers
    /\ w.nextNode = s.nextNode + 1 /\ w.nextFloat = s.nextFloat

\* An empty root.
LEMMA EmptyTabsIs ==
    ASSUME NEW sid \in Nat
    PROVE  LET y == Tabs(sid, None, <<>>, None)
           IN  /\ y \in NodeType /\ y.kind = "tabs" /\ y.sess = sid /\ y.parent = None /\ y.kids = <<>>
               /\ y.sizes = <<>> /\ y.active = 0 /\ y.last = None
<1> DEFINE y == Tabs(sid, None, <<>>, None)
           v == View(sid, None)
<1>1. /\ v \in NodeType /\ v.sess = sid /\ v.sizes = <<>> /\ v.active = 0
  BY DEF View, NodeType, None
<1>2. y = [v EXCEPT !.kind = "tabs", !.parent = None, !.kids = <<>>, !.last = None]
  BY DEF Tabs
<1> HIDE DEF v, y
<1>3. None \in Nat /\ <<>> \in Seq(Nat)
  BY ShortLists DEF None
<1>4. /\ y \in NodeType /\ y.kind = "tabs" /\ y.sess = sid /\ y.parent = None /\ y.kids = <<>>
      /\ y.sizes = <<>> /\ y.active = 0 /\ y.last = None
  BY <1>1, <1>2, <1>3 DEF NodeType
<1>. QED BY <1>4 DEF y

\* What CreateSession writes.
LEMMA CreateSessionIs ==
    ASSUME NEW s, IsState(s)
    PROVE  Begun(s, CreateSession(s), s.nextSession, Tabs(s.nextSession, None, <<>>, None))
<1> DEFINE sid == s.nextSession
           y == Tabs(sid, None, <<>>, None)
           i == InsertNode(s, y)
           v == [root |-> s.nextNode, floats |-> <<>>, leaf |-> None,
                 float |-> None, zoom |-> None, history |-> <<>>]
           w == CreateSession(s)
<1>0. sid \in Nat \ {0} /\ s.nextNode \in Nat /\ Shape(s)
  BY DEF IsState
<1>1. y \in NodeType
  BY <1>0, EmptyTabsIs
<1>2. w = [i EXCEPT !.sessions = Put(@, sid, v), !.nextSession = @ + 1]
  BY DEF CreateSession
<1> HIDE DEF y, w
<1>3. IsState(i) /\ Inserted(s, i, y)
  BY <1>1, InsertNodeIs
<1> HIDE DEF i
<1>4. /\ i.sessions = s.sessions /\ i.floats = s.floats /\ i.nextNode = s.nextNode + 1
      /\ i.nextSession = sid /\ i.nextFloat = s.nextFloat /\ i.buffers = s.buffers
      /\ DOMAIN i.nodes = DOMAIN s.nodes \cup {s.nextNode} /\ i.nodes[s.nextNode] = y
      /\ \A m \in DOMAIN s.nodes : i.nodes[m] = s.nodes[m]
  BY <1>3 DEF Inserted
<1>5. IsSession(v) /\ v.root = s.nextNode /\ v.floats = <<>> /\ v.float = None
  BY <1>0, ShortLists DEF IsSession
<1> HIDE DEF v
<1>6. /\ Shape(w) /\ w.sessions = Put(s.sessions, sid, v)
      /\ w.nodes = i.nodes /\ w.floats = i.floats /\ w.buffers = i.buffers
      /\ w.nextNode = i.nextNode /\ w.nextSession = sid + 1 /\ w.nextFloat = i.nextFloat
  <2>1. Shape(i)
    BY <1>3 DEF IsState
  <2>. QED BY <1>2, <1>4, <2>1 DEF Shape
<1>7. /\ DOMAIN w.sessions = DOMAIN s.sessions \cup {sid} /\ w.sessions[sid] = v
      /\ \A a \in DOMAIN s.sessions : a # sid => w.sessions[a] = s.sessions[a]
      /\ w.sessions = [a \in DOMAIN w.sessions |-> w.sessions[a]]
  BY <1>6 DEF Put
<1>8. \A a \in DOMAIN s.sessions : IsSession(s.sessions[a]) /\ a \in 1 .. sid - 1 /\ a # sid /\ a \in 1 .. (sid + 1) - 1
  BY <1>0 DEF IsState
<1>9. sid \in 1 .. (sid + 1) - 1 /\ sid + 1 \in Nat \ {0} /\ sid \notin DOMAIN s.sessions
  BY <1>0, <1>8
<1>10. IsState(w)
  <2>1. /\ i.nextNode \in Nat \ {0} /\ i.nextFloat \in Nat \ {0}
        /\ i.nodes \in [DOMAIN i.nodes -> NodeType] /\ DOMAIN i.nodes \subseteq 1 .. i.nextNode - 1
        /\ i.floats \in [DOMAIN i.floats -> FloatType] /\ DOMAIN i.floats \subseteq 1 .. i.nextFloat - 1
        /\ i.buffers \in [DOMAIN i.buffers -> BufferType] /\ DOMAIN i.buffers \subseteq Buffers
    BY <1>3 DEF IsState
  <2>2. \A a \in DOMAIN w.sessions : IsSession(w.sessions[a]) /\ a \in 1 .. w.nextSession - 1
    BY <1>5, <1>6, <1>7, <1>8, <1>9
  <2>3. w.sessions = [a \in DOMAIN w.sessions |-> w.sessions[a]]
    BY <1>7
  <2>. QED BY <1>6, <1>9, <2>1, <2>2, <2>3 DEF IsState
<1>11. Begun(s, w, sid, y)
  BY <1>4, <1>5, <1>6, <1>7, <1>8, <1>9, <1>10 DEF Begun
<1>. QED BY <1>11 DEF w, y

\* A new session is in order.
LEMMA BegunForest ==
    ASSUME NEW s, Forest(s, {}, None), NEW sid,
           NEW y \in NodeType, y.kind = "tabs", y.sess = sid, y.parent = None, y.kids = <<>>,
           y.sizes = <<>>, y.active = 0, y.last = None,
           NEW w, Begun(s, w, sid, y)
    PROVE  Forest(w, {}, None)
<1> DEFINE new == s.nextNode
<1>1. Trunk(s, {}) /\ Shaped(s, None) /\ IsState(s) /\ Linked(s) /\ Ranked(s) /\ Rooted(s, {})
      /\ Pointed(s) /\ Remembered(s) /\ Owned(s)
      /\ s.nodes \in [DOMAIN s.nodes -> NodeType] /\ None \notin DOMAIN s.nodes
      /\ new \in Nat \ {0} /\ new \notin DOMAIN s.nodes
  BY ForestIs DEF Forest, IsState, None
<1>6. /\ IsState(w) /\ DOMAIN w.nodes = DOMAIN s.nodes \cup {new} /\ w.nodes[new] = y
      /\ \A m \in DOMAIN s.nodes : w.nodes[m] = s.nodes[m]
      /\ DOMAIN w.sessions = DOMAIN s.sessions \cup {sid} /\ sid \notin DOMAIN s.sessions
      /\ \A a \in DOMAIN s.sessions : w.sessions[a] = s.sessions[a]
      /\ w.sessions[sid].root = new /\ w.sessions[sid].floats = <<>> /\ w.sessions[sid].float = None
      /\ w.floats = s.floats /\ w.nextNode = s.nextNode + 1 /\ w.nextFloat = s.nextFloat
  BY DEF Begun
<1>7. SessionRoots(w) = SessionRoots(s) \cup {new} /\ FloatRoots(w) = FloatRoots(s)
  BY <1>6 DEF SessionRoots, FloatRoots
<1> HIDE DEF new
<1>8. Linked(w)
  <2> SUFFICES ASSUME NEW m \in DOMAIN w.nodes
               PROVE  /\ w.nodes[m].sess \in DOMAIN w.sessions
                      /\ w.nodes[m].parent # None =>
                            /\ w.nodes[m].parent \in DOMAIN w.nodes
                            /\ m \in Kids(w, w.nodes[m].parent)
                            /\ w.nodes[w.nodes[m].parent].sess = w.nodes[m].sess
                      /\ Distinct(w.nodes[m].kids)
                      /\ \A k \in Kids(w, m) : k \in DOMAIN w.nodes /\ w.nodes[k].parent = m
    BY DEF Linked
  <2>1. CASE m = new
    <3>1. Distinct(<<>>) /\ Kids(w, m) = {}
      BY <1>6, <2>1, ShortLists DEF Kids
    <3>. QED BY <1>6, <2>1, <3>1
  <2>2. CASE m \in DOMAIN s.nodes
    <3>1. /\ s.nodes[m].sess \in DOMAIN s.sessions
          /\ s.nodes[m].parent # None =>
                /\ s.nodes[m].parent \in DOMAIN s.nodes
                /\ m \in Kids(s, s.nodes[m].parent)
                /\ s.nodes[s.nodes[m].parent].sess = s.nodes[m].sess
          /\ Distinct(s.nodes[m].kids)
          /\ \A k \in Kids(s, m) : k \in DOMAIN s.nodes /\ s.nodes[k].parent = m
      BY <1>1, <2>2 DEF Linked
    <3>2. \A k \in DOMAIN s.nodes : Kids(w, k) = Kids(s, k)
      BY <1>6 DEF Kids
    <3>. QED BY <1>6, <2>2, <3>1, <3>2
  <2>. QED BY <1>6, <2>1, <2>2
<1>9. Rooted(w, {})
  <2>1. /\ \A m \in DOMAIN s.nodes : s.nodes[m].parent = None <=> m \in SessionRoots(s) \/ m \in FloatRoots(s)
        /\ \A a \in DOMAIN s.sessions :
              /\ s.sessions[a].root \in DOMAIN s.nodes
              /\ s.nodes[s.sessions[a].root].kind = "tabs" /\ s.nodes[s.sessions[a].root].sess = a
              /\ Distinct(s.sessions[a].floats)
              /\ ToSet(s.sessions[a].floats) = {f \in DOMAIN s.floats : s.floats[f].sess = a}
        /\ \A f \in DOMAIN s.floats :
              /\ s.floats[f].root \in DOMAIN s.nodes /\ s.floats[f].root \notin SessionRoots(s)
              /\ s.floats[f].sess \in DOMAIN s.sessions /\ s.nodes[s.floats[f].root].sess = s.floats[f].sess
              /\ \A g \in DOMAIN s.floats : s.floats[g].root = s.floats[f].root => g = f
    BY <1>1 DEF Rooted
  <2>2. \A m \in DOMAIN w.nodes : w.nodes[m].parent = None <=> m \in SessionRoots(w) \/ m \in FloatRoots(w)
    <3> SUFFICES ASSUME NEW m \in DOMAIN w.nodes
                 PROVE  w.nodes[m].parent = None <=> m \in SessionRoots(w) \/ m \in FloatRoots(w)
      OBVIOUS
    <3>1. CASE m = new
      BY <1>6, <1>7, <3>1
    <3>2. CASE m \in DOMAIN s.nodes
      <4>1. m # new
        BY <1>1, <3>2
      <4>. QED BY <1>6, <1>7, <2>1, <3>2, <4>1
    <3>. QED BY <1>6, <3>1, <3>2
  <2>3. \A a \in DOMAIN w.sessions :
              /\ w.sessions[a].root \in DOMAIN w.nodes
              /\ w.nodes[w.sessions[a].root].kind = "tabs" /\ w.nodes[w.sessions[a].root].sess = a
              /\ Distinct(w.sessions[a].floats)
              /\ ToSet(w.sessions[a].floats) = {f \in DOMAIN w.floats : w.floats[f].sess = a}
    <3> SUFFICES ASSUME NEW a \in DOMAIN w.sessions
                 PROVE  /\ w.sessions[a].root \in DOMAIN w.nodes
                        /\ w.nodes[w.sessions[a].root].kind = "tabs" /\ w.nodes[w.sessions[a].root].sess = a
                        /\ Distinct(w.sessions[a].floats)
                        /\ ToSet(w.sessions[a].floats) = {f \in DOMAIN w.floats : w.floats[f].sess = a}
      OBVIOUS
    <3>1. CASE a = sid
      <4>1. {f \in DOMAIN w.floats : w.floats[f].sess = a} = {}
        BY <1>6, <2>1, <3>1
      <4>2. Distinct(w.sessions[a].floats) /\ ToSet(w.sessions[a].floats) = {}
        BY <1>6, <3>1, ShortLists
      <4>. QED BY <1>6, <3>1, <4>1, <4>2
    <3>2. CASE a \in DOMAIN s.sessions
      BY <1>6, <2>1, <3>2
    <3>. QED BY <1>6, <3>1, <3>2
  <2>4. \A f \in DOMAIN w.floats :
              /\ w.floats[f].root \in DOMAIN w.nodes /\ w.floats[f].root \notin SessionRoots(w)
              /\ w.floats[f].sess \in DOMAIN w.sessions /\ w.nodes[w.floats[f].root].sess = w.floats[f].sess
              /\ \A g \in DOMAIN w.floats : w.floats[g].root = w.floats[f].root => g = f
    <3> SUFFICES ASSUME NEW f \in DOMAIN s.floats
                 PROVE  s.floats[f].root # new
      BY <1>6, <1>7, <2>1
    <3>. QED BY <1>1, <2>1
  <2>5. {} \subseteq DOMAIN w.nodes
    OBVIOUS
  <2>. QED BY <2>2, <2>3, <2>4, <2>5 DEF Rooted
<1>10. Shaped(w, None)
  <2>1. w.nodes \in [DOMAIN w.nodes -> NodeType] /\ None \notin DOMAIN w.nodes
    BY <1>6 DEF IsState, None
  <2>2. \A m \in DOMAIN s.nodes : Fits(s.nodes[m], IF m = None THEN 1 ELSE 0, Least(s, m))
    BY <1>1, ShapedIs
  <2>3. \A m \in DOMAIN w.nodes : Fits(w.nodes[m], IF m = None THEN 1 ELSE 0, Least(w, m))
    <3> SUFFICES ASSUME NEW m \in DOMAIN w.nodes PROVE Fits(w.nodes[m], 0, Least(w, m))
      BY <2>1
    <3>1. CASE m = new
      <4>1. Least(w, m) = 0
        BY <1>7, <3>1 DEF Least
      <4>2. Fits(y, 0, 0)
        BY ShortLists DEF Fits
      <4>. QED BY <1>6, <3>1, <4>1, <4>2
    <3>2. CASE m \in DOMAIN s.nodes
      <4>1. m # new
        BY <1>1, <3>2
      <4>2. Least(w, m) = Least(s, m)
        BY <1>7, <4>1 DEF Least
      <4>3. Fits(s.nodes[m], 0, Least(s, m))
        BY <1>1, <2>2, <3>2
      <4>. QED BY <1>6, <3>2, <4>2, <4>3
    <3>. QED BY <1>6, <3>1, <3>2
  <2>. QED BY <2>1, <2>3, ShapedIs
<1>11. Pointed(w)
  BY <1>1, <1>6 DEF Pointed
<1>12. Remembered(w)
  <2>1. /\ \A m \in DOMAIN s.nodes : s.nodes[m].last < s.nextNode
                 /\ (s.nodes[m].last \in DOMAIN s.nodes => s.nodes[s.nodes[m].last].kind = "view")
        /\ \A f \in DOMAIN s.floats : s.floats[f].last < s.nextNode
                 /\ (s.floats[f].last \in DOMAIN s.nodes => s.nodes[s.floats[f].last].kind = "view")
    BY <1>1 DEF Remembered
  <2>2. /\ \A m \in DOMAIN s.nodes : s.nodes[m].last \in Nat
        /\ \A f \in DOMAIN s.floats : s.floats[f].last \in Nat
    <3>1. s.floats \in [DOMAIN s.floats -> FloatType]
      BY <1>1 DEF IsState
    <3>2. \A m \in DOMAIN s.nodes : s.nodes[m].last \in Nat
      BY <1>1, NodeFields
    <3>. QED BY <3>1, <3>2 DEF FloatType
  <2>3. \A l \in Nat : l < s.nextNode => l < w.nextNode /\ l # new
    BY <1>1, <1>6 DEF new
  <2>4. \A m \in DOMAIN w.nodes : w.nodes[m].last < w.nextNode
                 /\ (w.nodes[m].last \in DOMAIN w.nodes => w.nodes[w.nodes[m].last].kind = "view")
    <3> SUFFICES ASSUME NEW m \in DOMAIN w.nodes
                 PROVE  w.nodes[m].last < w.nextNode
                        /\ (w.nodes[m].last \in DOMAIN w.nodes => w.nodes[w.nodes[m].last].kind = "view")
      OBVIOUS
    <3>1. CASE m = new
      <4>1. w.nodes[m].last = None /\ None \notin DOMAIN w.nodes /\ None < w.nextNode
        BY <1>1, <1>6, <3>1 DEF None, new
      <4>. QED BY <4>1
    <3>2. CASE m \in DOMAIN s.nodes
      BY <1>6, <2>1, <2>2, <2>3, <3>2
    <3>. QED BY <1>6, <3>1, <3>2
  <2>5. \A f \in DOMAIN w.floats : w.floats[f].last < w.nextNode
                 /\ (w.floats[f].last \in DOMAIN w.nodes => w.nodes[w.floats[f].last].kind = "view")
    BY <1>6, <2>1, <2>2, <2>3
  <2>. QED BY <2>4, <2>5 DEF Remembered
<1>13. Owned(w)
  <2>1. None \in 0 .. s.nextFloat - 1 /\ None \notin DOMAIN s.floats
    BY <1>1 DEF IsState, None
  <2>. QED BY <1>1, <1>6, <2>1 DEF Owned
<1>14. Ranked(w)
  <2>1. PICK top \in Nat : \E rank \in [DOMAIN s.nodes -> 0 .. top] :
          \A m \in DOMAIN s.nodes : s.nodes[m].parent # None => rank[m] < rank[s.nodes[m].parent]
    BY <1>1 DEF Ranked
  <2>2. PICK rank \in [DOMAIN s.nodes -> 0 .. top] :
          \A m \in DOMAIN s.nodes : s.nodes[m].parent # None => rank[m] < rank[s.nodes[m].parent]
    BY <2>1
  <2> DEFINE more == [m \in DOMAIN w.nodes |-> IF m = new THEN 0 ELSE rank[m]]
  <2>3. more \in [DOMAIN w.nodes -> 0 .. top]
    BY <1>6, <2>1, <2>2
  <2>4. \A m \in DOMAIN w.nodes : w.nodes[m].parent # None => more[m] < more[w.nodes[m].parent]
    <3> SUFFICES ASSUME NEW m \in DOMAIN w.nodes, w.nodes[m].parent # None
                 PROVE  more[m] < more[w.nodes[m].parent]
      OBVIOUS
    <3>1. m \in DOMAIN s.nodes /\ m # new
      BY <1>1, <1>6
    <3>2. s.nodes[m].parent \in DOMAIN s.nodes /\ s.nodes[m].parent # new /\ w.nodes[m].parent = s.nodes[m].parent
      BY <1>1, <1>6, <3>1 DEF Linked
    <3>. QED BY <1>6, <2>2, <3>1, <3>2
  <2> HIDE DEF more
  <2>. QED BY <2>1, <2>3, <2>4 DEF Ranked
<1>. QED BY <1>6, <1>8, <1>9, <1>10, <1>11, <1>12, <1>13, <1>14 DEF Forest

\* A session is created.
LEMMA CreateSessionKeeps ==
    ASSUME NEW s, Sound(s)
    PROVE  Sound(CreateSession(s))
<1> DEFINE sid == s.nextSession
           y == Tabs(sid, None, <<>>, None)
           w == CreateSession(s)
<1>1. Forest(s, {}, None) /\ Attached(s, {}) /\ IsState(s) /\ sid \in Nat /\ None \notin DOMAIN s.nodes
      /\ s.nextNode \notin DOMAIN s.nodes
  BY DEF Sound, Forest, IsState, None
<1>2. /\ y \in NodeType /\ y.kind = "tabs" /\ y.sess = sid /\ y.parent = None /\ y.kids = <<>>
      /\ y.sizes = <<>> /\ y.active = 0 /\ y.last = None
  BY <1>1, EmptyTabsIs
<1>3. Begun(s, w, sid, y)
  BY <1>1, CreateSessionIs
<1> HIDE DEF w, y
<1>4. Forest(w, {}, None)
  BY <1>1, <1>2, <1>3, BegunForest
<1>5. Attached(w, {})
  BY <1>1, <1>2, <1>3 DEF Begun, Attached
<1>. QED BY <1>4, <1>5 DEF Sound, w

\* What closing one session, or a part of it, may change of views and buffers.
CutSession(s, x, sid) ==
    /\ DOMAIN x.buffers = DOMAIN s.buffers
    /\ \A b \in DOMAIN s.buffers :
          /\ x.buffers[b].exited = s.buffers[b].exited /\ x.buffers[b].ever = s.buffers[b].ever
          /\ \/ x.buffers[b].att = s.buffers[b].att
             \/ s.buffers[b].att \in DOMAIN s.nodes /\ s.nodes[s.buffers[b].att].sess = sid
    /\ \A n \in DOMAIN x.nodes : x.nodes[n].kind = "view" =>
          n \in DOMAIN s.nodes /\ s.nodes[n].kind = "view" /\ s.nodes[n].sess = x.nodes[n].sess

\* Some of a session's popups are closed.
PartlyClosed(s, x, sid, gone) ==
    /\ Sound(x) /\ CutSession(s, x, sid)
    /\ DOMAIN x.sessions = DOMAIN s.sessions /\ DOMAIN x.floats = DOMAIN s.floats \ gone
    /\ \A g \in DOMAIN x.floats : x.floats[g].sess = s.floats[g].sess
    /\ \A a \in DOMAIN s.sessions : x.sessions[a].root = s.sessions[a].root

\* More of the session is closed.
LEMMA CutSessionMore ==
    ASSUME NEW s, NEW x, NEW y, NEW sid, NEW G, Attached(x, {}), CutSession(s, x, sid), CutViews(x, y, G),
           \A n \in G : n \in DOMAIN x.nodes /\ x.nodes[n].sess = sid
    PROVE  CutSession(s, y, sid)
<1>1. \A n \in DOMAIN y.nodes : y.nodes[n].kind = "view" =>
          n \in DOMAIN x.nodes /\ x.nodes[n].kind = "view" /\ y.nodes[n].sess = x.nodes[n].sess
  BY DEF CutViews
<1>2. \A b \in DOMAIN s.buffers :
          \/ y.buffers[b].att = s.buffers[b].att
          \/ s.buffers[b].att \in DOMAIN s.nodes /\ s.nodes[s.buffers[b].att].sess = sid
  <2> SUFFICES ASSUME NEW b \in DOMAIN s.buffers, y.buffers[b].att # s.buffers[b].att
               PROVE  s.buffers[b].att \in DOMAIN s.nodes /\ s.nodes[s.buffers[b].att].sess = sid
    OBVIOUS
  <2> DEFINE a == x.buffers[b].att
  <2>1. CASE a # s.buffers[b].att
    BY <2>1 DEF CutSession
  <2>2. CASE a = s.buffers[b].att
    <3>1. a \in G /\ b \in DOMAIN x.buffers
      BY <2>2 DEF CutViews, CutSession
    <3>2. a \in DOMAIN x.nodes /\ x.nodes[a].sess = sid
      BY <3>1
    <3>3. CASE a = None
      BY <2>2, <3>1, <3>3 DEF CutViews
    <3>4. CASE a # None
      <4>1. x.nodes[a].kind = "view"
        BY <3>1, <3>4 DEF Attached
      <4>2. a \in DOMAIN s.nodes /\ s.nodes[a].sess = x.nodes[a].sess
        BY <3>2, <4>1 DEF CutSession
      <4>. QED BY <2>2, <3>2, <4>2
    <3>. QED BY <3>3, <3>4
  <2>. QED BY <2>1, <2>2
<1>3. /\ DOMAIN y.buffers = DOMAIN s.buffers
      /\ \A b \in DOMAIN s.buffers :
          y.buffers[b].exited = s.buffers[b].exited /\ y.buffers[b].ever = s.buffers[b].ever
  BY DEF CutViews, CutSession
<1>4. \A n \in DOMAIN y.nodes : y.nodes[n].kind = "view" =>
          n \in DOMAIN s.nodes /\ s.nodes[n].kind = "view" /\ s.nodes[n].sess = y.nodes[n].sess
  BY <1>1 DEF CutSession
<1>. QED BY <1>2, <1>3, <1>4 DEF CutSession

\* One more popup of the session is closed.
LEMMA ClosingMore ==
    ASSUME NEW s, NEW x, NEW sid, NEW gone, PartlyClosed(s, x, sid, gone),
           NEW f \in DOMAIN s.floats, f \notin gone, s.floats[f].sess = sid
    PROVE  LET r == CloseFloating(x, f) IN r.ok = TRUE /\ PartlyClosed(s, r.s, sid, gone \cup {f})
<1> DEFINE r == CloseFloating(x, f)
           y == r.s
           G == Below(x, x.floats[f].root)
<1>1. /\ Forest(x, {}, None) /\ Attached(x, {}) /\ CutSession(s, x, sid) /\ f \in DOMAIN x.floats
      /\ x.floats[f].sess = sid
  BY DEF PartlyClosed, Sound
<1>2. /\ Closed(x, r, G) /\ DOMAIN y.floats = DOMAIN x.floats \ {f}
      /\ \A g \in DOMAIN y.floats : y.floats[g].sess = x.floats[g].sess
      /\ \A a \in DOMAIN x.sessions : y.sessions[a].root = x.sessions[a].root
  BY <1>1, CloseFloatingCloses
<1>3. \A n \in G : n \in DOMAIN x.nodes /\ x.nodes[n].sess = sid
  <2>1. x.floats[f].root \in DOMAIN x.nodes /\ x.nodes[x.floats[f].root].sess = sid
    BY <1>1 DEF Forest, Rooted
  <2>. QED BY <1>1, <2>1, BelowFacts DEF Forest
<1> HIDE DEF r, G
<1>4. r.ok = TRUE /\ Forest(y, {}, None) /\ CutViews(x, y, G)
  BY <1>2 DEF Closed
<1>5. CutSession(s, y, sid)
  BY <1>1, <1>3, <1>4, CutSessionMore
<1>6. Sound(y)
  BY <1>1, <1>4, CutViewsAttached DEF Sound
<1>7. DOMAIN y.sessions = DOMAIN s.sessions
  BY <1>4 DEF CutViews, PartlyClosed
<1>8. /\ DOMAIN y.floats = DOMAIN s.floats \ (gone \cup {f})
      /\ \A g \in DOMAIN y.floats : y.floats[g].sess = s.floats[g].sess
      /\ \A a \in DOMAIN s.sessions : y.sessions[a].root = s.sessions[a].root
  BY <1>2 DEF PartlyClosed
<1>9. PartlyClosed(s, y, sid, gone \cup {f})
  BY <1>5, <1>6, <1>7, <1>8 DEF PartlyClosed
<1>. QED BY <1>4, <1>9 DEF r

-----------------------------------------------------------------------------
(* Closing a session *)

\* Its popups, one after the other.
OneClosed(r, f) == IF r.ok THEN CloseFloating(r.s, f) ELSE r
IsClosing(g, s, floats, N) ==
    g = [i \in 0 .. N |-> IF i = 0 THEN Ok(s) ELSE OneClosed(g[i - 1], floats[i])]

\* The recursion over the popups of a session ends.
LEMMA ClosingExists ==
    ASSUME NEW s, NEW floats, NEW N \in Nat
    PROVE  \E g : IsClosing(g, s, floats, N)
<1> DEFINE a == Ok(s)
           Bad == {m \in Nat : ~ \E g : IsClosing(g, s, floats, m)}
<1> SUFFICES ASSUME Bad # {} PROVE FALSE
  OBVIOUS
<1>1. PICK m \in Bad : \A j \in Bad : m <= j
  BY NatMin
<1>2. m # 0
  <2>1. IsClosing([k \in 0 .. 0 |-> a], s, floats, 0)
    BY DEF IsClosing
  <2>. QED BY <1>1, <2>1
<1>3. PICK g : IsClosing(g, s, floats, m - 1)
  BY <1>1, <1>2
<1> HIDE DEF a
<1> DEFINE last == OneClosed(g[m - 1], floats[m])
           h == [k \in 0 .. m |-> IF k = m THEN last ELSE g[k]]
<1>4. \A k \in 0 .. m : h[k] = IF k = 0 THEN a ELSE OneClosed(h[k - 1], floats[k])
  <2>1. \A k \in 0 .. m - 1 : g[k] = IF k = 0 THEN a ELSE OneClosed(g[k - 1], floats[k])
    BY <1>3 DEF IsClosing, a
  <2>2. \A k \in 0 .. m - 1 : h[k] = g[k]
    BY <1>1
  <2>3. h[m] = last
    BY <1>1
  <2> HIDE DEF h
  <2>4. last = OneClosed(h[m - 1], floats[m])
    BY <1>1, <1>2, <2>2
  <2>5. ASSUME NEW k \in 0 .. m - 1 PROVE h[k] = IF k = 0 THEN a ELSE OneClosed(h[k - 1], floats[k])
    BY <2>1, <2>2
  <2>6. \A k \in 0 .. m : k = m \/ k \in 0 .. m - 1
    BY <1>1
  <2>7. h[m] = IF m = 0 THEN a ELSE OneClosed(h[m - 1], floats[m])
    BY <1>2, <2>3, <2>4
  <2> HIDE DEF last
  <2>. QED BY <2>5, <2>6, <2>7
<1>5. h = [k \in 0 .. m |-> h[k]]
  OBVIOUS
<1> HIDE DEF h
<1>6. IsClosing(h, s, floats, m)
  BY <1>4, <1>5 DEF IsClosing, a
<1>. QED BY <1>1, <1>6

\* The first k entries of a list.
Firsts(list, k) == {list[j] : j \in 1 .. k}

\* After the first k popups of the session are closed, the layout is sound and has
\* the others.
LEMMA ClosingPopups ==
    ASSUME NEW s, Sound(s), NEW sid \in DOMAIN s.sessions, NEW g,
           NEW floats, floats = s.sessions[sid].floats, IsClosing(g, s, floats, Len(floats)),
           NEW k \in 0 .. Len(floats)
    PROVE  g[k].ok = TRUE /\ PartlyClosed(s, g[k].s, sid, Firsts(floats, k))
<1> DEFINE N == Len(floats)
           gone(i) == Firsts(floats, i)
<1>1. /\ floats \in Seq(Nat) /\ N \in Nat
      /\ \A i \in 1 .. N : floats[i] \in DOMAIN s.floats /\ s.floats[floats[i]].sess = sid
      /\ \A i, j \in 1 .. N : floats[i] = floats[j] => i = j
  <2>1. floats \in Seq(Nat)
    <3>1. IsSession(s.sessions[sid])
      BY DEF Sound, Forest, IsState
    <3>. QED BY <3>1 DEF IsSession
  <2>2. Distinct(floats) /\ ToSet(floats) = {f \in DOMAIN s.floats : s.floats[f].sess = sid}
    BY DEF Sound, Forest, Rooted
  <2>3. DOMAIN floats = 1 .. N /\ N \in Nat
    BY <2>1
  <2>4. \A i \in 1 .. N : floats[i] \in ToSet(floats)
    BY <2>3 DEF ToSet
  <2>5. \A i, j \in 1 .. N : floats[i] = floats[j] => i = j
    BY <2>2, <2>3 DEF Distinct
  <2>. QED BY <2>1, <2>2, <2>3, <2>4, <2>5
<1> DEFINE Bad == {i \in Nat : i \in 0 .. N /\ ~ (g[i].ok = TRUE /\ PartlyClosed(s, g[i].s, sid, gone(i)))}
<1> HIDE DEF gone
<1>2. Bad = {}
  <2> SUFFICES ASSUME Bad # {} PROVE FALSE
    OBVIOUS
  <2>1. PICK i \in Bad : \A j \in Bad : i <= j
    BY NatMin
  <2>2. i \in 0 .. N /\ g[i] = IF i = 0 THEN Ok(s) ELSE OneClosed(g[i - 1], floats[i])
    <3> DEFINE a == Ok(s)
    <3>1. g = [j \in 0 .. N |-> IF j = 0 THEN a ELSE OneClosed(g[j - 1], floats[j])]
      BY DEF IsClosing
    <3>2. i \in 0 .. N
      BY <2>1
    <3> HIDE DEF a
    <3>3. g[i] = IF i = 0 THEN a ELSE OneClosed(g[i - 1], floats[i])
      BY <3>1, <3>2
    <3>. QED BY <3>2, <3>3 DEF a
  <2>3. CASE i = 0
    <3>1. g[0].ok = TRUE /\ g[0].s = s
      BY <2>2, <2>3 DEF Ok
    <3>2. gone(0) = {}
      BY DEF gone, Firsts
    <3>3. CutSession(s, s, sid)
      BY DEF CutSession
    <3>4. PartlyClosed(s, s, sid, gone(0))
      BY <3>2, <3>3 DEF PartlyClosed
    <3>. QED BY <2>1, <2>3, <3>1, <3>4
  <2>4. CASE i # 0
    <3> DEFINE r == g[i - 1]
               f == floats[i]
    <3>1. i - 1 \in Nat /\ i - 1 \in 0 .. N /\ ~ (i <= i - 1) /\ i \in 1 .. N /\ i \in Nat
      BY <1>1, <2>1, <2>2, <2>4
    <3>2. r.ok = TRUE /\ PartlyClosed(s, r.s, sid, gone(i - 1))
      BY <2>1, <3>1
    <3>3. f \in DOMAIN s.floats /\ s.floats[f].sess = sid
      BY <1>1, <3>1
    <3>4. f \notin gone(i - 1)
      <4>1. \A j \in 1 .. i - 1 : j \in 1 .. N /\ j # i
        BY <1>1, <3>1
      <4>. QED BY <1>1, <3>1, <4>1 DEF gone, Firsts
    <3>5. gone(i) = gone(i - 1) \cup {f}
      <4>1. \A j : j \in 1 .. i <=> j \in 1 .. i - 1 \/ j = i
        BY <3>1
      <4>. QED BY <4>1 DEF gone, Firsts
    <3>6. g[i] = CloseFloating(r.s, f)
      BY <2>2, <2>4, <3>2 DEF OneClosed
    <3> HIDE DEF r, f
    <3>7. LET q == CloseFloating(r.s, f) IN q.ok = TRUE /\ PartlyClosed(s, q.s, sid, gone(i - 1) \cup {f})
      BY <3>2, <3>3, <3>4, ClosingMore
    <3>8. g[i].ok = TRUE /\ PartlyClosed(s, g[i].s, sid, gone(i))
      BY <3>5, <3>6, <3>7
    <3>. QED BY <2>1, <3>8
  <2>. QED BY <2>3, <2>4
<1>3. k \in Nat /\ k \in 0 .. N
  BY <1>1
<1>4. g[k].ok = TRUE /\ PartlyClosed(s, g[k].s, sid, gone(k))
  BY <1>2, <1>3
<1>. QED BY <1>4 DEF gone

\* A session without popups, whose tree was removed, is gone.
Ended(y, w, sid) ==
    /\ IsState(w) /\ w.nodes = y.nodes /\ w.floats = y.floats /\ w.buffers = y.buffers
    /\ w.nextNode = y.nextNode /\ w.nextFloat = y.nextFloat
    /\ DOMAIN w.sessions = DOMAIN y.sessions \ {sid}
    /\ \A a \in DOMAIN w.sessions : w.sessions[a] = y.sessions[a]

\* What dropping the record of a session gives.
LEMMA EndedIs ==
    ASSUME NEW y, IsState(y), NEW sid
    PROVE  Ended(y, [y EXCEPT !.sessions = Restrict(@, DOMAIN @ \ {sid})], sid)
<1> DEFINE rest == [a \in DOMAIN y.sessions \ {sid} |-> y.sessions[a]]
           w == [y EXCEPT !.sessions = Restrict(@, DOMAIN @ \ {sid})]
<1>1. /\ Shape(w) /\ w.sessions = rest /\ w.nodes = y.nodes /\ w.floats = y.floats
      /\ w.buffers = y.buffers /\ w.nextNode = y.nextNode /\ w.nextFloat = y.nextFloat
      /\ w.nextSession = y.nextSession
  BY DEF IsState, Shape, Restrict
<1> HIDE DEF w
<1>2. DOMAIN rest = DOMAIN y.sessions \ {sid} /\ \A a \in DOMAIN rest : rest[a] = y.sessions[a]
  OBVIOUS
<1>3. rest = [a \in DOMAIN rest |-> rest[a]]
  OBVIOUS
<1> HIDE DEF rest
<1>4. \A a \in DOMAIN rest : IsSession(rest[a]) /\ a \in 1 .. w.nextSession - 1
  BY <1>1, <1>2 DEF IsState
<1>5. IsState(w)
  BY <1>1, <1>3, <1>4 DEF IsState
<1>6. Ended(y, w, sid)
  BY <1>1, <1>2, <1>5 DEF Ended
<1>. QED BY <1>6 DEF w

\* The nodes of a session are those in its tree and in its popups.
LEMMA NodesOfSession ==
    ASSUME NEW s, NEW e, Forest(s, {}, e), NEW m \in DOMAIN s.nodes
    PROVE  \/ m \in Below(s, s.sessions[s.nodes[m].sess].root)
           \/ \E f \in DOMAIN s.floats : s.floats[f].sess = s.nodes[m].sess /\ m \in Below(s, s.floats[f].root)
<1> DEFINE t == TopRoot(s, m)
<1>1. IsState(s) /\ Linked(s) /\ Ranked(s) /\ Rooted(s, {})
  BY DEF Forest
<1>2. t \in DOMAIN s.nodes /\ s.nodes[t].parent = None /\ s.nodes[t].sess = s.nodes[m].sess /\ m \in Below(s, t)
  BY <1>1, TopRootFacts
<1> HIDE DEF t
<1>3. t \in SessionRoots(s) \/ t \in FloatRoots(s)
  BY <1>1, <1>2 DEF Rooted
<1>4. CASE t \in SessionRoots(s)
  <2>1. PICK a \in DOMAIN s.sessions : s.sessions[a].root = t
    BY <1>4 DEF SessionRoots
  <2>2. s.nodes[t].sess = a
    BY <1>1, <2>1 DEF Rooted
  <2>. QED BY <1>2, <2>1, <2>2
<1>5. CASE t \in FloatRoots(s)
  <2>1. PICK f \in DOMAIN s.floats : s.floats[f].root = t
    BY <1>5 DEF FloatRoots
  <2>2. s.nodes[t].sess = s.floats[f].sess
    BY <1>1, <2>1 DEF Rooted
  <2>. QED BY <1>2, <2>1, <2>2
<1>. QED BY <1>3, <1>4, <1>5

\* What is left is a forest.
LEMMA EndedForest ==
    ASSUME NEW x, Forest(x, {}, None), NEW sid \in DOMAIN x.sessions,
           \A f \in DOMAIN x.floats : x.floats[f].sess # sid,
           NEW y, IsState(y), CutNodes(x, y, x.sessions[sid].root), NEW w, Ended(y, w, sid)
    PROVE  Forest(w, {}, None)
<1> DEFINE n == x.sessions[sid].root
<1>1. Trunk(x, {}) /\ Shaped(x, None) /\ IsState(x) /\ Linked(x) /\ Ranked(x) /\ Rooted(x, {})
      /\ x.nodes \in [DOMAIN x.nodes -> NodeType] /\ None \notin DOMAIN x.nodes
  BY ForestIs DEF Forest, IsState, None
<1>2. /\ n \in DOMAIN x.nodes /\ x.nodes[n].parent = None /\ n \in SessionRoots(x) /\ n \notin FloatRoots(x)
      /\ \A a \in DOMAIN x.sessions : x.sessions[a].root = n => a = sid
  <2>1. /\ \A a \in DOMAIN x.sessions : x.sessions[a].root \in DOMAIN x.nodes
                                         /\ x.nodes[x.sessions[a].root].sess = a
        /\ \A f \in DOMAIN x.floats : x.floats[f].root \notin SessionRoots(x)
        /\ \A m \in SessionRoots(x) : m \in DOMAIN x.nodes => x.nodes[m].parent = None
    BY <1>1 DEF Rooted
  <2>. QED BY <2>1 DEF SessionRoots, FloatRoots
<1>3. /\ Linked(y) /\ Pointed(y) /\ Remembered(y) /\ Owned(y) /\ Ranked(y)
      /\ \A m \in DOMAIN x.nodes : x.nodes[m].parent = None /\ m # n => m \in DOMAIN y.nodes
  BY <1>1, <1>2, CutKeeps
<1>4. /\ n \notin DOMAIN y.nodes /\ DOMAIN y.nodes \subseteq DOMAIN x.nodes /\ y.sessions = x.sessions
      /\ y.floats = x.floats /\ y.nextNode = x.nextNode /\ y.nextFloat = x.nextFloat
      /\ \A m \in DOMAIN y.nodes : y.nodes[m] = x.nodes[m] /\ m \notin Below(x, n)
  <2>1. n \in Below(x, n)
    BY <1>1, <1>2, BelowFacts
  <2>. QED BY <2>1 DEF CutNodes
<1>5. /\ IsState(w) /\ w.nodes = y.nodes /\ w.floats = x.floats /\ w.nextNode = y.nextNode
      /\ w.nextFloat = y.nextFloat /\ DOMAIN w.sessions = DOMAIN x.sessions \ {sid}
      /\ \A a \in DOMAIN w.sessions : w.sessions[a] = x.sessions[a]
  BY <1>4 DEF Ended
<1>6. \A m \in DOMAIN w.nodes : w.nodes[m].sess # sid
  <2> SUFFICES ASSUME NEW m \in DOMAIN y.nodes, x.nodes[m].sess = sid PROVE FALSE
    BY <1>4, <1>5
  <2>1. m \in Below(x, n)
    BY <1>4, NodesOfSession
  <2>. QED BY <1>4, <2>1
<1>7. SessionRoots(w) = SessionRoots(x) \ {n} /\ FloatRoots(w) = FloatRoots(x)
  BY <1>2, <1>5 DEF SessionRoots, FloatRoots
<1> HIDE DEF n
<1>8. Linked(w)
  <2>1. \A m \in DOMAIN w.nodes : w.nodes[m].sess \in DOMAIN w.sessions
    BY <1>3, <1>4, <1>5, <1>6 DEF Linked
  <2>2. \A m \in DOMAIN w.nodes : Kids(w, m) = Kids(y, m)
    BY <1>5 DEF Kids
  <2>. QED BY <1>3, <1>5, <2>1, <2>2 DEF Linked
<1>9. Rooted(w, {})
  <2>1. /\ \A m \in DOMAIN x.nodes : x.nodes[m].parent = None <=> m \in SessionRoots(x) \/ m \in FloatRoots(x)
        /\ \A a \in DOMAIN x.sessions :
              /\ x.sessions[a].root \in DOMAIN x.nodes
              /\ x.nodes[x.sessions[a].root].kind = "tabs" /\ x.nodes[x.sessions[a].root].sess = a
              /\ Distinct(x.sessions[a].floats)
              /\ ToSet(x.sessions[a].floats) = {f \in DOMAIN x.floats : x.floats[f].sess = a}
        /\ \A f \in DOMAIN x.floats :
              /\ x.floats[f].root \in DOMAIN x.nodes /\ x.floats[f].root \notin SessionRoots(x)
              /\ x.floats[f].sess \in DOMAIN x.sessions /\ x.nodes[x.floats[f].root].sess = x.floats[f].sess
              /\ \A g \in DOMAIN x.floats : x.floats[g].root = x.floats[f].root => g = f
    BY <1>1 DEF Rooted
  <2>2. \A m \in DOMAIN w.nodes : w.nodes[m].parent = None <=> m \in SessionRoots(w) \/ m \in FloatRoots(w)
    <3>1. \A m \in DOMAIN w.nodes : m # n /\ m \in DOMAIN x.nodes /\ w.nodes[m] = x.nodes[m]
      BY <1>4, <1>5
    <3>. QED BY <1>7, <2>1, <3>1
  <2>3. \A a \in DOMAIN w.sessions :
              /\ w.sessions[a].root \in DOMAIN w.nodes
              /\ w.nodes[w.sessions[a].root].kind = "tabs" /\ w.nodes[w.sessions[a].root].sess = a
              /\ Distinct(w.sessions[a].floats)
              /\ ToSet(w.sessions[a].floats) = {f \in DOMAIN w.floats : w.floats[f].sess = a}
    <3> SUFFICES ASSUME NEW a \in DOMAIN x.sessions, a # sid
                 PROVE  x.sessions[a].root \in DOMAIN y.nodes
      BY <1>4, <1>5, <2>1
    <3>1. x.sessions[a].root # n /\ x.sessions[a].root \in SessionRoots(x)
      BY <1>2 DEF SessionRoots
    <3>. QED BY <1>3, <2>1, <3>1
  <2>4. \A f \in DOMAIN w.floats :
              /\ w.floats[f].root \in DOMAIN w.nodes /\ w.floats[f].root \notin SessionRoots(w)
              /\ w.floats[f].sess \in DOMAIN w.sessions /\ w.nodes[w.floats[f].root].sess = w.floats[f].sess
              /\ \A g \in DOMAIN w.floats : w.floats[g].root = w.floats[f].root => g = f
    <3> SUFFICES ASSUME NEW f \in DOMAIN x.floats
                 PROVE  x.floats[f].root \in DOMAIN y.nodes
      BY <1>4, <1>5, <1>7, <2>1
    <3>1. x.floats[f].root \in FloatRoots(x)
      BY DEF FloatRoots
    <3>. QED BY <1>2, <1>3, <2>1, <3>1
  <2>5. {} \subseteq DOMAIN w.nodes
    OBVIOUS
  <2>. QED BY <2>2, <2>3, <2>4, <2>5 DEF Rooted
<1>10. Shaped(w, None)
  <2>1. w.nodes \in [DOMAIN w.nodes -> NodeType] /\ None \notin DOMAIN w.nodes
    BY <1>5 DEF IsState, None
  <2>2. \A m \in DOMAIN x.nodes : Fits(x.nodes[m], IF m = None THEN 1 ELSE 0, Least(x, m))
    BY <1>1, ShapedIs
  <2>3. \A m \in DOMAIN w.nodes : Fits(w.nodes[m], IF m = None THEN 1 ELSE 0, Least(w, m))
    <3> SUFFICES ASSUME NEW m \in DOMAIN w.nodes PROVE Fits(w.nodes[m], 0, Least(w, m))
      BY <2>1
    <3>1. m # n /\ m \in DOMAIN x.nodes /\ w.nodes[m] = x.nodes[m]
      BY <1>4, <1>5
    <3>2. Least(w, m) = Least(x, m)
      BY <1>7, <3>1 DEF Least
    <3>3. Fits(x.nodes[m], 0, Least(x, m))
      BY <1>1, <2>2, <3>1
    <3>. QED BY <3>1, <3>2, <3>3
  <2>. QED BY <2>1, <2>3, ShapedIs
<1>11. Pointed(w)
  BY <1>3, <1>5 DEF Pointed
<1>12. Remembered(w)
  BY <1>3, <1>4, <1>5 DEF Remembered
<1>13. Owned(w)
  BY <1>3, <1>4, <1>5 DEF Owned
<1>14. Ranked(w)
  BY <1>3, <1>5 DEF Ranked
<1>. QED BY <1>5, <1>8, <1>9, <1>10, <1>11, <1>12, <1>13, <1>14 DEF Forest

\* What closing a session gives: it is gone, with its popups, and only buffers
\* shown in it are detached.
SessionGone(s, x, sid) ==
    /\ Sound(x) /\ CutSession(s, x, sid) /\ DOMAIN x.sessions = DOMAIN s.sessions \ {sid}

\* Closing a session succeeds and leaves a sound layout without it.
LEMMA CloseSessionEnds ==
    ASSUME NEW s, Sound(s), NEW sid \in DOMAIN s.sessions
    PROVE  LET r == CloseSession(s, sid) IN r.ok = TRUE /\ SessionGone(s, r.s, sid)
<1> DEFINE floats == s.sessions[sid].floats
           N == Len(floats)
           root == RootOf(s, sid)
           g == CHOOSE g : IsClosing(g, s, floats, N)
           R(x) == RemoveTree(x, root)
           F(x) == Ok([x EXCEPT !.sessions = Restrict(@, DOMAIN @ \ {sid})])
<1>1. floats \in Seq(Nat) /\ N \in Nat
  <2>1. IsSession(s.sessions[sid])
    BY DEF Sound, Forest, IsState
  <2>. QED BY <2>1 DEF IsSession
<1>2. CloseSession(s, sid) = AndThen(AndThen(g[N], R), F)
  BY Zenon DEF CloseSession, IsClosing, OneClosed
<1>3. IsClosing(g, s, floats, N)
  BY <1>1, ClosingExists
<1> HIDE DEF g
<1> DEFINE x == g[N].s
           gone == Firsts(floats, N)
<1>4. g[N].ok = TRUE /\ PartlyClosed(s, x, sid, gone)
  <2>1. N \in 0 .. N /\ floats = s.sessions[sid].floats
    BY <1>1
  <2>2. IsClosing(g, s, floats, Len(floats))
    BY <1>3
  <2> HIDE DEF floats
  <2>3. /\ g[Len(floats)].ok = TRUE
        /\ PartlyClosed(s, g[Len(floats)].s, sid, Firsts(floats, Len(floats)))
    BY <2>1, <2>2, ClosingPopups
  <2>. QED BY <2>3
<1>5. CloseSession(s, sid) = AndThen(R(x), F)
  <2>1. AndThen(g[N], R) = R(x)
    BY <1>4, Zenon DEF AndThen
  <2>. QED BY <1>2, <2>1, Zenon
<1> HIDE DEF x
<1>6. /\ Sound(x) /\ CutSession(s, x, sid) /\ DOMAIN x.sessions = DOMAIN s.sessions
      /\ DOMAIN x.floats = DOMAIN s.floats \ gone
      /\ \A f \in DOMAIN x.floats : x.floats[f].sess = s.floats[f].sess
      /\ x.sessions[sid].root = root
  BY <1>4 DEF PartlyClosed, RootOf
<1>7. \A f \in DOMAIN x.floats : x.floats[f].sess # sid
  <2>1. ToSet(floats) = {f \in DOMAIN s.floats : s.floats[f].sess = sid}
    BY DEF Sound, Forest, Rooted
  <2>2. ToSet(floats) = gone
    BY <1>1 DEF ToSet, Firsts
  <2>. QED BY <1>6, <2>1, <2>2
<1> DEFINE y == RemoveSubtree(x, root)
           w == [y EXCEPT !.sessions = Restrict(@, DOMAIN @ \ {sid})]
<1>8. Forest(x, {}, None) /\ Attached(x, {}) /\ IsState(x)
  BY <1>6 DEF Sound, Forest
<1>8a. ~Severed(x, root)
  <2>1. root \in DOMAIN x.nodes
    BY <1>6, <1>8 DEF Forest, Rooted
  <2>. QED BY <1>8, <2>1, Unsevered DEF Forest
<1>9. IsState(y) /\ CutOff(x, y, root)
  <2>1. root \in DOMAIN x.nodes
    BY <1>6, <1>8 DEF Forest, Rooted
  <2>. QED BY <1>8, <1>8a, <2>1, RemoveSubtreeIs
<1>10. CloseSession(s, sid) = Ok(w)
  <2>1. R(x) = Ok(y)
    BY <1>8a, RemoveTreeIs
  <2>2. R(x).ok = TRUE /\ R(x).s = y
    BY <2>1 DEF Ok
  <2> HIDE DEF R, y
  <2>. QED BY <1>5, <2>2 DEF AndThen
<1> HIDE DEF y, root, floats, F, R
<1>11. Ended(y, w, sid)
  BY <1>9, EndedIs
<1> HIDE DEF w
<1>12. Forest(w, {}, None)
  <2>1. CutNodes(x, y, x.sessions[sid].root) /\ sid \in DOMAIN x.sessions
    BY <1>6, <1>9 DEF CutOff
  <2>. QED BY <1>7, <1>8, <1>9, <1>11, <2>1, EndedForest
<1>13. root \in DOMAIN x.nodes /\ x.nodes[root].sess = sid
  BY <1>6, <1>8 DEF Forest, Rooted
<1>14. /\ Below(x, root) \subseteq DOMAIN x.nodes
       /\ \A m \in Below(x, root) : m \in DOMAIN x.nodes /\ x.nodes[m].sess = sid
  BY <1>8, <1>13, BelowFacts DEF Forest
<1>15. CutViews(x, y, Below(x, root))
  <2>1. None \notin DOMAIN x.nodes
    BY <1>8 DEF IsState, None
  <2>. QED BY <1>8, <1>9, <1>14, <2>1, CutOffViews
<1>16. Attached(y, {}) /\ CutSession(s, y, sid)
  BY <1>6, <1>8, <1>14, <1>15, CutViewsAttached, CutSessionMore
<1>17. w.nodes = y.nodes /\ w.buffers = y.buffers /\ DOMAIN w.sessions = DOMAIN s.sessions \ {sid}
  <2>1. y.sessions = x.sessions
    BY <1>9 DEF CutOff, CutNodes
  <2>. QED BY <1>6, <1>11, <2>1 DEF Ended
<1>18. Sound(w)
  BY <1>12, <1>16, <1>17 DEF Sound, Attached
<1>19. CutSession(s, w, sid)
  BY <1>16, <1>17 DEF CutSession
<1>. QED BY <1>10, <1>17, <1>18, <1>19 DEF SessionGone, Ok

\* The nodes a session's trees lead to are those that name it.
LEMMA SessionNodesIs ==
    ASSUME NEW s, NEW e, Forest(s, {}, e), NEW sid \in DOMAIN s.sessions
    PROVE  SessionNodes(s, sid) = {n \in DOMAIN s.nodes : s.nodes[n].sess = sid}
<1> DEFINE fs == ToSet(s.sessions[sid].floats)
           roots == {RootOf(s, sid)} \cup {s.floats[f].root : f \in fs}
<1>1. IsState(s) /\ Linked(s) /\ Ranked(s) /\ Rooted(s, {})
  BY DEF Forest
<1>2. /\ s.sessions[sid].root \in DOMAIN s.nodes /\ s.nodes[s.sessions[sid].root].sess = sid
      /\ fs = {f \in DOMAIN s.floats : s.floats[f].sess = sid}
      /\ \A f \in DOMAIN s.floats :
            s.floats[f].root \in DOMAIN s.nodes /\ s.nodes[s.floats[f].root].sess = s.floats[f].sess
  BY <1>1 DEF Rooted
<1> HIDE DEF fs
<1>3. \A r \in roots : r \in DOMAIN s.nodes /\ s.nodes[r].sess = sid
  BY <1>2 DEF RootOf
<1>4. \A r \in roots : \A m \in Below(s, r) : m \in DOMAIN s.nodes /\ s.nodes[m].sess = sid
  BY <1>1, <1>3, BelowFacts
<1>5. \A n \in DOMAIN s.nodes : s.nodes[n].sess = sid => \E r \in roots : n \in Below(s, r)
  <2> SUFFICES ASSUME NEW n \in DOMAIN s.nodes, s.nodes[n].sess = sid
               PROVE  \E r \in roots : n \in Below(s, r)
    OBVIOUS
  <2>1. \/ n \in Below(s, RootOf(s, sid))
        \/ \E f \in DOMAIN s.floats : s.floats[f].sess = sid /\ n \in Below(s, s.floats[f].root)
    BY NodesOfSession DEF RootOf
  <2>2. CASE n \in Below(s, RootOf(s, sid))
    BY <2>2
  <2>3. CASE \E f \in DOMAIN s.floats : s.floats[f].sess = sid /\ n \in Below(s, s.floats[f].root)
    <3>1. PICK f \in DOMAIN s.floats : s.floats[f].sess = sid /\ n \in Below(s, s.floats[f].root)
      BY <2>3
    <3>2. s.floats[f].root \in roots
      BY <1>2, <3>1
    <3>. QED BY <3>1, <3>2
  <2>. QED BY <2>1, <2>2, <2>3
<1>6. SessionNodes(s, sid) = UNION {Below(s, r) : r \in roots}
  BY DEF SessionNodes, RootsOf, fs
<1> HIDE DEF roots
<1>. QED BY <1>4, <1>5, <1>6

-----------------------------------------------------------------------------
(* Destroying the sessions left without panes *)

\* Nothing was attached or detached.
SameAttached(s, x) ==
    /\ DOMAIN x.buffers = DOMAIN s.buffers
    /\ \A b \in DOMAIN s.buffers : x.buffers[b].att = s.buffers[b].att

DestroyOne(acc, had, sid) ==
    IF sid \in had \cap DOMAIN acc.sessions /\ ~HasPanes(acc, sid)
    THEN CloseSession(acc, sid).s ELSE acc
IsDestroying(g, s, had, N) ==
    g = [i \in 0 .. N |-> IF i = 0 THEN s ELSE DestroyOne(g[i - 1], had, i)]

\* The recursion over the sessions ends.
LEMMA DestroyingExists ==
    ASSUME NEW s, NEW had, NEW N \in Nat
    PROVE  \E g : IsDestroying(g, s, had, N)
<1> DEFINE Bad == {m \in Nat : ~ \E g : IsDestroying(g, s, had, m)}
<1> SUFFICES ASSUME Bad # {} PROVE FALSE
  OBVIOUS
<1>1. PICK m \in Bad : \A j \in Bad : m <= j
  BY NatMin
<1>2. m # 0
  <2>1. IsDestroying([k \in 0 .. 0 |-> s], s, had, 0)
    BY DEF IsDestroying
  <2>. QED BY <1>1, <2>1
<1>3. PICK g : IsDestroying(g, s, had, m - 1)
  BY <1>1, <1>2
<1> DEFINE last == DestroyOne(g[m - 1], had, m)
           h == [k \in 0 .. m |-> IF k = m THEN last ELSE g[k]]
<1>4. \A k \in 0 .. m : h[k] = IF k = 0 THEN s ELSE DestroyOne(h[k - 1], had, k)
  <2>1. \A k \in 0 .. m - 1 : g[k] = IF k = 0 THEN s ELSE DestroyOne(g[k - 1], had, k)
    BY <1>3 DEF IsDestroying
  <2>2. \A k \in 0 .. m - 1 : h[k] = g[k]
    BY <1>1
  <2>3. h[m] = last
    BY <1>1
  <2> HIDE DEF h
  <2>4. last = DestroyOne(h[m - 1], had, m)
    BY <1>1, <1>2, <2>2
  <2>5. ASSUME NEW k \in 0 .. m - 1 PROVE h[k] = IF k = 0 THEN s ELSE DestroyOne(h[k - 1], had, k)
    BY <2>1, <2>2
  <2>6. \A k \in 0 .. m : k = m \/ k \in 0 .. m - 1
    BY <1>1
  <2>7. h[m] = IF m = 0 THEN s ELSE DestroyOne(h[m - 1], had, m)
    BY <1>2, <2>3, <2>4
  <2> HIDE DEF last
  <2>. QED BY <2>5, <2>6, <2>7
<1>5. h = [k \in 0 .. m |-> h[k]]
  OBVIOUS
<1> HIDE DEF h
<1>6. IsDestroying(h, s, had, m)
  BY <1>4, <1>5 DEF IsDestroying
<1>. QED BY <1>1, <1>6

\* A session without panes shows no buffer, so closing it detaches none.
LEMMA DestroyOneKeeps ==
    ASSUME NEW x, Sound(x), NEW had, NEW sid
    PROVE  LET y == DestroyOne(x, had, sid) IN Sound(y) /\ SameAttached(x, y)
<1>1. CASE sid \in had \cap DOMAIN x.sessions /\ ~HasPanes(x, sid)
  <2> DEFINE y == CloseSession(x, sid).s
  <2>1. sid \in DOMAIN x.sessions /\ Forest(x, {}, None) /\ Attached(x, {})
    BY <1>1 DEF Sound
  <2>2. SessionGone(x, y, sid)
    BY <2>1, CloseSessionEnds
  <2>3. DestroyOne(x, had, sid) = y
    BY <1>1 DEF DestroyOne
  <2> HIDE DEF y
  <2>4. \A n \in DOMAIN x.nodes : x.nodes[n].sess = sid => x.nodes[n].kind # "view"
    <3> SUFFICES ASSUME NEW n \in DOMAIN x.nodes, x.nodes[n].sess = sid, x.nodes[n].kind = "view"
                 PROVE  FALSE
      OBVIOUS
    <3>1. n \in SessionNodes(x, sid)
      BY <2>1, SessionNodesIs
    <3>2. \A r \in RootsOf(x, sid) : ~Severed(x, r)
      <4>1. \A r \in RootsOf(x, sid) : r \in DOMAIN x.nodes
        BY <2>1 DEF RootsOf, RootOf, Forest, Rooted
      <4>. QED BY <2>1, <4>1, Unsevered DEF Forest
    <3>. QED BY <1>1, <3>1, <3>2 DEF HasPanes, IsKind
  <2>5. None \notin DOMAIN x.nodes
    BY <2>1 DEF Forest, IsState, None
  <2>6. \A b \in DOMAIN x.buffers : y.buffers[b].att = x.buffers[b].att
    <3> SUFFICES ASSUME NEW b \in DOMAIN x.buffers,
                        x.buffers[b].att \in DOMAIN x.nodes, x.nodes[x.buffers[b].att].sess = sid
                 PROVE  FALSE
      BY <2>2 DEF SessionGone, CutSession
    <3>1. x.nodes[x.buffers[b].att].kind = "view"
      BY <2>1, <2>5 DEF Attached
    <3>. QED BY <2>4, <3>1
  <2>. QED BY <2>2, <2>3, <2>6 DEF SessionGone, CutSession, SameAttached
<1>2. CASE ~ (sid \in had \cap DOMAIN x.sessions /\ ~HasPanes(x, sid))
  BY <1>2 DEF DestroyOne, SameAttached
<1>. QED BY <1>1, <1>2

\* Whichever sessions were noted, the layout stays sound and no buffer is detached.
LEMMA DestroyEmptiedKeeps ==
    ASSUME NEW s, Sound(s), NEW had
    PROVE  LET x == DestroyEmptied(s, had) IN Sound(x) /\ SameAttached(s, x)
<1> DEFINE N == s.nextSession - 1
           g == CHOOSE g : IsDestroying(g, s, had, N)
<1>1. N \in Nat
  BY DEF Sound, Forest, IsState
<1>2. DestroyEmptied(s, had) = g[N]
  BY Zenon DEF DestroyEmptied, IsDestroying, DestroyOne
<1> HIDE DEF N
<1>3. IsDestroying(g, s, had, N)
  BY <1>1, DestroyingExists
<1> HIDE DEF g
<1> DEFINE Bad == {i \in Nat : i \in 0 .. N /\ ~ (Sound(g[i]) /\ SameAttached(s, g[i]))}
<1>4. Bad = {}
  <2> SUFFICES ASSUME Bad # {} PROVE FALSE
    OBVIOUS
  <2>1. PICK i \in Bad : \A j \in Bad : i <= j
    BY NatMin
  <2>2. i \in 0 .. N /\ g[i] = IF i = 0 THEN s ELSE DestroyOne(g[i - 1], had, i)
    <3>1. g = [j \in 0 .. N |-> IF j = 0 THEN s ELSE DestroyOne(g[j - 1], had, j)]
      BY <1>3 DEF IsDestroying
    <3>2. i \in 0 .. N
      BY <2>1
    <3>. QED BY <3>1, <3>2
  <2>3. CASE i = 0
    BY <2>1, <2>2, <2>3 DEF SameAttached
  <2>4. CASE i # 0
    <3> DEFINE x == g[i - 1]
    <3>1. i - 1 \in Nat /\ i - 1 \in 0 .. N /\ ~ (i <= i - 1)
      BY <1>1, <2>1, <2>2, <2>4
    <3>2. Sound(x) /\ SameAttached(s, x)
      BY <2>1, <3>1
    <3>3. g[i] = DestroyOne(x, had, i)
      BY <2>2, <2>4
    <3> HIDE DEF x
    <3>4. Sound(g[i]) /\ SameAttached(x, g[i])
      BY <3>2, <3>3, DestroyOneKeeps
    <3>5. SameAttached(s, g[i])
      BY <3>2, <3>4 DEF SameAttached
    <3>. QED BY <2>1, <3>4, <3>5
  <2>. QED BY <2>3, <2>4
<1>5. N \in 0 .. N
  BY <1>1
<1>6. Sound(g[N]) /\ SameAttached(s, g[N])
  BY <1>1, <1>4, <1>5
<1>. QED BY <1>2, <1>6

-----------------------------------------------------------------------------
(* Cleaning up exited buffers *)

\* A finite set of numbers that is not empty has its Max.
LEMMA MaxIs ==
    ASSUME NEW X \in SUBSET Nat, IsFiniteSet(X), X # {}
    PROVE  Max(X) \in X /\ \A y \in X : y <= Max(X)
<1> DEFINE HasMax(S) == \E x \in S : \A y \in S : x >= y
           Bad == {n \in Nat : \E S \in SUBSET Nat :
                     IsFiniteSet(S) /\ S # {} /\ Cardinality(S) = n /\ ~HasMax(S)}
<1>1. Bad = {}
  <2> SUFFICES ASSUME Bad # {} PROVE FALSE
    OBVIOUS
  <2>1. PICK n \in Bad : \A j \in Bad : n <= j
    BY NatMin
  <2>2. PICK S \in SUBSET Nat : IsFiniteSet(S) /\ S # {} /\ Cardinality(S) = n /\ ~HasMax(S)
    BY <2>1
  <2>3. PICK x \in S : TRUE
    BY <2>2
  <2> DEFINE R == S \ {x}
  <2>4. IsFiniteSet(R) /\ Cardinality(R) = n - 1 /\ n - 1 \in Nat /\ R \in SUBSET Nat
    <3>1. IsFiniteSet(R) /\ Cardinality(R) = n - 1
      BY <2>2, <2>3, FS_RemoveElement
    <3>2. Cardinality(R) \in Nat
      BY <3>1, FS_CardinalityType
    <3>. QED BY <3>1, <3>2
  <2>5. R # {}
    <3> SUFFICES ASSUME R = {} PROVE FALSE
      OBVIOUS
    <3>1. \A y \in S : y = x
      OBVIOUS
    <3>. QED BY <2>2, <2>3, <3>1
  <2> HIDE DEF R
  <2>6. n - 1 \notin Bad
    <3>1. ~ (n <= n - 1)
      BY <2>1
    <3>. QED BY <2>1, <3>1
  <2>7. HasMax(R)
    BY <2>4, <2>5, <2>6
  <2>8. PICK z \in R : \A y \in R : z >= y
    BY <2>7
  <2>9. x \in Nat /\ z \in Nat /\ z \in S /\ \A y \in S : y \in Nat /\ (y = x \/ y \in R)
    BY <2>3, <2>8 DEF R
  <2>10. CASE x >= z
    <3>1. \A y \in S : x >= y
      BY <2>8, <2>9, <2>10
    <3>. QED BY <2>2, <3>1
  <2>11. CASE ~ (x >= z)
    <3>1. \A y \in S : z >= y
      BY <2>8, <2>9, <2>11
    <3>. QED BY <2>2, <2>9, <3>1
  <2>. QED BY <2>10, <2>11
<1>2. Cardinality(X) \in Nat
  BY FS_CardinalityType
<1>3. HasMax(X)
  BY <1>1, <1>2
<1>4. Max(X) \in X /\ \A y \in X : Max(X) >= y
  BY <1>3 DEF Max
<1>. QED BY <1>4

\* A buffer that is shown nowhere can go.
LEMMA RemoveBufferKeeps ==
    ASSUME NEW s, Sound(s), NEW b \in DOMAIN s.buffers, s.buffers[b].att = None
    PROVE  LET x == RemoveBuffer(s, b)
           IN  /\ Sound(x) /\ DOMAIN x.buffers = DOMAIN s.buffers \ {b}
               /\ \A c \in DOMAIN x.buffers : x.buffers[c] = s.buffers[c]
<1> DEFINE rest == [c \in DOMAIN s.buffers \ {b} |-> s.buffers[c]]
           x == RemoveBuffer(s, b)
<1>1. IsState(s) /\ Forest(s, {}, None) /\ Attached(s, {}) /\ None \notin DOMAIN s.nodes
  BY DEF Sound, Forest, IsState, None
<1>2. /\ Shape(x) /\ x.buffers = rest /\ x.nodes = s.nodes /\ x.floats = s.floats
      /\ x.sessions = s.sessions /\ x.nextNode = s.nextNode /\ x.nextFloat = s.nextFloat
      /\ x.nextSession = s.nextSession
  BY <1>1 DEF IsState, Shape, Restrict, RemoveBuffer
<1> HIDE DEF x
<1>3. /\ DOMAIN rest = DOMAIN s.buffers \ {b} /\ \A c \in DOMAIN rest : rest[c] = s.buffers[c]
      /\ rest \in [DOMAIN rest -> BufferType] /\ DOMAIN rest \subseteq Buffers
  BY <1>1 DEF IsState
<1> HIDE DEF rest
<1>4. IsState(x)
  BY <1>1, <1>2, <1>3 DEF IsState
<1>5. Forest(x, {}, None)
  <2>1. SessionRoots(x) = SessionRoots(s) /\ FloatRoots(x) = FloatRoots(s)
    BY <1>2 DEF SessionRoots, FloatRoots
  <2>2. \A n : Kids(x, n) = Kids(s, n)
    BY <1>2 DEF Kids
  <2>3. Linked(x)
    BY <1>1, <1>2, <2>2 DEF Forest, Linked
  <2>4. Rooted(x, {})
    <3> DEFINE H == {}
    <3>1. Rooted(s, H) /\ \A m \in H : FALSE
      BY <1>1 DEF Forest
    <3> HIDE DEF H
    <3>2. /\ \A m \in SessionRoots(s) \cup FloatRoots(s) : m \in DOMAIN s.nodes
          /\ \A m \in DOMAIN s.nodes :
                s.nodes[m].parent = None <=> m \in SessionRoots(s) \/ m \in FloatRoots(s) \/ m \in H
      BY <3>1 DEF Rooted, SessionRoots, FloatRoots
    <3>3. Rooted(x, H)
      BY <1>2, <3>1, <3>2, RootedSame
    <3>. QED BY <3>3 DEF H
  <2>6. Shaped(x, None)
    BY <1>1, <1>2, <2>1, Zenon DEF Forest, Shaped
  <2>5. Pointed(x) /\ Remembered(x) /\ Owned(x) /\ Ranked(x)
    BY <1>1, <1>2 DEF Forest, Pointed, Remembered, Owned, Ranked
  <2>. QED BY <1>4, <2>3, <2>4, <2>5, <2>6 DEF Forest
<1>6. Attached(x, {})
  BY <1>1, <1>2, <1>3 DEF Attached
<1>7. /\ Sound(x) /\ DOMAIN x.buffers = DOMAIN s.buffers \ {b}
      /\ \A c \in DOMAIN x.buffers : x.buffers[c] = s.buffers[c]
  BY <1>2, <1>3, <1>5, <1>6 DEF Sound
<1>. QED BY <1>7 DEF x

\* Closing a view detaches its buffer and no other.
LEMMA CloseViewKeeps ==
    ASSUME NEW s, Sound(s), NEW n \in DOMAIN s.nodes, s.nodes[n].kind = "view"
    PROVE  LET r == CloseNode(s, n)
           IN  /\ r.ok = TRUE /\ Sound(r.s) /\ DOMAIN r.s.buffers = DOMAIN s.buffers
               /\ \A b \in DOMAIN s.buffers :
                     r.s.buffers[b].att = IF b = s.nodes[n].buf THEN None ELSE s.buffers[b].att
<1> DEFINE r == CloseNode(s, n)
<1>1. Forest(s, {}, None) /\ Attached(s, {}) /\ None \notin DOMAIN s.nodes
  BY DEF Sound, Forest, IsState, None
<1>2. Below(s, n) = {n}
  <2>1. Kids(s, n) = {}
    <3>1. s.nodes[n].kids = <<>>
      BY <1>1 DEF Forest, Shaped
    <3>. QED BY <3>1, ShortLists DEF Kids
  <2>. QED BY <1>1, <2>1, BelowFacts DEF Forest
<1>3. Closed(s, r, {n})
  BY <1>1, <1>2, CloseNodeCloses
<1> HIDE DEF r
<1>4. r.ok = TRUE /\ Forest(r.s, {}, None) /\ CutViews(s, r.s, {n})
  BY <1>3 DEF Closed
<1>5. Sound(r.s)
  BY <1>1, <1>4, CutViewsAttached DEF Sound
<1>6. DOMAIN r.s.buffers = DOMAIN s.buffers
      /\ \A b \in DOMAIN s.buffers : r.s.buffers[b].att = IF s.buffers[b].att = n THEN None ELSE s.buffers[b].att
  BY <1>4 DEF CutViews
<1>7. \A b \in DOMAIN s.buffers : s.buffers[b].att = n <=> b = s.nodes[n].buf
  BY <1>1 DEF Attached
<1>. QED BY <1>4, <1>5, <1>6, <1>7 DEF r

DisposeClosing(acc, b, view, closed) ==
    IF ~closed.ok THEN [acc EXCEPT !.s = closed.s]
    ELSE [s |-> RemoveBuffer(closed.s, b),
          changed |-> acc.changed \cup {SessionOf(acc.s, view)}]
DisposeOne(s, remain, watched, acc, b) ==
    LET view == s.buffers[b].att
    IN  IF view # None
        THEN IF b \in remain THEN acc ELSE DisposeClosing(acc, b, view, CloseNode(acc.s, view))
        ELSE IF s.buffers[b].ever /\ b \notin watched THEN [acc EXCEPT !.s = RemoveBuffer(@, b)] ELSE acc
DisposeStep(s, remain, watched, acc, b) ==
    IF b \in DOMAIN s.buffers /\ s.buffers[b].exited THEN DisposeOne(s, remain, watched, acc, b) ELSE acc
\* The clean-up, buffer by buffer.
IsDisposing(g, s, remain, watched, N) ==
    g = [b \in 0 .. N |-> IF b = 0 THEN [s |-> s, changed |-> {}]
                          ELSE DisposeStep(s, remain, watched, g[b - 1], b)]

\* The recursion over the buffers ends.
LEMMA DisposingExists ==
    ASSUME NEW s, NEW remain, NEW watched, NEW N \in Nat
    PROVE  \E g : IsDisposing(g, s, remain, watched, N)
<1> DEFINE a == [s |-> s, changed |-> {}]
           Bad == {m \in Nat : ~ \E g : IsDisposing(g, s, remain, watched, m)}
<1> SUFFICES ASSUME Bad # {} PROVE FALSE
  OBVIOUS
<1>1. PICK m \in Bad : \A j \in Bad : m <= j
  BY NatMin
<1>2. m # 0
  <2>1. IsDisposing([k \in 0 .. 0 |-> a], s, remain, watched, 0)
    BY DEF IsDisposing
  <2>. QED BY <1>1, <2>1
<1>3. PICK g : IsDisposing(g, s, remain, watched, m - 1)
  BY <1>1, <1>2
<1> HIDE DEF a
<1> DEFINE last == DisposeStep(s, remain, watched, g[m - 1], m)
           h == [k \in 0 .. m |-> IF k = m THEN last ELSE g[k]]
<1>4. \A k \in 0 .. m : h[k] = IF k = 0 THEN a ELSE DisposeStep(s, remain, watched, h[k - 1], k)
  <2>1. \A k \in 0 .. m - 1 : g[k] = IF k = 0 THEN a ELSE DisposeStep(s, remain, watched, g[k - 1], k)
    BY <1>3 DEF IsDisposing, a
  <2>2. \A k \in 0 .. m - 1 : h[k] = g[k]
    BY <1>1
  <2>3. h[m] = last
    BY <1>1
  <2> HIDE DEF h
  <2>4. last = DisposeStep(s, remain, watched, h[m - 1], m)
    BY <1>1, <1>2, <2>2
  <2>5. ASSUME NEW k \in 0 .. m - 1 PROVE h[k] = IF k = 0 THEN a ELSE DisposeStep(s, remain, watched, h[k - 1], k)
    BY <2>1, <2>2
  <2>6. \A k \in 0 .. m : k = m \/ k \in 0 .. m - 1
    BY <1>1
  <2>7. h[m] = IF m = 0 THEN a ELSE DisposeStep(s, remain, watched, h[m - 1], m)
    BY <1>2, <2>3, <2>4
  <2> HIDE DEF last
  <2>. QED BY <2>5, <2>6, <2>7
<1>5. h = [k \in 0 .. m |-> h[k]]
  OBVIOUS
<1> HIDE DEF h
<1>6. IsDisposing(h, s, remain, watched, m)
  BY <1>4, <1>5 DEF IsDisposing, a
<1>. QED BY <1>1, <1>6

\* Once the buffers up to b were looked at, the layout is sound and the later ones
\* are as they were.
Disposing(s, acc, b) ==
    /\ Sound(acc.s)
    /\ \A c \in DOMAIN s.buffers : b < c =>
          c \in DOMAIN acc.s.buffers /\ acc.s.buffers[c].att = s.buffers[c].att

\* One buffer more.
LEMMA DisposeStepKeeps ==
    ASSUME NEW s, DOMAIN s.buffers \subseteq Nat, NEW remain, NEW watched, NEW acc, NEW b \in Nat \ {0},
           Disposing(s, acc, b - 1), DOMAIN acc = {"s", "changed"}
    PROVE  LET x == DisposeStep(s, remain, watched, acc, b) IN Disposing(s, x, b) /\ DOMAIN x = {"s", "changed"}
<1> DEFINE x == DisposeStep(s, remain, watched, acc, b)
           view == s.buffers[b].att
           y == acc.s
<1>1. \A c \in DOMAIN s.buffers : b < c => b - 1 < c /\ c # b
  OBVIOUS
<1>2. CASE x = acc
  BY <1>1, <1>2 DEF Disposing
<1>3. CASE x # acc
  <2>1. /\ b \in DOMAIN s.buffers /\ Sound(y) /\ b \in DOMAIN y.buffers /\ y.buffers[b].att = view
    <3>1. b \in DOMAIN s.buffers
      BY <1>3 DEF DisposeStep
    <3>2. b - 1 < b
      OBVIOUS
    <3>. QED BY <3>1, <3>2 DEF Disposing
  <2>2. x = DisposeOne(s, remain, watched, acc, b)
    BY <1>3 DEF DisposeStep
  <2>3. CASE view # None
    <3> DEFINE r == CloseNode(y, view)
               w == RemoveBuffer(r.s, b)
    <3>1. view \in DOMAIN y.nodes /\ y.nodes[view].kind = "view" /\ y.nodes[view].buf = b
      BY <2>1, <2>3 DEF Sound, Attached
    <3>2. /\ r.ok = TRUE /\ Sound(r.s) /\ DOMAIN r.s.buffers = DOMAIN y.buffers
          /\ \A c \in DOMAIN y.buffers : r.s.buffers[c].att = IF c = b THEN None ELSE y.buffers[c].att
      <4> HIDE DEF y, view
      <4>1. /\ r.ok = TRUE /\ Sound(r.s) /\ DOMAIN r.s.buffers = DOMAIN y.buffers
            /\ \A c \in DOMAIN y.buffers :
                  r.s.buffers[c].att = IF c = y.nodes[view].buf THEN None ELSE y.buffers[c].att
        BY <2>1, <3>1, CloseViewKeeps, Zenon
      <4>. QED BY <3>1, <4>1
    <3>3. x = [s |-> w, changed |-> acc.changed \cup {SessionOf(y, view)}]
      BY <1>3, <2>2, <2>3, <3>2, Zenon DEF DisposeOne, DisposeClosing
    <3> HIDE DEF r
    <3>4. /\ Sound(w) /\ DOMAIN w.buffers = DOMAIN r.s.buffers \ {b}
          /\ \A c \in DOMAIN w.buffers : w.buffers[c] = r.s.buffers[c]
      BY <2>1, <3>2, RemoveBufferKeeps
    <3> HIDE DEF w
    <3>5. x.s = w /\ DOMAIN x = {"s", "changed"}
      BY <3>3
    <3>6. \A c \in DOMAIN s.buffers : b < c =>
             c \in DOMAIN w.buffers /\ w.buffers[c].att = s.buffers[c].att
      BY <1>1, <3>2, <3>4 DEF Disposing
    <3>. QED BY <3>4, <3>5, <3>6, Zenon DEF Disposing
  <2>4. CASE view = None
    <3> DEFINE w == RemoveBuffer(y, b)
    <3>1. x = [acc EXCEPT !.s = w]
      BY <1>3, <2>2, <2>4 DEF DisposeOne
    <3>2. /\ Sound(w) /\ DOMAIN w.buffers = DOMAIN y.buffers \ {b}
          /\ \A c \in DOMAIN w.buffers : w.buffers[c] = y.buffers[c]
      BY <2>1, <2>4, RemoveBufferKeeps
    <3> HIDE DEF w
    <3>3. x.s = w /\ DOMAIN x = {"s", "changed"}
      BY <3>1
    <3>4. \A c \in DOMAIN s.buffers : b < c =>
             c \in DOMAIN w.buffers /\ w.buffers[c].att = s.buffers[c].att
      BY <1>1, <3>2 DEF Disposing
    <3>. QED BY <3>2, <3>3, <3>4 DEF Disposing
  <2>. QED BY <2>3, <2>4
<1>. QED BY <1>2, <1>3

\* Cleaning up exited buffers leaves a sound layout.
LEMMA DisposeExitedKeeps ==
    ASSUME NEW s, Sound(s), NEW remain, NEW watched
    PROVE  Sound(DisposeExited(s, remain, watched).s)
<1> DEFINE N == Max(DOMAIN s.buffers \cup {0})
           g == CHOOSE g : IsDisposing(g, s, remain, watched, N)
<1>1. DOMAIN s.buffers \subseteq Nat /\ DOMAIN s.buffers \subseteq Buffers
  BY LayoutAssumption DEF Sound, Forest, IsState
<1>2. N \in Nat
  <2>1. IsFiniteSet(DOMAIN s.buffers)
    BY <1>1, LayoutAssumption, FS_Subset
  <2>2. IsFiniteSet(DOMAIN s.buffers \cup {0})
    BY <2>1, FS_AddElement
  <2>. QED BY <1>1, <2>2, MaxIs
<1>3. DisposeExited(s, remain, watched) = g[N]
  BY Zenon DEF DisposeExited, IsDisposing, DisposeStep, DisposeOne, DisposeClosing
<1> HIDE DEF N
<1>4. IsDisposing(g, s, remain, watched, N)
  BY <1>2, DisposingExists
<1> HIDE DEF g
<1> DEFINE Bad == {i \in Nat : i \in 0 .. N /\ ~ (Disposing(s, g[i], i) /\ DOMAIN g[i] = {"s", "changed"})}
<1>5. Bad = {}
  <2> SUFFICES ASSUME Bad # {} PROVE FALSE
    OBVIOUS
  <2>1. PICK i \in Bad : \A j \in Bad : i <= j
    BY NatMin
  <2>2. i \in 0 .. N /\ g[i] = IF i = 0 THEN [s |-> s, changed |-> {}] ELSE DisposeStep(s, remain, watched, g[i - 1], i)
    <3> DEFINE a == [s |-> s, changed |-> {}]
    <3>1. g = [j \in 0 .. N |-> IF j = 0 THEN a ELSE DisposeStep(s, remain, watched, g[j - 1], j)]
      BY <1>4 DEF IsDisposing
    <3>2. i \in 0 .. N
      BY <2>1
    <3> HIDE DEF a
    <3>3. g[i] = IF i = 0 THEN a ELSE DisposeStep(s, remain, watched, g[i - 1], i)
      BY <3>1, <3>2
    <3>. QED BY <3>2, <3>3 DEF a
  <2>3. CASE i = 0
    <3>1. g[0].s = s /\ DOMAIN g[0] = {"s", "changed"}
      BY <2>2, <2>3
    <3>. QED BY <2>1, <2>3, <3>1 DEF Disposing
  <2>4. CASE i # 0
    <3> DEFINE acc == g[i - 1]
    <3>1. i - 1 \in Nat /\ i - 1 \in 0 .. N /\ ~ (i <= i - 1) /\ i \in Nat \ {0}
      BY <1>2, <2>1, <2>2, <2>4
    <3>2. Disposing(s, acc, i - 1) /\ DOMAIN acc = {"s", "changed"}
      BY <2>1, <3>1
    <3>3. g[i] = DisposeStep(s, remain, watched, acc, i)
      BY <2>2, <2>4
    <3> HIDE DEF acc
    <3>4. Disposing(s, g[i], i) /\ DOMAIN g[i] = {"s", "changed"}
      BY <1>1, <3>1, <3>2, <3>3, DisposeStepKeeps
    <3>. QED BY <2>1, <3>4
  <2>. QED BY <2>3, <2>4
<1>6. N \in 0 .. N
  BY <1>2
<1>7. Disposing(s, g[N], N)
  BY <1>2, <1>5, <1>6
<1>. QED BY <1>3, <1>7 DEF Disposing

-----------------------------------------------------------------------------
(* The requests *)

\* A session that is closed.
LEMMA CloseSessionDone ==
    ASSUME NEW s, Sound(s), NEW sid \in DOMAIN s.sessions
    PROVE  Done(s, CloseSession(s, sid))
<1> DEFINE r == CloseSession(s, sid)
<1>1. r.ok = TRUE /\ SessionGone(s, r.s, sid)
  BY CloseSessionEnds
<1> HIDE DEF r
<1>2. Done(s, r)
  BY <1>1 DEF SessionGone, Done
<1>. QED BY <1>2 DEF r

\* A closed node.
LEMMA CloseNodeDone ==
    ASSUME NEW s, Sound(s), NEW n \in DOMAIN s.nodes
    PROVE  Done(s, CloseNode(s, n))
<1>1. Forest(s, {}, None) /\ Attached(s, {})
  BY DEF Sound
<1>2. Closed(s, CloseNode(s, n), Below(s, n))
  BY <1>1, CloseNodeCloses
<1>. QED BY <1>2, ClosedDone

\* A closed popup.
LEMMA CloseFloatingDone ==
    ASSUME NEW s, Sound(s), NEW f \in DOMAIN s.floats
    PROVE  Done(s, CloseFloating(s, f))
<1>1. Forest(s, {}, None) /\ Attached(s, {})
  BY DEF Sound
<1>2. Closed(s, CloseFloating(s, f), Below(s, s.floats[f].root))
  BY <1>1, CloseFloatingCloses
<1>. QED BY <1>2, ClosedDone

\* A command's exit is noted in its buffer's record.
LEMMA ExitDone ==
    ASSUME NEW s, Sound(s), NEW b \in DOMAIN s.buffers
    PROVE  Done(s, Ok([s EXCEPT !.buffers[b].exited = TRUE]))
<1> DEFINE x == [s EXCEPT !.buffers[b].exited = TRUE]
           y == [s.buffers[b] EXCEPT !.exited = TRUE]
<1>1. IsState(s) /\ s.buffers \in [DOMAIN s.buffers -> BufferType] /\ Shape(s)
  BY DEF Sound, Forest, IsState
<1>2. y \in BufferType /\ y.att = s.buffers[b].att
  BY <1>1 DEF BufferType
<1>3. /\ Shape(x) /\ x.buffers = [s.buffers EXCEPT ![b] = y] /\ x.nodes = s.nodes
      /\ x.floats = s.floats /\ x.sessions = s.sessions /\ x.nextNode = s.nextNode
      /\ x.nextFloat = s.nextFloat /\ x.nextSession = s.nextSession
  BY <1>1 DEF Shape
<1> HIDE DEF x, y
<1>4. /\ x.buffers \in [DOMAIN s.buffers -> BufferType] /\ DOMAIN x.buffers = DOMAIN s.buffers
      /\ \A c \in DOMAIN s.buffers : x.buffers[c].att = s.buffers[c].att
  BY <1>1, <1>2, <1>3
<1>5. IsState(x)
  BY <1>1, <1>3, <1>4 DEF IsState
<1>6. AttachmentsOf(x) = AttachmentsOf(s)
  BY <1>4 DEF AttachmentsOf
<1>7. x.nextNode >= s.nextNode /\ x.nextFloat >= s.nextFloat
  BY <1>1, <1>3 DEF IsState
<1>8. Sound(x)
  BY <1>3, <1>5, <1>6, <1>7, UndoneSound DEF Undone
<1>9. Done(s, Ok(x))
  BY <1>8 DEF Done, Ok
<1>. QED BY <1>9 DEF x

\* A list of weights, one for each child.
LEMMA WeightsList ==
    ASSUME NEW kids \in Seq(Nat), NEW sizes \in [DOMAIN kids -> Weights]
    PROVE  sizes \in Seq(Nat)
<1>1. Weights \subseteq Nat
  BY LayoutAssumption
<1>2. DOMAIN kids = 1 .. Len(kids) /\ Len(kids) \in Nat
  OBVIOUS
<1>3. sizes \in [1 .. Len(kids) -> Nat]
  BY <1>1, <1>2
<1>. QED BY <1>2, <1>3, ListOf

\* But for a tabs node with one tab, a node can be put next to another.
LEMMA PlaceableIs ==
    ASSUME Sound(st), NEW n \in Nodes, ~LoneTabs(n)
    PROVE  n \in SessionRoots(st) \/ Fits(st.nodes[n], 0, 2)
<1>1. /\ IsState(st) /\ Shaped(st, None) /\ st.nodes \in [DOMAIN st.nodes -> NodeType]
      /\ None \notin DOMAIN st.nodes
  BY DEF Sound, Forest, IsState, None
<1>2. Fits(st.nodes[n], 0, Least(st, n)) /\ st.nodes[n] \in NodeType
  BY <1>1, ShapedIs DEF Nodes
<1>3. CASE n \in SessionRoots(st)
  BY <1>3
<1>4. CASE n \notin SessionRoots(st) /\ n \notin FloatRoots(st)
  BY <1>2, <1>4 DEF Least
<1>5. CASE n \notin SessionRoots(st) /\ n \in FloatRoots(st)
  <2>1. ~IsSessionRoot(st, n)
    BY <1>5, IsSessionRootIs
  <2>2. st.nodes[n].kind # "tabs" \/ ~(Len(st.nodes[n].kids) <= 1)
    BY <2>1 DEF LoneTabs, IsKind, Nodes
  <2>3. Fits(st.nodes[n], 0, 1)
    BY <1>2, <1>5 DEF Least
  <2>4. Len(st.nodes[n].kids) \in Nat
    BY <1>2, NodeFields
  <2>5. \A size \in Nat : ~(size <= 1) => size + 0 >= 2
    OBVIOUS
  <2>6. Fits(st.nodes[n], 0, 2)
    BY <2>2, <2>3, <2>4, <2>5 DEF Fits
  <2>. QED BY <2>6
<1>. QED BY <1>3, <1>4, <1>5

\* A step that makes a request's change, as a whole or not at all.
Made(a) == \E from \in {"idle", "asked"} : \E r : Apply(a, from, r) /\ (Done(st, r) \/ st' = st)

\* What each kind of request does is such a step.
LEMMA RequestMade ==
    ASSUME NEW a, NEW r, Request(a, r) \/ Closing(a, r), Done(st, r)
    PROVE  Made(a)
BY DEF Request, Closing, Made

\* So is a request that may nest a lone tab, unless it does.
LEMMA NestingMade ==
    ASSUME NEW a, NEW lone, NEW r, Nesting(a, lone, r), ~nested', ~lone => Done(st, r)
    PROVE  Made(a)
<1>1. Apply(a, "idle", r) /\ ~(lone /\ st' # st)
  BY DEF Nesting
<1>. QED BY <1>1 DEF Made

\* The actions that make a request's change.
Requests(a) ==
    \/ SessionClose(a) \/ NodeSplit(a) \/ NodeFocus(a) \/ NodeSelectPane(a) \/ NodeFocusLast(a)
    \/ NodeClose(a) \/ NodeMoveBuffer(a) \/ NodeZoom(a) \/ NodeUnzoom(a) \/ NodeToggleZoom(a)
    \/ NodeSwap(a) \/ NodeMove(a) \/ FloatingCreate(a) \/ FloatingClose(a) \/ FloatingFocus(a)
    \/ BufferDetach(a) \/ Exit(a) \/ SessionCreate(a) \/ AddRootTab(a) \/ CloseRootTab(a)
    \/ NodeAddTab(a) \/ SelectTab(a) \/ CloseGone(a) \/ NodeResize(a) \/ NodeBreak(a)
    \/ NodeJoin(a) \/ NodeWrapInTabs(a)

\* Whatever is asked, the change is made as a whole, to a sound layout, or not at
\* all.
LEMMA RequestDone ==
    ASSUME Sound(st), ~nested', NEW a, Requests(a)
    PROVE  Made(a)
<1>1. /\ Forest(st, {}, None)
      /\ \A sid \in DOMAIN st.sessions : st.sessions[sid].root \in DOMAIN st.nodes
      /\ \A f \in FloatRoots(st) : f \notin SessionRoots(st)
      /\ \A n \in DOMAIN st.nodes : st.nodes[n].kids \in Seq(Nat) /\ Len(st.nodes[n].kids) \in Nat
  <2>1. Forest(st, {}, None)
    BY DEF Sound
  <2>2. /\ \A sid \in DOMAIN st.sessions : st.sessions[sid].root \in DOMAIN st.nodes
        /\ \A f \in FloatRoots(st) : f \notin SessionRoots(st)
    BY <2>1 DEF Forest, Rooted, FloatRoots
  <2>3. st.nodes \in [DOMAIN st.nodes -> NodeType]
    BY <2>1 DEF Forest, IsState
  <2>4. \A n \in DOMAIN st.nodes : st.nodes[n] \in NodeType
    BY <2>3
  <2>. QED BY <2>1, <2>2, <2>4, NodeFields
<1>2. CASE SessionClose(a)
  <2>1. PICK sid \in Sessions : Request(a, CloseSession(st, sid))
    BY <1>2 DEF SessionClose
  <2>2. Done(st, CloseSession(st, sid))
    BY CloseSessionDone DEF Sessions
  <2>. QED BY <2>1, <2>2, RequestMade
<1>3. CASE NodeSplit(a)
  <2>1. PICK n \in Nodes, b \in Shown : Request(a, SplitLeaf(st, n, b))
    BY <1>3 DEF NodeSplit
  <2>2. Done(st, SplitLeaf(st, n, b))
    BY SplitLeafDone DEF Nodes, Shown
  <2>. QED BY <2>1, <2>2, RequestMade
<1>4. CASE NodeFocus(a)
  <2>1. PICK sid \in Sessions, n \in Nodes : Request(a, FocusNode(st, sid, n))
    BY <1>4 DEF NodeFocus
  <2>2. Done(st, FocusNode(st, sid, n))
    BY <1>1, FocusFoundKeeps, KeptDone DEF FocusNode
  <2>. QED BY <2>1, <2>2, RequestMade
<1>5. CASE NodeSelectPane(a)
  <2>1. PICK sid \in Sessions, n \in Nodes : Request(a, SelectPane(st, sid, n))
    BY <1>5 DEF NodeSelectPane
  <2>2. Done(st, SelectPane(st, sid, n))
    BY <1>1, SelectPaneKeeps, KeptDone
  <2>. QED BY <2>1, <2>2, RequestMade
<1>6. CASE NodeFocusLast(a)
  <2>1. PICK sid \in Sessions : Request(a, FocusLastPane(st, sid))
    BY <1>6 DEF NodeFocusLast
  <2>2. Done(st, FocusLastPane(st, sid))
    BY <1>1, FocusFoundKeeps, KeptDone DEF FocusLastPane
  <2>. QED BY <2>1, <2>2, RequestMade
<1>7. CASE NodeClose(a)
  <2>1. PICK n \in Nodes : Closing(a, CloseNode(st, n))
    BY <1>7 DEF NodeClose
  <2>2. Done(st, CloseNode(st, n))
    BY CloseNodeDone DEF Nodes
  <2>. QED BY <2>1, <2>2, RequestMade
<1>8. CASE NodeMoveBuffer(a)
  <2>1. PICK n \in Nodes, b \in Shown : Request(a, MoveBufferToLeaf(st, b, n))
    BY <1>8 DEF NodeMoveBuffer
  <2>2. Done(st, MoveBufferToLeaf(st, b, n))
    BY MoveBufferToLeafDone DEF Nodes, Shown
  <2>. QED BY <2>1, <2>2, RequestMade
<1>9. CASE NodeZoom(a)
  <2>1. PICK n \in Nodes : Request(a, Zoom(st, n))
    BY <1>9 DEF NodeZoom
  <2>2. Done(st, Zoom(st, n))
    BY <1>1, ZoomNodeKeeps, KeptDone DEF Nodes
  <2>. QED BY <2>1, <2>2, RequestMade
<1>10. CASE NodeUnzoom(a)
  <2>1. PICK sid \in Sessions : Request(a, Ok(SetZoom(st, sid, None)))
    BY <1>10 DEF NodeUnzoom
  <2>2. Done(st, Ok(SetZoom(st, sid, None)))
    BY <1>1, SetZoomKeeps, KeptDone DEF Sessions
  <2>. QED BY <2>1, <2>2, RequestMade
<1>11. CASE NodeToggleZoom(a)
  <2>1. PICK n \in Nodes : Request(a, ToggleZoom(st, n))
    BY <1>11 DEF NodeToggleZoom
  <2>2. Done(st, ToggleZoom(st, n))
    BY <1>1, ToggleZoomKeeps, KeptDone DEF Nodes
  <2>. QED BY <2>1, <2>2, RequestMade
<1>12. CASE NodeSwap(a)
  <2>1. PICK n, m \in Nodes : Request(a, SwapSiblings(st, n, m))
    BY <1>12 DEF NodeSwap
  <2>2. Done(st, SwapSiblings(st, n, m))
    BY SwapSiblingsDone DEF Nodes
  <2>. QED BY <2>1, <2>2, RequestMade
<1>13. CASE NodeMove(a)
  <2>1. PICK n, m \in Nodes, before \in BOOLEAN : Request(a, MoveNode(st, n, m, before))
    BY <1>13 DEF NodeMove
  <2>2. Done(st, MoveNode(st, n, m, before))
    BY MoveNodeDone DEF Nodes
  <2>. QED BY <2>1, <2>2, RequestMade
<1>14. CASE FloatingCreate(a)
  <2>1. PICK sid \in Sessions, b \in Shown, focus \in BOOLEAN : Request(a, CreateFloatingFromBuffer(st, sid, b, focus))
    BY <1>14 DEF FloatingCreate
  <2>2. Done(st, CreateFloatingFromBuffer(st, sid, b, focus))
    BY CreateFloatingFromBufferDone DEF Sessions, Shown
  <2>. QED BY <2>1, <2>2, RequestMade
<1>15. CASE FloatingClose(a)
  <2>1. PICK f \in Floats : Closing(a, CloseFloating(st, f))
    BY <1>15 DEF FloatingClose
  <2>2. Done(st, CloseFloating(st, f))
    BY CloseFloatingDone DEF Floats
  <2>. QED BY <2>1, <2>2, RequestMade
<1>16. CASE FloatingFocus(a)
  <2>1. PICK f \in Floats : Request(a, FocusFloating(st, f))
    BY <1>16 DEF FloatingFocus
  <2>2. Done(st, FocusFloating(st, f))
    BY <1>1, FocusFloatingKeeps, KeptDone DEF Floats
  <2>. QED BY <2>1, <2>2, RequestMade
<1>17. CASE BufferDetach(a)
  <2>1. PICK b \in Shown : Request(a, DetachBuffer(st, b))
    BY <1>17 DEF BufferDetach
  <2>2. Done(st, DetachBuffer(st, b))
    BY DetachBufferDone DEF Shown
  <2>. QED BY <2>1, <2>2, RequestMade
<1>18. CASE Exit(a)
  <2>1. PICK b \in Shown : Request(a, Ok([st EXCEPT !.buffers[b].exited = TRUE]))
    BY <1>18 DEF Exit
  <2>2. Done(st, Ok([st EXCEPT !.buffers[b].exited = TRUE]))
    BY ExitDone DEF Shown
  <2>. QED BY <2>1, <2>2, RequestMade
<1>19. CASE SessionCreate(a)
  <2> DEFINE r == Ok(CreateSession(st))
  <2>1. Request(a, r)
    BY <1>19 DEF SessionCreate
  <2>2. Done(st, r)
    BY CreateSessionKeeps DEF Done, Ok
  <2> HIDE DEF r
  <2>. QED BY <2>1, <2>2, RequestMade
<1>20. CASE AddRootTab(a)
  <2>1. PICK sid \in Sessions, b \in Shown :
          Request(a, AddTabFromBuffer(st, RootOf(st, sid), Len(st.nodes[RootOf(st, sid)].kids), b))
    BY <1>20 DEF AddRootTab
  <2> DEFINE t == RootOf(st, sid)
             i == Len(st.nodes[t].kids)
  <2>2. t \in DOMAIN st.nodes /\ i \in Nat /\ b \in DOMAIN st.buffers
    BY <1>1 DEF Sessions, Shown, RootOf
  <2>3. Request(a, AddTabFromBuffer(st, t, i, b))
    BY <2>1
  <2> HIDE DEF t, i
  <2>4. Done(st, AddTabFromBuffer(st, t, i, b))
    BY <2>2, AddTabFromBufferDone
  <2>. QED BY <2>3, <2>4, RequestMade
<1>21. CASE CloseRootTab(a)
  <2>1. PICK sid \in Sessions : \E i \in Indices(RootOf(st, sid)) : Closing(a, CloseTab(st, RootOf(st, sid), i))
    BY <1>21 DEF CloseRootTab
  <2> DEFINE t == RootOf(st, sid)
  <2>2. PICK i \in Indices(t) : Closing(a, CloseTab(st, t, i))
    BY <2>1
  <2>3. t \in DOMAIN st.nodes
    BY <1>1 DEF Sessions, RootOf
  <2> HIDE DEF t
  <2>4. Done(st, CloseTab(st, t, i))
    BY <1>1, <2>3, CloseTabDone DEF Indices
  <2>. QED BY <2>2, <2>4, RequestMade
<1>22. CASE NodeAddTab(a)
  <2>1. PICK n \in Nodes, b \in Shown : \E i \in Indices(n) : Request(a, AddTabFromBuffer(st, n, i, b))
    BY <1>22 DEF NodeAddTab
  <2>2. PICK i \in Indices(n) : Request(a, AddTabFromBuffer(st, n, i, b))
    BY <2>1
  <2>3. Done(st, AddTabFromBuffer(st, n, i, b))
    BY <1>1, AddTabFromBufferDone DEF Indices, Nodes, Shown
  <2>. QED BY <2>2, <2>3, RequestMade
<1>23. CASE SelectTab(a)
  <2>1. PICK n \in Nodes : \E i \in Indices(n) : Request(a, SwitchTab(st, n, i))
    BY <1>23 DEF SelectTab
  <2>2. PICK i \in Indices(n) : Request(a, SwitchTab(st, n, i))
    BY <2>1
  <2>3. Done(st, SwitchTab(st, n, i))
    BY <1>1, SwitchTabDone DEF Indices, Nodes
  <2>. QED BY <2>2, <2>3, RequestMade
<1>24. CASE CloseGone(a)
  <2>1. Closing(a, Err(st)) /\ Done(st, Err(st))
    BY <1>24, DoneErr DEF CloseGone
  <2>. QED BY <2>1, RequestMade
<1>25. CASE NodeResize(a)
  <2>1. PICK n \in Nodes : \E sizes \in [DOMAIN st.nodes[n].kids -> Weights] : Request(a, Resize(st, n, sizes))
    BY <1>25 DEF NodeResize
  <2>2. PICK sizes \in [DOMAIN st.nodes[n].kids -> Weights] : Request(a, Resize(st, n, sizes))
    BY <2>1
  <2>3. st.nodes[n].kids \in Seq(Nat)
    BY <1>1 DEF Nodes
  <2>4. sizes \in Seq(Nat)
    BY <2>3, WeightsList
  <2>5. Done(st, Resize(st, n, sizes))
    BY <2>4, ResizeDone DEF Nodes
  <2>. QED BY <2>2, <2>5, RequestMade
<1>26. CASE NodeBreak(a)
  <2>1. PICK n \in Nodes, toFloat \in BOOLEAN :
          Nesting(a, ~toFloat /\ LoneTabs(n), BreakNode(st, n, toFloat))
    BY <1>26 DEF NodeBreak
  <2>2. ASSUME ~(~toFloat /\ LoneTabs(n)) PROVE Done(st, BreakNode(st, n, toFloat))
    <3>1. toFloat \/ n \notin FloatRoots(st) \/ Fits(st.nodes[n], 0, 2)
      BY <1>1, <2>2, PlaceableIs
    <3>. QED BY <3>1, BreakNodeDone DEF Nodes
  <2>. QED BY <2>1, <2>2, NestingMade
<1>27. CASE NodeJoin(a)
  <2>1. PICK n \in Nodes, b \in Shown, place \in Places :
          Nesting(a, place \in {"before", "after"} /\ LoneTabs(n), JoinBuffer(st, n, b, place))
    BY <1>27 DEF NodeJoin
  <2>2. ASSUME ~(place \in {"before", "after"} /\ LoneTabs(n)) PROVE Done(st, JoinBuffer(st, n, b, place))
    <3>1. place \in {"before", "after"} => n \in SessionRoots(st) \/ Fits(st.nodes[n], 0, 2)
      BY <2>2, PlaceableIs
    <3>. QED BY <3>1, JoinBufferDone DEF Nodes, Shown
  <2>. QED BY <2>1, <2>2, NestingMade
<1>28. CASE NodeWrapInTabs(a)
  <2>1. PICK n \in Nodes : Nesting(a, FloatByRoot(st, n) = None \/ LoneTabs(n), WrapInTabs(st, n))
    BY <1>28 DEF NodeWrapInTabs
  <2>2. ASSUME ~(FloatByRoot(st, n) = None \/ LoneTabs(n)) PROVE Done(st, WrapInTabs(st, n))
    <3>1. n \in FloatRoots(st) /\ n \in DOMAIN st.nodes
      BY <1>1, <2>2, FloatByRootIs DEF FloatRoots, Nodes, Forest
    <3>2. Fits(st.nodes[n], 0, 2)
      BY <1>1, <2>2, <3>1, PlaceableIs
    <3>. QED BY <3>1, <3>2, WrapPopupDone
  <2>. QED BY <2>1, <2>2, NestingMade
<1>. QED BY <1>2, <1>3, <1>4, <1>5, <1>6, <1>7, <1>8, <1>9, <1>10, <1>11, <1>12, <1>13, <1>14, <1>15, <1>16, <1>17, <1>18, <1>19, <1>20, <1>21, <1>22, <1>23, <1>24, <1>25, <1>26, <1>27, <1>28 DEF Requests

-----------------------------------------------------------------------------
(* The theorems *)

\* A task's record.
TaskShape(r) == DOMAIN r = {"step", "had", "changed", "ok"}

\* The layout is sound, and the tasks are what they are.
Tidy ==
    /\ Sound(st)
    /\ DOMAIN task = Tasks /\ task = [a \in Tasks |-> task[a]]
    /\ \A a \in Tasks : TaskShape(task[a])

\* The inductive invariant: they are until a lone tab is nested.
LayoutInv == ~nested => Tidy

\* A server without sessions is sound.
LEMMA EmptySound == Sound(Empty)
<1> DEFINE s == Empty
<1>1. /\ Shape(s) /\ s.nodes = <<>> /\ s.sessions = <<>> /\ s.floats = <<>>
      /\ s.nextNode = 1 /\ s.nextSession = 1 /\ s.nextFloat = 1
      /\ s.buffers = [b \in Buffers |-> [att |-> None, ever |-> FALSE, exited |-> FALSE]]
  BY DEF Empty, Shape
<1> HIDE DEF s
<1>2. DOMAIN s.nodes = {} /\ DOMAIN s.sessions = {} /\ DOMAIN s.floats = {}
  BY <1>1
<1>3. /\ DOMAIN s.buffers = Buffers /\ s.buffers \in [Buffers -> BufferType]
      /\ \A b \in Buffers : s.buffers[b].att = None
  BY <1>1 DEF BufferType, None
<1>4. IsState(s)
  <2>1. /\ s.nodes \in [DOMAIN s.nodes -> NodeType] /\ s.floats \in [DOMAIN s.floats -> FloatType]
        /\ s.sessions = [sid \in DOMAIN s.sessions |-> s.sessions[sid]]
    BY <1>1
  <2>2. /\ DOMAIN s.nodes \subseteq 1 .. s.nextNode - 1 /\ DOMAIN s.floats \subseteq 1 .. s.nextFloat - 1
        /\ \A sid \in DOMAIN s.sessions : IsSession(s.sessions[sid]) /\ sid \in 1 .. s.nextSession - 1
    BY <1>2
  <2>3. s.nextNode \in Nat \ {0} /\ s.nextSession \in Nat \ {0} /\ s.nextFloat \in Nat \ {0}
    BY <1>1
  <2>4. Shape(s) /\ s.buffers \in [DOMAIN s.buffers -> BufferType] /\ DOMAIN s.buffers \subseteq Buffers
    BY <1>1, <1>3
  <2>. QED BY <2>1, <2>2, <2>3, <2>4 DEF IsState
<1>5. SessionRoots(s) = {} /\ FloatRoots(s) = {}
  BY <1>2 DEF SessionRoots, FloatRoots
<1>6. Linked(s) /\ Rooted(s, {}) /\ Shaped(s, None) /\ Pointed(s) /\ Remembered(s) /\ Owned(s)
  BY <1>2, <1>5 DEF Linked, Rooted, Shaped, Pointed, Remembered, Owned
<1>7. Ranked(s)
  <2>1. [n \in DOMAIN s.nodes |-> 0] \in [DOMAIN s.nodes -> 0 .. 0]
    OBVIOUS
  <2>. QED BY <1>2, <2>1 DEF Ranked
<1>8. Attached(s, {})
  BY <1>2, <1>3 DEF Attached
<1>. QED BY <1>4, <1>6, <1>7, <1>8 DEF Sound, Forest, s

\* The server starts with one session.
LEMMA InitSound == Init => LayoutInv
<1> SUFFICES ASSUME Init PROVE LayoutInv
  OBVIOUS
<1>1. Sound(st)
  BY EmptySound, CreateSessionKeeps DEF Init
<1>2. /\ DOMAIN task = Tasks /\ task = [a \in Tasks |-> task[a]] /\ \A a \in Tasks : task[a] = Idle
  BY DEF Init
<1>3. TaskShape(Idle)
  BY DEF TaskShape, Idle
<1>. QED BY <1>1, <1>2, <1>3 DEF LayoutInv, Tidy

\* What a task's record becomes is one.
LEMMA RestShape == ASSUME NEW changed, NEW had PROVE TaskShape(Rest(changed, had))
  BY DEF Rest, Idle, TaskShape

\* What one step of one task may do to the layout: make a request's change as a
\* whole or not at all, clean up, or destroy sessions that show no buffer.
StepOf(a) ==
    \/ Made(a)
    \/ AskToClose(a)
    \/ task[a].step = "idle" /\ UNCHANGED task /\ Sound(st')
    \/ Dispose(a) /\ Sound(st')
    \/ (DestroyChanged(a) \/ DestroyNoted(a)) /\ Sound(st') /\ AttachmentsOf(st') = AttachmentsOf(st)

\* That a lone tab was nested is not forgotten.
LEMMA NestedStays == ASSUME Next, ~nested' PROVE ~nested
<1>1. PICK a \in Tasks :
         \/ AskToClose(a) \/ Dispose(a) \/ DestroyChanged(a) \/ DestroyNoted(a)
         \/ ClientSwitch(a) \/ Requests(a)
  BY DEF Next, Requests
<1>2. CASE AskToClose(a) \/ Dispose(a) \/ DestroyChanged(a) \/ DestroyNoted(a) \/ ClientSwitch(a)
  BY <1>2 DEF AskToClose, Dispose, DestroyChanged, DestroyNoted, ClientSwitch
<1>3. \/ \E r : Request(a, r) \/ Closing(a, r)
      \/ \E r, lone : Nesting(a, lone, r)
      \/ ~Requests(a)
  <2> USE DEF Requests
  <2>1. ASSUME NodeBreak(a) \/ NodeJoin(a) \/ NodeWrapInTabs(a) PROVE \E r, lone : Nesting(a, lone, r)
    BY <2>1 DEF NodeBreak, NodeJoin, NodeWrapInTabs
  <2>2. ASSUME \/ SessionClose(a) \/ NodeSplit(a) \/ NodeFocus(a) \/ NodeSelectPane(a) \/ NodeFocusLast(a)
               \/ NodeClose(a) \/ NodeMoveBuffer(a) \/ NodeZoom(a) \/ NodeUnzoom(a) \/ NodeToggleZoom(a)
        PROVE  \E r : Request(a, r) \/ Closing(a, r)
    BY <2>2 DEF SessionClose, NodeSplit, NodeFocus, NodeSelectPane, NodeFocusLast, NodeClose, NodeMoveBuffer,
                NodeZoom, NodeUnzoom, NodeToggleZoom
  <2>3. ASSUME \/ NodeSwap(a) \/ NodeMove(a) \/ FloatingCreate(a) \/ FloatingClose(a) \/ FloatingFocus(a)
               \/ BufferDetach(a) \/ Exit(a) \/ SessionCreate(a)
        PROVE  \E r : Request(a, r) \/ Closing(a, r)
    BY <2>3 DEF NodeSwap, NodeMove, FloatingCreate, FloatingClose, FloatingFocus, BufferDetach, Exit, SessionCreate
  <2>4. ASSUME \/ AddRootTab(a) \/ CloseRootTab(a) \/ NodeAddTab(a) \/ SelectTab(a) \/ CloseGone(a) \/ NodeResize(a)
        PROVE  \E r : Request(a, r) \/ Closing(a, r)
    BY <2>4 DEF AddRootTab, CloseRootTab, NodeAddTab, SelectTab, CloseGone, NodeResize
  <2>. QED BY <2>1, <2>2, <2>3, <2>4
<1>. QED BY <1>1, <1>2, <1>3 DEF Request, Closing, Nesting

\* Every step that nests no lone tab is one of these.
LEMMA NextSteps ==
    ASSUME Tidy, ~nested', Next
    PROVE  \E a \in Tasks : StepOf(a)
<1>1. Sound(st)
  BY DEF Tidy
<1>2. PICK a \in Tasks :
         \/ AskToClose(a) \/ Dispose(a) \/ DestroyChanged(a) \/ DestroyNoted(a)
         \/ ClientSwitch(a) \/ Requests(a)
  BY DEF Next, Requests
<1>3. CASE AskToClose(a)
  BY <1>3 DEF StepOf
<1>4. CASE Dispose(a)
  <2>1. \E watched : st' = DisposeExited(st, Remain, watched).s
    BY <1>4 DEF Dispose
  <2>2. Sound(st')
    BY <1>1, <2>1, DisposeExitedKeeps
  <2>. QED BY <1>4, <2>2 DEF StepOf
<1>5. CASE DestroyChanged(a) \/ DestroyNoted(a)
  <2>1. \E had : st' = DestroyEmptied(st, had)
    BY <1>5 DEF DestroyChanged, DestroyNoted
  <2>2. Sound(st') /\ SameAttached(st, st')
    BY <1>1, <2>1, DestroyEmptiedKeeps
  <2>3. AttachmentsOf(st') = AttachmentsOf(st)
    BY <2>2 DEF AttachmentsOf, SameAttached
  <2>. QED BY <1>5, <2>2, <2>3 DEF StepOf
<1>6. CASE ClientSwitch(a)
  <2>1. PICK sid \in Sessions, n \in Nodes :
          task[a].step = "idle" /\ st' = ShowNode(st, sid, n).s /\ UNCHANGED task
    BY <1>6 DEF ClientSwitch
  <2> DEFINE r == ShowNode(st, sid, n)
  <2>2. Done(st, r)
    <3>1. Forest(st, {}, None)
      BY <1>1 DEF Sound
    <3>2. CASE SessionOf(st, n) # sid
      BY <1>1, <3>2, DoneErr DEF ShowNode
    <3>3. CASE SessionOf(st, n) = sid
      <4>1. r = FocusFound(st, sid, FocusCandidate(st, n))
        BY <3>3 DEF ShowNode
      <4> HIDE DEF r
      <4>. QED BY <1>1, <3>1, <4>1, FocusFoundKeeps, KeptDone
    <3>. QED BY <3>2, <3>3
  <2> HIDE DEF r
  <2>3. st' = r.s
    BY <2>1 DEF r
  <2>. QED BY <2>1, <2>2, <2>3 DEF Done, StepOf
<1>7. CASE Requests(a)
  BY <1>1, <1>7, RequestDone DEF StepOf
<1>. QED BY <1>2, <1>3, <1>4, <1>5, <1>6, <1>7

\* How a step changes the tasks: its own record alone.
LEMMA TaskStep ==
    ASSUME Tidy, NEW a \in Tasks, StepOf(a)
    PROVE  /\ DOMAIN task' = Tasks /\ task' = [c \in Tasks |-> task'[c]]
           /\ \A c \in Tasks : TaskShape(task'[c])
           /\ \A c \in Tasks : c # a => task'[c] = task[c]
           /\ Sound(st')
<1>0. /\ DOMAIN task = Tasks /\ task = [c \in Tasks |-> task[c]] /\ \A c \in Tasks : TaskShape(task[c])
      /\ Sound(st)
  BY DEF Tidy
<1>1. ASSUME NEW q, TaskShape(q), task' = [task EXCEPT ![a] = q], Sound(st')
      PROVE  /\ DOMAIN task' = Tasks /\ task' = [c \in Tasks |-> task'[c]]
             /\ \A c \in Tasks : TaskShape(task'[c])
             /\ \A c \in Tasks : c # a => task'[c] = task[c]
             /\ Sound(st')
  BY <1>0, <1>1
<1>2. CASE Made(a)
  <2>1. PICK from \in {"idle", "asked"} : \E r : Apply(a, from, r) /\ (Done(st, r) \/ st' = st)
    BY <1>2 DEF Made
  <2>2. PICK r : Apply(a, from, r) /\ (Done(st, r) \/ st' = st)
    BY <2>1
  <2> DEFINE q == [task[a] EXCEPT !.step = "applied", !.ok = r.ok]
  <2>3. task' = [task EXCEPT ![a] = q]
    BY <1>0, <2>2 DEF Apply
  <2>4. TaskShape(q)
    BY <1>0 DEF TaskShape
  <2> HIDE DEF q
  <2>5. Sound(st')
    BY <1>0, <2>2 DEF Apply, Done
  <2>. QED BY <1>1, <2>3, <2>4, <2>5
<1>3. CASE AskToClose(a)
  <2> DEFINE q == [Idle EXCEPT !.step = "asked", !.had = SessionsWithPanes(st)]
  <2>1. task' = [task EXCEPT ![a] = q] /\ st' = st
    BY <1>3 DEF AskToClose
  <2>2. TaskShape(q)
    BY DEF TaskShape, Idle
  <2> HIDE DEF q
  <2>. QED BY <1>0, <1>1, <2>1, <2>2
<1>4. CASE task[a].step = "idle" /\ UNCHANGED task /\ Sound(st')
  BY <1>0, <1>4
<1>5. CASE Dispose(a) /\ Sound(st')
  <2>1. \E changed, had : task' = [task EXCEPT ![a] = Rest(changed, had)]
    BY <1>5 DEF Dispose
  <2>. QED BY <1>1, <1>5, <2>1, RestShape
<1>6. CASE (DestroyChanged(a) \/ DestroyNoted(a)) /\ Sound(st')
  <2>1. TaskShape(Idle)
    BY DEF TaskShape, Idle
  <2>2. CASE DestroyNoted(a)
    <3>1. task' = [task EXCEPT ![a] = Idle]
      BY <2>2 DEF DestroyNoted
    <3>. QED BY <1>1, <1>6, <2>1, <3>1
  <2>3. CASE DestroyChanged(a)
    <3>1. \E changed, had : task' = [task EXCEPT ![a] = Rest(changed, had)]
      BY <2>3 DEF DestroyChanged
    <3>. QED BY <1>1, <1>6, <3>1, RestShape
  <2>. QED BY <1>6, <2>2, <2>3
<1>. QED BY <1>2, <1>3, <1>4, <1>5, <1>6 DEF StepOf

\* Every step keeps the invariant.
LEMMA NextInv ==
    ASSUME LayoutInv, [Next]_vars
    PROVE  LayoutInv'
<1>1. CASE Next
  <2> SUFFICES ASSUME ~nested' PROVE Tidy'
    BY DEF LayoutInv
  <2>1. Tidy
    BY <1>1, NestedStays DEF LayoutInv
  <2>2. PICK a \in Tasks : StepOf(a)
    BY <1>1, <2>1, NextSteps
  <2>. QED BY <2>1, <2>2, TaskStep DEF Tidy
<1>2. CASE UNCHANGED vars
  BY <1>2 DEF LayoutInv, Tidy, vars
<1>. QED BY <1>1, <1>2

\* The layout stays sound.
LEMMA AlwaysLayoutInv == Spec => []LayoutInv
<1>1. LayoutInv /\ [Next]_vars => LayoutInv'
  BY NextInv, Zenon
<1>. QED BY <1>1, InitSound, PTL DEF Spec

\* What a sound layout is has all that LayoutSound names.
LEMMA SoundTrees ==
    ASSUME NEW s, Sound(s)
    PROVE  Trees(s) /\ Attachments(s)
<1> DEFINE roots == {RootOf(s, sid) : sid \in DOMAIN s.sessions}
                    \cup {s.floats[f].root : f \in DOMAIN s.floats}
<1>1. /\ Forest(s, {}, None) /\ IsState(s) /\ Linked(s) /\ Rooted(s, {}) /\ Shaped(s, None)
      /\ Pointed(s) /\ Attached(s, {}) /\ None \notin DOMAIN s.nodes
      /\ s.nodes \in [DOMAIN s.nodes -> NodeType]
  BY DEF Sound, Forest, IsState, None
<1>2. roots = SessionRoots(s) \cup FloatRoots(s)
  BY DEF SessionRoots, FloatRoots, RootOf
<1>3. \A n \in DOMAIN s.nodes : s.nodes[n].parent = None <=> n \in SessionRoots(s) \/ n \in FloatRoots(s)
  BY <1>1 DEF Rooted
<1>4. roots \subseteq DOMAIN s.nodes
  <2>1. /\ \A sid \in DOMAIN s.sessions : s.sessions[sid].root \in DOMAIN s.nodes
        /\ \A f \in DOMAIN s.floats : s.floats[f].root \in DOMAIN s.nodes
    BY <1>1 DEF Rooted
  <2>. QED BY <2>1 DEF RootOf
<1> HIDE DEF roots
<1>5. \A n \in DOMAIN s.nodes :
          /\ s.nodes[n].sess \in DOMAIN s.sessions
          /\ (s.nodes[n].parent = None) <=> (n \in roots)
          /\ s.nodes[n].parent # None =>
                /\ s.nodes[n].parent \in DOMAIN s.nodes
                /\ Contains(s.nodes[s.nodes[n].parent].kids, n)
                /\ s.nodes[s.nodes[n].parent].sess = s.nodes[n].sess
          /\ \A i, j \in DOMAIN s.nodes[n].kids : s.nodes[n].kids[i] = s.nodes[n].kids[j] => i = j
          /\ \A k \in ToSet(s.nodes[n].kids) : k \in DOMAIN s.nodes /\ s.nodes[k].parent = n
          /\ s.nodes[n].kind = "split" =>
                Len(s.nodes[n].kids) >= 2 /\ Len(s.nodes[n].sizes) = Len(s.nodes[n].kids)
          /\ s.nodes[n].kind = "tabs" /\ s.nodes[n].kids # <<>> => s.nodes[n].active < Len(s.nodes[n].kids)
          /\ s.nodes[n].kind = "tabs" /\ s.nodes[n].kids = <<>> => s.nodes[n].active = 0
  <2> SUFFICES ASSUME NEW n \in DOMAIN s.nodes
      PROVE /\ s.nodes[n].sess \in DOMAIN s.sessions
            /\ (s.nodes[n].parent = None) <=> (n \in roots)
            /\ s.nodes[n].parent # None =>
                  /\ s.nodes[n].parent \in DOMAIN s.nodes
                  /\ Contains(s.nodes[s.nodes[n].parent].kids, n)
                  /\ s.nodes[s.nodes[n].parent].sess = s.nodes[n].sess
            /\ \A i, j \in DOMAIN s.nodes[n].kids : s.nodes[n].kids[i] = s.nodes[n].kids[j] => i = j
            /\ \A k \in ToSet(s.nodes[n].kids) : k \in DOMAIN s.nodes /\ s.nodes[k].parent = n
            /\ s.nodes[n].kind = "split" =>
                  Len(s.nodes[n].kids) >= 2 /\ Len(s.nodes[n].sizes) = Len(s.nodes[n].kids)
            /\ s.nodes[n].kind = "tabs" /\ s.nodes[n].kids # <<>> => s.nodes[n].active < Len(s.nodes[n].kids)
            /\ s.nodes[n].kind = "tabs" /\ s.nodes[n].kids = <<>> => s.nodes[n].active = 0
    OBVIOUS
  <2>0. \A m \in DOMAIN s.nodes : s.nodes[m].kids \in Seq(Nat) /\ Len(s.nodes[m].kids) \in Nat
                                  /\ s.nodes[m].active \in Nat
    BY <1>1, NodeFields
  <2>1. (s.nodes[n].parent = None) <=> (n \in roots)
    BY <1>2, <1>3
  <2>2. /\ s.nodes[n].sess \in DOMAIN s.sessions
        /\ s.nodes[n].parent # None =>
              /\ s.nodes[n].parent \in DOMAIN s.nodes
              /\ n \in Kids(s, s.nodes[n].parent)
              /\ s.nodes[s.nodes[n].parent].sess = s.nodes[n].sess
        /\ Distinct(s.nodes[n].kids)
        /\ \A k \in Kids(s, n) : k \in DOMAIN s.nodes /\ s.nodes[k].parent = n
    BY <1>1 DEF Linked
  <2>3. \A i, j \in DOMAIN s.nodes[n].kids : s.nodes[n].kids[i] = s.nodes[n].kids[j] => i = j
    BY <2>0, <2>2 DEF Distinct
  <2>4. s.nodes[n].parent # None => Contains(s.nodes[s.nodes[n].parent].kids, n)
    <3> SUFFICES ASSUME s.nodes[n].parent # None PROVE Contains(s.nodes[s.nodes[n].parent].kids, n)
      OBVIOUS
    <3> DEFINE kids == s.nodes[s.nodes[n].parent].kids
    <3>1. n \in ToSet(kids) /\ kids \in Seq(Nat)
      BY <2>0, <2>2 DEF Kids
    <3> HIDE DEF kids
    <3>2. Contains(kids, n)
      BY <3>1 DEF Contains, ToSet
    <3>. QED BY <3>2 DEF kids
  <2>5. Fits(s.nodes[n], 0, Least(s, n))
    BY <1>1, ShapedIs
  <2>6. s.nodes[n].kind = "split" =>
          Len(s.nodes[n].kids) >= 2 /\ Len(s.nodes[n].sizes) = Len(s.nodes[n].kids)
    BY <2>0, <2>5 DEF Fits
  <2>7. s.nodes[n].kind = "tabs" =>
           s.nodes[n].active < Len(s.nodes[n].kids) \/ (s.nodes[n].kids = <<>> /\ s.nodes[n].active = 0)
    BY <1>1 DEF Pointed
  <2>8. s.nodes[n].kids = <<>> => ~ (s.nodes[n].active < Len(s.nodes[n].kids))
    BY <2>0, ShortLists
  <2>9. \A k \in ToSet(s.nodes[n].kids) : k \in DOMAIN s.nodes /\ s.nodes[k].parent = n
    BY <2>2 DEF Kids
  <2>. QED BY <2>1, <2>2, <2>3, <2>4, <2>6, <2>7, <2>8, <2>9
<1>6. \A sid \in DOMAIN s.sessions :
          /\ s.nodes[RootOf(s, sid)].kind = "tabs"
          /\ ToSet(s.sessions[sid].floats) = {f \in DOMAIN s.floats : s.floats[f].sess = sid}
  BY <1>1 DEF Rooted, RootOf
<1>7. \A sid \in DOMAIN s.sessions : SessionNodes(s, sid) = {n \in DOMAIN s.nodes : s.nodes[n].sess = sid}
  BY <1>1, SessionNodesIs
<1>8. Trees(s)
  BY <1>4, <1>5, <1>6, <1>7 DEF Trees, roots
<1>9. Attachments(s)
  BY <1>1 DEF Attachments, Attached, IsKind
<1>. QED BY <1>8, <1>9

\* Every container but a session's root leads to a pane.
LEMMA SoundPanes ==
    ASSUME NEW s, Sound(s), NEW n \in DOMAIN s.nodes, ~IsSessionRoot(s, n)
    PROVE  FocusCandidate(s, n) # None
<1>1. /\ Forest(s, {}, None) /\ Shaped(s, None) /\ None \notin DOMAIN s.nodes
      /\ s.nodes \in [DOMAIN s.nodes -> NodeType]
  BY DEF Sound, Forest, IsState, None
<1>2. Fits(s.nodes[n], 0, Least(s, n)) /\ s.nodes[n] \in NodeType
  BY <1>1, ShapedIs
<1>3. n \notin SessionRoots(s)
  BY IsSessionRootIs
<1>4. Least(s, n) \in {1, 2}
  BY <1>3 DEF Least
<1>5. s.nodes[n].kind = "view" \/ Len(s.nodes[n].kids) >= 1
  BY <1>2, <1>4, NodeFields DEF Fits
<1>6. s.nodes[n].kind = "view" \/ s.nodes[n].kids # <<>>
  BY <1>5, ShortLists
<1>. QED BY <1>1, <1>6, CandidateFacts

\* For every number of tasks, buffers, nodes, sessions and popups: whatever clients
\* ask and whichever commands exit, in any order of the steps, the trees are trees,
\* no node is left over or held twice, and buffers and views name each other, until
\* a request puts a tabs node with a single tab into a tree.
THEOREM LayoutStaysSound == Spec => []LayoutSound
<1>1. LayoutInv => LayoutSound
  BY SoundTrees DEF LayoutInv, Tidy, LayoutSound
<1>. QED BY <1>1, AlwaysLayoutInv, PTL

\* No empty container stays in a layout: every node but a session's root leads to a
\* pane, as breaking out and focusing nodes take for granted, until a tabs node with a
\* single tab is nested.
THEOREM PanesStayEverywhere == Spec => []PanesEverywhere
<1>1. LayoutInv => PanesEverywhere
  BY SoundPanes DEF LayoutInv, Tidy, PanesEverywhere, Nodes
<1>. QED BY <1>1, AlwaysLayoutInv, PTL

\* A refused request changes nothing of the layout or of the attachments, even
\* where it was refused after it had begun, until a tabs node with a single tab is
\* nested.
THEOREM RefusalsChangeNothing == Spec => RefusedChangesNothing
<1> DEFINE Refused == ~nested' /\ \E a \in Tasks : task[a].step # "applied" /\ task'[a].step = "applied" /\ ~task'[a].ok
           Same == /\ st'.nodes = st.nodes /\ st'.sessions = st.sessions /\ st'.floats = st.floats
                   /\ AttachmentsOf(st') = AttachmentsOf(st)
<1>1. LayoutInv /\ Next => (Refused => Same)
  <2> SUFFICES ASSUME LayoutInv, Next, Refused PROVE Same
    OBVIOUS
  <2>0. Tidy
    BY NestedStays DEF LayoutInv
  <2>1. PICK a \in Tasks : StepOf(a)
    BY <2>0, NextSteps
  <2>2. PICK c \in Tasks : task[c].step # "applied" /\ task'[c].step = "applied" /\ ~task'[c].ok
    OBVIOUS
  <2>3. c = a /\ DOMAIN task = Tasks /\ TaskShape(task[a])
    BY <2>0, <2>1, <2>2, TaskStep DEF Tidy
  <2>4. CASE Made(a)
    <3>1. PICK from \in {"idle", "asked"} : \E r : Apply(a, from, r) /\ (Done(st, r) \/ st' = st)
      BY <2>4 DEF Made
    <3>2. PICK r : Apply(a, from, r) /\ (Done(st, r) \/ st' = st)
      BY <3>1
    <3>3. task'[a].ok = r.ok /\ st' = r.s
      BY <2>3, <3>2 DEF Apply, TaskShape
    <3>. QED BY <2>2, <2>3, <3>2, <3>3 DEF Done, Undone
  <2>5. CASE AskToClose(a)
    BY <2>2, <2>3, <2>5 DEF AskToClose, Idle
  <2>6. CASE UNCHANGED task
    BY <2>2, <2>6
  <2>7. \A changed, had : Rest(changed, had).step # "applied"
    BY DEF Rest, Idle
  <2>8. CASE Dispose(a) \/ DestroyChanged(a) \/ DestroyNoted(a)
    <3>1. \/ \E changed, had : task' = [task EXCEPT ![a] = Rest(changed, had)]
          \/ task' = [task EXCEPT ![a] = Idle]
      BY <2>8 DEF Dispose, DestroyChanged, DestroyNoted
    <3>2. Idle.step # "applied"
      BY DEF Idle
    <3>. QED BY <2>2, <2>3, <2>7, <3>1, <3>2
  <2>. QED BY <2>1, <2>4, <2>5, <2>6, <2>8 DEF StepOf
<1>2. LayoutInv /\ [Next]_vars => [Refused => Same]_vars
  BY <1>1
<1>3. RefusedChangesNothing <=> [][Refused => Same]_vars
  BY DEF RefusedChangesNothing
<1>. QED BY <1>2, <1>3, AlwaysLayoutInv, PTL DEF Spec

\* Sessions are destroyed for being empty only while they are: no buffer is
\* detached by it, whatever other tasks did after the sessions were noted, until a
\* tabs node with a single tab is nested.
THEOREM CleanupNeverDetaches == Spec => CleanupDetachesNothing
<1> DEFINE Cleaning == ~nested' /\ \E a \in Tasks : task[a].step \in {"disposed", "closing"} /\ task'[a] # task[a]
           Same == AttachmentsOf(st') = AttachmentsOf(st)
<1>1. LayoutInv /\ Next => (Cleaning => Same)
  <2> SUFFICES ASSUME LayoutInv, Next, Cleaning PROVE Same
    OBVIOUS
  <2>0. Tidy
    BY NestedStays DEF LayoutInv
  <2>1. PICK a \in Tasks : StepOf(a)
    BY <2>0, NextSteps
  <2>2. PICK c \in Tasks : task[c].step \in {"disposed", "closing"} /\ task'[c] # task[c]
    OBVIOUS
  <2>3. c = a
    BY <2>0, <2>1, <2>2, TaskStep
  <2>4. ~Made(a) /\ ~AskToClose(a) /\ ~Dispose(a)
    BY <2>2, <2>3 DEF Made, Apply, AskToClose, Dispose
  <2>. QED BY <2>1, <2>2, <2>3, <2>4 DEF StepOf
<1>2. LayoutInv /\ [Next]_vars => [Cleaning => Same]_vars
  BY <1>1
<1>3. CleanupDetachesNothing <=> [][Cleaning => Same]_vars
  BY DEF CleanupDetachesNothing
<1>. QED BY <1>2, <1>3, AlwaysLayoutInv, PTL DEF Spec

-----------------------------------------------------------------------------
(* Reordering shows the same *)

\* A layout in which the trees are the same and every tabs node shows the same tab.
SameShown(s, x) ==
    /\ DOMAIN x.nodes = DOMAIN s.nodes
    /\ \A m \in DOMAIN s.nodes :
          /\ x.nodes[m].kind = s.nodes[m].kind /\ x.nodes[m].sess = s.nodes[m].sess
          /\ x.nodes[m].parent = s.nodes[m].parent /\ Kids(x, m) = Kids(s, m)
          /\ s.nodes[m].kind = "tabs" => ActiveKid(x.nodes[m]) = ActiveKid(s.nodes[m])
    /\ x.sessions = s.sessions /\ x.floats = s.floats

\* What IsVisibleFrom says of each node, from what it says of its parent.
SeenAt(g, s, root, m) ==
    \/ m = root
    \/ /\ s.nodes[m].parent # None
       /\ IsKind(s, s.nodes[m].parent, "tabs") => ActiveKid(s.nodes[s.nodes[m].parent]) = m
       /\ g[s.nodes[m].parent]
IsSeen(g, s, root) == g = [m \in DOMAIN s.nodes |-> SeenAt(g, s, root, m)]

\* The walks go the same ways in both.
LEMMA SameWalks ==
    ASSUME NEW s, NEW x, SameShown(s, x), NEW n
    PROVE  /\ PathUp(x, n) = PathUp(s, n) /\ Below(x, n) = Below(s, n)
           /\ \A root : IsVisibleFrom(x, root, n) <=> IsVisibleFrom(s, root, n)
<1> DEFINE D == DOMAIN s.nodes
<1>1. D = DOMAIN x.nodes
  BY DEF SameShown
<1>2. \A m \in D : x.nodes[m].parent = s.nodes[m].parent /\ Kids(x, m) = Kids(s, m)
  BY DEF SameShown
<1>3. \A m \in D : IsKind(x, m, "tabs") <=> IsKind(s, m, "tabs")
  BY DEF SameShown, IsKind
<1>4. PathUp(x, n) = PathUp(s, n)
  <2> DEFINE up(y) == CHOOSE g : IsUp(g, y, DOMAIN y.nodes)
  <2>1. PathUp(x, n) = up(x)[n] /\ PathUp(s, n) = up(s)[n]
    BY Zenon DEF PathUp, IsUp
  <2>2. ASSUME NEW g PROVE IsUp(g, x, D) <=> IsUp(g, s, D)
    BY <1>2 DEF IsUp
  <2> HIDE DEF D
  <2>3. (CHOOSE g : IsUp(g, x, D)) = (CHOOSE g : IsUp(g, s, D))
    BY <2>2, Zenon
  <2>4. up(x) = up(s)
    BY <1>1, <2>3 DEF D
  <2>. QED BY <2>1, <2>4
<1>5. \A k : Below(x, k) = Below(s, k)
  <2> DEFINE under(y) == CHOOSE g : IsUnder(g, y, DOMAIN y.nodes)
  <2>1. \A k : Below(x, k) = under(x)[k] /\ Below(s, k) = under(s)[k]
    BY Zenon DEF Below, IsUnder, Kin, Kids
  <2>2. ASSUME NEW g PROVE IsUnder(g, x, D) <=> IsUnder(g, s, D)
    BY <1>1, <1>2 DEF IsUnder, Kin
  <2> HIDE DEF D
  <2>3. (CHOOSE g : IsUnder(g, x, D)) = (CHOOSE g : IsUnder(g, s, D))
    BY <2>2, Zenon
  <2>4. under(x) = under(s)
    BY <1>1, <2>3 DEF D
  <2>. QED BY <2>1, <2>4
<1>6. ASSUME NEW root PROVE IsVisibleFrom(x, root, n) <=> IsVisibleFrom(s, root, n)
  <2> DEFINE seen(y) == CHOOSE g : IsSeen(g, y, root)
  <2>1. Below(x, root) = Below(s, root)
    BY <1>5
  <2>2. /\ IsVisibleFrom(x, root, n) <=> n \in Below(x, root) /\ seen(x)[n]
        /\ IsVisibleFrom(s, root, n) <=> n \in Below(s, root) /\ seen(s)[n]
    BY Zenon DEF IsVisibleFrom, IsSeen, SeenAt
  <2>3. ASSUME NEW g, NEW m \in D PROVE SeenAt(g, x, root, m) = SeenAt(g, s, root, m)
    BY <1>1 DEF SameShown, SeenAt, IsKind
  <2>4. ASSUME NEW g PROVE IsSeen(g, x, root) <=> IsSeen(g, s, root)
    BY <1>1, <2>3 DEF IsSeen
  <2>5. seen(x) = seen(s)
    BY <2>4, Zenon
  <2>. QED BY <2>1, <2>2, <2>5
<1>. QED BY <1>4, <1>5, <1>6

\* So the same panes are shown.
LEMMA SameShownPanes ==
    ASSUME NEW s, NEW x, SameShown(s, x)
    PROVE  ShownPanes(x) = ShownPanes(s)
<1>1. \A n : TopRoot(x, n) = TopRoot(s, n)
  BY SameWalks DEF TopRoot
<1>2. \A n : FloatByRoot(x, n) = FloatByRoot(s, n)
  BY DEF FloatByRoot, SameShown
<1>3. \A sid : RootOf(x, sid) = RootOf(s, sid)
  BY DEF RootOf, SameShown
<1>4. \A sid, n : IsVisible(x, sid, n) <=> IsVisible(s, sid, n)
  BY <1>1, <1>2, <1>3, SameWalks DEF IsVisible
<1>. QED BY <1>4 DEF ShownPanes, SameShown

\* The children of p rearranged, each with its weight: the one at k was at f[k].
Rearranged(node, f, K, Z, A) ==
    LET N == Len(node.kids)
    IN  /\ f \in [1 .. N -> 1 .. N] /\ \A j \in 1 .. N : \E k \in 1 .. N : f[k] = j
        /\ K \in Seq(Nat) /\ Len(K) = N /\ \A k \in 1 .. N : K[k] = node.kids[f[k]]
        /\ Z \in Seq(Nat) /\ Len(Z) = Len(node.sizes)
        /\ node.sizes # <<>> => \A k \in 1 .. N : Z[k] = node.sizes[f[k]]
        /\ node.kind = "tabs" => A \in 0 .. N - 1 /\ f[A + 1] = node.active + 1

\* The state in which they are.
Shuffled(s, x, p) ==
    \E f, K, Z, A : Rearranged(s.nodes[p], f, K, Z, A) /\ Reordered(s, x, p, K, Z, A)

\* A rearrangement shows the same, and every child keeps its weight.
LEMMA RearrangedShows ==
    ASSUME NEW s, Forest(s, {}, None), NEW p \in DOMAIN s.nodes, s.nodes[p].kids # <<>>,
           NEW x, Shuffled(s, x, p)
    PROVE  ShownPanes(x) = ShownPanes(s) /\ WeightsOf(x, p) = WeightsOf(s, p)
<1> DEFINE node == s.nodes[p]
           N == Len(node.kids)
<1>0. PICK f, K, Z, A : Rearranged(s.nodes[p], f, K, Z, A) /\ Reordered(s, x, p, K, Z, A)
  BY Zenon DEF Shuffled
<1>1. /\ node \in NodeType /\ node.kids \in Seq(Nat) /\ node.sizes \in Seq(Nat) /\ N \in Nat
      /\ DOMAIN node.kids = 1 .. N /\ Fits(node, 0, Least(s, p)) /\ node.active \in Nat
  <2>1. /\ s.nodes \in [DOMAIN s.nodes -> NodeType] /\ Shaped(s, None) /\ None \notin DOMAIN s.nodes
    BY DEF Forest, IsState, None
  <2>2. node \in NodeType
    BY <2>1
  <2>3. Fits(node, 0, Least(s, p))
    BY <2>1, ShapedIs
  <2>4. node.kids \in Seq(Nat) /\ node.sizes \in Seq(Nat) /\ node.active \in Nat
    BY <2>2, NodeFields
  <2>. QED BY <2>2, <2>3, <2>4
<1>2. node.kind = "tabs" => node.active < N
  <2>1. node.kind = "tabs" => node.active < N \/ node.kids = <<>>
    BY DEF Forest, Pointed
  <2>. QED BY <2>1
<1>3. /\ x.nodes[p].kids = K /\ x.nodes[p].sizes = Z /\ x.nodes[p].active = A
      /\ x.nodes[p].kind = node.kind /\ x.nodes[p].sess = node.sess /\ x.nodes[p].parent = node.parent
  BY <1>0 DEF Reordered
<1>4. /\ f \in [1 .. N -> 1 .. N] /\ \A j \in 1 .. N : \E k \in 1 .. N : f[k] = j
      /\ K \in Seq(Nat) /\ Len(K) = N /\ DOMAIN K = 1 .. N
      /\ \A k \in 1 .. N : K[k] = node.kids[f[k]]
  <2>1. /\ f \in [1 .. N -> 1 .. N] /\ \A j \in 1 .. N : \E k \in 1 .. N : f[k] = j
        /\ K \in Seq(Nat) /\ Len(K) = N /\ \A k \in 1 .. N : K[k] = node.kids[f[k]]
    BY <1>0, Zenon  DEF Rearranged
  <2>2. DOMAIN K = 1 .. N
    BY <2>1
  <2>. QED BY <2>1, <2>2
<1>5. ToSet(K) = ToSet(node.kids)
  <2>1. ASSUME NEW c \in ToSet(K) PROVE c \in ToSet(node.kids)
    <3>1. PICK k \in 1 .. N : c = K[k]
      BY <1>4 DEF ToSet
    <3>2. f[k] \in 1 .. N /\ c = node.kids[f[k]]
      BY <1>4, <3>1
    <3>. QED BY <1>1, <3>2 DEF ToSet
  <2>2. ASSUME NEW c \in ToSet(node.kids) PROVE c \in ToSet(K)
    <3>1. PICK j \in 1 .. N : c = node.kids[j]
      BY <1>1 DEF ToSet
    <3>2. PICK k \in 1 .. N : f[k] = j
      BY <1>4
    <3>3. k \in DOMAIN K /\ K[k] = c
      BY <1>4, <3>1, <3>2
    <3>. QED BY <3>3 DEF ToSet
  <2>. QED BY <2>1, <2>2
<1>6. node.kind = "tabs" => ActiveKid(x.nodes[p]) = ActiveKid(node)
  <2> SUFFICES ASSUME node.kind = "tabs" PROVE ActiveKid(x.nodes[p]) = ActiveKid(node)
    OBVIOUS
  <2>1. A \in 0 .. N - 1 /\ f[A + 1] = node.active + 1
    BY <1>0 DEF Rearranged
  <2>2. A < N /\ A + 1 \in 1 .. N
    BY <1>1, <2>1
  <2>3. K[A + 1] = node.kids[node.active + 1]
    BY <1>4, <2>1, <2>2
  <2>4. ActiveKid(x.nodes[p]) = K[A + 1]
    BY <1>3, <1>4, <2>2 DEF ActiveKid, TabAt
  <2>5. ActiveKid(node) = node.kids[node.active + 1]
    BY <1>2 DEF ActiveKid, TabAt
  <2>. QED BY <2>3, <2>4, <2>5
<1>7. SameShown(s, x)
  <2>1. ASSUME NEW m \in DOMAIN s.nodes
        PROVE  /\ x.nodes[m].kind = s.nodes[m].kind /\ x.nodes[m].sess = s.nodes[m].sess
               /\ x.nodes[m].parent = s.nodes[m].parent /\ Kids(x, m) = Kids(s, m)
               /\ s.nodes[m].kind = "tabs" => ActiveKid(x.nodes[m]) = ActiveKid(s.nodes[m])
    <3>1. CASE m = p
      BY <1>3, <1>5, <1>6, <3>1 DEF Kids
    <3>2. CASE m # p
      <4>1. x.nodes[m] = s.nodes[m]
        BY <1>0, <3>2 DEF Reordered
      <4>. QED BY <4>1 DEF Kids
    <3>. QED BY <3>1, <3>2
  <2>. QED BY <1>0, <2>1 DEF SameShown, Reordered
<1>8. WeightsOf(x, p) = WeightsOf(s, p)
  <2>0. /\ WeightsOf(x, p) = {<<K[i], Z[i]>> : i \in DOMAIN Z}
        /\ WeightsOf(s, p) = {<<node.kids[i], node.sizes[i]>> : i \in DOMAIN node.sizes}
    BY <1>3 DEF WeightsOf
  <2>1. Z \in Seq(Nat) /\ Len(Z) = Len(node.sizes)
    BY <1>0 DEF Rearranged
  <2>2. CASE node.sizes = <<>>
    <3>1. DOMAIN Z = {} /\ DOMAIN node.sizes = {}
      BY <1>1, <2>1, <2>2
    <3>. QED BY <2>0, <3>1
  <2>3. CASE node.sizes # <<>>
    <3>1. Len(node.sizes) = N
      BY <1>1, <2>3 DEF Fits
    <3>2. DOMAIN Z = 1 .. N /\ DOMAIN node.sizes = 1 .. N
      BY <1>1, <2>1, <3>1
    <3>3. \A k \in 1 .. N : Z[k] = node.sizes[f[k]]
      BY <1>0, <2>3 DEF Rearranged
    <3>4. ASSUME NEW k \in 1 .. N
          PROVE  <<K[k], Z[k]>> \in {<<node.kids[i], node.sizes[i]>> : i \in 1 .. N}
      <4>1. f[k] \in 1 .. N /\ K[k] = node.kids[f[k]] /\ Z[k] = node.sizes[f[k]]
        BY <1>4, <3>3
      <4>. QED BY <4>1
    <3>5. ASSUME NEW j \in 1 .. N
          PROVE  <<node.kids[j], node.sizes[j]>> \in {<<K[i], Z[i]>> : i \in 1 .. N}
      <4>1. PICK k \in 1 .. N : f[k] = j
        BY <1>4
      <4>2. K[k] = node.kids[j] /\ Z[k] = node.sizes[j]
        BY <1>4, <3>3, <4>1
      <4>. QED BY <4>2
    <3>. QED BY <2>0, <3>2, <3>4, <3>5
  <2>. QED BY <2>2, <2>3
<1>. QED BY <1>7, <1>8, SameShownPanes

\* Where the entry at k was before a swap.
SwapSource(i, j, k) == IF k = j + 1 THEN i + 1 ELSE IF k = i + 1 THEN j + 1 ELSE k

\* Where the entry at k was before a move.
MoveSource(i, at, k) ==
    IF k = at + 1 THEN i + 1
    ELSE IF k <= at THEN (IF k <= i THEN k ELSE k + 1)
    ELSE (IF k - 1 <= i THEN k - 1 ELSE k)

\* The active tab is where the active index goes.
LEMMA SwapActive ==
    ASSUME NEW N \in Nat, NEW a \in Nat, a < N, NEW i \in 0 .. N - 1, NEW j \in 0 .. N - 1
    PROVE  LET A == ActiveAfterSwap(a, i, j)
           IN  A \in 0 .. N - 1 /\ A + 1 \in 1 .. N /\ SwapSource(i, j, A + 1) = a + 1
  BY DEF ActiveAfterSwap, SwapSource

\* A swap is a rearrangement.
LEMMA SwapRearranges ==
    ASSUME NEW node \in NodeType, NEW N \in Nat, N = Len(node.kids),
           node.sizes # <<>> => Len(node.sizes) = N, node.kind = "tabs" => node.active < N,
           NEW i \in 0 .. N - 1, NEW j \in 0 .. N - 1
    PROVE  Rearranged(node, [k \in 1 .. N |-> SwapSource(i, j, k)], Swapped(node.kids, i, j),
                      IF node.sizes = <<>> THEN node.sizes ELSE Swapped(node.sizes, i, j),
                      IF node.kind = "tabs" THEN ActiveAfterSwap(node.active, i, j) ELSE node.active)
<1> DEFINE f == [k \in 1 .. N |-> SwapSource(i, j, k)]
           Z == IF node.sizes = <<>> THEN node.sizes ELSE Swapped(node.sizes, i, j)
           A == IF node.kind = "tabs" THEN ActiveAfterSwap(node.active, i, j) ELSE node.active
<1>0. node.kids \in Seq(Nat) /\ node.sizes \in Seq(Nat) /\ node.active \in Nat
  BY NodeFields
<1>1. \A k \in 1 .. N : SwapSource(i, j, k) \in 1 .. N /\ SwapSource(i, j, SwapSource(i, j, k)) = k
  BY DEF SwapSource
<1>2. \A k \in 1 .. N : f[k] = SwapSource(i, j, k)
  OBVIOUS
<1>3. f \in [1 .. N -> 1 .. N] /\ \A y \in 1 .. N : \E k \in 1 .. N : f[k] = y
  BY <1>1
<1>4. ASSUME NEW list \in Seq(Nat), Len(list) = N
      PROVE  /\ Swapped(list, i, j) \in Seq(Nat) /\ Len(Swapped(list, i, j)) = N
             /\ \A k \in 1 .. N : Swapped(list, i, j)[k] = list[f[k]]
  <2>1. /\ Swapped(list, i, j) \in Seq(Nat) /\ Len(Swapped(list, i, j)) = N
        /\ \A k \in 1 .. N :
             Swapped(list, i, j)[k] = IF k = j + 1 THEN list[i + 1] ELSE IF k = i + 1 THEN list[j + 1] ELSE list[k]
    <3>1. list \in Seq(Nat) /\ i \in 0 .. Len(list) - 1 /\ j \in 0 .. Len(list) - 1 /\ Len(list) = N
      BY <1>4
    <3>2. /\ Swapped(list, i, j) \in Seq(Nat) /\ Len(Swapped(list, i, j)) = Len(list)
          /\ \A k \in 1 .. Len(list) :
               Swapped(list, i, j)[k] = IF k = j + 1 THEN list[i + 1] ELSE IF k = i + 1 THEN list[j + 1] ELSE list[k]
      BY <3>1, SwappedIs, Zenon
    <3>. QED BY <3>1, <3>2
  <2>. QED BY <1>2, <2>1 DEF SwapSource
<1>5. node.kind = "tabs" => A \in 0 .. N - 1 /\ f[A + 1] = node.active + 1
  <2> SUFFICES ASSUME node.kind = "tabs" PROVE A \in 0 .. N - 1 /\ f[A + 1] = node.active + 1
    OBVIOUS
  <2>1. A = ActiveAfterSwap(node.active, i, j)
    OBVIOUS
  <2>2. A \in 0 .. N - 1 /\ A + 1 \in 1 .. N /\ SwapSource(i, j, A + 1) = node.active + 1
    BY <1>0, <2>1, SwapActive
  <2>. QED BY <1>2, <2>2
<1> HIDE DEF f, A
<1>6. /\ Z \in Seq(Nat) /\ Len(Z) = Len(node.sizes)
      /\ node.sizes # <<>> => \A k \in 1 .. N : Z[k] = node.sizes[f[k]]
  BY <1>0, <1>4
<1> HIDE DEF Z
<1>7. Rearranged(node, f, Swapped(node.kids, i, j), Z, A)
  BY <1>0, <1>3, <1>4, <1>5, <1>6 DEF Rearranged
<1>. QED BY <1>7 DEF f, Z, A

\* Each entry of a moved list was somewhere before.
LEMMA MovedEntries ==
    ASSUME NEW list \in Seq(Nat), NEW N \in Nat, N = Len(list), NEW i \in 0 .. N - 1, NEW at \in 0 .. N - 1
    PROVE  /\ Moved(list, i, at) \in Seq(Nat) /\ Len(Moved(list, i, at)) = N
           /\ \A k \in 1 .. N : Moved(list, i, at)[k] = list[MoveSource(i, at, k)]
<1> DEFINE r == RemovedAt(list, i)
           x == TabAt(list, i)
<1>1. /\ r \in Seq(Nat) /\ Len(r) = N - 1
      /\ \A k \in 1 .. N - 1 : r[k] = IF k <= i THEN list[k] ELSE list[k + 1]
  BY RemovedAtIs
<1>2. x \in Nat /\ x = list[i + 1]
  BY DEF TabAt
<1> HIDE DEF r, x
<1>3. at \in 0 .. Len(r) /\ Len(r) + 1 = N
  BY <1>1
<1>4. \A k \in 1 .. Len(r) + 1 :
        InsertedAt(r, at, x)[k] = IF k <= at THEN r[k] ELSE IF k = at + 1 THEN x ELSE r[k - 1]
  BY <1>1, <1>2, <1>3, InsertedAtIs, Zenon
<1>5. Moved(list, i, at) = InsertedAt(r, at, x)
  BY DEF Moved, r, x
<1>6. ASSUME NEW k \in 1 .. N PROVE Moved(list, i, at)[k] = list[MoveSource(i, at, k)]
  <2>1. Moved(list, i, at)[k] = IF k <= at THEN r[k] ELSE IF k = at + 1 THEN x ELSE r[k - 1]
    BY <1>3, <1>4, <1>5
  <2>2. CASE k <= at
    <3>1. k \in 1 .. N - 1 /\ k # at + 1
      BY <2>2
    <3>2. Moved(list, i, at)[k] = IF k <= i THEN list[k] ELSE list[k + 1]
      BY <1>1, <2>1, <2>2, <3>1
    <3>3. MoveSource(i, at, k) = IF k <= i THEN k ELSE k + 1
      BY <2>2, <3>1 DEF MoveSource
    <3>. QED BY <3>2, <3>3
  <2>3. CASE k = at + 1
    BY <1>2, <2>1, <2>3 DEF MoveSource
  <2>4. CASE k > at + 1
    <3>1. k - 1 \in 1 .. N - 1 /\ ~(k <= at) /\ k # at + 1 /\ (k - 1) + 1 = k
      BY <2>4
    <3>2. Moved(list, i, at)[k] = IF k - 1 <= i THEN list[k - 1] ELSE list[k]
      BY <1>1, <2>1, <3>1
    <3>3. MoveSource(i, at, k) = IF k - 1 <= i THEN k - 1 ELSE k
      BY <3>1 DEF MoveSource
    <3>. QED BY <3>2, <3>3
  <2>. QED BY <2>2, <2>3, <2>4
<1>7. Moved(list, i, at) \in Seq(Nat) /\ Len(Moved(list, i, at)) = N
  BY MovedIs
<1>. QED BY <1>6, <1>7

\* Every place is filled once, from every place.
LEMMA MoveSources ==
    ASSUME NEW N \in Nat, NEW i \in 0 .. N - 1, NEW at \in 0 .. N - 1
    PROVE  /\ \A k \in 1 .. N : MoveSource(i, at, k) \in 1 .. N
           /\ \A y \in 1 .. N : \E k \in 1 .. N : MoveSource(i, at, k) = y
<1>1. ASSUME NEW k \in 1 .. N PROVE MoveSource(i, at, k) \in 1 .. N
  BY DEF MoveSource
<1>2. ASSUME NEW y \in 1 .. N PROVE \E k \in 1 .. N : MoveSource(i, at, k) = y
  <2> DEFINE left == IF y <= i THEN y ELSE y - 1
             k == IF y = i + 1 THEN at + 1 ELSE IF left <= at THEN left ELSE left + 1
  <2>1. k \in 1 .. N /\ MoveSource(i, at, k) = y
    BY DEF MoveSource
  <2>. QED BY <2>1
<1>. QED BY <1>1, <1>2

\* The active tab is where the active index goes.
LEMMA MoveActive ==
    ASSUME NEW N \in Nat, NEW a \in Nat, a < N, NEW i \in 0 .. N - 1, NEW at \in 0 .. N - 1
    PROVE  LET A == ActiveAfterMove(a, i, at)
           IN  A \in 0 .. N - 1 /\ A + 1 \in 1 .. N /\ MoveSource(i, at, A + 1) = a + 1
  BY DEF ActiveAfterMove, MoveSource

\* A move is a rearrangement.
LEMMA MoveRearranges ==
    ASSUME NEW node \in NodeType, NEW N \in Nat, N = Len(node.kids),
           node.sizes # <<>> => Len(node.sizes) = N, node.kind = "tabs" => node.active < N,
           NEW i \in 0 .. N - 1, NEW at \in 0 .. N - 1
    PROVE  Rearranged(node, [k \in 1 .. N |-> MoveSource(i, at, k)], Moved(node.kids, i, at),
                      IF node.sizes = <<>> THEN node.sizes ELSE Moved(node.sizes, i, at),
                      IF node.kind = "tabs" THEN ActiveAfterMove(node.active, i, at) ELSE node.active)
<1> DEFINE f == [k \in 1 .. N |-> MoveSource(i, at, k)]
           Z == IF node.sizes = <<>> THEN node.sizes ELSE Moved(node.sizes, i, at)
           A == IF node.kind = "tabs" THEN ActiveAfterMove(node.active, i, at) ELSE node.active
<1>0. node.kids \in Seq(Nat) /\ node.sizes \in Seq(Nat) /\ node.active \in Nat
  BY NodeFields
<1>2. \A k \in 1 .. N : f[k] = MoveSource(i, at, k)
  OBVIOUS
<1>3. f \in [1 .. N -> 1 .. N] /\ \A y \in 1 .. N : \E k \in 1 .. N : f[k] = y
  <2>1. \A k \in 1 .. N : MoveSource(i, at, k) \in 1 .. N
    BY MoveSources
  <2>2. ASSUME NEW y \in 1 .. N PROVE \E k \in 1 .. N : f[k] = y
    <3>1. PICK k \in 1 .. N : MoveSource(i, at, k) = y
      BY MoveSources
    <3>. QED BY <3>1
  <2>. QED BY <2>1, <2>2
<1>4. ASSUME NEW list \in Seq(Nat), Len(list) = N
      PROVE  /\ Moved(list, i, at) \in Seq(Nat) /\ Len(Moved(list, i, at)) = N
             /\ \A k \in 1 .. N : Moved(list, i, at)[k] = list[f[k]]
  BY <1>2, <1>4, MovedEntries, Zenon
<1>5. node.kind = "tabs" => A \in 0 .. N - 1 /\ f[A + 1] = node.active + 1
  <2> SUFFICES ASSUME node.kind = "tabs" PROVE A \in 0 .. N - 1 /\ f[A + 1] = node.active + 1
    OBVIOUS
  <2>1. A = ActiveAfterMove(node.active, i, at)
    OBVIOUS
  <2>2. A \in 0 .. N - 1 /\ A + 1 \in 1 .. N /\ MoveSource(i, at, A + 1) = node.active + 1
    BY <1>0, <2>1, MoveActive
  <2>. QED BY <1>2, <2>2
<1> HIDE DEF f, A
<1>6. /\ Z \in Seq(Nat) /\ Len(Z) = Len(node.sizes)
      /\ node.sizes # <<>> => \A k \in 1 .. N : Z[k] = node.sizes[f[k]]
  BY <1>0, <1>4
<1> HIDE DEF Z
<1>7. Rearranged(node, f, Moved(node.kids, i, at), Z, A)
  BY <1>0, <1>3, <1>4, <1>5, <1>6 DEF Rearranged
<1>. QED BY <1>7 DEF f, Z, A

\* What reordering the children of p must leave.
ShowsTheSame(s, r, p) ==
    r.ok /\ ShownPanes(r.s) = ShownPanes(s) /\ WeightsOf(r.s, p) = WeightsOf(s, p)

\* Siblings that trade places, or of which one moves, show the same.
LEMMA ReorderShows ==
    ASSUME NEW s, Sound(s), NEW p \in DOMAIN s.nodes, NEW n \in Kids(s, p), NEW m \in Kids(s, p), n # m
    PROVE  /\ ShowsTheSame(s, SwapSiblings(s, n, m), p)
           /\ \A before \in BOOLEAN : ShowsTheSame(s, MoveNode(s, n, m, before), p)
<1> DEFINE z == s.nodes[p]
           N == Len(z.kids)
           i == Position(z.kids, n)
           j == Position(z.kids, m)
<1>0. Forest(s, {}, None) /\ IsState(s) /\ None \notin DOMAIN s.nodes
  BY DEF Sound, Forest, IsState, None
<1>1. n \in DOMAIN s.nodes /\ m \in DOMAIN s.nodes /\ s.nodes[n].parent = p /\ s.nodes[m].parent = p
  BY <1>0 DEF Forest, Linked
<1>2. SharedParent(s, n, m) = p /\ p # None
  BY <1>0, <1>1 DEF SharedParent
<1>3. /\ z \in NodeType /\ z.kids # <<>> /\ z.kids \in Seq(Nat) /\ z.sizes \in Seq(Nat) /\ z.active \in Nat
      /\ z.sizes # <<>> => Len(z.sizes) = N
      /\ z.kind = "tabs" => z.active < N
  BY <1>0, <1>1, <1>2, SharedParentIs
<1>4. N \in Nat /\ i \in 0 .. N - 1 /\ j \in 0 .. N - 1 /\ i # j
  <2>1. /\ i \in 0 .. N - 1 /\ j \in 0 .. N - 1 /\ z.kids[i + 1] = n /\ z.kids[j + 1] = m
    BY <1>3, PositionIs DEF Kids
  <2>. QED BY <1>3, <2>1
<1>5. ASSUME NEW f, NEW K, NEW Z, NEW A \in Nat, Rearranged(s.nodes[p], f, K, Z, A),
             NEW x, x = [s EXCEPT !.nodes[p].kids = K, !.nodes[p].sizes = Z, !.nodes[p].active = A]
      PROVE  ShowsTheSame(s, Ok(x), p)
  <2>1. K \in Seq(Nat) /\ Z \in Seq(Nat)
    BY <1>5 DEF Rearranged
  <2>2. Reordered(s, x, p, K, Z, A)
    BY <1>0, <1>5, <2>1, ReorderIs, Zenon
  <2>3. Shuffled(s, x, p)
    BY <1>5, <2>2, Zenon DEF Shuffled
  <2>4. s.nodes[p].kids # <<>>
    BY <1>3
  <2>5. ShownPanes(x) = ShownPanes(s) /\ WeightsOf(x, p) = WeightsOf(s, p)
    BY <1>0, <2>3, <2>4, RearrangedShows
  <2>. QED BY <2>5 DEF ShowsTheSame, Ok
<1>6. ShowsTheSame(s, SwapSiblings(s, n, m), p)
  <2> DEFINE f == [k \in 1 .. N |-> SwapSource(i, j, k)]
             K == Swapped(z.kids, i, j)
             Z == IF z.sizes = <<>> THEN z.sizes ELSE Swapped(z.sizes, i, j)
             A == IF z.kind = "tabs" THEN ActiveAfterSwap(z.active, i, j) ELSE z.active
             x == [s EXCEPT !.nodes[p].kids = K, !.nodes[p].sizes = Z, !.nodes[p].active = A]
  <2>1. SwapSiblings(s, n, m) = Ok(x)
    <3>1. SwapSiblings(s, n, m) = Ok([s EXCEPT
            !.nodes[p].kids = Swapped(@, i, j),
            !.nodes[p].sizes = IF @ = <<>> THEN @ ELSE Swapped(@, i, j),
            !.nodes[p].active = IF z.kind = "tabs" THEN ActiveAfterSwap(@, i, j) ELSE @])
      BY <1>2 DEF SwapSiblings
    <3>. QED BY <1>3, <3>1
  <2>2. Rearranged(z, f, K, Z, A)
    <3> HIDE DEF i, j, z
    <3>. QED BY <1>3, <1>4, SwapRearranges
  <2>3. A \in Nat
    <3> HIDE DEF i, j, z
    <3>. QED BY <1>3, <1>4 DEF ActiveAfterSwap
  <2>4. x = [s EXCEPT !.nodes[p].kids = K, !.nodes[p].sizes = Z, !.nodes[p].active = A]
    OBVIOUS
  <2> HIDE DEF f, K, Z, A, x
  <2>5. ShowsTheSame(s, Ok(x), p)
    BY <1>5, <2>2, <2>3, <2>4, Zenon
  <2>. QED BY <2>1, <2>5
<1>7. ASSUME NEW before \in BOOLEAN PROVE ShowsTheSame(s, MoveNode(s, n, m, before), p)
  <2> DEFINE at == InsertPosition(i, j, before)
             f == [k \in 1 .. N |-> MoveSource(i, at, k)]
             K == Moved(z.kids, i, at)
             Z == IF z.sizes = <<>> THEN z.sizes ELSE Moved(z.sizes, i, at)
             A == IF z.kind = "tabs" THEN ActiveAfterMove(z.active, i, at) ELSE z.active
             x == [s EXCEPT !.nodes[p].kids = K, !.nodes[p].sizes = Z, !.nodes[p].active = A]
  <2>1. MoveNode(s, n, m, before) = Ok(x)
    <3>1. MoveNode(s, n, m, before) = Ok([s EXCEPT
            !.nodes[p].kids = Moved(@, i, at),
            !.nodes[p].sizes = IF @ = <<>> THEN @ ELSE Moved(@, i, at),
            !.nodes[p].active = IF z.kind = "tabs" THEN ActiveAfterMove(@, i, at) ELSE @])
      BY <1>2 DEF MoveNode
    <3>. QED BY <1>3, <3>1
  <2>2. at \in 0 .. N - 1
    <3> HIDE DEF i, j, z
    <3>. QED BY <1>4 DEF InsertPosition
  <2>3. Rearranged(z, f, K, Z, A)
    <3> HIDE DEF i, j, z, at
    <3>. QED BY <1>3, <1>4, <2>2, MoveRearranges
  <2>4. A \in Nat
    <3> HIDE DEF i, j, z, at
    <3>1. CASE z.kind = "tabs"
      <4>1. ActiveAfterMove(z.active, i, at) \in 0 .. N - 1
        BY <1>3, <1>4, <2>2, <3>1, MoveActive
      <4>. QED BY <1>4, <3>1, <4>1
    <3>2. CASE z.kind # "tabs"
      BY <1>3, <3>2
    <3>. QED BY <3>1, <3>2
  <2>5. x = [s EXCEPT !.nodes[p].kids = K, !.nodes[p].sizes = Z, !.nodes[p].active = A]
    OBVIOUS
  <2> HIDE DEF f, K, Z, A, x
  <2>6. ShowsTheSame(s, Ok(x), p)
    BY <1>5, <2>3, <2>4, <2>5, Zenon
  <2>. QED BY <2>1, <2>6
<1>. QED BY <1>6, <1>7

\* Whichever siblings a client reorders, every window and popup goes on showing
\* the panes it showed, and every child of a split keeps its weight, until a tabs
\* node with a single tab is nested.
THEOREM ReorderingShowsTheSame == Spec => []ReorderShowsTheSame
<1>1. LayoutInv => ReorderShowsTheSame
  <2> SUFFICES ASSUME LayoutInv, ~nested, NEW p \in Nodes, NEW n \in ToSet(st.nodes[p].kids),
                      NEW m \in ToSet(st.nodes[p].kids), n # m,
                      NEW r \in {SwapSiblings(st, n, m), MoveNode(st, n, m, TRUE), MoveNode(st, n, m, FALSE)}
      PROVE r.ok /\ ShownPanes(r.s) = ShownPanes(st) /\ WeightsOf(r.s, p) = WeightsOf(st, p)
    BY DEF ReorderShowsTheSame
  <2>1. Sound(st) /\ p \in DOMAIN st.nodes /\ n \in Kids(st, p) /\ m \in Kids(st, p)
    BY DEF LayoutInv, Tidy, Nodes, Kids
  <2>2. ShowsTheSame(st, r, p)
    BY <2>1, ReorderShows
  <2>. QED BY <2>2 DEF ShowsTheSame
<1>. QED BY <1>1, AlwaysLayoutInv, PTL
=============================================================================
