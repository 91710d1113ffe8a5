-------------------------- MODULE ClientCopyProofs --------------------------
(***************************************************************************)
(* Proof about ClientCopy, for any sessions, panes, buffers, tasks, bounds *)
(* and orders in which the server's tasks broadcast: a session that the    *)
(* client has wrong is one it is going to read again.                      *)
(*                                                                         *)
(* The argument.  Each change of a session puts an event about it into the *)
(* task that made it, in the same step (Agrees is disturbed, Told holds);  *)
(* the event then moves from the task to the feed, to the batch and, as a  *)
(* read, to todo, and what the client reads is what the server has at that *)
(* moment.  The one event that is handled without reading is that a        *)
(* session was closed, so it must never be about a session that lives: a   *)
(* number is given to one session only (ClosedIsGone).  Reading one        *)
(* session must not disturb another, so a pane stays in its session        *)
(* (SameSession, with Unused for the numbers not given yet).               *)
(***************************************************************************)
EXTENDS ClientCopy, FiniteSetTheorems, WellFoundedInduction, TLAPS

-----------------------------------------------------------------------------
(* Least members, and what a filter (EventFeed's Wanted) keeps *)

\* A set of numbers that is not empty has a least member. A claim about every
\* number follows from it: a least counterexample cannot exist.
LEMMA NatMin ==
    ASSUME NEW X \in SUBSET Nat, X # {}
    PROVE  \E x \in X : \A y \in X : x <= y
<1>1. IsWellFoundedOn(OpToRel(<, Nat), Nat)
  BY NatLessThanWellFounded
<1>2. PICK x \in X : \A y \in X : ~ (<<y, x>> \in OpToRel(<, Nat))
  BY <1>1, WFMin
<1>3. \A y \in X : ~ (y < x)
  BY <1>2 DEF OpToRel
<1>. QED BY <1>3

\* What is kept of the first k elements of s, those with an index in K.
IsFilter(g, s, K, n) ==
    g = [k \in 0 .. n |-> IF k = 0 THEN <<>>
                          ELSE IF k \in K THEN Append(g[k - 1], s[k]) ELSE g[k - 1]]

\* The filter of the first N elements exists: its recursion is well founded.
LEMMA FilterExists ==
    ASSUME NEW s, NEW K, NEW N \in Nat
    PROVE  \E g : IsFilter(g, s, K, N)
<1> DEFINE Bad == {n \in Nat : ~ \E g : IsFilter(g, s, K, n)}
<1> SUFFICES ASSUME Bad # {} PROVE FALSE
  OBVIOUS
<1>1. PICK n \in Bad : \A m \in Bad : n <= m
  BY NatMin
<1>2. n # 0
  <2>1. IsFilter([k \in 0 .. 0 |-> <<>>], s, K, 0)
    BY DEF IsFilter
  <2>. QED BY <1>1, <2>1
<1>3. PICK g : IsFilter(g, s, K, n - 1)
  BY <1>1, <1>2
<1> DEFINE last == IF n \in K THEN Append(g[n - 1], s[n]) ELSE g[n - 1]
           h == [k \in 0 .. n |-> IF k = n THEN last ELSE g[k]]
<1>4. \A k \in 0 .. n : h[k] = IF k = 0 THEN <<>>
                               ELSE IF k \in K THEN Append(h[k - 1], s[k]) ELSE h[k - 1]
  <2>1. \A k \in 0 .. n - 1 : g[k] = IF k = 0 THEN <<>>
                                     ELSE IF k \in K THEN Append(g[k - 1], s[k]) ELSE g[k - 1]
    BY <1>3 DEF IsFilter
  <2>2. \A k \in 0 .. n - 1 : h[k] = g[k]
    BY <1>1
  <2>3. h[n] = last
    BY <1>1
  <2> HIDE DEF h
  <2>4. last = IF n \in K THEN Append(h[n - 1], s[n]) ELSE h[n - 1]
    BY <1>1, <1>2, <2>2
  <2>5. ASSUME NEW k \in 0 .. n - 1
        PROVE  h[k] = IF k = 0 THEN <<>>
                      ELSE IF k \in K THEN Append(h[k - 1], s[k]) ELSE h[k - 1]
    BY <2>1, <2>2
  <2>. QED BY <1>1, <1>2, <2>3, <2>4, <2>5
<1>5. IsFilter(h, s, K, n)
  <2>1. h = [k \in 0 .. n |-> h[k]]
    OBVIOUS
  <2> HIDE DEF h
  <2>. QED BY <1>4, <2>1 DEF IsFilter
<1>. QED BY <1>1, <1>5

\* What a filter keeps are elements of the sequence, and no more of them.
LEMMA FilterType ==
    ASSUME NEW S, NEW s \in Seq(S), NEW K, NEW g, IsFilter(g, s, K, Len(s)),
           NEW k \in 0 .. Len(s)
    PROVE  g[k] \in Seq(S) /\ Len(g[k]) <= k
<1> DEFINE Bad == {n \in Nat : n <= Len(s) /\ ~ (g[n] \in Seq(S) /\ Len(g[n]) <= n)}
<1> SUFFICES ASSUME Bad # {} PROVE FALSE
  OBVIOUS
<1>1. PICK n \in Bad : \A m \in Bad : n <= m
  BY NatMin
<1>2. \A m \in 0 .. Len(s) : g[m] = IF m = 0 THEN <<>>
                                    ELSE IF m \in K THEN Append(g[m - 1], s[m]) ELSE g[m - 1]
  BY DEF IsFilter
<1>3. ASSUME n = 0 PROVE FALSE
  <2>1. g[0] = <<>>
    BY <1>2
  <2>2. <<>> \in Seq(S) /\ Len(<<>>) = 0
    OBVIOUS
  <2>. QED BY <1>1, <1>3, <2>1, <2>2
<1>4. g[n - 1] \in Seq(S) /\ Len(g[n - 1]) <= n - 1 /\ Len(g[n - 1]) \in Nat
  BY <1>1, <1>3
<1>5. s[n] \in S /\ n \in 0 .. Len(s)
  BY <1>1, <1>3
<1>6. CASE n \in K
  <2>1. g[n] = Append(g[n - 1], s[n])
    BY <1>2, <1>3, <1>5, <1>6
  <2>2. Append(g[n - 1], s[n]) \in Seq(S) /\ Len(Append(g[n - 1], s[n])) = Len(g[n - 1]) + 1
    BY <1>4, <1>5
  <2>3. g[n] \in Seq(S) /\ Len(g[n]) = Len(g[n - 1]) + 1
    BY <2>1, <2>2, Zenon
  <2> HIDE DEF Bad
  <2>4. n \in Nat /\ n <= Len(s) /\ ~ (g[n] \in Seq(S) /\ Len(g[n]) <= n)
    BY <1>1 DEF Bad
  <2>. QED BY <1>4, <2>3, <2>4
<1>7. CASE n \notin K
  <2>1. g[n] = g[n - 1]
    BY <1>2, <1>3, <1>5, <1>7
  <2>. QED BY <1>1, <1>4, <2>1
<1>. QED BY <1>6, <1>7

\* A filter that keeps every element gives the sequence itself.
LEMMA FilterAll ==
    ASSUME NEW S, NEW s \in Seq(S), NEW K, 1 .. Len(s) \subseteq K,
           NEW g, IsFilter(g, s, K, Len(s))
    PROVE  g[Len(s)] = s
<1> DEFINE Same(n) == g[n] \in Seq(S) /\ Len(g[n]) = n /\ \A i \in 1 .. n : g[n][i] = s[i]
           Bad == {n \in Nat : n <= Len(s) /\ ~ Same(n)}
<1>0. Len(s) \in Nat /\ DOMAIN s = 1 .. Len(s)
  OBVIOUS
<1>1. Bad = {}
  <2> SUFFICES ASSUME Bad # {} PROVE FALSE
    OBVIOUS
  <2>1. PICK n \in Bad : \A m \in Bad : n <= m
    BY NatMin
  <2>2. \A m \in 0 .. Len(s) : g[m] = IF m = 0 THEN <<>>
                                      ELSE IF m \in K THEN Append(g[m - 1], s[m]) ELSE g[m - 1]
    BY DEF IsFilter
  <2>3. ASSUME n = 0 PROVE FALSE
    <3>1. g[0] = <<>>
      BY <1>0, <2>2
    <3>2. Same(0)
      BY <3>1
    <3>. QED BY <2>1, <2>3, <3>2
  <2>4. Same(n - 1) /\ n \in 1 .. Len(s) /\ n - 1 \in Nat
    BY <1>0, <2>1, <2>3
  <2>5. g[n] = Append(g[n - 1], s[n]) /\ s[n] \in S
    <3>1. n \in 0 .. Len(s) /\ n # 0 /\ n \in K
      BY <1>0, <2>4
    <3>2. g[n] = Append(g[n - 1], s[n])
      BY <2>2, <3>1
    <3>3. s[n] \in S
      BY <1>0, <2>4
    <3>. QED BY <3>2, <3>3
  <2> DEFINE h == g[n - 1]
             a == Append(h, s[n])
  <2>6. h \in Seq(S) /\ Len(h) = n - 1 /\ \A i \in 1 .. n - 1 : h[i] = s[i]
    BY <2>4
  <2> HIDE DEF h
  <2>7. a \in Seq(S) /\ Len(a) = n /\ (\A i \in 1 .. n - 1 : a[i] = h[i]) /\ a[n] = s[n]
    BY <2>4, <2>5, <2>6
  <2>8. g[n] = a
    BY <2>5 DEF h
  <2> HIDE DEF a
  <2>9. \A i \in 1 .. n : a[i] = s[i]
    <3>1. \A i \in 1 .. n : i \in 1 .. n - 1 \/ i = n
      BY <2>4
    <3>. QED BY <2>6, <2>7, <3>1
  <2>10. Same(n)
    BY <2>7, <2>8, <2>9
  <2>. QED BY <2>1, <2>10
<1>2. Same(Len(s))
  BY <1>0, <1>1
<1> DEFINE h == g[Len(s)]
<1>3. h \in Seq(S) /\ Len(h) = Len(s) /\ \A i \in 1 .. Len(s) : h[i] = s[i]
  BY <1>2
<1> HIDE DEF h
<1>4. h = s
  BY <1>3
<1>. QED BY <1>4 DEF h

-----------------------------------------------------------------------------
(* Types and the inductive invariant *)

Pane == [s : Session, b : Buffer]
AboutKind == {"created", "closed", "changed"}

EventType ==
    [kind : AboutKind, id : Session, about : SUBSET Session]
    \cup [kind : {"detached", "invalidated"}, id : Buffer, about : {{}}]
    \cup [kind : {"made"}, id : Buffer, about : {{}}, att : Node \cup {Nowhere}]

\* An event about a session names it.
WellFormed(e) == e.about = IF e.kind \in AboutKind THEN {e.id} ELSE {}

EventSet == {e \in EventType : WellFormed(e)}
FetchSet == [what : {"sessions", "session", "detached", "record", "snapshot", "forget"},
             id : Session \cup Buffer \cup {0}]
TaskStep == {"idle", "spawn", "asked", "dispose", "destroy", "broadcast"}

TaskType == [step : TaskStep, had : SUBSET (Session \cup Buffer), events : Seq(EventSet)]

CopyTypes ==
    /\ live \subseteq Session
    /\ pane \in [Node -> Pane \cup {Nowhere}]
    /\ nodes \in [Node -> Pane \cup {Nowhere}]
    /\ task \in [Tasks -> TaskType]
    /\ nextNode \in Nat /\ nextSession \in Nat
    /\ phase \in {"new", "subscribed"} /\ taking \in BOOLEAN
    /\ batch \in Seq(EventSet) /\ todo \in Seq(FetchSet)
    /\ feed \in [Conn -> Seq(EventSet)]
    /\ interest \in [Conn -> {All, None}]

\* A task has no events before it has changed anything.
Calm(r) ==
    /\ r.step \in {"idle", "spawn", "asked"} => r.events = <<>>
    /\ r.step = "spawn" => r.had \subseteq Buffer /\ r.had # {}
QuietBefore == \A t \in Tasks : Calm(task[t])

\* A pane is in a session that lives, and numbers not given yet are not used.
PanesLive == \A n \in Node : pane[n] # Nowhere => pane[n].s \in live
Unused ==
    /\ \A n \in Node : n >= nextNode => pane[n] = Nowhere /\ nodes[n] = Nowhere
    /\ \A s \in live : s < nextSession

\* Who was told that a session is closed was told the truth, for good.
ClosedIsGone == \A e \in Events : e.kind = "closed" => e.id \notin live /\ e.id < nextSession

\* The copy's panes are in its sessions, and where the server has the pane too, in
\* the same one.
CopyKnown == \A n \in Node : nodes[n] # Nowhere => nodes[n].s \in sessions
SameSession == \A n \in Node : nodes[n] # Nowhere /\ pane[n] # Nowhere => nodes[n].s = pane[n].s

\* What p and q show of session s is the same.
SameFor(p, q, s) == \A n \in Node : Shows(p, n, s) \/ Shows(q, n, s) => p[n] = q[n]

Agrees(s) == (s \in sessions <=> s \in live) /\ SameFor(nodes, pane, s)
Told(s) == s \in unheard \/ \E e \in Events : e.about = {s}
Reading(s) == \E i \in DOMAIN todo : todo[i] \in {Fetch("session", s), Fetch("sessions", 0)}
WillAgree == Following => \A s \in Session : Agrees(s) \/ Told(s) \/ Reading(s)

ServerInv == QuietBefore /\ PanesLive /\ Unused /\ ClosedIsGone
CopyInv == CopyTypes /\ ServerInv /\ CopyKnown /\ SameSession /\ WillAgree

-----------------------------------------------------------------------------
(* Sequences of events *)

IsOrder(s, S) ==
    /\ s \in [1..Cardinality(S) -> S]
    /\ \A i, j \in 1..Cardinality(S) : i < j => s[i] < s[j]

\* A finite set of numbers can be put into ascending order: its least member comes
\* first.
LEMMA OrderExists ==
    ASSUME NEW S \in SUBSET Nat, IsFiniteSet(S)
    PROVE  \E s : IsOrder(s, S)
<1> DEFINE Bad == {n \in Nat : \E T \in SUBSET Nat : /\ IsFiniteSet(T) /\ Cardinality(T) = n
                                                     /\ ~ \E s : IsOrder(s, T)}
<1> SUFFICES ASSUME Bad # {} PROVE FALSE
  <2>1. Cardinality(S) \in Nat
    BY FS_CardinalityType
  <2>. QED BY <2>1
<1>1. PICK n \in Bad : \A m \in Bad : n <= m
  <2>1. Bad \in SUBSET Nat
    OBVIOUS
  <2> HIDE DEF Bad
  <2>. QED BY <2>1, NatMin
<1>2. PICK T \in SUBSET Nat : IsFiniteSet(T) /\ Cardinality(T) = n /\ ~ \E s : IsOrder(s, T)
  BY <1>1
<1>3. T # {}
  <2> SUFFICES ASSUME T = {} PROVE FALSE
    OBVIOUS
  <2>1. Cardinality(T) = 0
    BY FS_EmptySet
  <2>2. IsOrder(<<>>, T)
    BY <2>1 DEF IsOrder
  <2>. QED BY <1>2, <2>2
<1>4. PICK x \in T : \A y \in T : x <= y
  BY <1>3, NatMin
<1> DEFINE U == T \ {x}
<1>5. IsFiniteSet(U) /\ Cardinality(U) = n - 1 /\ n \in Nat /\ n - 1 \in Nat
  <2>1. IsFiniteSet(U) /\ Cardinality(U) = n - 1 /\ n \in Nat
    BY <1>1, <1>2, FS_RemoveElement
  <2>2. Cardinality(U) \in Nat
    BY <2>1, FS_CardinalityType
  <2>. QED BY <2>1, <2>2
<1>6. PICK g : IsOrder(g, U)
  <2>1. n - 1 \notin Bad
    BY <1>1, <1>5
  <2>. QED BY <1>5, <2>1
<1> DEFINE f == [i \in 1..n |-> IF i = 1 THEN x ELSE g[i - 1]]
<1>7. \A i \in 1..(n - 1) : g[i] \in T /\ x < g[i]
  <2>1. \A i \in 1..(n - 1) : g[i] \in U
    BY <1>5, <1>6 DEF IsOrder
  <2>2. \A y \in U : y \in T /\ x < y
    BY <1>4
  <2> HIDE DEF U
  <2>. QED BY <2>1, <2>2
<1>8. f \in [1..n -> T]
  BY <1>4, <1>5, <1>7
<1>9. ASSUME NEW i \in 1..n, NEW j \in 1..n, i < j PROVE f[i] < f[j]
  <2>1. j # 1 /\ f[j] = g[j - 1] /\ j - 1 \in 1..(n - 1)
    BY <1>9
  <2>2. CASE i = 1
    BY <1>7, <2>1, <2>2
  <2>3. CASE i # 1
    <3>1. f[i] = g[i - 1] /\ i - 1 \in 1..(n - 1) /\ i - 1 < j - 1
      BY <1>9, <2>3
    <3>. QED BY <1>5, <1>6, <2>1, <3>1 DEF IsOrder
  <2>. QED BY <2>2, <2>3
<1>10. IsOrder(f, T)
  <2> HIDE DEF f
  <2>. QED BY <1>2, <1>8, <1>9 DEF IsOrder
<1>. QED BY <1>2, <1>10

\* InOrder lists every member.
LEMMA InOrderLists ==
    ASSUME NEW S \in SUBSET Nat, IsFiniteSet(S)
    PROVE  InOrder(S) \in Seq(S) /\ \A x \in S : \E i \in DOMAIN InOrder(S) : InOrder(S)[i] = x
<1> DEFINE n == Cardinality(S)
           f == InOrder(S)
<1>1. n \in Nat /\ IsFiniteSet(1..n) /\ Cardinality(1..n) = n
  <2>1. n \in Nat
    BY FS_CardinalityType
  <2> HIDE DEF n
  <2>2. IsFiniteSet(1..n) /\ Cardinality(1..n) = IF 1 > n THEN 0 ELSE n - 1 + 1
    BY <2>1, FS_Interval
  <2>. QED BY <2>1, <2>2
<1>2. IsOrder(f, S)
  <2>1. PICK s : IsOrder(s, S)
    BY OrderExists
  <2>2. s \in [1..n -> S] /\ \A i, j \in 1..n : i < j => s[i] < s[j]
    BY <2>1 DEF IsOrder
  <2>3. f = CHOOSE order \in [1..n -> S] : \A i, j \in 1..n : i < j => order[i] < order[j]
    BY DEF InOrder
  <2>4. f \in [1..n -> S] /\ \A i, j \in 1..n : i < j => f[i] < f[j]
    <3> HIDE DEF f, n
    <3>. QED BY <2>2, <2>3
  <2>. QED BY <2>4 DEF IsOrder
<1>3. f \in [1..n -> S] /\ \A i, j \in 1..n : i < j => f[i] < f[j]
  BY <1>2 DEF IsOrder
<1> HIDE DEF f, n
<1>4. \A i, j \in 1..n : f[i] = f[j] => i = j
  <2> SUFFICES ASSUME NEW i \in 1..n, NEW j \in 1..n, f[i] = f[j], i # j PROVE FALSE
    OBVIOUS
  <2>1. f[i] \in Nat /\ f[j] \in Nat
    BY <1>3
  <2>2. i < j \/ j < i
    BY <1>1
  <2>3. f[i] < f[j] \/ f[j] < f[i]
    BY <1>3, <2>2
  <2>. QED BY <2>1, <2>3
<1>5. f \in Injection(1..n, S)
  BY <1>3, <1>4 DEF Injection, IsInjective
<1>6. f \in Surjection(1..n, S)
  BY <1>1, <1>5, FS_Injection DEF n
<1>7. \A x \in S : \E i \in 1..n : f[i] = x
  BY <1>6 DEF Surjection
<1>8. f \in Seq(S) /\ DOMAIN f = 1..n
  BY <1>1, <1>3
<1>. QED BY <1>7, <1>8 DEF f

\* The elements of sequences put together, cut and extended.
LEMMA ToSetConcat ==
    ASSUME NEW S, NEW s \in Seq(S), NEW t \in Seq(S)
    PROVE  s \o t \in Seq(S) /\ ToSet(s \o t) = ToSet(s) \cup ToSet(t)
<1>0. /\ s \o t \in Seq(S) /\ DOMAIN s = 1 .. Len(s) /\ DOMAIN t = 1 .. Len(t)
      /\ Len(s) \in Nat /\ Len(t) \in Nat
      /\ DOMAIN (s \o t) = 1 .. (Len(s) + Len(t))
  OBVIOUS
<1>1. \A i \in 1 .. (Len(s) + Len(t)) :
         (s \o t)[i] = IF i <= Len(s) THEN s[i] ELSE t[i - Len(s)]
  OBVIOUS
<1>2. ASSUME NEW i \in DOMAIN (s \o t) PROVE (s \o t)[i] \in ToSet(s) \cup ToSet(t)
  <2>1. CASE i <= Len(s)
    BY <1>0, <1>1, <2>1 DEF ToSet
  <2>2. CASE ~(i <= Len(s))
    <3>1. i - Len(s) \in DOMAIN t /\ (s \o t)[i] = t[i - Len(s)]
      BY <1>0, <1>1, <2>2
    <3>. QED BY <3>1 DEF ToSet
  <2>. QED BY <2>1, <2>2
<1>3. ASSUME NEW i \in DOMAIN s PROVE s[i] \in ToSet(s \o t)
  <2>1. i \in DOMAIN (s \o t) /\ (s \o t)[i] = s[i]
    BY <1>0, <1>1
  <2>. QED BY <2>1 DEF ToSet
<1>4. ASSUME NEW i \in DOMAIN t PROVE t[i] \in ToSet(s \o t)
  <2>1. PICK k \in 1 .. (Len(s) + Len(t)) : k = Len(s) + i
    BY <1>0
  <2>2. ~(k <= Len(s)) /\ k - Len(s) = i
    BY <1>0, <2>1
  <2>3. k \in DOMAIN (s \o t) /\ (s \o t)[k] = t[i]
    BY <1>0, <1>1, <2>2
  <2>. QED BY <2>3 DEF ToSet
<1>. QED BY <1>0, <1>2, <1>3, <1>4 DEF ToSet

\* The elements of short sequences.
LEMMA ToSetSmall ==
    /\ ToSet(<<>>) = {}
    /\ \A x : ToSet(<<x>>) = {x}
    /\ \A x, y : ToSet(<<x, y>>) = {x, y}
BY DEF ToSet

\* Taking the first element off a sequence leaves the others.
LEMMA ToSetTail ==
    ASSUME NEW S, NEW s \in Seq(S), s # <<>>
    PROVE  /\ Head(s) \in S /\ Tail(s) \in Seq(S)
           /\ ToSet(s) = {Head(s)} \cup ToSet(Tail(s))
<1>0. /\ Head(s) \in S /\ Tail(s) \in Seq(S) /\ Len(s) \in Nat /\ Len(s) >= 1
      /\ DOMAIN s = 1 .. Len(s) /\ DOMAIN Tail(s) = 1 .. (Len(s) - 1)
      /\ Head(s) = s[1]
      /\ \A i \in 1 .. (Len(s) - 1) : Tail(s)[i] = s[i + 1]
  OBVIOUS
<1>1. ASSUME NEW i \in DOMAIN s PROVE s[i] = Head(s) \/ \E j \in DOMAIN Tail(s) : s[i] = Tail(s)[j]
  <2>1. CASE i = 1
    BY <1>0, <2>1
  <2>2. CASE i # 1
    <3>1. i - 1 \in 1 .. (Len(s) - 1) /\ (i - 1) + 1 = i
      BY <1>0, <2>2
    <3>2. Tail(s)[i - 1] = s[i]
      BY <1>0, <3>1
    <3>. QED BY <1>0, <3>1, <3>2
  <2>. QED BY <2>1, <2>2
<1>2. ASSUME NEW j \in DOMAIN Tail(s) PROVE \E i \in DOMAIN s : Tail(s)[j] = s[i]
  <2>1. j + 1 \in DOMAIN s /\ Tail(s)[j] = s[j + 1]
    BY <1>0
  <2>. QED BY <2>1
<1>3. 1 \in DOMAIN s
  BY <1>0
<1>4. ToSet(s) \subseteq {Head(s)} \cup ToSet(Tail(s))
  BY <1>1 DEF ToSet
<1>5. Head(s) \in ToSet(s) /\ ToSet(Tail(s)) \subseteq ToSet(s)
  <2>1. Head(s) \in ToSet(s)
    BY <1>0, <1>3 DEF ToSet
  <2>2. ToSet(Tail(s)) \subseteq ToSet(s)
    BY <1>2 DEF ToSet
  <2>. QED BY <2>1, <2>2
<1>. QED BY <1>0, <1>4, <1>5

\* Appending adds one element.
LEMMA ToSetAppend ==
    ASSUME NEW S, NEW s \in Seq(S), NEW x \in S
    PROVE  Append(s, x) \in Seq(S) /\ ToSet(Append(s, x)) = ToSet(s) \cup {x}
<1>1. Append(s, x) \in Seq(S) /\ DOMAIN s = 1 .. Len(s) /\ Len(s) \in Nat
      /\ DOMAIN Append(s, x) = 1 .. (Len(s) + 1)
      /\ (\A i \in 1 .. Len(s) : Append(s, x)[i] = s[i]) /\ Append(s, x)[Len(s) + 1] = x
  OBVIOUS
<1>2. \A i \in 1 .. (Len(s) + 1) : i \in 1 .. Len(s) \/ i = Len(s) + 1
  BY <1>1
<1>3. (1 .. Len(s)) \subseteq 1 .. (Len(s) + 1) /\ Len(s) + 1 \in 1 .. (Len(s) + 1)
  BY <1>1
<1>. QED BY <1>1, <1>2, <1>3 DEF ToSet

\* An event about a session says so; a list of them has one for each.
LEMMA EventTypes ==
    /\ \A kind \in AboutKind, s \in Session :
          /\ Event(kind, s) \in EventSet /\ Event(kind, s).about = {s}
          /\ Event(kind, s).kind = kind /\ Event(kind, s).id = s
    /\ \A kind \in {"detached", "invalidated"}, b \in Buffer :
          Event(kind, b) \in EventSet /\ Event(kind, b).about = {} /\ Event(kind, b).kind = kind
BY DEF Event, EventSet, EventType, WellFormed, AboutKind

\* Say has one event for each session, whatever order it lists them in.
LEMMA SayTypes ==
    ASSUME NEW kind \in AboutKind, NEW S \in SUBSET Session
    PROVE  /\ Say(kind, S) \in Seq(EventSet)
           /\ ToSet(Say(kind, S)) = {Event(kind, s) : s \in S}
<1> DEFINE order == InOrder(S)
<1>0. S \in SUBSET Nat /\ IsFiniteSet(S)
  BY CopyConstants, FS_Subset
<1>1. order \in Seq(S) /\ \A x \in S : \E i \in DOMAIN order : order[i] = x
  BY <1>0, InOrderLists
<1>2. Say(kind, S) = [i \in DOMAIN order |-> Event(kind, order[i])]
  BY DEF Say
<1> HIDE DEF order
<1>3. DOMAIN order = 1 .. Len(order) /\ Len(order) \in Nat /\ \A i \in DOMAIN order : order[i] \in S
  BY <1>1
<1>4. \A i \in DOMAIN order : Event(kind, order[i]) \in EventSet
  BY <1>3, EventTypes
<1>5. [i \in DOMAIN order |-> Event(kind, order[i])] \in Seq(EventSet)
  BY <1>3, <1>4
<1>6. ToSet(Say(kind, S)) = {Event(kind, order[i]) : i \in DOMAIN order}
  BY <1>2 DEF ToSet
<1>7. {Event(kind, order[i]) : i \in DOMAIN order} = {Event(kind, s) : s \in S}
  BY <1>1, <1>3
<1>. QED BY <1>2, <1>5, <1>6, <1>7

\* Sessions has one read for each session.
LEMMA SessionsTypes ==
    ASSUME NEW S \in SUBSET Session
    PROVE  Sessions(S) \in Seq(FetchSet) /\ ToSet(Sessions(S)) = {Fetch("session", s) : s \in S}
<1> DEFINE order == InOrder(S)
<1>0. S \in SUBSET Nat /\ IsFiniteSet(S)
  BY CopyConstants, FS_Subset
<1>1. order \in Seq(S) /\ \A x \in S : \E i \in DOMAIN order : order[i] = x
  BY <1>0, InOrderLists
<1>2. Sessions(S) = [i \in DOMAIN order |-> Fetch("session", order[i])]
  BY DEF Sessions
<1> HIDE DEF order
<1>3. DOMAIN order = 1 .. Len(order) /\ Len(order) \in Nat /\ \A i \in DOMAIN order : order[i] \in S
  BY <1>1
<1>4. \A i \in DOMAIN order : Fetch("session", order[i]) \in FetchSet
  BY <1>3 DEF Fetch, FetchSet
<1>5. [i \in DOMAIN order |-> Fetch("session", order[i])] \in Seq(FetchSet)
  BY <1>3, <1>4
<1>6. ToSet(Sessions(S)) = {Fetch("session", order[i]) : i \in DOMAIN order}
  BY <1>2 DEF ToSet
<1>7. {Fetch("session", order[i]) : i \in DOMAIN order} = {Fetch("session", s) : s \in S}
  BY <1>1, <1>3
<1>. QED BY <1>2, <1>5, <1>6, <1>7

\* The events at the chosen places, and no others.
LEMMA OnlyKeeps ==
    ASSUME NEW es \in Seq(EventSet), NEW kept \in SUBSET (DOMAIN es)
    PROVE  Only(es, kept) \in Seq(EventSet) /\ ToSet(Only(es, kept)) = {es[i] : i \in kept}
<1> DEFINE order == InOrder(kept)
<1>0. /\ DOMAIN es = 1 .. Len(es) /\ Len(es) \in Nat /\ \A i \in DOMAIN es : es[i] \in EventSet
  OBVIOUS
<1>1. kept \in SUBSET Nat /\ IsFiniteSet(kept)
  <2>1. IsFiniteSet(1 .. Len(es)) /\ kept \in SUBSET (1 .. Len(es))
    BY <1>0, FS_Interval
  <2>2. IsFiniteSet(kept)
    BY <2>1, FS_Subset
  <2>. QED BY <1>0, <2>1, <2>2
<1>2. Only(es, kept) = [k \in DOMAIN order |-> es[order[k]]]
  BY DEF Only
<1>4. order \in Seq(kept) /\ \A x \in kept : \E i \in DOMAIN order : order[i] = x
  BY <1>1, InOrderLists
<1> HIDE DEF order
<1>5. DOMAIN order = 1 .. Len(order) /\ Len(order) \in Nat /\ \A i \in DOMAIN order : order[i] \in kept
  BY <1>4
<1>6. \A i \in DOMAIN order : es[order[i]] \in EventSet /\ order[i] \in kept
  BY <1>0, <1>5
<1>7. [k \in DOMAIN order |-> es[order[k]]] \in Seq(EventSet)
  BY <1>5, <1>6
<1>8. ToSet(Only(es, kept)) = {es[order[k]] : k \in DOMAIN order}
  BY <1>2 DEF ToSet
<1>9. {es[order[k]] : k \in DOMAIN order} = {es[i] : i \in kept}
  BY <1>4, <1>6
<1>. QED BY <1>2, <1>7, <1>8, <1>9

\* Taking only the last of equal screen events together loses no other event.
LEMMA CoalescedKeeps ==
    ASSUME NEW es \in Seq(EventSet)
    PROVE  /\ Coalesced(es) \in Seq(EventSet) /\ ToSet(Coalesced(es)) \subseteq ToSet(es)
           /\ \A e \in ToSet(es) : e.kind # "invalidated" => e \in ToSet(Coalesced(es))
<1> DEFINE kept == {i \in DOMAIN es : es[i].kind = "invalidated" =>
                                        \A j \in DOMAIN es : j > i => es[j] # es[i]}
<1>1. Coalesced(es) = Only(es, kept)
  BY DEF Coalesced
<1>2. kept \in SUBSET (DOMAIN es) /\ \A i \in DOMAIN es : es[i].kind # "invalidated" => i \in kept
  OBVIOUS
<1> HIDE DEF kept
<1>3. Only(es, kept) \in Seq(EventSet) /\ ToSet(Only(es, kept)) = {es[i] : i \in kept}
  BY <1>2, OnlyKeeps
<1>. QED BY <1>1, <1>2, <1>3 DEF ToSet

\* What is told of sessions that are gone leaves out how they changed.
LEMMA WithoutChangesKeeps ==
    ASSUME NEW es \in Seq(EventSet), NEW gone
    PROVE  /\ WithoutChanges(es, gone) \in Seq(EventSet)
           /\ ToSet(WithoutChanges(es, gone)) \subseteq ToSet(es)
           /\ \A e \in ToSet(es) : \/ e \in ToSet(WithoutChanges(es, gone))
                                   \/ e.kind = "changed" /\ e.id \in gone
<1> DEFINE kept == {i \in DOMAIN es : es[i].kind = "changed" => es[i].id \notin gone}
<1>1. WithoutChanges(es, gone) = Only(es, kept)
  BY DEF WithoutChanges
<1>2. /\ kept \in SUBSET (DOMAIN es)
      /\ \A i \in DOMAIN es : i \in kept \/ (es[i].kind = "changed" /\ es[i].id \in gone)
  OBVIOUS
<1> HIDE DEF kept
<1>3. Only(es, kept) \in Seq(EventSet) /\ ToSet(Only(es, kept)) = {es[i] : i \in kept}
  BY <1>2, OnlyKeeps
<1>. QED BY <1>1, <1>2, <1>3 DEF ToSet

\* What a subscriber wants of a batch is some of it, and all of it for a client
\* that follows every session.
LEMMA WantedOfBatch ==
    ASSUME NEW S, NEW i, NEW es \in Seq(S)
    PROVE  Wanted(i, es) \in Seq(S) /\ (i = All => Wanted(i, es) = es)
<1> DEFINE K == {k \in 1 .. Len(es) : Wants(i, es[k])}
           F(g) == g = [k \in 0 .. Len(es) |->
                          IF k = 0 THEN <<>>
                          ELSE IF Wants(i, es[k]) THEN Append(g[k - 1], es[k])
                          ELSE g[k - 1]]
           kept == CHOOSE g : F(g)
<1>0. Len(es) \in Nat
  OBVIOUS
<1>1. ASSUME NEW g PROVE F(g) <=> IsFilter(g, es, K, Len(es))
  <2>1. \A k \in 0 .. Len(es) :
           (IF k = 0 THEN <<>> ELSE IF Wants(i, es[k]) THEN Append(g[k - 1], es[k])
                               ELSE g[k - 1])
         = (IF k = 0 THEN <<>> ELSE IF k \in K THEN Append(g[k - 1], es[k]) ELSE g[k - 1])
    OBVIOUS
  <2>. QED BY <2>1 DEF IsFilter
<1>2. PICK g : IsFilter(g, es, K, Len(es))
  BY <1>0, FilterExists
<1>3. F(kept)
  <2>1. F(g)
    BY <1>1, <1>2
  <2> HIDE DEF F
  <2>. QED BY <2>1
<1>4. IsFilter(kept, es, K, Len(es))
  BY <1>1, <1>3
<1>5. Wanted(i, es) = kept[Len(es)]
  BY DEF Wanted
<1>6. i = All => 1 .. Len(es) \subseteq K
  BY CopyConstants DEF Wants
<1> HIDE DEF kept, F, K
<1>7. kept[Len(es)] \in Seq(S)
  BY <1>0, <1>4, FilterType
<1>8. i = All => kept[Len(es)] = es
  BY <1>4, <1>6, FilterAll
<1>. QED BY <1>5, <1>7, <1>8

\* A broadcast adds events of the batch to the client's feed, all of them if it
\* still follows every session afterwards.
LEMMA BroadcastFeeds ==
    ASSUME CopyTypes, NEW es \in Seq(EventSet), NEW retired, Broadcast(es, retired)
    PROVE  /\ feed' \in [Conn -> Seq(EventSet)] /\ interest' \in [Conn -> {All, None}]
           /\ ToSet(feed[Me]) \subseteq ToSet(feed'[Me])
           /\ ToSet(feed'[Me]) \subseteq ToSet(feed[Me]) \cup ToSet(es)
           /\ interest'[Me] = All => interest[Me] = All /\ ToSet(es) \subseteq ToSet(feed'[Me])
<1> DEFINE w(c) == Wanted(interest[c], es)
<1>0. Me \in Conn /\ All # None /\ feed \in [Conn -> Seq(EventSet)] /\ interest \in [Conn -> {All, None}]
  BY CopyConstants DEF CopyTypes
<1>1. PICK n \in [Conn -> 0 .. Len(es)] :
        /\ \A c \in Conn : n[c] <= Len(w(c))
        /\ feed' = [c \in Conn |-> feed[c] \o SubSeq(w(c), 1, n[c])]
        /\ interest' = [c \in Conn |-> IF n[c] = Len(w(c)) /\ interest[c] \notin retired
                                       THEN interest[c] ELSE None]
  BY DEF Broadcast
<1>2. ASSUME NEW c \in Conn
      PROVE  /\ w(c) \in Seq(EventSet) /\ w(c) \in Seq(ToSet(es))
             /\ interest[c] = All => w(c) = es
  <2>1. es \in Seq(ToSet(es))
    BY DEF ToSet
  <2>. QED BY <2>1, WantedOfBatch
<1> HIDE DEF w
<1>3. ASSUME NEW c \in Conn
      PROVE  /\ SubSeq(w(c), 1, n[c]) \in Seq(EventSet)
             /\ SubSeq(w(c), 1, n[c]) \in Seq(ToSet(es))
             /\ n[c] = Len(w(c)) => SubSeq(w(c), 1, n[c]) = w(c)
  <2> DEFINE v == w(c)
             k == n[c]
  <2>1. v \in Seq(EventSet) /\ v \in Seq(ToSet(es)) /\ k \in Nat /\ k <= Len(v)
    BY <1>1, <1>2
  <2> HIDE DEF v, k
  <2>2. SubSeq(v, 1, k) \in Seq(EventSet)
    BY <2>1
  <2>3. SubSeq(v, 1, k) \in Seq(ToSet(es))
    BY <2>1
  <2>4. k = Len(v) => SubSeq(v, 1, k) = v
    BY <2>1
  <2>. QED BY <2>2, <2>3, <2>4 DEF v, k
<1>4. feed' \in [Conn -> Seq(EventSet)]
  <2>1. \A c \in Conn : feed[c] \o SubSeq(w(c), 1, n[c]) \in Seq(EventSet)
    BY <1>0, <1>3, ToSetConcat
  <2>. QED BY <1>1, <2>1
<1>5. interest' \in [Conn -> {All, None}] /\ (interest'[Me] = All => interest[Me] = All /\ n[Me] = Len(w(Me)))
  BY <1>0, <1>1
<1> DEFINE x == SubSeq(w(Me), 1, n[Me])
<1>6. x \in Seq(EventSet) /\ x \in Seq(ToSet(es)) /\ feed'[Me] = feed[Me] \o x
      /\ (n[Me] = Len(w(Me)) => x = w(Me))
  BY <1>0, <1>1, <1>3
<1> HIDE DEF x
<1>7. ToSet(feed'[Me]) = ToSet(feed[Me]) \cup ToSet(x)
  BY <1>0, <1>6, ToSetConcat
<1>8. ToSet(x) \subseteq ToSet(es)
  <2>1. \A i \in DOMAIN x : x[i] \in ToSet(es)
    BY <1>6
  <2>. QED BY <2>1 DEF ToSet
<1>9. interest'[Me] = All => x = es
  BY <1>0, <1>2, <1>5, <1>6
<1>. QED BY <1>4, <1>5, <1>7, <1>8, <1>9

-----------------------------------------------------------------------------
(* The server *)

\* Of session s nothing changed.
Same(s) == (s \in live <=> s \in live') /\ SameFor(pane, pane', s)

\* A step of task t of the server, which leaves what the client has alone, and
\* still has an event about whatever it had one about.
TaskMoves(t, new) ==
    /\ task' = [task EXCEPT ![t] = new] /\ new \in TaskType /\ Calm(new)
    /\ UNCHANGED <<sessions, nodes, phase, batch, taking, todo, unheard, feed, interest>>
    /\ \A e \in ToSet(task[t].events) : \E d \in ToSet(new.events) : d.about = e.about

\* What a change by task t may do: session numbers go up, a new closed event is
\* about a session that is gone, and a session that changed has an event about it.
Announced(t, new) ==
    /\ nextSession <= nextSession' /\ \A s \in live' : s \in live \/ s >= nextSession
    /\ \A e \in ToSet(new.events) :
          e \in ToSet(task[t].events) \/ (e.kind = "closed" => e.id \notin live' /\ e.id < nextSession')
    /\ \A s \in Session : Same(s) \/ \E e \in ToSet(new.events) : e.about = {s}

\* Where the server has the panes after a change.
Placed ==
    /\ live' \subseteq Session /\ pane' \in [Node -> Pane \cup {Nowhere}]
    /\ nextNode' \in Nat /\ nextSession' \in Nat
    /\ PanesLive' /\ Unused' /\ SameSession'

\* A task's events are among those on their way, and only its own change in a step
\* of the task.
LEMMA TaskEvents ==
    ASSUME CopyTypes, NEW t \in Tasks, NEW new, TaskMoves(t, new)
    PROVE  /\ \A e \in Events : \E d \in Events' : d.about = e.about
           /\ ToSet(new.events) \subseteq Events'
           /\ Events' \subseteq Events \cup ToSet(new.events)
           /\ task' \in [Tasks -> TaskType] /\ task'[t] = new
           /\ \A u \in Tasks : u # t => task'[u] = task[u]
<1>1. /\ task \in [Tasks -> TaskType] /\ new \in TaskType /\ task' = [task EXCEPT ![t] = new]
      /\ feed' = feed /\ batch' = batch
      /\ \A e \in ToSet(task[t].events) : \E d \in ToSet(new.events) : d.about = e.about
  BY DEF CopyTypes, TaskMoves
<1>2. /\ task' \in [Tasks -> TaskType] /\ task'[t] = new
      /\ \A u \in Tasks : u # t => task'[u] = task[u]
  BY <1>1
<1> DEFINE Mine == UNION {ToSet(task[u].events) : u \in Tasks}
           Then == UNION {ToSet(task'[u].events) : u \in Tasks}
<1>3. Events = ToSet(feed[Me]) \cup ToSet(batch) \cup Mine
      /\ Events' = ToSet(feed[Me]) \cup ToSet(batch) \cup Then
  BY <1>1 DEF Events
<1>4. ASSUME NEW e \in Mine PROVE \E d \in Then : d.about = e.about
  <2>1. PICK u \in Tasks : e \in ToSet(task[u].events)
    OBVIOUS
  <2>2. \E d \in ToSet(task'[u].events) : d.about = e.about
    BY <1>1, <1>2, <2>1
  <2>. QED BY <2>2
<1>5. ASSUME NEW e \in Then PROVE e \in Mine \/ e \in ToSet(new.events)
  <2>1. PICK u \in Tasks : e \in ToSet(task'[u].events)
    OBVIOUS
  <2>. QED BY <1>2, <2>1
<1>6. ToSet(new.events) \subseteq Then
  BY <1>2
<1> HIDE DEF Mine, Then
<1>. QED BY <1>2, <1>3, <1>4, <1>5, <1>6

\* A session that agreed and did not change still agrees.
LEMMA AgreesStill ==
    ASSUME UNCHANGED <<sessions, nodes>>, NEW s, Same(s), Agrees(s)
    PROVE  Agrees(s)'
<1>1. ASSUME NEW n \in Node, Shows(nodes, n, s) \/ Shows(pane', n, s) PROVE nodes[n] = pane'[n]
  <2>1. CASE Shows(nodes, n, s)
    <3>1. nodes[n] = pane[n]
      BY <2>1 DEF Agrees, SameFor
    <3>2. Shows(pane, n, s)
      BY <2>1, <3>1 DEF Shows
    <3>. QED BY <3>1, <3>2 DEF Same, SameFor
  <2>2. CASE Shows(pane', n, s)
    <3>1. pane[n] = pane'[n]
      BY <2>2 DEF Same, SameFor
    <3>2. Shows(pane, n, s)
      BY <2>2, <3>1 DEF Shows
    <3>. QED BY <3>1, <3>2 DEF Agrees, SameFor
  <2>. QED BY <1>1, <2>1, <2>2
<1>2. SameFor(nodes, pane, s)'
  BY <1>1 DEF SameFor, Shows
<1>. QED BY <1>2 DEF Agrees, Same

\* Whatever a task changes, it has an event about it.
LEMMA ServerStep ==
    ASSUME CopyInv, NEW t \in Tasks, NEW new, TaskMoves(t, new), Announced(t, new), Placed
    PROVE  CopyInv'
<1>0. CopyTypes /\ ServerInv /\ CopyKnown /\ SameSession /\ WillAgree
  BY DEF CopyInv
<1>1. /\ \A e \in Events : \E d \in Events' : d.about = e.about
      /\ ToSet(new.events) \subseteq Events'
      /\ Events' \subseteq Events \cup ToSet(new.events)
      /\ task' \in [Tasks -> TaskType] /\ task'[t] = new
      /\ \A u \in Tasks : u # t => task'[u] = task[u]
  BY <1>0, TaskEvents
<1>2. UNCHANGED <<sessions, nodes, phase, batch, taking, todo, unheard, feed, interest>> /\ Calm(new)
  BY DEF TaskMoves
<1>3. CopyTypes'
  BY <1>0, <1>1, <1>2 DEF CopyTypes, Placed
<1>4. QuietBefore'
  BY <1>0, <1>1, <1>2 DEF ServerInv, QuietBefore
<1>5. ClosedIsGone'
  <2>1. /\ \A s \in live' : s \in live \/ s >= nextSession
        /\ nextSession \in Nat /\ nextSession' \in Nat /\ nextSession <= nextSession'
    BY <1>0, <1>3 DEF Announced, CopyTypes
  <2>2. ASSUME NEW e \in Events, e.kind = "closed" PROVE e.id \notin live' /\ e.id < nextSession'
    <3>1. e.id \notin live /\ e.id < nextSession /\ e.id \in Nat
      <4>1. e \in EventSet
        <5>1. e \in ToSet(feed[Me]) \/ e \in ToSet(batch) \/ \E u \in Tasks : e \in ToSet(task[u].events)
          BY DEF Events
        <5>2. feed[Me] \in Seq(EventSet) /\ batch \in Seq(EventSet)
              /\ \A u \in Tasks : task[u].events \in Seq(EventSet)
          BY <1>0, CopyConstants DEF CopyTypes, TaskType
        <5>. QED BY <5>1, <5>2 DEF ToSet
      <4>2. e.id \in Session
        BY <2>2, <4>1 DEF EventSet, EventType
      <4>. QED BY <1>0, <2>2, <4>2, CopyConstants DEF ServerInv, ClosedIsGone
    <3>. QED BY <2>1, <3>1
  <2>3. ASSUME NEW e \in ToSet(new.events), e.kind = "closed"
        PROVE  e.id \notin live' /\ e.id < nextSession'
    <3>1. CASE e \in ToSet(task[t].events)
      <4>1. e \in Events
        BY <3>1 DEF Events
      <4>. QED BY <2>2, <2>3, <4>1
    <3>2. CASE e \notin ToSet(task[t].events)
      BY <2>3, <3>2 DEF Announced
    <3>. QED BY <3>1, <3>2
  <2>. QED BY <1>1, <2>2, <2>3 DEF ClosedIsGone
<1>6. WillAgree'
  <2> SUFFICES ASSUME Following', NEW s \in Session
               PROVE  Agrees(s)' \/ Told(s)' \/ Reading(s)'
    BY DEF WillAgree
  <2>1. Following
    BY <1>2 DEF Following
  <2>2. CASE \E e \in ToSet(new.events) : e.about = {s}
    BY <1>1, <2>2 DEF Told
  <2>3. CASE Told(s)
    BY <1>1, <1>2, <2>3 DEF Told
  <2>4. CASE Reading(s)
    BY <1>2, <2>4 DEF Reading
  <2>5. CASE Agrees(s) /\ Same(s)
    BY <1>2, <2>5, AgreesStill
  <2>. QED BY <1>0, <2>1, <2>2, <2>3, <2>4, <2>5 DEF WillAgree, Announced
<1>7. CopyKnown'
  BY <1>0, <1>2 DEF CopyKnown
<1>. QED BY <1>3, <1>4, <1>5, <1>6, <1>7 DEF CopyInv, ServerInv, Placed

\* Panes that close leave the others where they are, and the sessions without one
\* of them as they were.
LEMMA PanesClose ==
    ASSUME CopyInv, NEW C \in SUBSET Node,
           pane' = [n \in Node |-> IF n \in C THEN Nowhere ELSE pane[n]],
           live' \subseteq live, \A n \in Node : pane[n] # Nowhere /\ n \notin C => pane[n].s \in live',
           UNCHANGED <<nodes, nextNode, nextSession>>
    PROVE  /\ Placed
           /\ \A s : (s \in live <=> s \in live') /\ (\A n \in C : ~Shows(pane, n, s)) => Same(s)
<1>0. CopyTypes /\ ServerInv /\ SameSession
  BY DEF CopyInv
<1>1. \A n \in Node : pane'[n] = IF n \in C THEN Nowhere ELSE pane[n]
  OBVIOUS
<1>2. pane' \in [Node -> Pane \cup {Nowhere}] /\ live' \subseteq Session
      /\ nextNode' \in Nat /\ nextSession' \in Nat
  BY <1>0 DEF CopyTypes
<1>3. PanesLive' /\ Unused' /\ SameSession'
  BY <1>0, <1>1 DEF ServerInv, PanesLive, Unused, SameSession
<1>4. ASSUME NEW s, s \in live <=> s \in live', \A n \in C : ~Shows(pane, n, s) PROVE Same(s)
  <2>1. \A n \in Node : Shows(pane, n, s) \/ Shows(pane', n, s) => pane[n] = pane'[n]
    BY <1>1, <1>4 DEF Shows
  <2>. QED BY <1>4, <2>1 DEF Same, SameFor
<1>. QED BY <1>2, <1>3, <1>4 DEF Placed

\* What a task starts with.
LEMMA BeginMoves ==
    ASSUME CopyInv, NEW t \in Tasks, NEW step \in TaskStep, NEW had \in SUBSET (Session \cup Buffer),
           NEW events \in Seq(EventSet), Begin(t, step, had, events),
           NEW new, new = [step |-> step, had |-> had, events |-> events], Calm(new)
    PROVE  TaskMoves(t, new) /\ new.events = events /\ ToSet(task[t].events) = {}
<1>1. task[t].events = <<>>
  BY DEF Begin, CopyInv, ServerInv, QuietBefore, Calm
<1>2. new \in TaskType /\ new.events = events
  BY DEF TaskType
<1>3. task' = [task EXCEPT ![t] = new]
  BY DEF Begin
<1>4. UNCHANGED <<sessions, nodes, phase, batch, taking, todo, unheard, feed, interest>>
  BY DEF Begin, copy, client, feedVars
<1>. QED BY <1>1, <1>2, <1>3, <1>4, ToSetSmall DEF TaskMoves

\* A task that begins with the panes and sessions as they are.
LEMMA NothingChanges ==
    ASSUME CopyInv, UNCHANGED <<live, pane, nodes, nextNode, nextSession>>
    PROVE  Placed /\ \A s : Same(s)
<1>1. pane' = [n \in Node |-> IF n \in {} THEN Nowhere ELSE pane[n]]
  BY DEF CopyInv, CopyTypes
<1>2. \A n \in Node : pane[n] # Nowhere => pane[n].s \in live'
  BY DEF CopyInv, ServerInv, PanesLive
<1> DEFINE C == {}
<1>3. C \in SUBSET Node /\ \A n : n \notin C
  OBVIOUS
<1>4. pane' = [n \in Node |-> IF n \in C THEN Nowhere ELSE pane[n]]
  BY <1>1
<1> HIDE DEF C
<1>5. /\ Placed
      /\ \A s : (s \in live <=> s \in live') /\ (\A n \in C : ~Shows(pane, n, s)) => Same(s)
  BY <1>2, <1>3, <1>4, PanesClose
<1>. QED BY <1>3, <1>5

\* A created session has an event about it, and a number that no closed event
\* names.
LEMMA SessionCreateStep ==
    ASSUME CopyInv, NEW t \in Tasks, SessionCreate(t) PROVE CopyInv'
<1> DEFINE s == nextSession
           events == <<Event("created", s)>>
           new == [step |-> "dispose", had |-> {}, events |-> events]
<1>0. CopyTypes /\ ServerInv /\ SameSession /\ nextSession \in Nat
  BY DEF CopyInv, CopyTypes
<1>1. /\ s \in Session /\ Begin(t, "dispose", {}, events) /\ live' = live \cup {s}
      /\ nextSession' = nextSession + 1 /\ UNCHANGED <<pane, nextNode, nodes>>
  BY DEF SessionCreate, Change, Begin, copy
<1>2. /\ Event("created", s) \in EventSet /\ Event("created", s).about = {s}
      /\ Event("created", s).kind = "created"
  BY <1>1, EventTypes DEF AboutKind
<1>3. events \in Seq(EventSet) /\ ToSet(events) = {Event("created", s)}
  BY <1>2, ToSetSmall
<1> DEFINE had == {}
<1>4. TaskMoves(t, new) /\ new.events = events
  <2>1. Calm(new)
    BY DEF Calm
  <2>2. "dispose" \in TaskStep /\ {} \in SUBSET (Session \cup Buffer)
    BY DEF TaskStep
  <2> HIDE DEF events
  <2>. QED BY <1>1, <1>3, <2>1, <2>2, BeginMoves
<1>5. Placed
  <2>1. \A n \in Node : pane[n] # Nowhere => pane[n].s \in live
    BY <1>0 DEF ServerInv, PanesLive
  <2>2. live \subseteq Nat /\ \A x \in live : x < nextSession
    BY <1>0, CopyConstants DEF CopyTypes, ServerInv, Unused
  <2>3. \A x \in live' : x < nextSession'
    BY <1>0, <1>1, <2>2
  <2>. QED BY <1>0, <1>1, <2>1, <2>3 DEF Placed, CopyTypes, PanesLive, Unused, ServerInv, SameSession
<1>6. Announced(t, new)
  <2>1. nextSession <= nextSession' /\ \A x \in live' : x \in live \/ x >= nextSession
    BY <1>0, <1>1
  <2>2. \A e \in ToSet(new.events) : e.kind # "closed"
    BY <1>2, <1>3
  <2>3. \A x \in Session : x = s \/ Same(x)
    BY <1>1 DEF Same, SameFor
  <2>4. \E e \in ToSet(new.events) : e.about = {s}
    BY <1>2, <1>3
  <2> HIDE DEF s, events, new
  <2>. QED BY <2>1, <2>2, <2>3, <2>4 DEF Announced
<1>. QED BY <1>4, <1>5, <1>6, ServerStep

\* A closed session leaves no pane, and is gone from then on.
LEMMA SessionCloseStep ==
    ASSUME CopyInv, NEW t \in Tasks, SessionClose(t) PROVE CopyInv'
<1>0. CopyTypes /\ ServerInv
  BY DEF CopyInv
<1>1. PICK s \in live :
        /\ Begin(t, "dispose", {}, <<Event("closed", s)>>)
        /\ live' = live \ {s}
        /\ pane' = [n \in Node |-> IF Shows(pane, n, s) THEN Nowhere ELSE pane[n]]
        /\ UNCHANGED <<nextNode, nextSession>>
  BY DEF SessionClose, Change, given
<1> DEFINE events == <<Event("closed", s)>>
           new == [step |-> "dispose", had |-> {}, events |-> events]
           C == {n \in Node : Shows(pane, n, s)}
<1>2. /\ s \in Session /\ Event("closed", s) \in EventSet /\ Event("closed", s).about = {s}
      /\ Event("closed", s).kind = "closed" /\ Event("closed", s).id = s
  BY <1>0, EventTypes DEF AboutKind, CopyTypes
<1>3. events \in Seq(EventSet) /\ ToSet(events) = {Event("closed", s)}
  BY <1>2, ToSetSmall
<1>4. TaskMoves(t, new) /\ new.events = events
  <2>1. Calm(new)
    BY DEF Calm
  <2>2. "dispose" \in TaskStep /\ {} \in SUBSET (Session \cup Buffer)
    BY DEF TaskStep
  <2>3. Begin(t, "dispose", {}, events)
    BY <1>1
  <2>4. new = [step |-> "dispose", had |-> {}, events |-> events]
    OBVIOUS
  <2> HIDE DEF events, new
  <2>. QED BY <1>3, <2>1, <2>2, <2>3, <2>4, BeginMoves
<1>5. /\ Placed
      /\ \A x : (x \in live <=> x \in live') /\ (\A n \in C : ~Shows(pane, n, x)) => Same(x)
  <2>1. pane' = [n \in Node |-> IF n \in C THEN Nowhere ELSE pane[n]]
    BY <1>1
  <2>2. \A n \in Node : pane[n] # Nowhere /\ n \notin C => pane[n].s \in live'
    BY <1>0, <1>1 DEF ServerInv, PanesLive, Shows
  <2>3. UNCHANGED <<nodes, nextNode, nextSession>> /\ live' \subseteq live
    BY <1>1 DEF Begin, copy
  <2> HIDE DEF C
  <2>4. C \in SUBSET Node
    BY DEF C
  <2>. QED BY <2>1, <2>2, <2>3, <2>4, PanesClose
<1>6. Announced(t, new)
  <2>1. nextSession <= nextSession' /\ \A x \in live' : x \in live \/ x >= nextSession
    BY <1>0, <1>1 DEF CopyTypes
  <2>2. s \notin live' /\ s < nextSession'
    BY <1>0, <1>1 DEF ServerInv, Unused
  <2>3. \A x \in Session : x = s \/ Same(x)
    BY <1>1, <1>5 DEF Shows
  <2>4. \E e \in ToSet(new.events) : e.about = {s}
    BY <1>2, <1>3
  <2>5. \A e \in ToSet(new.events) : e.id = s
    BY <1>2, <1>3
  <2> HIDE DEF events, new, C
  <2>. QED BY <2>1, <2>2, <2>3, <2>4, <2>5 DEF Announced
<1> HIDE DEF new, C
<1>. QED BY <1>4, <1>5, <1>6, ServerStep

\* Requests that change no session: a buffer is made or its command exits, a pane is
\* about to be closed.
LEMMA SilentStep ==
    ASSUME CopyInv, NEW t \in Tasks, BufferCreate(t) \/ AskToClose(t) \/ Exit(t) PROVE CopyInv'
<1>0. CopyTypes
  BY DEF CopyInv
<1>1. /\ UNCHANGED <<live, pane, nodes, nextNode, nextSession>>
      /\ \E step \in TaskStep, had \in SUBSET (Session \cup Buffer), events \in Seq(EventSet) :
            /\ Begin(t, step, had, events) /\ Calm([step |-> step, had |-> had, events |-> events])
            /\ \A e \in ToSet(events) : e.kind # "closed"
  <2>1. CASE BufferCreate(t)
    <3>1. PICK b \in Buffer : Begin(t, "spawn", {b}, <<>>) /\ UNCHANGED <<live, pane, nextNode, nextSession>>
      BY <2>1 DEF BufferCreate, given
    <3>2. Calm([step |-> "spawn", had |-> {b}, events |-> <<>>])
      BY DEF Calm
    <3>3. "spawn" \in TaskStep /\ {b} \in SUBSET (Session \cup Buffer) /\ <<>> \in Seq(EventSet)
      BY DEF TaskStep
    <3>4. nodes' = nodes
      BY <3>1 DEF Begin, copy
    <3>. QED BY <3>1, <3>2, <3>3, <3>4, ToSetSmall
  <2>2. CASE AskToClose(t)
    <3>1. Begin(t, "asked", SessionsWithPanes, <<>>) /\ UNCHANGED <<live, pane, nextNode, nextSession>>
      BY <2>2 DEF AskToClose, given
    <3>2. Calm([step |-> "asked", had |-> SessionsWithPanes, events |-> <<>>])
      BY DEF Calm
    <3>3. "asked" \in TaskStep /\ SessionsWithPanes \in SUBSET (Session \cup Buffer) /\ <<>> \in Seq(EventSet)
      BY <1>0 DEF TaskStep, SessionsWithPanes, CopyTypes
    <3>4. nodes' = nodes
      BY <3>1 DEF Begin, copy
    <3>. QED BY <3>1, <3>2, <3>3, <3>4, ToSetSmall
  <2>3. CASE Exit(t)
    <3>1. PICK b \in Buffer : /\ Begin(t, "dispose", {}, <<Event("invalidated", b)>>)
                              /\ UNCHANGED <<live, pane, nextNode, nextSession>>
      BY <2>3 DEF Exit, Change, given
    <3>2. Calm([step |-> "dispose", had |-> {}, events |-> <<Event("invalidated", b)>>])
      BY DEF Calm
    <3>3. "dispose" \in TaskStep /\ {} \in SUBSET (Session \cup Buffer)
      BY DEF TaskStep
    <3>4. nodes' = nodes
      BY <3>1 DEF Begin, copy
    <3>5. Event("invalidated", b) \in EventSet /\ Event("invalidated", b).kind = "invalidated"
      BY EventTypes
    <3> DEFINE e == Event("invalidated", b)
    <3> HIDE DEF e
    <3>6. <<e>> \in Seq(EventSet) /\ \A d \in ToSet(<<e>>) : d.kind # "closed"
      BY <3>5, ToSetSmall DEF e
    <3>. QED BY <3>1, <3>2, <3>3, <3>4, <3>6 DEF e
  <2>. QED BY <2>1, <2>2, <2>3
<1>2. PICK step \in TaskStep, had \in SUBSET (Session \cup Buffer), events \in Seq(EventSet) :
        /\ Begin(t, step, had, events) /\ Calm([step |-> step, had |-> had, events |-> events])
        /\ \A e \in ToSet(events) : e.kind # "closed"
  BY <1>1
<1> DEFINE new == [step |-> step, had |-> had, events |-> events]
<1>3. TaskMoves(t, new) /\ new.events = events
  BY <1>2, BeginMoves
<1>4. Placed /\ \A s : Same(s)
  BY <1>1, NothingChanges
<1> HIDE DEF new
<1>5. Announced(t, new)
  BY <1>0, <1>1, <1>2, <1>3, <1>4 DEF Announced, CopyTypes
<1>. QED BY <1>3, <1>4, <1>5, ServerStep

\* An event that one session changed is all a change of that session needs.
LEMMA ChangeAnnounced ==
    ASSUME CopyInv, NEW t \in Tasks, NEW s \in Session, Change(t, {}, <<Event("changed", s)>>),
           UNCHANGED <<live, nextSession>>, \A x \in Session : x = s \/ Same(x), Placed
    PROVE  CopyInv'
<1> DEFINE events == <<Event("changed", s)>>
           new == [step |-> "dispose", had |-> {}, events |-> events]
<1>1. /\ Event("changed", s) \in EventSet /\ Event("changed", s).about = {s}
      /\ Event("changed", s).kind = "changed"
  BY EventTypes DEF AboutKind
<1>2. events \in Seq(EventSet) /\ ToSet(events) = {Event("changed", s)}
  BY <1>1, ToSetSmall
<1>3. TaskMoves(t, new) /\ new.events = events
  <2>1. Calm(new)
    BY DEF Calm
  <2>2. "dispose" \in TaskStep /\ {} \in SUBSET (Session \cup Buffer)
    BY DEF TaskStep
  <2>3. Begin(t, "dispose", {}, events)
    BY DEF Change
  <2>4. new = [step |-> "dispose", had |-> {}, events |-> events]
    OBVIOUS
  <2> HIDE DEF events, new
  <2>. QED BY <1>2, <2>1, <2>2, <2>3, <2>4, BeginMoves
<1>4. \A e \in ToSet(new.events) : e.kind # "closed" /\ e.about = {s}
  BY <1>1, <1>2, <1>3
<1>5. Event("changed", s) \in ToSet(new.events)
  BY <1>2, <1>3
<1> HIDE DEF new, events
<1>6. nextSession \in Nat
  BY DEF CopyInv, CopyTypes
<1>7. Announced(t, new)
  BY <1>4, <1>5, <1>6 DEF Announced
<1>. QED BY <1>3, <1>7, ServerStep

\* A new pane gets a number that neither the server nor the copy has used.
LEMMA AttachStep ==
    ASSUME CopyInv, NEW t \in Tasks, Attach(t) PROVE CopyInv'
<1>0. CopyTypes /\ ServerInv /\ SameSession
  BY DEF CopyInv
<1>1. PICK b \in Buffer, s \in live :
        /\ nextNode \in Node
        /\ Change(t, {}, <<Event("changed", s)>>)
        /\ pane' = [pane EXCEPT ![nextNode] = [s |-> s, b |-> b]]
        /\ nextNode' = nextNode + 1
        /\ UNCHANGED <<live, nextSession>>
  BY DEF Attach
<1> DEFINE p == [s |-> s, b |-> b]
<1>2. s \in Session /\ p \in Pane /\ p.s = s
  BY <1>0 DEF CopyTypes, Pane
<1>3. nodes' = nodes
  BY <1>1 DEF Change, Begin, copy
<1>4. pane' = [pane EXCEPT ![nextNode] = p]
  BY <1>1
<1> HIDE DEF p
<1>5. /\ pane' \in [Node -> Pane \cup {Nowhere}] /\ pane'[nextNode] = p
      /\ \A n \in Node : n # nextNode => pane'[n] = pane[n]
  BY <1>0, <1>1, <1>2, <1>4 DEF CopyTypes
<1>6. pane[nextNode] = Nowhere /\ nodes[nextNode] = Nowhere /\ nextNode \in Nat
  BY <1>0, <1>1 DEF ServerInv, Unused, CopyTypes
<1>7. Placed
  <2>1. PanesLive'
    BY <1>0, <1>1, <1>2, <1>5 DEF ServerInv, PanesLive
  <2>2. SameSession'
    BY <1>0, <1>3, <1>5, <1>6 DEF SameSession
  <2>3. Unused'
    <3>1. ASSUME NEW n \in Node, n >= nextNode + 1 PROVE pane'[n] = Nowhere /\ nodes[n] = Nowhere
      <4>1. n # nextNode /\ n >= nextNode
        BY <1>6, <3>1, CopyConstants
      <4>. QED BY <1>0, <1>5, <4>1 DEF ServerInv, Unused
    <3>. QED BY <1>0, <1>1, <1>3, <3>1 DEF ServerInv, Unused
  <2>. QED BY <1>0, <1>1, <1>5, <1>6, <2>1, <2>2, <2>3 DEF Placed, CopyTypes
<1>8. ASSUME NEW x \in Session, x # s PROVE Same(x)
  <2>1. ~Shows(pane, nextNode, x) /\ ~Shows(pane', nextNode, x)
    BY <1>2, <1>5, <1>6, <1>8 DEF Shows
  <2>. QED BY <1>1, <1>5, <2>1 DEF Same, SameFor
<1>. QED BY <1>1, <1>2, <1>7, <1>8, ChangeAnnounced

\* A buffer moves within its session, which is the one session that changes.
LEMMA NodeMoveBufferStep ==
    ASSUME CopyInv, NEW t \in Tasks, NodeMoveBuffer(t) PROVE CopyInv'
<1>0. CopyTypes /\ ServerInv /\ SameSession
  BY DEF CopyInv
<1>1. PICK n \in Node, b \in Buffer :
        /\ pane[n] # Nowhere
        /\ \A m \in At(b) : pane[m].s = pane[n].s
        /\ Change(t, {}, <<Event("changed", pane[n].s)>>)
        /\ pane' = [m \in Node |-> IF m = n THEN [pane[n] EXCEPT !.b = b]
                                   ELSE IF m \in At(b) THEN Nowhere ELSE pane[m]]
        /\ UNCHANGED <<live, nextNode, nextSession>>
  BY DEF NodeMoveBuffer, given
<1> DEFINE p == [pane[n] EXCEPT !.b = b]
           s == pane[n].s
<1>2. pane[n] \in Pane /\ p \in Pane /\ p.s = s /\ s \in Session /\ s \in live
  BY <1>0, <1>1 DEF CopyTypes, Pane, ServerInv, PanesLive
<1>3. nodes' = nodes
  BY <1>1 DEF Change, Begin, copy
<1>4. \A m \in Node : pane'[m] = IF m = n THEN p ELSE IF m \in At(b) THEN Nowhere ELSE pane[m]
  BY <1>1
<1>5. pane' = [m \in Node |-> IF m = n THEN p ELSE IF m \in At(b) THEN Nowhere ELSE pane[m]]
  BY <1>1
<1>6. /\ Change(t, {}, <<Event("changed", s)>>) /\ \A m \in At(b) : pane[m].s = s
  BY <1>1
<1> HIDE DEF p
<1>7. pane' \in [Node -> Pane \cup {Nowhere}]
  BY <1>0, <1>2, <1>5 DEF CopyTypes
<1>8. Placed
  <2>1. PanesLive'
    BY <1>0, <1>1, <1>2, <1>4 DEF ServerInv, PanesLive
  <2>2. SameSession'
    BY <1>0, <1>1, <1>2, <1>3, <1>4 DEF SameSession
  <2>3. ~(n >= nextNode)
    BY <1>0, <1>1 DEF ServerInv, Unused
  <2>4. Unused'
    BY <1>0, <1>1, <1>3, <1>4, <2>3 DEF ServerInv, Unused
  <2>. QED BY <1>0, <1>1, <1>7, <2>1, <2>2, <2>4 DEF Placed, CopyTypes
<1>9. ASSUME NEW x \in Session, x # s PROVE Same(x)
  <2>1. ~Shows(pane, n, x) /\ ~Shows(pane', n, x)
    BY <1>2, <1>4, <1>9 DEF Shows
  <2>2. \A m \in At(b) : ~Shows(pane, m, x)
    BY <1>6, <1>9 DEF Shows
  <2>3. ASSUME NEW m \in Node, Shows(pane, m, x) \/ Shows(pane', m, x) PROVE pane[m] = pane'[m]
    <3>1. m # n
      BY <2>1, <2>3
    <3>2. m \notin At(b)
      BY <1>4, <2>2, <2>3, <3>1 DEF Shows
    <3>. QED BY <1>4, <3>1, <3>2
  <2>. QED BY <1>1, <2>3 DEF Same, SameFor
<1> HIDE DEF s
<1>. QED BY <1>1, <1>2, <1>6, <1>8, <1>9, ChangeAnnounced

\* The sessions of the panes that a step closes.
SessionsOf(C) == {pane[n].s : n \in C}

\* Panes that close are announced by events that their sessions changed, together
\* with events the task had or that are about no session.
LEMMA CloseAnnounced ==
    ASSUME CopyInv, NEW t \in Tasks, NEW C \in SUBSET {n \in Node : pane[n] # Nowhere},
           pane' = [n \in Node |-> IF n \in C THEN Nowhere ELSE pane[n]],
           UNCHANGED <<live, nextNode, nextSession>>,
           NEW new, TaskMoves(t, new),
           ToSet(new.events) \subseteq ToSet(task[t].events)
                                \cup {Event("changed", s) : s \in SessionsOf(C)}
                                \cup {Event("detached", b) : b \in Buffer},
           {Event("changed", s) : s \in SessionsOf(C)} \subseteq ToSet(new.events)
    PROVE  CopyInv'
<1>0. CopyTypes /\ ServerInv
  BY DEF CopyInv
<1>1. C \in SUBSET Node /\ nodes' = nodes
  BY DEF TaskMoves
<1>2. \A n \in Node : pane[n] # Nowhere /\ n \notin C => pane[n].s \in live'
  BY <1>0 DEF ServerInv, PanesLive
<1>3. /\ Placed
      /\ \A s : (s \in live <=> s \in live') /\ (\A n \in C : ~Shows(pane, n, s)) => Same(s)
  BY <1>1, <1>2, PanesClose
<1>4. SessionsOf(C) \subseteq Session
  <2>1. \A n \in C : pane[n] \in Pane
    BY <1>0, <1>1 DEF CopyTypes
  <2>. QED BY <2>1 DEF SessionsOf, Pane
<1>5. \A s \in Session : s \in SessionsOf(C) \/ Same(s)
  BY <1>3 DEF SessionsOf, Shows
<1>6. \A s \in SessionsOf(C) : \E e \in ToSet(new.events) : e.about = {s}
  BY <1>4, EventTypes DEF AboutKind
<1>7. \A e \in ToSet(new.events) : e \in ToSet(task[t].events) \/ e.kind # "closed"
  BY <1>4, EventTypes DEF AboutKind
<1>8. Announced(t, new)
  <2>1. nextSession \in Nat
    BY <1>0 DEF CopyTypes
  <2>2. nextSession <= nextSession' /\ \A s \in live' : s \in live \/ s >= nextSession
    BY <2>1
  <2>. QED BY <1>5, <1>6, <1>7, <2>2 DEF Announced
<1>. QED BY <1>3, <1>8, ServerStep

\* Detaching a buffer changes the sessions that showed it.
LEMMA BufferDetachStep ==
    ASSUME CopyInv, NEW t \in Tasks, BufferDetach(t) PROVE CopyInv'
<1>0. CopyTypes /\ ServerInv
  BY DEF CopyInv
<1>1. PICK b \in Buffer :
        /\ Begin(t, "dispose", {}, <<Event("detached", b)>> \o Say("changed", SessionsOf(At(b))))
        /\ pane' = [n \in Node |-> IF n \in At(b) THEN Nowhere ELSE pane[n]]
        /\ UNCHANGED <<live, nextNode, nextSession>>
  BY DEF BufferDetach, Change, given, SessionsOf
<1> DEFINE C == At(b)
           said == Say("changed", SessionsOf(C))
           events == <<Event("detached", b)>> \o said
           new == [step |-> "dispose", had |-> {}, events |-> events]
<1>2. C \in SUBSET {n \in Node : pane[n] # Nowhere}
  BY DEF At
<1>3. SessionsOf(C) \in SUBSET Session
  <2>1. \A n \in C : pane[n] \in Pane
    BY <1>0, <1>2 DEF CopyTypes
  <2>. QED BY <2>1 DEF SessionsOf, Pane
<1>4. said \in Seq(EventSet) /\ ToSet(said) = {Event("changed", s) : s \in SessionsOf(C)}
  BY <1>3, SayTypes DEF AboutKind
<1>5. <<Event("detached", b)>> \in Seq(EventSet) /\ ToSet(<<Event("detached", b)>>) = {Event("detached", b)}
  <2>1. Event("detached", b) \in EventSet
    BY EventTypes
  <2>. QED BY <2>1, ToSetSmall
<1>6. events \in Seq(EventSet) /\ ToSet(events) = {Event("detached", b)} \cup ToSet(said)
  <2> DEFINE one == <<Event("detached", b)>>
  <2>1. one \in Seq(EventSet) /\ ToSet(one) = {Event("detached", b)} /\ events = one \o said
    BY <1>5
  <2> HIDE DEF said, one, events
  <2>2. one \o said \in Seq(EventSet) /\ ToSet(one \o said) = ToSet(one) \cup ToSet(said)
    BY <1>4, <2>1, ToSetConcat
  <2>. QED BY <2>1, <2>2
<1>7. TaskMoves(t, new) /\ new.events = events
  <2>1. Calm(new)
    BY DEF Calm
  <2>2. "dispose" \in TaskStep /\ {} \in SUBSET (Session \cup Buffer)
    BY DEF TaskStep
  <2>3. Begin(t, "dispose", {}, events)
    BY <1>1
  <2>4. new = [step |-> "dispose", had |-> {}, events |-> events]
    OBVIOUS
  <2> HIDE DEF events, new
  <2>. QED BY <1>6, <2>1, <2>2, <2>3, <2>4, BeginMoves
<1>8. pane' = [n \in Node |-> IF n \in C THEN Nowhere ELSE pane[n]]
  BY <1>1
<1>9. /\ {Event("changed", s) : s \in SessionsOf(C)} \subseteq ToSet(new.events)
      /\ ToSet(new.events) \subseteq ToSet(task[t].events)
                                \cup {Event("changed", s) : s \in SessionsOf(C)}
                                \cup {Event("detached", d) : d \in Buffer}
  BY <1>4, <1>6, <1>7
<1> HIDE DEF new, C
<1>. QED BY <1>1, <1>2, <1>7, <1>8, <1>9, CloseAnnounced

\* A task with nothing to say about sessions goes on.
LEMMA SpawnStep ==
    ASSUME CopyInv, NEW t \in Tasks, Spawned(t) \/ SpawnFails(t) PROVE CopyInv'
<1>0. CopyTypes /\ ServerInv /\ task \in [Tasks -> TaskType] /\ nextSession \in Nat
  BY DEF CopyInv, CopyTypes
<1>1. /\ task[t].step = "spawn"
      /\ UNCHANGED <<live, pane, nextNode, nextSession, sessions, nodes, phase, batch, taking, todo,
                     unheard, feed, interest>>
  BY DEF Spawned, SpawnFails, given, copy, client, feedVars
<1>2. task[t].had \subseteq Buffer /\ task[t].had # {} /\ task[t].events = <<>>
  BY <1>0, <1>1 DEF ServerInv, QuietBefore, Calm
<1> DEFINE b == CHOOSE b \in task[t].had : TRUE
<1>3. b \in Buffer
  BY <1>2
<1>4. Made(b) \in EventSet /\ Made(b).kind = "made"
  <2>1. Attachment(b) \in Node \cup {Nowhere}
    BY DEF Attachment, At
  <2> HIDE DEF b
  <2>. QED BY <1>3, <2>1 DEF Made, EventSet, EventType, WellFormed, AboutKind
<1>5. PICK events : /\ events \in {<<>>, <<Made(b)>>}
                    /\ task' = [task EXCEPT ![t] = [step |-> "dispose", had |-> {}, events |-> events]]
  BY <1>0 DEF Spawned, SpawnFails
<1> DEFINE new == [step |-> "dispose", had |-> {}, events |-> events]
           m == Made(b)
<1> HIDE DEF m
<1>6. events \in Seq(EventSet) /\ \A e \in ToSet(events) : e.kind # "closed"
  <2>1. events = <<>> \/ events = <<m>>
    BY <1>5 DEF m
  <2>2. m \in EventSet /\ m.kind = "made"
    BY <1>4 DEF m
  <2>3. <<>> \in Seq(EventSet) /\ <<m>> \in Seq(EventSet)
    BY <2>2
  <2>4. CASE events = <<>>
    BY <2>3, <2>4, ToSetSmall
  <2>5. CASE events = <<m>>
    <3>1. ToSet(events) = {m}
      BY <2>5, ToSetSmall
    <3>. QED BY <2>2, <2>3, <2>5, <3>1
  <2>. QED BY <2>1, <2>4, <2>5
<1>7. TaskMoves(t, new)
  <2>1. new \in TaskType /\ Calm(new)
    BY <1>6 DEF TaskType, TaskStep, Calm
  <2>2. ToSet(task[t].events) \subseteq ToSet(new.events)
    BY <1>2, ToSetSmall
  <2>. QED BY <1>1, <1>5, <2>1, <2>2 DEF TaskMoves
<1>8. Placed /\ \A s : Same(s)
  BY <1>1, NothingChanges
<1>9. Announced(t, new)
  <2>1. nextSession <= nextSession' /\ \A s \in live' : s \in live \/ s >= nextSession
    BY <1>0, <1>1
  <2>2. new.events = events
    OBVIOUS
  <2> HIDE DEF new
  <2>. QED BY <1>6, <1>8, <2>1, <2>2 DEF Announced
<1> HIDE DEF new
<1>. QED BY <1>7, <1>8, <1>9, ServerStep

\* Closing a pane changes its session.
LEMMA NodeCloseStep ==
    ASSUME CopyInv, NEW t \in Tasks, NodeClose(t) PROVE CopyInv'
<1>0. CopyTypes /\ ServerInv /\ task \in [Tasks -> TaskType]
  BY DEF CopyInv, CopyTypes
<1>1. PICK C \in SUBSET {n \in Node : pane[n] # Nowhere} :
        /\ task[t].step = "asked"
        /\ pane' = [n \in Node |-> IF n \in C THEN Nowhere ELSE pane[n]]
        /\ task' = [task EXCEPT ![t] = [step |-> "dispose", had |-> @.had,
                                        events |-> Say("changed", SessionsOf(C))]]
        /\ UNCHANGED <<live, nextNode, nextSession, sessions, nodes, phase, batch, taking, todo,
                       unheard, feed, interest>>
  BY DEF NodeClose, SessionsOf, given, copy, client, feedVars
<1> DEFINE said == Say("changed", SessionsOf(C))
           new == [step |-> "dispose", had |-> task[t].had, events |-> said]
<1>2. SessionsOf(C) \in SUBSET Session
  <2>1. \A n \in C : pane[n] \in Pane
    BY <1>0 DEF CopyTypes
  <2>. QED BY <2>1 DEF SessionsOf, Pane
<1>3. said \in Seq(EventSet) /\ ToSet(said) = {Event("changed", s) : s \in SessionsOf(C)}
  BY <1>2, SayTypes DEF AboutKind
<1>4. task' = [task EXCEPT ![t] = new]
  BY <1>0, <1>1
<1> HIDE DEF said
<1>5. task[t].events = <<>>
  BY <1>0, <1>1 DEF ServerInv, QuietBefore, Calm
<1>6. TaskMoves(t, new)
  <2>1. new \in TaskType /\ Calm(new)
    BY <1>0, <1>3 DEF TaskType, TaskStep, Calm
  <2>2. ToSet(task[t].events) \subseteq ToSet(new.events)
    BY <1>5, ToSetSmall
  <2> HIDE DEF new
  <2>. QED BY <1>1, <1>4, <2>1, <2>2 DEF TaskMoves
<1>7. ToSet(new.events) = {Event("changed", s) : s \in SessionsOf(C)}
  BY <1>3
<1> HIDE DEF new
<1>. QED BY <1>1, <1>6, <1>7, CloseAnnounced

\* Removing exited buffers changes the sessions that showed them, and adds their
\* events to those the task has.
LEMMA DisposeStep ==
    ASSUME CopyInv, NEW t \in Tasks, Dispose(t) PROVE CopyInv'
<1>0. CopyTypes /\ ServerInv /\ task \in [Tasks -> TaskType] /\ task[t] \in TaskType
  BY DEF CopyInv, CopyTypes
<1> DEFINE removed == {b \in ever \cap exited : buf[b] = "here"}
           C == {n \in Node : pane[n] # Nowhere /\ pane[n].b \in removed}
           said == Say("changed", SessionsOf(C))
           step == IF SessionsOf(C) \cup task[t].had = {} THEN "broadcast" ELSE "destroy"
           had == task[t].had \cup SessionsOf(C)
           events == task[t].events \o said
           new == [step |-> step, had |-> had, events |-> events]
<1>1. /\ task[t].step = "dispose"
      /\ pane' = [n \in Node |-> IF n \in C THEN Nowhere ELSE pane[n]]
      /\ task' = [task EXCEPT ![t] = new]
      /\ UNCHANGED <<live, nextNode, nextSession, sessions, nodes, phase, batch, taking, todo,
                     unheard, feed, interest>>
  BY <1>0 DEF Dispose, SessionsOf, given, copy, client, feedVars
<1>2. SessionsOf(C) \in SUBSET Session /\ C \in SUBSET {n \in Node : pane[n] # Nowhere}
  <2>1. \A n \in C : pane[n] \in Pane
    BY <1>0 DEF CopyTypes
  <2>2. SessionsOf(C) \in SUBSET Session
    BY <2>1 DEF SessionsOf, Pane
  <2>. QED BY <2>2
<1>3. said \in Seq(EventSet) /\ ToSet(said) = {Event("changed", s) : s \in SessionsOf(C)}
  BY <1>2, SayTypes DEF AboutKind
<1>4. task[t].events \in Seq(EventSet) /\ task[t].had \in SUBSET (Session \cup Buffer)
  BY <1>0 DEF TaskType
<1> HIDE DEF C, said
<1>5. events \in Seq(EventSet) /\ ToSet(events) = ToSet(task[t].events) \cup ToSet(said)
  BY <1>3, <1>4, ToSetConcat
<1>6. step \in {"broadcast", "destroy"} /\ had \in SUBSET (Session \cup Buffer)
  BY <1>2, <1>4
<1> HIDE DEF step, had, events
<1>7. TaskMoves(t, new) /\ new.events = events
  <2>1. new \in TaskType /\ Calm(new) /\ new.events = events
    BY <1>5, <1>6 DEF TaskType, TaskStep, Calm
  <2>2. ToSet(task[t].events) \subseteq ToSet(new.events)
    BY <1>5, <2>1
  <2> HIDE DEF new
  <2>. QED BY <1>1, <2>1, <2>2 DEF TaskMoves
<1> HIDE DEF new
<1>8. /\ {Event("changed", s) : s \in SessionsOf(C)} \subseteq ToSet(new.events)
      /\ ToSet(new.events) \subseteq ToSet(task[t].events)
                                \cup {Event("changed", s) : s \in SessionsOf(C)}
                                \cup {Event("detached", d) : d \in Buffer}
  BY <1>3, <1>5, <1>7
<1>. QED BY <1>1, <1>2, <1>7, <1>8, CloseAnnounced

\* Destroying sessions without panes adds an event for each, which stands for those
\* about its changes: no pane is lost with them.
LEMMA DestroyStep ==
    ASSUME CopyInv, NEW t \in Tasks, Destroy(t) PROVE CopyInv'
<1>0. CopyTypes /\ ServerInv /\ task \in [Tasks -> TaskType] /\ task[t] \in TaskType
  BY DEF CopyInv, CopyTypes
<1> DEFINE empty == (task[t].had \cap live) \ SessionsWithPanes
           said == Say("closed", empty)
           left == WithoutChanges(task[t].events, empty)
           events == left \o said
           new == [step |-> "broadcast", had |-> {}, events |-> events]
<1>1. /\ live' = live \ empty
      /\ task' = [task EXCEPT ![t] = new]
      /\ UNCHANGED <<pane, nextNode, nextSession, sessions, nodes, phase, batch, taking, todo,
                     unheard, feed, interest>>
  BY <1>0 DEF Destroy, given, copy, client, feedVars
<1>2. empty \in SUBSET Session /\ empty \subseteq live
  BY <1>0 DEF CopyTypes
<1>3. said \in Seq(EventSet) /\ ToSet(said) = {Event("closed", s) : s \in empty}
  BY <1>2, SayTypes DEF AboutKind
<1>4. task[t].events \in Seq(EventSet)
  BY <1>0 DEF TaskType
<1>5. \A n \in Node : pane[n] # Nowhere => pane[n].s \in live /\ pane[n].s \notin empty
  <2>1. \A n \in Node : pane[n] # Nowhere => pane[n].s \in live
    BY <1>0 DEF ServerInv, PanesLive
  <2>2. \A s \in empty : \A n \in Node : ~Shows(pane, n, s)
    BY DEF SessionsWithPanes, Panes
  <2>. QED BY <2>1, <2>2 DEF Shows
<1> HIDE DEF empty, said
<1>a. /\ left \in Seq(EventSet) /\ ToSet(left) \subseteq ToSet(task[t].events)
      /\ \A e \in ToSet(task[t].events) : e \in ToSet(left) \/ (e.kind = "changed" /\ e.id \in empty)
  BY <1>4, WithoutChangesKeeps
<1> HIDE DEF left
<1>6. events \in Seq(EventSet) /\ ToSet(events) = ToSet(left) \cup ToSet(said)
  BY <1>3, <1>a, ToSetConcat
<1> HIDE DEF events
<1>b. \A s \in empty : Event("closed", s) \in ToSet(events) /\ Event("closed", s).about = {s}
                       /\ Event("closed", s).id = s
  BY <1>2, <1>3, <1>6, EventTypes DEF AboutKind
<1>7. TaskMoves(t, new) /\ new.events = events
  <2>1. new \in TaskType /\ Calm(new) /\ new.events = events
    BY <1>6 DEF TaskType, TaskStep, Calm
  <2>2. ASSUME NEW e \in ToSet(task[t].events) PROVE \E d \in ToSet(new.events) : d.about = e.about
    <3>1. CASE e \in ToSet(left)
      BY <1>6, <2>1, <3>1
    <3>2. CASE e.kind = "changed" /\ e.id \in empty
      <4>1. e \in EventSet
        BY <1>4 DEF ToSet
      <4>2. e.about = {e.id}
        BY <3>2, <4>1 DEF EventSet, WellFormed, AboutKind
      <4>. QED BY <1>b, <2>1, <3>2, <4>2
    <3>. QED BY <1>a, <3>1, <3>2
  <2> HIDE DEF new
  <2>. QED BY <1>1, <2>1, <2>2 DEF TaskMoves
<1> HIDE DEF new
<1>8. /\ Placed
      /\ \A s : (s \in live <=> s \in live') => Same(s)
  <2> DEFINE C == {}
  <2>1. C \in SUBSET Node /\ \A n : n \notin C
    OBVIOUS
  <2>2. pane' = [n \in Node |-> IF n \in C THEN Nowhere ELSE pane[n]]
    BY <1>0, <1>1 DEF CopyTypes
  <2> HIDE DEF C
  <2>3. \A n \in Node : pane[n] # Nowhere /\ n \notin C => pane[n].s \in live'
    BY <1>1, <1>5
  <2>4. /\ Placed
        /\ \A s : (s \in live <=> s \in live') /\ (\A n \in C : ~Shows(pane, n, s)) => Same(s)
    BY <1>1, <2>1, <2>2, <2>3, PanesClose
  <2>. QED BY <2>1, <2>4
<1>9. Announced(t, new)
  <2>1. nextSession <= nextSession' /\ \A s \in live' : s \in live \/ s >= nextSession
    BY <1>0, <1>1 DEF CopyTypes
  <2>2. \A s \in empty : s \notin live' /\ s < nextSession'
    BY <1>0, <1>1, <1>2 DEF ServerInv, Unused
  <2>3. \A s \in empty : Event("closed", s).id = s /\ Event("closed", s).about = {s}
    BY <1>2, EventTypes DEF AboutKind
  <2>4. \A e \in ToSet(new.events) :
          e \in ToSet(task[t].events) \/ (e.id \notin live' /\ e.id < nextSession')
    BY <1>3, <1>6, <1>7, <1>a, <2>2, <2>3
  <2>5. \A s \in Session : Same(s) \/ \E e \in ToSet(new.events) : e.about = {s}
    <3>1. ASSUME NEW s \in empty PROVE \E e \in ToSet(new.events) : e.about = {s}
      BY <1>3, <1>6, <1>7, <2>3
    <3>2. \A s \in Session : s \in empty \/ Same(s)
      BY <1>1, <1>8
    <3>. QED BY <3>1, <3>2
  <2>. QED BY <2>1, <2>4, <2>5 DEF Announced
<1>. QED BY <1>7, <1>8, <1>9, ServerStep

\* A broadcast hands all a task has to say to a client that follows.
LEMMA TellStep ==
    ASSUME CopyInv, NEW t \in Tasks, Tell(t) PROVE CopyInv'
<1> DEFINE es == task[t].events
<1>0. CopyTypes /\ ServerInv /\ CopyKnown /\ SameSession /\ WillAgree
      /\ task \in [Tasks -> TaskType] /\ es \in Seq(EventSet)
  <2>1. task \in [Tasks -> TaskType]
    BY DEF CopyInv, CopyTypes
  <2>2. es \in Seq(EventSet)
    BY <2>1 DEF TaskType
  <2>. QED BY <2>1, <2>2 DEF CopyInv
<1>1. /\ task' = [task EXCEPT ![t] = Idle]
      /\ UNCHANGED <<live, pane, nextNode, nextSession, sessions, nodes, phase, batch, taking, todo,
                     unheard>>
  BY DEF Tell, given, copy, client
<1>2. \E retired : Broadcast(es, retired)
  BY DEF Tell
<1>3. /\ feed' \in [Conn -> Seq(EventSet)] /\ interest' \in [Conn -> {All, None}]
      /\ ToSet(feed[Me]) \subseteq ToSet(feed'[Me])
      /\ ToSet(feed'[Me]) \subseteq ToSet(feed[Me]) \cup ToSet(es)
      /\ interest'[Me] = All => interest[Me] = All /\ ToSet(es) \subseteq ToSet(feed'[Me])
  <2> HIDE DEF es
  <2>. QED BY <1>0, <1>2, BroadcastFeeds
<1>4. Idle \in TaskType /\ Calm(Idle) /\ Idle.events = <<>>
  BY DEF Idle, TaskType, TaskStep, Calm
<1>5. /\ task' \in [Tasks -> TaskType] /\ task'[t] = Idle
      /\ \A u \in Tasks : u # t => task'[u] = task[u]
  BY <1>0, <1>1, <1>4
<1>6. CopyTypes'
  BY <1>0, <1>1, <1>3, <1>5 DEF CopyTypes
<1>7. QuietBefore'
  BY <1>0, <1>4, <1>5 DEF ServerInv, QuietBefore
<1>8. Events' \subseteq Events /\ (interest'[Me] = All => Events \subseteq Events')
  <2>1. Events' = ToSet(feed'[Me]) \cup ToSet(batch) \cup UNION {ToSet(task'[u].events) : u \in Tasks}
    BY <1>1 DEF Events
  <2>2. \A u \in Tasks : ToSet(task'[u].events) \subseteq ToSet(task[u].events)
    BY <1>4, <1>5, ToSetSmall
  <2>3. Events' \subseteq Events
    <3>1. ToSet(es) \subseteq Events /\ ToSet(feed[Me]) \subseteq Events /\ ToSet(batch) \subseteq Events
      BY DEF Events
    <3>2. \A u \in Tasks : ToSet(task'[u].events) \subseteq Events
      BY <2>2 DEF Events
    <3>. QED BY <1>3, <2>1, <3>1, <3>2
  <2>4. \A u \in Tasks : ToSet(task[u].events) \subseteq ToSet(es) \cup ToSet(task'[u].events)
    BY <1>5
  <2>5. interest'[Me] = All => Events \subseteq Events'
    BY <1>3, <2>1, <2>4 DEF Events
  <2>. QED BY <2>3, <2>5
<1>9. WillAgree'
  <2> SUFFICES ASSUME Following', NEW s \in Session
               PROVE  Agrees(s)' \/ Told(s)' \/ Reading(s)'
    BY DEF WillAgree
  <2>1. interest'[Me] = All /\ Following
    BY <1>1, <1>3 DEF Following
  <2>2. Agrees(s) \/ Told(s) \/ Reading(s)
    BY <1>0, <2>1 DEF WillAgree
  <2>3. Agrees(s) => Agrees(s)'
    BY <1>1 DEF Agrees, SameFor, Shows
  <2>4. Reading(s) => Reading(s)'
    BY <1>1 DEF Reading
  <2>5. Told(s) => Told(s)'
    BY <1>1, <1>8, <2>1 DEF Told
  <2>. QED BY <2>2, <2>3, <2>4, <2>5
<1>10. ClosedIsGone'
  BY <1>0, <1>1, <1>8 DEF ServerInv, ClosedIsGone
<1>11. PanesLive' /\ Unused' /\ CopyKnown' /\ SameSession'
  BY <1>0, <1>1 DEF ServerInv, PanesLive, Unused, CopyKnown, SameSession
<1>. QED BY <1>6, <1>7, <1>9, <1>10, <1>11 DEF CopyInv, ServerInv

\* Events that are dropped leave their sessions unheard of.
LEMMA TellNobodyStep ==
    ASSUME CopyInv, NEW t \in Tasks, TellNobody(t) PROVE CopyInv'
<1> DEFINE es == task[t].events
<1>0. CopyTypes /\ ServerInv /\ CopyKnown /\ SameSession /\ WillAgree /\ task \in [Tasks -> TaskType]
  BY DEF CopyInv, CopyTypes
<1>1. /\ task' = [task EXCEPT ![t] = Idle]
      /\ unheard' = unheard \cup UNION {e.about : e \in ToSet(es)}
      /\ UNCHANGED <<live, pane, nextNode, nextSession, sessions, nodes, phase, batch, taking, todo,
                     feed, interest>>
  BY DEF TellNobody, given, copy, feedVars
<1>2. Idle \in TaskType /\ Calm(Idle) /\ Idle.events = <<>>
  BY DEF Idle, TaskType, TaskStep, Calm
<1>3. /\ task' \in [Tasks -> TaskType] /\ task'[t] = Idle
      /\ \A u \in Tasks : u # t => task'[u] = task[u]
  BY <1>0, <1>1, <1>2
<1>4. CopyTypes'
  BY <1>0, <1>1, <1>3 DEF CopyTypes
<1>5. QuietBefore'
  BY <1>0, <1>2, <1>3 DEF ServerInv, QuietBefore
<1>6. Events' \subseteq Events /\ \A e \in Events : e \in Events' \/ e \in ToSet(es)
  <2>1. Events' = ToSet(feed[Me]) \cup ToSet(batch) \cup UNION {ToSet(task'[u].events) : u \in Tasks}
    BY <1>1 DEF Events
  <2>2. \A u \in Tasks : ToSet(task'[u].events) \subseteq ToSet(task[u].events)
    BY <1>2, <1>3, ToSetSmall
  <2>3. \A u \in Tasks : ToSet(task[u].events) \subseteq ToSet(es) \cup ToSet(task'[u].events)
    BY <1>3
  <2> HIDE DEF es
  <2>. QED BY <2>1, <2>2, <2>3 DEF Events
<1> HIDE DEF es
<1>7. WillAgree'
  <2> SUFFICES ASSUME Following', NEW s \in Session
               PROVE  Agrees(s)' \/ Told(s)' \/ Reading(s)'
    BY DEF WillAgree
  <2>1. Following
    BY <1>1 DEF Following
  <2>2. Agrees(s) \/ Told(s) \/ Reading(s)
    BY <1>0, <2>1 DEF WillAgree
  <2>3. Agrees(s) => Agrees(s)'
    BY <1>1 DEF Agrees, SameFor, Shows
  <2>4. Reading(s) => Reading(s)'
    BY <1>1 DEF Reading
  <2>5. ASSUME NEW e \in Events, e.about = {s} PROVE Told(s)'
    <3>1. CASE e \in Events'
      BY <2>5, <3>1 DEF Told
    <3>2. CASE e \in ToSet(es)
      BY <1>1, <2>5, <3>2 DEF Told
    <3>. QED BY <1>6, <3>1, <3>2
  <2>6. Told(s) => Told(s)'
    BY <1>1, <2>5 DEF Told
  <2>. QED BY <2>2, <2>3, <2>4, <2>6
<1>8. ClosedIsGone'
  BY <1>0, <1>1, <1>6 DEF ServerInv, ClosedIsGone
<1>9. PanesLive' /\ Unused' /\ CopyKnown' /\ SameSession'
  BY <1>0, <1>1 DEF ServerInv, PanesLive, Unused, CopyKnown, SameSession
<1>. QED BY <1>4, <1>5, <1>7, <1>8, <1>9 DEF CopyInv, ServerInv

-----------------------------------------------------------------------------
(* The client *)

\* A step of the client that leaves the server and its tasks alone and brings up no
\* new event.
LEMMA ClientStep ==
    ASSUME CopyInv, UNCHANGED <<live, pane, task, nextNode, nextSession>>, CopyTypes',
           Events' \subseteq Events, CopyKnown', SameSession',
           \A n \in Node : n >= nextNode => nodes'[n] = Nowhere, WillAgree'
    PROVE  CopyInv'
<1>1. ServerInv
  BY DEF CopyInv
<1>2. QuietBefore' /\ PanesLive'
  BY <1>1 DEF ServerInv, QuietBefore, PanesLive
<1>3. Unused'
  BY <1>1 DEF ServerInv, Unused
<1>4. ClosedIsGone'
  BY <1>1 DEF ServerInv, ClosedIsGone
<1>. QED BY <1>2, <1>3, <1>4 DEF CopyInv, ServerInv

\* What is sound about the copy whatever the client still has to do.
CopySound ==
    /\ nodes \in [Node -> Pane \cup {Nowhere}]
    /\ CopyKnown /\ SameSession
    /\ \A n \in Node : n >= nextNode => nodes[n] = Nowhere

\* Dropping a session leaves the others.
LEMMA RemoveEffect ==
    ASSUME CopyInv, NEW s, RemoveSession(s), UNCHANGED <<live, pane, nextNode>>
    PROVE  /\ CopySound' /\ (s \notin live => Agrees(s)')
           /\ \A x : x # s /\ Agrees(x) => Agrees(x)'
<1>0. CopyTypes /\ CopyKnown /\ SameSession /\ PanesLive /\ Unused
  BY DEF CopyInv, ServerInv
<1>1. /\ sessions' = sessions \ {s}
      /\ nodes' = [n \in Node |-> IF Shows(nodes, n, s) THEN Nowhere ELSE nodes[n]]
  BY DEF RemoveSession
<1>2. \A n \in Node : nodes'[n] = IF Shows(nodes, n, s) THEN Nowhere ELSE nodes[n]
  BY <1>1
<1>3. CopySound'
  <2>1. nodes' \in [Node -> Pane \cup {Nowhere}]
    BY <1>0, <1>1 DEF CopyTypes
  <2>2. CopyKnown'
    BY <1>0, <1>1, <1>2 DEF CopyKnown, Shows
  <2>3. SameSession'
    BY <1>0, <1>2 DEF SameSession
  <2>4. \A n \in Node : n >= nextNode => nodes'[n] = Nowhere
    BY <1>0, <1>2 DEF Unused
  <2>. QED BY <2>1, <2>2, <2>3, <2>4 DEF CopySound
<1>4. s \notin live => Agrees(s)'
  <2>1. \A n \in Node : ~Shows(nodes', n, s)
    BY <1>2 DEF Shows
  <2>2. s \notin live => \A n \in Node : ~Shows(pane, n, s)
    BY <1>0 DEF PanesLive, Shows
  <2>3. s \notin live => SameFor(nodes', pane', s)
    BY <2>1, <2>2 DEF SameFor
  <2>4. SameFor(nodes, pane, s)' <=> SameFor(nodes', pane', s)
    BY DEF SameFor, Shows
  <2>. QED BY <1>1, <2>3, <2>4 DEF Agrees
<1>5. ASSUME NEW x, x # s, Agrees(x) PROVE Agrees(x)'
  <2>1. \A n \in Node : Shows(nodes, n, x) => nodes'[n] = nodes[n]
    BY <1>2, <1>5 DEF Shows
  <2>2. \A n \in Node : Shows(nodes', n, x) => nodes'[n] = nodes[n]
    BY <1>2 DEF Shows
  <2>3. ASSUME NEW n \in Node, Shows(nodes', n, x) \/ Shows(pane, n, x) PROVE nodes'[n] = pane[n]
    <3>1. CASE Shows(nodes', n, x)
      BY <1>5, <2>2, <3>1 DEF Agrees, SameFor, Shows
    <3>2. CASE Shows(pane, n, x)
      <4>1. nodes[n] = pane[n]
        BY <1>5, <3>2 DEF Agrees, SameFor
      <4>. QED BY <2>1, <3>2, <4>1 DEF Shows
    <3>. QED BY <2>3, <3>1, <3>2
  <2>4. SameFor(nodes, pane, x)'
    BY <2>3 DEF SameFor, Shows
  <2>. QED BY <1>1, <1>5, <2>4 DEF Agrees
<1>. QED BY <1>3, <1>4, <1>5

\* Reading a session makes it agree and leaves the others: no pane it brings was
\* in another session of the copy.
LEMMA ResyncEffect ==
    ASSUME CopyInv, NEW s, ResyncSession(s), UNCHANGED <<live, pane, nextNode>>
    PROVE  CopySound' /\ Agrees(s)' /\ \A x : x # s /\ Agrees(x) => Agrees(x)'
<1>0. CopyTypes /\ CopyKnown /\ SameSession /\ PanesLive /\ Unused
  BY DEF CopyInv, ServerInv
<1>1. CASE s \notin live
  BY <1>1, RemoveEffect DEF ResyncSession
<1>2. CASE s \in live
  <2>1. /\ sessions' = sessions \cup {s}
        /\ nodes' = [n \in Node |-> IF n \in Panes(nodes, s) \cup Panes(pane, s)
                                    THEN IF Shows(pane, n, s) THEN pane[n] ELSE Nowhere
                                    ELSE nodes[n]]
    BY <1>2 DEF ResyncSession, ApplySnapshot
  <2>2. \A n \in Node : nodes'[n] = IF Shows(pane, n, s) THEN pane[n]
                                    ELSE IF Shows(nodes, n, s) THEN Nowhere ELSE nodes[n]
    BY <2>1 DEF Panes
  <2>3. CopySound'
    <3>1. nodes' \in [Node -> Pane \cup {Nowhere}]
      BY <1>0, <2>1 DEF CopyTypes
    <3>2. CopyKnown'
      BY <1>0, <2>1, <2>2 DEF CopyKnown, Shows
    <3>3. SameSession'
      BY <1>0, <2>2 DEF SameSession
    <3>4. \A n \in Node : n >= nextNode => nodes'[n] = Nowhere
      BY <1>0, <2>2 DEF Unused
    <3>. QED BY <3>1, <3>2, <3>3, <3>4 DEF CopySound
  <2>4. Agrees(s)'
    <3>1. \A n \in Node : Shows(nodes', n, s) \/ Shows(pane, n, s) => nodes'[n] = pane[n]
      BY <2>2 DEF Shows
    <3>2. SameFor(nodes, pane, s)'
      BY <3>1 DEF SameFor, Shows
    <3>. QED BY <1>2, <2>1, <3>2 DEF Agrees
  <2>5. ASSUME NEW x, x # s, Agrees(x) PROVE Agrees(x)'
    <3>1. \A n \in Node : Shows(nodes, n, x) => nodes'[n] = nodes[n]
      BY <1>0, <2>2, <2>5 DEF Shows, SameSession
    <3>2. \A n \in Node : Shows(nodes', n, x) => nodes'[n] = nodes[n]
      BY <2>2, <2>5 DEF Shows
    <3>3. ASSUME NEW n \in Node, Shows(nodes', n, x) \/ Shows(pane, n, x) PROVE nodes'[n] = pane[n]
      <4>1. CASE Shows(nodes', n, x)
        BY <2>5, <3>2, <4>1 DEF Agrees, SameFor, Shows
      <4>2. CASE Shows(pane, n, x)
        <5>1. nodes[n] = pane[n]
          BY <2>5, <4>2 DEF Agrees, SameFor
        <5>. QED BY <3>1, <4>2, <5>1 DEF Shows
      <4>. QED BY <3>3, <4>1, <4>2
    <3>4. SameFor(nodes, pane, x)'
      BY <3>3 DEF SameFor, Shows
    <3>. QED BY <2>1, <2>5, <3>4 DEF Agrees
  <2>. QED BY <2>3, <2>4, <2>5
<1>. QED BY <1>1, <1>2

\* A step that leaves the copy's sessions and panes leaves what agrees.
LEMMA CopyStays ==
    ASSUME CopyInv, UNCHANGED <<sessions, nodes, live, pane, nextNode>>
    PROVE  CopySound' /\ \A x : Agrees(x) => Agrees(x)'
<1>1. CopySound'
  BY DEF CopySound, CopyInv, CopyTypes, ServerInv, CopyKnown, SameSession, Unused
<1>2. \A x : Agrees(x) => Agrees(x)'
  BY DEF Agrees, SameFor, Shows
<1>. QED BY <1>1, <1>2

\* What the client has begun to read, as a set.
LEMMA ReadingIs ==
    /\ \A s : Reading(s) <=> Fetch("session", s) \in ToSet(todo) \/ Fetch("sessions", 0) \in ToSet(todo)
    /\ \A s : Reading(s)' <=> Fetch("session", s) \in ToSet(todo') \/ Fetch("sessions", 0) \in ToSet(todo')
BY DEF Reading, ToSet, Fetch

\* What the client reads by name.
LEMMA FetchTypes ==
    /\ Fetch("sessions", 0) \in FetchSet /\ Fetch("detached", 0) \in FetchSet
    /\ \A s \in Session : Fetch("session", s) \in FetchSet
    /\ \A b \in Buffer : /\ Fetch("record", b) \in FetchSet /\ Fetch("snapshot", b) \in FetchSet
                         /\ Fetch("forget", b) \in FetchSet
BY DEF Fetch, FetchSet

\* The client begins to follow by reading everything, and reads everything again
\* after a command.
LEMMA ReadAllStep ==
    ASSUME CopyInv, SubscribeAll \/ ResyncAll PROVE CopyInv'
<1>0. CopyTypes /\ Me \in Conn
  BY CopyConstants DEF CopyInv
<1>1. /\ UNCHANGED <<live, pane, task, nextNode, nextSession, sessions, nodes, batch, taking, feed>>
      /\ phase' \in {"new", "subscribed"} /\ interest' \in [Conn -> {All, None}]
      /\ todo' = <<Fetch("sessions", 0)>>
  BY <1>0 DEF SubscribeAll, ResyncAll, Subscribe, server, given, copy, feedVars, CopyTypes
<1>2. todo' \in Seq(FetchSet) /\ Fetch("sessions", 0) \in ToSet(todo')
  BY <1>1, FetchTypes, ToSetSmall
<1>3. CopyTypes'
  BY <1>0, <1>1, <1>2 DEF CopyTypes
<1>4. Events' = Events
  BY <1>1 DEF Events
<1>5. WillAgree'
  BY <1>2, ReadingIs DEF WillAgree
<1>. QED BY <1>1, <1>3, <1>4, <1>5, CopyStays, ClientStep DEF CopySound

\* A client that connects follows nothing yet.
LEMMA ConnectStep ==
    ASSUME CopyInv, Connect PROVE CopyInv'
<1>0. CopyTypes /\ Me \in Conn
  BY CopyConstants DEF CopyInv
<1>1. /\ UNCHANGED <<live, pane, task, nextNode, nextSession, sessions, nodes, phase, batch, taking,
                     todo, unheard, interest>>
      /\ feed' = [feed EXCEPT ![Me] = <<>>] /\ phase = "new"
  BY DEF Connect, Open, server, given, copy, client
<1>2. feed' \in [Conn -> Seq(EventSet)] /\ feed'[Me] = <<>>
  BY <1>0, <1>1 DEF CopyTypes
<1>3. CopyTypes'
  BY <1>0, <1>1, <1>2 DEF CopyTypes
<1>4. Events' \subseteq Events
  BY <1>1, <1>2, ToSetSmall DEF Events
<1>5. WillAgree'
  BY <1>1 DEF WillAgree, Following
<1>. QED BY <1>1, <1>3, <1>4, <1>5, CopyStays, ClientStep DEF CopySound

\* Listing the sessions drops those that are gone and reads the others.
LEMMA ListStep ==
    ASSUME CopyInv, ListSessions PROVE CopyInv'
<1> DEFINE dropped == UNION {Panes(nodes, s) : s \in sessions \ live}
           one == <<Fetch("detached", 0)>>
           reads == Sessions(live) \o one
<1>0. CopyTypes /\ CopyKnown /\ SameSession /\ PanesLive /\ Unused /\ live \in SUBSET Session
      /\ todo \in Seq(FetchSet)
  BY DEF CopyInv, ServerInv, CopyTypes
<1>1. /\ todo # <<>> /\ sessions' = sessions \cap live
      /\ nodes' = [n \in Node |-> IF n \in dropped THEN Nowhere ELSE nodes[n]]
      /\ todo' = Sessions(live) \o <<Fetch("detached", 0)>> \o Tail(todo)
      /\ UNCHANGED <<live, pane, task, nextNode, nextSession, phase, batch, taking, feed, interest>>
  BY DEF ListSessions, server, given, feedVars
<1>2. \A n \in Node : n \in dropped <=> \E s \in sessions \ live : Shows(nodes, n, s)
  BY DEF Panes
<1>3. \A n \in Node : nodes'[n] = IF n \in dropped THEN Nowhere ELSE nodes[n]
  BY <1>1
<1>4. nodes' \in [Node -> Pane \cup {Nowhere}]
  BY <1>0, <1>1 DEF CopyTypes
<1> HIDE DEF dropped
<1>5. CopyKnown'
  <2>1. \A n \in Node : nodes[n] # Nowhere => nodes[n].s \in sessions /\ Shows(nodes, n, nodes[n].s)
    BY <1>0 DEF CopyKnown, Shows
  <2>. QED BY <1>1, <1>2, <1>3, <2>1 DEF CopyKnown
<1>6. SameSession' /\ \A n \in Node : n >= nextNode => nodes'[n] = Nowhere
  BY <1>0, <1>1, <1>3 DEF SameSession, Unused
<1>7. todo' \in Seq(FetchSet) /\ \A s \in live : Fetch("session", s) \in ToSet(todo')
  <2>1. Sessions(live) \in Seq(FetchSet) /\ ToSet(Sessions(live)) = {Fetch("session", s) : s \in live}
    BY <1>0, SessionsTypes
  <2>2. one \in Seq(FetchSet)
    BY FetchTypes
  <2>3. Tail(todo) \in Seq(FetchSet)
    BY <1>0, <1>1, ToSetTail
  <2> DEFINE first == Sessions(live)
             rest == Tail(todo)
  <2>4. todo' = (first \o one) \o rest
    BY <1>1
  <2> HIDE DEF one, first, rest
  <2>5. first \o one \in Seq(FetchSet) /\ ToSet(first \o one) = ToSet(first) \cup ToSet(one)
    BY <2>1, <2>2, ToSetConcat DEF first
  <2> DEFINE both == first \o one
  <2>6. both \in Seq(FetchSet) /\ ToSet(both) = ToSet(first) \cup ToSet(one) /\ todo' = both \o rest
        /\ rest \in Seq(FetchSet)
    BY <2>3, <2>4, <2>5 DEF rest
  <2> HIDE DEF both
  <2>7. both \o rest \in Seq(FetchSet) /\ ToSet(both \o rest) = ToSet(both) \cup ToSet(rest)
    BY <2>6, ToSetConcat
  <2>8. \A s \in live : Fetch("session", s) \in ToSet(first)
    BY <2>1 DEF first
  <2>. QED BY <2>6, <2>7, <2>8
<1>8. CopyTypes'
  BY <1>0, <1>1, <1>4, <1>7 DEF CopyTypes
<1>9. ASSUME NEW s, s \notin live PROVE Agrees(s)'
  <2>1. \A n \in Node : ~Shows(pane, n, s)
    BY <1>0, <1>9 DEF PanesLive, Shows
  <2>2. \A n \in Node : ~Shows(nodes', n, s)
    BY <1>1, <1>5, <1>9 DEF CopyKnown, Shows
  <2>3. SameFor(nodes, pane, s)'
    BY <1>1, <2>1, <2>2 DEF SameFor, Shows
  <2>. QED BY <1>1, <1>9, <2>3 DEF Agrees
<1>10. WillAgree'
  <2>1. \A s \in Session : Agrees(s)' \/ Reading(s)'
    BY <1>7, <1>9, ReadingIs
  <2>. QED BY <2>1 DEF WillAgree
<1>11. Events' = Events
  BY <1>1 DEF Events
<1>. QED BY <1>1, <1>5, <1>6, <1>8, <1>10, <1>11, ClientStep

\* Reading one thing: a session agrees once it is read, and what was to be read still is.
LEMMA FetchStep ==
    ASSUME CopyInv, FetchNext PROVE CopyInv'
<1> DEFINE f == Head(todo)
           more == IF f.what \in {"record", "snapshot"} /\ buf[f.id] # "here"
                   THEN Forget(f.id) ELSE <<>>
<1>0. CopyTypes /\ WillAgree /\ todo \in Seq(FetchSet)
  BY DEF CopyInv, CopyTypes
<1>1. /\ todo # <<>> /\ f.what # "sessions" /\ todo' = more \o Tail(todo)
      /\ unheard' = IF f.what = "session" THEN unheard \ {f.id} ELSE unheard
      /\ UNCHANGED <<live, pane, task, nextNode, nextSession, phase, batch, taking, feed, interest>>
  BY DEF FetchNext, server, given, feedVars
<1>2. f \in FetchSet /\ Tail(todo) \in Seq(FetchSet) /\ ToSet(todo) = {f} \cup ToSet(Tail(todo))
  BY <1>0, <1>1, ToSetTail
<1>3. more \in Seq(FetchSet)
  <2>1. CASE f.what \in {"record", "snapshot"} /\ buf[f.id] # "here"
    <3>1. Showing(f.id) \in SUBSET Session
      <4>1. \A n \in Node : nodes[n] # Nowhere => nodes[n].s \in Session
        BY <1>0 DEF CopyTypes, Pane
      <4>. QED BY <4>1 DEF Showing
    <3>2. Sessions(Showing(f.id)) \in Seq(FetchSet)
      BY <3>1, SessionsTypes
    <3>3. Fetch("forget", f.id) \in FetchSet
      BY <1>2 DEF FetchSet, Fetch
    <3>4. <<Fetch("forget", f.id)>> \in Seq(FetchSet)
      BY <3>3
    <3> DEFINE a == Sessions(Showing(f.id))
               b == <<Fetch("forget", f.id)>>
    <3>5. more = a \o b
      BY <2>1 DEF Forget
    <3> HIDE DEF a, b, more
    <3>6. a \o b \in Seq(FetchSet)
      BY <3>2, <3>4, ToSetConcat DEF a, b
    <3>. QED BY <3>5, <3>6
  <2>2. CASE ~(f.what \in {"record", "snapshot"} /\ buf[f.id] # "here")
    BY <2>2
  <2>. QED BY <2>1, <2>2
<1>4. todo' \in Seq(FetchSet) /\ ToSet(Tail(todo)) \subseteq ToSet(todo')
  <2> DEFINE rest == Tail(todo)
  <2>1. rest \in Seq(FetchSet) /\ todo' = more \o rest
    BY <1>1, <1>2
  <2> HIDE DEF more, rest
  <2>2. more \o rest \in Seq(FetchSet) /\ ToSet(more \o rest) = ToSet(more) \cup ToSet(rest)
    BY <1>3, <2>1, ToSetConcat
  <2>3. ToSet(rest) \subseteq ToSet(todo') /\ todo' \in Seq(FetchSet)
    BY <2>1, <2>2
  <2>. QED BY <2>3 DEF rest
<1>5. CopySound' /\ \A x : Agrees(x) \/ f = Fetch("session", x) => Agrees(x)'
  <2>1. CASE f.what = "session"
    <3>0. PICK s : s = f.id
      OBVIOUS
    <3>1. ResyncSession(s)
      BY <2>1, <3>0 DEF FetchNext
    <3>2. CopySound' /\ Agrees(s)' /\ \A x : x # s /\ Agrees(x) => Agrees(x)'
      BY <1>1, <3>1, ResyncEffect
    <3>3. \A x : f = Fetch("session", x) => s = x
      BY <3>0 DEF Fetch
    <3> HIDE DEF f
    <3>. QED BY <3>2, <3>3
  <2>2. CASE f.what # "session"
    <3>1. UNCHANGED <<sessions, nodes>>
      BY <2>2 DEF FetchNext, ApplyDetached, SetRecord, copy
    <3>2. \A x : f # Fetch("session", x)
      BY <2>2 DEF Fetch
    <3> HIDE DEF f
    <3>. QED BY <1>1, <3>1, <3>2, CopyStays
  <2>. QED BY <2>1, <2>2
<1>6. CopyTypes'
  BY <1>0, <1>1, <1>4, <1>5 DEF CopyTypes, CopySound
<1>7. Events' = Events
  BY <1>1 DEF Events
<1>8. WillAgree'
  <2> SUFFICES ASSUME Following', NEW s \in Session
               PROVE  Agrees(s)' \/ Told(s)' \/ Reading(s)'
    BY DEF WillAgree
  <2>1. Agrees(s) \/ Told(s) \/ Reading(s)
    BY <1>0, <1>1 DEF WillAgree, Following
  <2>2. CASE Agrees(s) \/ f = Fetch("session", s)
    BY <1>5, <2>2
  <2>3. CASE Told(s) /\ f # Fetch("session", s)
    <3>1. s \in unheard => s \in unheard'
      <4>1. f = Fetch(f.what, f.id)
        BY <1>2 DEF FetchSet, Fetch
      <4>2. f.what = "session" => f.id # s
        BY <2>3, <4>1
      <4> HIDE DEF f
      <4>. QED BY <1>1, <4>2
    <3>. QED BY <1>7, <2>3, <3>1 DEF Told
  <2>4. CASE Reading(s) /\ f # Fetch("session", s)
    <3>1. f # Fetch("sessions", 0)
      BY <1>1 DEF Fetch
    <3>. QED BY <1>2, <1>4, <2>4, <3>1, ReadingIs
  <2>. QED BY <2>1, <2>2, <2>3, <2>4
<1>. QED BY <1>1, <1>5, <1>6, <1>7, <1>8, ClientStep DEF CopySound

\* The next event that arrived is put into the batch.
LEMMA TakeStep ==
    ASSUME CopyInv, Take PROVE CopyInv'
<1>0. CopyTypes /\ WillAgree /\ Me \in Conn /\ feed[Me] \in Seq(EventSet) /\ batch \in Seq(EventSet)
  BY CopyConstants DEF CopyInv, CopyTypes
<1>1. /\ UNCHANGED <<live, pane, task, nextNode, nextSession, sessions, nodes, phase, taking, todo,
                     unheard, interest>>
      /\ feed[Me] # <<>> /\ feed' = [feed EXCEPT ![Me] = Tail(feed[Me])]
      /\ batch' = Append(batch, Head(feed[Me]))
  BY DEF Take, Read, server, given, copy
<1>2. /\ Head(feed[Me]) \in EventSet /\ Tail(feed[Me]) \in Seq(EventSet)
      /\ ToSet(feed[Me]) = {Head(feed[Me])} \cup ToSet(Tail(feed[Me]))
  BY <1>0, <1>1, ToSetTail
<1>3. batch' \in Seq(EventSet) /\ ToSet(batch') = ToSet(batch) \cup {Head(feed[Me])}
  BY <1>0, <1>1, <1>2, ToSetAppend
<1>4. feed' \in [Conn -> Seq(EventSet)] /\ feed'[Me] = Tail(feed[Me])
  BY <1>0, <1>1, <1>2 DEF CopyTypes
<1>5. Events' = Events
  <2>1. ToSet(feed'[Me]) \cup ToSet(batch') = ToSet(feed[Me]) \cup ToSet(batch)
    BY <1>2, <1>3, <1>4
  <2>. QED BY <1>1, <2>1 DEF Events
<1>6. CopyTypes'
  BY <1>0, <1>1, <1>3, <1>4 DEF CopyTypes
<1>7. CopySound' /\ \A x : Agrees(x) => Agrees(x)'
  BY <1>1, CopyStays
<1>8. WillAgree'
  <2>1. \A s : Told(s) => Told(s)'
    BY <1>1, <1>5 DEF Told
  <2>2. \A s : Reading(s) => Reading(s)'
    BY <1>1 DEF Reading
  <2>3. Following' => Following
    BY <1>1 DEF Following
  <2>. QED BY <1>0, <1>7, <2>1, <2>2, <2>3 DEF WillAgree
<1>. QED BY <1>1, <1>5, <1>6, <1>7, <1>8, ClientStep DEF CopySound

\* Only events that a buffer's screen changed are taken together, and these are about
\* no session.
LEMMA CoalescedTold ==
    ASSUME CopyInv, NEW e \in ToSet(batch), e.about # {}
    PROVE  e \in ToSet(Coalesced(batch))
<1>1. batch \in Seq(EventSet)
  BY DEF CopyInv, CopyTypes
<1>2. e \in EventSet
  BY <1>1 DEF ToSet
<1>3. e.kind # "invalidated"
  BY <1>2 DEF EventSet, WellFormed, AboutKind
<1>. QED BY <1>1, <1>3, CoalescedKeeps

\* Handling an event about a session reads it, or drops a session that is gone.
LEMMA HandleStep ==
    ASSUME CopyInv, Handle PROVE CopyInv'
<1> DEFINE es == IF taking THEN Coalesced(batch) ELSE batch
<1>0. CopyTypes /\ WillAgree /\ ServerInv /\ batch \in Seq(EventSet)
  BY DEF CopyInv, CopyTypes
<1>1. /\ UNCHANGED <<live, pane, task, nextNode, nextSession, phase, unheard, feed, interest>>
      /\ todo = <<>> /\ batch # <<>> /\ ApplyEvent(Head(es)) /\ todo' = ResyncFor(Head(es))
      /\ batch' = Tail(es) /\ taking' = (Tail(es) = <<>>)
  BY DEF Handle, Ready, server, given, feedVars
<1>2. /\ es \in Seq(EventSet) /\ ToSet(es) \subseteq ToSet(batch)
      /\ \A e \in ToSet(batch) : e.about # {} => e \in ToSet(es)
  BY <1>0, CoalescedKeeps, CoalescedTold
<1>3. es # <<>>
  <2> SUFFICES ASSUME es = <<>> PROVE FALSE
    OBVIOUS
  <2>1. taking /\ Coalesced(batch) = <<>>
    BY <1>1
  <2> DEFINE last == Len(batch)
             kept == {i \in DOMAIN batch : batch[i].kind = "invalidated" =>
                                             \A j \in DOMAIN batch : j > i => batch[j] # batch[i]}
  <2>2. last \in DOMAIN batch /\ DOMAIN batch = 1 .. last /\ last \in Nat
    BY <1>0, <1>1
  <2>3. last \in kept /\ kept \in SUBSET (DOMAIN batch)
    BY <2>2
  <2>4. Coalesced(batch) = Only(batch, kept)
    BY DEF Coalesced
  <2> HIDE DEF kept, last
  <2>5. ToSet(Only(batch, kept)) = {batch[i] : i \in kept}
    BY <1>0, <2>3, OnlyKeeps
  <2>6. batch[last] \in ToSet(Coalesced(batch))
    BY <2>3, <2>4, <2>5
  <2>. QED BY <2>1, <2>6, ToSetSmall
<1> HIDE DEF es
<1>4. PICK e : e = Head(es)
  OBVIOUS
<1>5. e \in EventSet /\ Tail(es) \in Seq(EventSet) /\ ToSet(es) = {e} \cup ToSet(Tail(es))
  BY <1>2, <1>3, <1>4, ToSetTail
<1>6. ApplyEvent(e) /\ todo' = ResyncFor(e)
  BY <1>1, <1>4
<1>7. Events' \subseteq Events /\ \A d \in Events : d.about # {} => d = e \/ d \in Events'
  <2>1. Events' = ToSet(feed[Me]) \cup ToSet(batch') \cup UNION {ToSet(task[u].events) : u \in Tasks}
    BY <1>1 DEF Events
  <2>2. ToSet(batch') \subseteq ToSet(batch)
    BY <1>1, <1>2, <1>5
  <2>3. \A d \in ToSet(batch) : d.about # {} => d = e \/ d \in ToSet(batch')
    BY <1>1, <1>2, <1>5
  <2>. QED BY <2>1, <2>2, <2>3 DEF Events
<1>8. e \in Events
  BY <1>2, <1>5 DEF Events
<1>9. \/ e.kind \in AboutKind /\ e.id \in Session /\ e.about = {e.id}
      \/ e.kind \in {"made", "detached", "invalidated"} /\ e.about = {} /\ e.id \in Buffer
  BY <1>5 DEF EventSet, EventType, WellFormed, AboutKind
<1>10. todo' \in Seq(FetchSet)
  <2>1. /\ e.kind \in {"created", "changed"} => e.id \in Session
        /\ e.kind = "invalidated" => e.id \in Buffer
    BY <1>9 DEF AboutKind
  <2>2. /\ e.kind \in {"created", "changed"} => Fetch("session", e.id) \in FetchSet
        /\ e.kind = "invalidated" => Fetch("record", e.id) \in FetchSet /\ Fetch("snapshot", e.id) \in FetchSet
        /\ Fetch("detached", 0) \in FetchSet
    BY <2>1, FetchTypes
  <2>. QED BY <1>6, <2>2 DEF ResyncFor
<1>11. CopySound' /\ \A x \in Session : Agrees(x) /\ e.about # {x} => Agrees(x)'
  <2>1. CASE e.kind = "closed"
    <3>1. RemoveSession(e.id) /\ e.about = {e.id}
      BY <1>6, <1>9, <2>1 DEF ApplyEvent
    <3>2. CopySound' /\ \A x : x # e.id /\ Agrees(x) => Agrees(x)'
      BY <1>1, <3>1, RemoveEffect
    <3>. QED BY <3>1, <3>2
  <2>2. CASE e.kind = "created"
    <3>1. sessions' = sessions \cup {e.id} /\ nodes' = nodes /\ e.about = {e.id}
      BY <1>6, <1>9, <2>2 DEF ApplyEvent
    <3>2. CopySound'
      BY <1>0, <1>1, <3>1 DEF CopySound, CopyInv, CopyTypes, ServerInv, CopyKnown, SameSession, Unused
    <3>3. ASSUME NEW x \in Session, Agrees(x), e.about # {x} PROVE Agrees(x)'
      <4>1. x # e.id
        BY <3>1, <3>3
      <4>. QED BY <1>1, <3>1, <3>3, <4>1 DEF Agrees, SameFor, Shows
    <3>. QED BY <3>2, <3>3
  <2>3. CASE e.kind \notin {"closed", "created"}
    <3>1. UNCHANGED <<sessions, nodes>>
      BY <1>6, <2>3 DEF ApplyEvent, SetRecord, copy
    <3>. QED BY <1>1, <3>1, CopyStays
  <2>. QED BY <2>1, <2>2, <2>3
<1>12. ASSUME NEW s \in Session, e.about = {s} PROVE Agrees(s)' \/ Reading(s)'
  <2>1. e.kind \in AboutKind /\ e.id = s
    BY <1>9, <1>12
  <2>2. CASE e.kind \in {"created", "changed"}
    <3>1. todo' = <<Fetch("session", s)>> \/ todo' = <<Fetch("session", s), Fetch("detached", 0)>>
      BY <1>6, <2>1, <2>2 DEF ResyncFor
    <3>2. Fetch("session", s) \in ToSet(todo')
      BY <3>1, ToSetSmall
    <3>. QED BY <3>2, ReadingIs
  <2>3. CASE e.kind = "closed"
    <3>1. s \notin live
      BY <1>0, <1>8, <2>1, <2>3 DEF ServerInv, ClosedIsGone
    <3>2. RemoveSession(s)
      BY <1>6, <2>1, <2>3 DEF ApplyEvent
    <3>. QED BY <1>1, <3>1, <3>2, RemoveEffect
  <2>. QED BY <2>1, <2>2, <2>3 DEF AboutKind
<1>13. WillAgree'
  <2> SUFFICES ASSUME Following', NEW s \in Session
               PROVE  Agrees(s)' \/ Told(s)' \/ Reading(s)'
    BY DEF WillAgree
  <2>1. Agrees(s) \/ Told(s) \/ Reading(s)
    BY <1>0, <1>1 DEF WillAgree, Following
  <2>2. ~Reading(s)
    BY <1>1 DEF Reading
  <2>3. CASE e.about = {s}
    BY <1>12, <2>3
  <2>4. CASE e.about # {s} /\ Told(s)
    BY <1>1, <1>7, <2>4 DEF Told
  <2>5. CASE e.about # {s} /\ Agrees(s)
    BY <1>11, <2>5
  <2>. QED BY <2>1, <2>2, <2>3, <2>4, <2>5
<1>14. CopyTypes'
  <2>1. taking' \in BOOLEAN
    BY <1>1
  <2>. QED BY <1>0, <1>1, <1>5, <1>10, <1>11, <2>1 DEF CopyTypes, CopySound
<1>. QED BY <1>1, <1>7, <1>11, <1>13, <1>14, ClientStep DEF CopySound

-----------------------------------------------------------------------------
\* The server starts with one session, one pane and a client that follows nothing.
LEMMA CopyInit == Init => CopyInv
<1> SUFFICES ASSUME Init PROVE CopyInv
  OBVIOUS
<1>0. /\ 1 \in Session /\ 1 \in Node /\ 1 \in Buffer /\ Me \in Conn
  BY CopyConstants
<1>1. /\ live = {1} /\ nextSession = 2 /\ nextNode = 2
      /\ pane = [n \in Node |-> IF n = 1 THEN [s |-> 1, b |-> 1] ELSE Nowhere]
      /\ task = [t \in Tasks |-> Idle] /\ nodes = [n \in Node |-> Nowhere]
      /\ phase = "new" /\ batch = <<>> /\ taking = TRUE /\ todo = <<>>
      /\ feed = [c \in Conn |-> <<>>] /\ interest = [c \in Conn |-> None]
  BY DEF Init, FeedInit
<1>2. [s |-> 1, b |-> 1] \in Pane
  BY <1>0 DEF Pane
<1>3. Idle \in TaskType /\ Calm(Idle) /\ Idle.events = <<>>
  BY DEF Idle, TaskType, TaskStep, Calm
<1>4. \A t \in Tasks : task[t] = Idle
  BY <1>1
<1>5. Events = {}
  BY <1>0, <1>1, <1>3, <1>4, ToSetSmall DEF Events
<1>6. CopyTypes
  <2>1. pane \in [Node -> Pane \cup {Nowhere}]
    BY <1>1, <1>2
  <2>2. live \subseteq Session
    BY <1>0, <1>1
  <2>. QED BY <1>1, <1>3, <2>1, <2>2 DEF CopyTypes
<1>7. PanesLive /\ Unused
  <2>1. \A n \in Node : n # 1 => pane[n] = Nowhere
    BY <1>1
  <2>2. pane[1].s = 1
    BY <1>0, <1>1
  <2>. QED BY <1>1, <2>1, <2>2 DEF PanesLive, Unused
<1>8. QuietBefore /\ ClosedIsGone
  BY <1>3, <1>4, <1>5 DEF QuietBefore, ClosedIsGone
<1>9. CopyKnown /\ SameSession /\ WillAgree
  BY <1>1 DEF CopyKnown, SameSession, WillAgree, Following
<1>. QED BY <1>6, <1>7, <1>8, <1>9 DEF CopyInv, ServerInv

\* Every step of a task and of the client keeps a wrong session one that is going
\* to be read.
LEMMA CopyNext == CopyInv /\ [Next]_vars => CopyInv'
<1> SUFFICES ASSUME CopyInv, [Next]_vars PROVE CopyInv'
  OBVIOUS
<1>1. ASSUME NEW t \in Tasks, Serve(t) PROVE CopyInv'
  BY <1>1, SessionCreateStep, SessionCloseStep, SilentStep, AttachStep, NodeMoveBufferStep,
     BufferDetachStep DEF Serve
<1>2. ASSUME NEW t \in Tasks, Finish(t) PROVE CopyInv'
  BY <1>2, SpawnStep, NodeCloseStep, DisposeStep, DestroyStep, TellStep, TellNobodyStep DEF Finish
<1>3. CASE Connect \/ ResyncAll \/ Step
  BY <1>3, ConnectStep, ReadAllStep, ListStep, FetchStep, TakeStep, HandleStep DEF Step
<1>4. CASE UNCHANGED vars
  <2>1. UNCHANGED <<live, pane, task, nextNode, nextSession, sessions, nodes, phase, batch, taking,
                    todo, unheard, feed, interest>>
    BY <1>4 DEF vars, server, given, copy, client, feedVars
  <2>2. CopyTypes'
    BY <2>1 DEF CopyInv, CopyTypes
  <2>3. Events' = Events
    BY <2>1 DEF Events
  <2>4. CopySound' /\ \A x : Agrees(x) => Agrees(x)'
    BY <2>1, CopyStays
  <2>5. WillAgree'
    <3>1. \A s : (Told(s) => Told(s)') /\ (Reading(s) => Reading(s)')
      BY <2>1, <2>3 DEF Told, Reading
    <3>. QED BY <2>1, <2>4, <3>1 DEF CopyInv, WillAgree, Following
  <2>. QED BY <2>1, <2>2, <2>3, <2>4, <2>5, ClientStep DEF CopySound
<1>. QED BY <1>1, <1>2, <1>3, <1>4 DEF Next

\* A session that agrees is the same in the copy and on the server.
LEMMA AgreesIsEqual == ASSUME NEW s, Agrees(s) PROVE CopyOf(s) = Truth(s)
<1>1. \A n \in Node : Shows(nodes, n, s) <=> Shows(pane, n, s)
  BY DEF Agrees, SameFor, Shows
<1>2. Panes(nodes, s) = Panes(pane, s)
  BY <1>1 DEF Panes
<1>3. \A n \in Panes(nodes, s) : nodes[n] = pane[n]
  BY DEF Agrees, SameFor, Panes
<1>4. [n \in Panes(nodes, s) |-> nodes[n].b] = [n \in Panes(pane, s) |-> pane[n].b]
  BY <1>2, <1>3
<1>5. (s \in sessions) = (s \in live)
  BY DEF Agrees
<1>. QED BY <1>4, <1>5 DEF CopyOf, Truth

\* For any sessions, panes, buffers, number of changes and tasks, and whatever the
\* order of the broadcasts and the pace of the client: a session that a subscribed
\* client has wrong is one whose event is on its way or that it has begun to read,
\* or one whose change was never broadcast because its requester had hung up.
THEOREM StaleIsRead == Spec => []StaleIsNotified
<1>1. CopyInv => StaleIsNotified
  <2> SUFFICES ASSUME CopyInv, Following, NEW s \in Session, CopyOf(s) # Truth(s)
               PROVE  (\E e \in Events : e.about = {s})
                      \/ (\E i \in DOMAIN todo : todo[i] \in {Fetch("session", s), Fetch("sessions", 0)})
                      \/ s \in unheard
    BY DEF StaleIsNotified
  <2>1. ~Agrees(s)
    BY AgreesIsEqual
  <2>. QED BY <2>1 DEF CopyInv, WillAgree, Told, Reading
<1>. QED BY <1>1, CopyInit, CopyNext, PTL DEF Spec
=============================================================================
