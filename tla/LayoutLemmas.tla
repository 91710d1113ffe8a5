---------------------------- MODULE LayoutLemmas ----------------------------
(***************************************************************************)
(* Lemmas about the state of Layout and the operations on it, from which   *)
(* LayoutProofs proves its theorems.                                       *)
(*                                                                         *)
(* A state of ServerState is Sound when it is a Forest (typed, its child   *)
(* lists and parents agree, every tree has its owner, every container the  *)
(* children its kind needs, every index and every remembered node exists,  *)
(* and some rank rises from child to parent, so that walks end) and its    *)
(* buffers and views are Attached to each other.  Requests pass through    *)
(* states that are not sound: a detached node is a root nobody owns, a     *)
(* container under repair may have too few children, a view may wait for   *)
(* its buffer.  Forest(s, free, e) and Attached(s, V) name the exceptions: *)
(* free the roots without owner, e the container that may lack a child, V  *)
(* the views without buffer.  The lemma of an operation says which it      *)
(* takes and which it leaves.                                              *)
(* In order: lists, walks up and down the trees, focus and zoom, inserting *)
(* and removing nodes, containers and popups, and normalisation.           *)
(***************************************************************************)
EXTENDS Layout, FiniteSetTheorems, WellFoundedInduction, TLAPS

-----------------------------------------------------------------------------
(* Lists *)

\* A set of numbers that is not empty has a least member. A claim about every
\* number follows from it: a least counterexample cannot exist.
LEMMA NatMin ==
    ASSUME NEW X \in SUBSET Nat, X # {}
    PROVE  \E x \in X : \A y \in X : x <= y
<1>1. IsWellFoundedOn(OpToRel(<, Nat), Nat)
  BY NatLessThanWellFounded
<1>2. PICK x \in X : \A y \in X : ~ (<<y, x>> \in OpToRel(<, Nat))
  BY <1>1, WFMin
<1>3. \A y \in X : ~ (y < x)
  BY <1>2 DEF OpToRel
<1>. QED BY <1>3

Distinct(list) == \A i, j \in DOMAIN list : list[i] = list[j] => i = j

\* An entry of a list has a position in it.
LEMMA PositionIs ==
    ASSUME NEW s \in Seq(Nat), NEW x \in ToSet(s)
    PROVE  /\ Position(s, x) \in 0 .. Len(s) - 1 /\ Position(s, x) + 1 \in DOMAIN s
           /\ s[Position(s, x) + 1] = x /\ TabAt(s, Position(s, x)) = x
<1>1. \E i \in DOMAIN s : s[i] = x
  BY DEF ToSet
<1> DEFINE c == CHOOSE i \in DOMAIN s : s[i] = x
<1>2. c \in DOMAIN s /\ s[c] = x
  BY <1>1
<1>3. Position(s, x) = c - 1
  BY DEF Position
<1>4. DOMAIN s = 1 .. Len(s) /\ Len(s) \in Nat
  OBVIOUS
<1> HIDE DEF c
<1>5. c \in Nat /\ c - 1 + 1 = c
  BY <1>2, <1>4
<1>. QED BY <1>2, <1>3, <1>4, <1>5 DEF TabAt

\* The entries of two lists one after the other.
LEMMA ConcatIs ==
    ASSUME NEW s \in Seq(Nat), NEW t \in Seq(Nat)
    PROVE  /\ s \o t \in Seq(Nat) /\ Len(s \o t) = Len(s) + Len(t)
           /\ \A j \in 1 .. Len(s) + Len(t) :
                (s \o t)[j] = IF j <= Len(s) THEN s[j] ELSE t[j - Len(s)]
  OBVIOUS

\* The same for entries of any kind, and a list of one.
LEMMA ConcatIn ==
    ASSUME NEW S, NEW s \in Seq(S), NEW t \in Seq(S)
    PROVE  /\ s \o t \in Seq(S) /\ Len(s \o t) = Len(s) + Len(t)
           /\ \A j \in 1 .. Len(s) + Len(t) :
                (s \o t)[j] = IF j <= Len(s) THEN s[j] ELSE t[j - Len(s)]
  OBVIOUS

\* A list with one entry.
LEMMA OneEntry ==
    ASSUME NEW S, NEW x \in S
    PROVE  <<x>> \in Seq(S) /\ Len(<<x>>) = 1 /\ <<x>>[1] = x
  OBVIOUS

\* What is left when an entry is taken out.
LEMMA RemovedAtIs ==
    ASSUME NEW s \in Seq(Nat), NEW i \in 0 .. Len(s) - 1
    PROVE  /\ RemovedAt(s, i) \in Seq(Nat) /\ Len(RemovedAt(s, i)) = Len(s) - 1
           /\ \A j \in 1 .. Len(s) - 1 :
                RemovedAt(s, i)[j] = IF j <= i THEN s[j] ELSE s[j + 1]
<1> DEFINE a == SubSeq(s, 1, i)
           b == SubSeq(s, i + 2, Len(s))
<1>1. a \in Seq(Nat) /\ Len(a) = i /\ \A j \in 1 .. i : a[j] = s[j]
  OBVIOUS
<1>2. b \in Seq(Nat) /\ Len(b) = Len(s) - i - 1 /\ \A j \in 1 .. Len(s) - i - 1 : b[j] = s[j + i + 1]
  OBVIOUS
<1>3. RemovedAt(s, i) = a \o b
  <2>1. (i + 1) - 1 = i /\ (i + 1) + 1 = i + 2
    OBVIOUS
  <2>. QED BY <2>1, Zenon DEF RemovedAt, RemoveAt
<1> HIDE DEF a, b
<1> DEFINE r == a \o b
<1>4. /\ r \in Seq(Nat) /\ Len(r) = Len(s) - 1
      /\ \A j \in 1 .. Len(s) - 1 : r[j] = IF j <= i THEN a[j] ELSE b[j - i]
  <2>1. /\ r \in Seq(Nat) /\ Len(r) = Len(a) + Len(b)
        /\ \A j \in 1 .. Len(a) + Len(b) : r[j] = IF j <= Len(a) THEN a[j] ELSE b[j - Len(a)]
    BY <1>1, <1>2, ConcatIs, Zenon
  <2> HIDE DEF r
  <2>2. Len(a) + Len(b) = Len(s) - 1
    BY <1>1, <1>2
  <2>. QED BY <1>1, <2>1, <2>2, Zenon
<1> HIDE DEF r
<1>5. ASSUME NEW j \in 1 .. Len(s) - 1 PROVE r[j] = IF j <= i THEN s[j] ELSE s[j + 1]
  <2>1. CASE j <= i
    BY <1>1, <1>4, <2>1
  <2>2. CASE j > i
    <3>1. j - i \in 1 .. Len(s) - i - 1 /\ (j - i) + i + 1 = j + 1
      BY <2>2
    <3>. QED BY <1>2, <1>4, <2>2, <3>1
  <2>. QED BY <2>1, <2>2
<1>. QED BY <1>3, <1>4, <1>5 DEF r

\* A list that has an entry more.
LEMMA InsertedAtIs ==
    ASSUME NEW s \in Seq(Nat), NEW i \in 0 .. Len(s), NEW x \in Nat
    PROVE  /\ InsertedAt(s, i, x) \in Seq(Nat) /\ Len(InsertedAt(s, i, x)) = Len(s) + 1
           /\ \A j \in 1 .. Len(s) + 1 :
                InsertedAt(s, i, x)[j] = IF j <= i THEN s[j] ELSE IF j = i + 1 THEN x ELSE s[j - 1]
<1> DEFINE a == SubSeq(s, 1, i)
           b == SubSeq(s, i + 1, Len(s))
           c == a \o <<x>>
<1>1. a \in Seq(Nat) /\ Len(a) = i /\ \A j \in 1 .. i : a[j] = s[j]
  OBVIOUS
<1>2. b \in Seq(Nat) /\ Len(b) = Len(s) - i /\ \A j \in 1 .. Len(s) - i : b[j] = s[j + i]
  OBVIOUS
<1>3. InsertedAt(s, i, x) = c \o b
  <2>1. (i + 1) - 1 = i
    OBVIOUS
  <2>. QED BY <2>1, Zenon DEF InsertedAt, InsertAt
<1> HIDE DEF a, b
<1>4. c \in Seq(Nat) /\ Len(c) = i + 1 /\ \A j \in 1 .. i + 1 : c[j] = IF j <= i THEN s[j] ELSE x
  <2> DEFINE y == <<x>>
  <2>1. y \in Seq(Nat) /\ Len(y) = 1 /\ y[1] = x
    OBVIOUS
  <2> HIDE DEF y
  <2>2. c = a \o y
    BY DEF y
  <2>3. /\ c \in Seq(Nat) /\ Len(c) = i + 1
        /\ \A j \in 1 .. i + 1 : c[j] = IF j <= i THEN a[j] ELSE y[j - i]
    BY <1>1, <2>1, <2>2, ConcatIs
  <2>4. ASSUME NEW j \in 1 .. i + 1 PROVE c[j] = IF j <= i THEN s[j] ELSE x
    <3>1. CASE j <= i
      BY <1>1, <2>3, <3>1
    <3>2. CASE j > i
      <4>1. j - i = 1 /\ ~ (j <= i)
        BY <3>2
      <4>. QED BY <2>1, <2>3, <4>1
    <3> HIDE DEF c
    <3>. QED BY <3>1, <3>2
  <2>. QED BY <2>3, <2>4
<1> HIDE DEF c
<1> DEFINE r == c \o b
<1>5. /\ r \in Seq(Nat) /\ Len(r) = Len(s) + 1
      /\ \A j \in 1 .. Len(s) + 1 : r[j] = IF j <= i + 1 THEN c[j] ELSE b[j - (i + 1)]
  <2>1. /\ r \in Seq(Nat) /\ Len(r) = Len(c) + Len(b)
        /\ \A j \in 1 .. Len(c) + Len(b) : r[j] = IF j <= Len(c) THEN c[j] ELSE b[j - Len(c)]
    BY <1>2, <1>4, ConcatIs, Zenon
  <2> HIDE DEF r
  <2>2. Len(c) + Len(b) = Len(s) + 1
    BY <1>2, <1>4
  <2>. QED BY <1>4, <2>1, <2>2, Zenon
<1> HIDE DEF r
<1>6. ASSUME NEW j \in 1 .. Len(s) + 1
      PROVE  r[j] = IF j <= i THEN s[j] ELSE IF j = i + 1 THEN x ELSE s[j - 1]
  <2>1. CASE j <= i + 1
    BY <1>4, <1>5, <2>1
  <2>2. CASE j > i + 1
    <3>1. /\ j - (i + 1) \in 1 .. Len(s) - i /\ (j - (i + 1)) + i = j - 1
          /\ ~ (j <= i + 1) /\ ~ (j <= i) /\ j # i + 1
      BY <2>2
    <3>2. r[j] = b[j - (i + 1)]
      BY <1>5, <3>1
    <3>3. b[j - (i + 1)] = s[j - 1]
      BY <1>2, <3>1
    <3>. QED BY <3>1, <3>2, <3>3, Zenon
  <2>. QED BY <2>1, <2>2
<1>. QED BY <1>3, <1>5, <1>6 DEF r

\* A list of distinct entries without one of them.
LEMMA RemovedSet ==
    ASSUME NEW s \in Seq(Nat), Distinct(s), NEW x \in ToSet(s)
    PROVE  LET r == RemovedAt(s, Position(s, x))
           IN  /\ r \in Seq(Nat) /\ Len(r) = Len(s) - 1 /\ Distinct(r)
               /\ ToSet(r) = ToSet(s) \ {x}
<1> DEFINE r == RemovedAt(s, Position(s, x))
           p == Position(s, x)
<1>1. p \in 0 .. Len(s) - 1 /\ p + 1 \in DOMAIN s /\ s[p + 1] = x
  BY PositionIs
<1>2. /\ r \in Seq(Nat) /\ Len(r) = Len(s) - 1
      /\ \A j \in 1 .. Len(s) - 1 : r[j] = IF j <= p THEN s[j] ELSE s[j + 1]
  BY <1>1, RemovedAtIs, Zenon
<1> HIDE DEF r, p
<1>3. DOMAIN s = 1 .. Len(s) /\ DOMAIN r = 1 .. Len(s) - 1 /\ Len(s) \in Nat
  BY <1>2
<1> DEFINE at(j) == IF j <= p THEN j ELSE j + 1
<1>7. ASSUME NEW j \in DOMAIN r
      PROVE  at(j) \in DOMAIN s /\ at(j) # p + 1 /\ r[j] = s[at(j)]
  <2>1. at(j) \in DOMAIN s /\ at(j) # p + 1
    BY <1>1, <1>3
  <2>2. CASE j <= p
    BY <1>2, <1>3, <2>1, <2>2
  <2>3. CASE ~ (j <= p)
    <3>1. at(j) = j + 1 /\ j \in 1 .. Len(s) - 1
      BY <1>3, <2>3
    <3>2. r[j] = s[j + 1]
      BY <1>2, <2>3, <3>1
    <3>. QED BY <2>1, <3>1, <3>2
  <2>. QED BY <2>2, <2>3
<1>8. \A j, k \in DOMAIN r : at(j) = at(k) => j = k
  BY <1>1, <1>3
<1> HIDE DEF at
<1>4. Distinct(r)
  BY <1>7, <1>8 DEF Distinct
<1>5. ASSUME NEW y \in ToSet(r) PROVE y \in ToSet(s) \ {x}
  <2>1. PICK j \in DOMAIN r : y = r[j]
    BY DEF ToSet
  <2>2. y = s[at(j)] /\ at(j) \in DOMAIN s /\ at(j) # p + 1
    BY <1>7, <2>1
  <2>. QED BY <1>1, <2>2 DEF ToSet, Distinct
<1>6. ASSUME NEW y \in ToSet(s) \ {x} PROVE y \in ToSet(r)
  <2>1. PICK j \in DOMAIN s : y = s[j] /\ j # p + 1
    BY <1>1 DEF ToSet
  <2>2. CASE j <= p
    <3>1. j \in DOMAIN r /\ r[j] = y
      BY <1>1, <1>2, <1>3, <2>1, <2>2
    <3>. QED BY <3>1 DEF ToSet
  <2>3. CASE j > p
    <3>1. j - 1 \in DOMAIN r /\ ~ (j - 1 <= p) /\ (j - 1) + 1 = j
      BY <1>1, <1>3, <2>1, <2>3
    <3>2. r[j - 1] = y
      BY <1>2, <1>3, <2>1, <3>1
    <3>. QED BY <3>1, <3>2 DEF ToSet
  <2>. QED BY <1>1, <1>3, <2>1, <2>2, <2>3
<1>. QED BY <1>2, <1>4, <1>5, <1>6 DEF r, p

\* A list of distinct entries with another.
LEMMA InsertedSet ==
    ASSUME NEW s \in Seq(Nat), Distinct(s), NEW x \in Nat, x \notin ToSet(s),
           NEW p \in 0 .. Len(s)
    PROVE  LET r == InsertedAt(s, p, x)
           IN  /\ r \in Seq(Nat) /\ Len(r) = Len(s) + 1 /\ Distinct(r)
               /\ ToSet(r) = ToSet(s) \cup {x}
<1> DEFINE r == InsertedAt(s, p, x)
<1>2. /\ r \in Seq(Nat) /\ Len(r) = Len(s) + 1
      /\ \A j \in 1 .. Len(s) + 1 : r[j] = IF j <= p THEN s[j] ELSE IF j = p + 1 THEN x ELSE s[j - 1]
  BY InsertedAtIs, Zenon
<1> HIDE DEF r
<1>3. DOMAIN s = 1 .. Len(s) /\ DOMAIN r = 1 .. Len(s) + 1 /\ Len(s) \in Nat
  BY <1>2
<1>0. \A j \in DOMAIN s : s[j] # x
  BY DEF ToSet
<1> DEFINE at(j) == IF j <= p THEN j ELSE j - 1
<1>7. ASSUME NEW j \in DOMAIN r, j # p + 1 PROVE at(j) \in DOMAIN s /\ r[j] = s[at(j)]
  <2>1. at(j) \in DOMAIN s
    BY <1>3, <1>7
  <2>2. CASE j <= p
    BY <1>2, <1>3, <2>1, <2>2
  <2>3. CASE ~ (j <= p)
    <3>1. at(j) = j - 1 /\ j \in 1 .. Len(s) + 1
      BY <1>3, <2>3
    <3>2. r[j] = s[j - 1]
      BY <1>2, <1>7, <2>3, <3>1
    <3>. QED BY <2>1, <3>1, <3>2
  <2>. QED BY <2>2, <2>3
<1>8. \A j, k \in DOMAIN r : j # p + 1 /\ k # p + 1 /\ at(j) = at(k) => j = k
  BY <1>3
<1>9. \A j \in DOMAIN r : j = p + 1 => r[j] = x
  BY <1>2, <1>3
<1> HIDE DEF at
<1>4. Distinct(r)
  BY <1>0, <1>7, <1>8, <1>9 DEF Distinct
<1>5. ASSUME NEW y \in ToSet(r) PROVE y \in ToSet(s) \cup {x}
  BY <1>7, <1>9 DEF ToSet
<1>6. ASSUME NEW y \in ToSet(s) \cup {x} PROVE y \in ToSet(r)
  <2>0. CASE y = x
    <3>1. p + 1 \in DOMAIN r /\ r[p + 1] = x
      BY <1>2, <1>3
    <3>. QED BY <2>0, <3>1 DEF ToSet
  <2>a. ASSUME y # x PROVE y \in ToSet(r)
    <3>1. PICK j \in DOMAIN s : y = s[j]
      BY <2>a DEF ToSet
    <3>2. CASE j <= p
      <4>1. j \in DOMAIN r /\ r[j] = y
        BY <1>2, <1>3, <3>1, <3>2
      <4>. QED BY <4>1 DEF ToSet
    <3>3. CASE j > p
      <4>1. j + 1 \in DOMAIN r /\ ~ (j + 1 <= p) /\ j + 1 # p + 1 /\ (j + 1) - 1 = j
        BY <1>3, <3>1, <3>3
      <4>2. r[j + 1] = y
        BY <1>2, <1>3, <3>1, <4>1
      <4>. QED BY <4>1, <4>2 DEF ToSet
    <3>. QED BY <1>3, <3>1, <3>2, <3>3
  <2>. QED BY <2>0, <2>a
<1>. QED BY <1>2, <1>4, <1>5, <1>6 DEF r

\* A list of distinct entries in which one takes the place of another.
LEMMA ReplacedSet ==
    ASSUME NEW s \in Seq(Nat), Distinct(s), NEW x \in Nat, x \notin ToSet(s),
           NEW old \in ToSet(s)
    PROVE  LET r == ReplaceAt(s, Position(s, old) + 1, x)
           IN  /\ r \in Seq(Nat) /\ Len(r) = Len(s) /\ Distinct(r)
               /\ ToSet(r) = (ToSet(s) \ {old}) \cup {x}
<1> DEFINE p == Position(s, old) + 1
           r == [s EXCEPT ![p] = x]
<1>1. p \in DOMAIN s /\ s[p] = old
  BY PositionIs
<1> HIDE DEF p
<1>2. r \in Seq(Nat) /\ Len(r) = Len(s) /\ DOMAIN r = DOMAIN s
  BY <1>1
<1>3. \A j \in DOMAIN s : r[j] = IF j = p THEN x ELSE s[j]
  BY <1>1
<1> HIDE DEF r
<1>4. Distinct(r)
  BY <1>1, <1>2, <1>3 DEF Distinct, ToSet
<1>5. ToSet(r) = (ToSet(s) \ {old}) \cup {x}
  <2>1. ASSUME NEW y \in ToSet(r) PROVE y \in (ToSet(s) \ {old}) \cup {x}
    BY <1>1, <1>2, <1>3 DEF Distinct, ToSet
  <2>2. ASSUME NEW y \in (ToSet(s) \ {old}) \cup {x} PROVE y \in ToSet(r)
    BY <1>1, <1>2, <1>3 DEF Distinct, ToSet
  <2>. QED BY <2>1, <2>2
<1>6. ReplaceAt(s, Position(s, old) + 1, x) = r
  BY DEF ReplaceAt, r, p
<1>. QED BY <1>2, <1>4, <1>5, <1>6

\* An empty list, and lists of one and two.
LEMMA ShortLists ==
    /\ <<>> \in Seq(Nat) /\ Len(<<>>) = 0 /\ Distinct(<<>>) /\ ToSet(<<>>) = {}
    /\ \A s \in Seq(Nat) : ToSet(s) = {} <=> s = <<>>
    /\ \A s \in Seq(Nat) : Len(s) = 0 <=> s = <<>>
    /\ \A x \in Nat : <<x>> \in Seq(Nat) /\ Len(<<x>>) = 1 /\ Distinct(<<x>>) /\ ToSet(<<x>>) = {x}
    /\ \A x, y \in Nat : /\ <<x, y>> \in Seq(Nat) /\ Len(<<x, y>>) = 2 /\ ToSet(<<x, y>>) = {x, y}
                         /\ x # y => Distinct(<<x, y>>)
<1>1. <<>> \in Seq(Nat) /\ Len(<<>>) = 0 /\ Distinct(<<>>) /\ ToSet(<<>>) = {}
  BY DEF Distinct, ToSet
<1>2. ASSUME NEW s \in Seq(Nat) PROVE (Len(s) = 0 <=> s = <<>>) /\ (ToSet(s) = {} <=> s = <<>>)
  <2>1. Len(s) = 0 <=> s = <<>>
    OBVIOUS
  <2>2. ASSUME Len(s) # 0 PROVE ToSet(s) # {}
    <3>1. 1 \in DOMAIN s
      BY <2>2
    <3>2. s[1] \in ToSet(s)
      BY <3>1 DEF ToSet
    <3>. QED BY <3>2
  <2>. QED BY <1>1, <2>1, <2>2
<1>3. ASSUME NEW x \in Nat
      PROVE  <<x>> \in Seq(Nat) /\ Len(<<x>>) = 1 /\ Distinct(<<x>>) /\ ToSet(<<x>>) = {x}
  BY DEF Distinct, ToSet
<1>4. ASSUME NEW x \in Nat, NEW y \in Nat
      PROVE  /\ <<x, y>> \in Seq(Nat) /\ Len(<<x, y>>) = 2 /\ ToSet(<<x, y>>) = {x, y}
             /\ x # y => Distinct(<<x, y>>)
  BY DEF Distinct, ToSet
<1>. QED BY <1>1, <1>2, <1>3, <1>4

\* A list of distinct entries that does without one.
LEMMA WithoutIs ==
    ASSUME NEW s \in Seq(Nat), Distinct(s), NEW x
    PROVE  Without(s, x) \in Seq(Nat) /\ Distinct(Without(s, x)) /\ ToSet(Without(s, x)) = ToSet(s) \ {x}
<1>1. CASE x \in ToSet(s)
  BY <1>1, RemovedSet DEF Without
<1>2. CASE x \notin ToSet(s)
  BY <1>2 DEF Without
<1>. QED BY <1>1, <1>2

-----------------------------------------------------------------------------
(* The invariant *)

NodeType == [kind : {"view", "split", "tabs"}, sess : Nat, parent : Nat, kids : Seq(Nat),
             sizes : Seq(Nat), active : Nat, last : Nat, buf : Nat, focused : BOOLEAN]
FloatType == [sess : Nat, root : Nat, focused : BOOLEAN, last : Nat]
BufferType == [att : Nat, ever : BOOLEAN, exited : BOOLEAN]

IsSession(x) ==
    /\ DOMAIN x = {"root", "floats", "leaf", "float", "zoom", "history"}
    /\ x.root \in Nat /\ x.floats \in Seq(Nat)

Shape(s) ==
    DOMAIN s = {"nodes", "sessions", "floats", "buffers", "nextNode", "nextSession", "nextFloat"}

\* The parts of a state have their types, and the ids in use were given out.
IsState(s) ==
    /\ Shape(s) /\ s.nextNode \in Nat \ {0} /\ s.nextSession \in Nat \ {0} /\ s.nextFloat \in Nat \ {0}
    /\ s.nodes \in [DOMAIN s.nodes -> NodeType] /\ DOMAIN s.nodes \subseteq 1 .. s.nextNode - 1
    /\ s.sessions = [sid \in DOMAIN s.sessions |-> s.sessions[sid]]
    /\ \A sid \in DOMAIN s.sessions : IsSession(s.sessions[sid]) /\ sid \in 1 .. s.nextSession - 1
    /\ s.floats \in [DOMAIN s.floats -> FloatType] /\ DOMAIN s.floats \subseteq 1 .. s.nextFloat - 1
    /\ s.buffers \in [DOMAIN s.buffers -> BufferType] /\ DOMAIN s.buffers \subseteq Buffers

Kids(s, n) == ToSet(s.nodes[n].kids)

\* Children and parents name each other, and are of one session.
Linked(s) ==
    \A n \in DOMAIN s.nodes :
        /\ s.nodes[n].sess \in DOMAIN s.sessions
        /\ s.nodes[n].parent # None =>
              /\ s.nodes[n].parent \in DOMAIN s.nodes
              /\ n \in Kids(s, s.nodes[n].parent)
              /\ s.nodes[s.nodes[n].parent].sess = s.nodes[n].sess
        /\ Distinct(s.nodes[n].kids)
        /\ \A k \in Kids(s, n) : k \in DOMAIN s.nodes /\ s.nodes[k].parent = n

SessionRoots(s) == {s.sessions[sid].root : sid \in DOMAIN s.sessions}
FloatRoots(s) == {s.floats[f].root : f \in DOMAIN s.floats}

\* The nodes without a parent are the roots of sessions and popups, each held
\* once, and the free ones.
Rooted(s, free) ==
    /\ \A n \in DOMAIN s.nodes :
          s.nodes[n].parent = None <=> n \in SessionRoots(s) \/ n \in FloatRoots(s) \/ n \in free
    /\ free \subseteq DOMAIN s.nodes
    /\ \A n \in free : n \notin SessionRoots(s) /\ n \notin FloatRoots(s)
    /\ \A sid \in DOMAIN s.sessions :
          LET session == s.sessions[sid]
          IN  /\ session.root \in DOMAIN s.nodes
              /\ s.nodes[session.root].kind = "tabs" /\ s.nodes[session.root].sess = sid
              /\ Distinct(session.floats)
              /\ ToSet(session.floats) = {f \in DOMAIN s.floats : s.floats[f].sess = sid}
    /\ \A f \in DOMAIN s.floats :
          LET float == s.floats[f]
          IN  /\ float.root \in DOMAIN s.nodes /\ float.root \notin SessionRoots(s)
              /\ float.sess \in DOMAIN s.sessions /\ s.nodes[float.root].sess = float.sess
              /\ \A g \in DOMAIN s.floats : s.floats[g].root = float.root => g = f

\* How many children a container has; the one that just lost a child, or is not
\* done getting them, may have one less.
Shaped(s, e) ==
    \A n \in DOMAIN s.nodes :
        LET node == s.nodes[n]
            less == IF n = e THEN 1 ELSE 0
        IN  /\ node.kind = "view" => node.kids = <<>>
            /\ node.kind = "split" => Len(node.kids) + less >= 2 /\ Len(node.sizes) = Len(node.kids)
            /\ node.kind # "split" => node.sizes = <<>>
            /\ node.kind = "tabs" /\ n \notin SessionRoots(s) =>
                  Len(node.kids) + less >= IF n \in FloatRoots(s) THEN 1 ELSE 2

\* The active tab exists, if there is any.
Pointed(s) ==
    \A n \in DOMAIN s.nodes : s.nodes[n].kind = "tabs" =>
        s.nodes[n].active < Len(s.nodes[n].kids) \/ (s.nodes[n].kids = <<>> /\ s.nodes[n].active = 0)

\* What was focused last is a view for as long as it exists.
Remembered(s) ==
    /\ \A n \in DOMAIN s.nodes : LET last == s.nodes[n].last
         IN  last < s.nextNode /\ (last \in DOMAIN s.nodes => s.nodes[last].kind = "view")
    /\ \A f \in DOMAIN s.floats : LET last == s.floats[f].last
         IN  last < s.nextNode /\ (last \in DOMAIN s.nodes => s.nodes[last].kind = "view")

\* The popup a session points at is its own for as long as it exists.
Owned(s) ==
    \A sid \in DOMAIN s.sessions : LET float == s.sessions[sid].float
        IN  float \in 0 .. s.nextFloat - 1 /\ (float \in DOMAIN s.floats => s.floats[float].sess = sid)

Ranked(s) ==
    \E top \in Nat : \E rank \in [DOMAIN s.nodes -> 0 .. top] :
        \A n \in DOMAIN s.nodes : s.nodes[n].parent # None => rank[n] < rank[s.nodes[n].parent]

Forest(s, free, e) ==
    /\ IsState(s) /\ Linked(s) /\ Rooted(s, free) /\ Shaped(s, e) /\ Pointed(s)
    /\ Remembered(s) /\ Owned(s) /\ Ranked(s)

Attached(s, V) ==
    /\ \A b \in DOMAIN s.buffers : s.buffers[b].att # None =>
          /\ s.buffers[b].att \in DOMAIN s.nodes /\ s.nodes[s.buffers[b].att].kind = "view"
          /\ s.nodes[s.buffers[b].att].buf = b
    /\ \A n \in DOMAIN s.nodes : s.nodes[n].kind = "view" /\ n \notin V =>
          s.nodes[n].buf \in DOMAIN s.buffers /\ s.buffers[s.nodes[n].buf].att = n


-----------------------------------------------------------------------------
(* Recursion *)

\* The children of a node that there are.
Kin(s, n) == Kids(s, n) \cap DOMAIN s.nodes

\* What is under each node, as Below defines it.
IsUnder(g, s, D) == g = [m \in D |-> {m} \cup UNION {g[k] : k \in Kin(s, m)}]

\* Sizes go down from parents to children, so the recursion of Below ends.
LEMMA UnderExists ==
    ASSUME NEW s, IsState(s), Linked(s), Ranked(s)
    PROVE  \E g : IsUnder(g, s, DOMAIN s.nodes)
<1>1. PICK top \in Nat : \E rank \in [DOMAIN s.nodes -> 0 .. top] :
        \A n \in DOMAIN s.nodes : s.nodes[n].parent # None => rank[n] < rank[s.nodes[n].parent]
  BY DEF Ranked
<1>2. PICK rank \in [DOMAIN s.nodes -> 0 .. top] :
        \A n \in DOMAIN s.nodes : s.nodes[n].parent # None => rank[n] < rank[s.nodes[n].parent]
  BY <1>1
<1> DEFINE D == DOMAIN s.nodes
           Low(k) == {m \in D : rank[m] < k}
           Bad == {k \in Nat : ~ \E g : IsUnder(g, s, Low(k))}
<1>3. \A m \in D : \A c \in Kin(s, m) : c \in D /\ rank[c] < rank[m]
  BY <1>2 DEF Linked, None, IsState, Kin
<1>0. \A m \in D : rank[m] \in Nat /\ rank[m] < top + 1
  BY <1>2
<1>4. Bad = {}
  <2> SUFFICES ASSUME Bad # {} PROVE FALSE
    OBVIOUS
  <2>1. PICK k \in Bad : \A j \in Bad : k <= j
    BY NatMin
  <2>2. k # 0
    <3>1. Low(0) = {}
      BY <1>0
    <3>2. IsUnder([m \in Low(0) |-> {}], s, Low(0))
      BY <3>1 DEF IsUnder
    <3>. QED BY <2>1, <3>2
  <2>3. PICK g : IsUnder(g, s, Low(k - 1))
    BY <2>1, <2>2
  <2> DEFINE h == [m \in Low(k) |-> {m} \cup UNION {g[c] : c \in Kin(s, m)}]
  <2>4. \A m \in Low(k) : \A c \in Kin(s, m) : c \in Low(k - 1)
    BY <1>0, <1>3, <2>1
  <2>5. \A c \in Low(k - 1) : c \in Low(k)
    BY <1>0, <2>1
  <2>6. \A c \in Low(k - 1) : g[c] = {c} \cup UNION {g[d] : d \in Kin(s, c)}
    BY <2>3 DEF IsUnder
  <2> HIDE DEF Low, Bad
  <2>7. \A m \in Low(k) : \A c \in Kin(s, m) : h[c] = g[c]
    BY <2>4, <2>5, <2>6
  <2>8. \A m \in Low(k) : UNION {h[c] : c \in Kin(s, m)} = UNION {g[c] : c \in Kin(s, m)}
    BY <2>7
  <2>9. h = [m \in Low(k) |-> {m} \cup UNION {h[c] : c \in Kin(s, m)}]
    <3>1. \A m \in Low(k) : h[m] = {m} \cup UNION {h[c] : c \in Kin(s, m)}
      BY <2>8
    <3>2. h = [m \in Low(k) |-> h[m]]
      OBVIOUS
    <3> HIDE DEF h
    <3>. QED BY <3>1, <3>2
  <2>10. \E x : IsUnder(x, s, Low(k))
    BY <2>9 DEF IsUnder
  <2>. QED BY <2>1, <2>10 DEF Bad
<1>5. Low(top + 1) = D
  BY <1>0
<1>6. \E g : IsUnder(g, s, Low(top + 1))
  BY <1>4
<1>. QED BY <1>5, <1>6

\* What Below gives.
LEMMA BelowIs ==
    ASSUME NEW s, IsState(s), Linked(s), Ranked(s), NEW n \in DOMAIN s.nodes
    PROVE  Below(s, n) = {n} \cup UNION {Below(s, k) : k \in Kids(s, n)}
<1> DEFINE u == CHOOSE g : IsUnder(g, s, DOMAIN s.nodes)
<1>1. \A m : Below(s, m) = u[m]
  BY DEF Below, IsUnder, Kids, Kin
<1>2. IsUnder(u, s, DOMAIN s.nodes)
  BY UnderExists
<1> HIDE DEF u
<1>3. Kin(s, n) = Kids(s, n)
  BY DEF Kin, Linked
<1>4. u[n] = {n} \cup UNION {u[k] : k \in Kin(s, n)}
  BY <1>2 DEF IsUnder
<1>. QED BY <1>1, <1>3, <1>4

\* Among any nodes there is one whose parent, and one whose children, are not
\* among them: claims about trees are proved from the leaves or from the roots.
LEMMA Grounded ==
    ASSUME NEW s, IsState(s), Linked(s), Ranked(s), NEW X \in SUBSET DOMAIN s.nodes, X # {}
    PROVE  /\ \E n \in X : s.nodes[n].parent \notin X
           /\ \E n \in X : Kids(s, n) \cap X = {}
<1>1. PICK top \in Nat : \E rank \in [DOMAIN s.nodes -> 0 .. top] :
        \A n \in DOMAIN s.nodes : s.nodes[n].parent # None => rank[n] < rank[s.nodes[n].parent]
  BY DEF Ranked
<1>2. PICK rank \in [DOMAIN s.nodes -> 0 .. top] :
        \A n \in DOMAIN s.nodes : s.nodes[n].parent # None => rank[n] < rank[s.nodes[n].parent]
  BY <1>1
<1>3. \A n \in X : n \in DOMAIN s.nodes /\ rank[n] \in Nat /\ rank[n] <= top /\ n # None
  BY <1>2 DEF IsState, None
<1>4. \E n \in X : Kids(s, n) \cap X = {}
  <2> DEFINE R == {rank[n] : n \in X}
  <2>1. R \in SUBSET Nat /\ R # {}
    BY <1>3
  <2>2. PICK x \in R : \A y \in R : x <= y
    BY <2>1, NatMin
  <2>3. PICK n \in X : x = rank[n]
    BY <2>2
  <2>4. \A m \in X : rank[n] <= rank[m]
    BY <2>2, <2>3
  <2>5. \A k \in Kids(s, n) : k \in DOMAIN s.nodes /\ s.nodes[k].parent = n
    BY <1>3 DEF Linked
  <2>6. \A k \in Kids(s, n) \cap X : rank[k] < rank[n]
    BY <1>2, <1>3, <2>5
  <2>7. \A k \in Kids(s, n) \cap X : FALSE
    BY <1>3, <2>4, <2>6
  <2>. QED BY <2>7
<1>5. \E n \in X : s.nodes[n].parent \notin X
  <2> DEFINE R == {top - rank[n] : n \in X}
  <2>1. R \in SUBSET Nat /\ R # {}
    BY <1>3
  <2>2. PICK x \in R : \A y \in R : x <= y
    BY <2>1, NatMin
  <2>3. PICK n \in X : x = top - rank[n]
    BY <2>2
  <2>4. \A m \in X : rank[m] <= rank[n]
    BY <1>3, <2>2, <2>3
  <2>5. ASSUME s.nodes[n].parent \in X PROVE FALSE
    BY <1>2, <1>3, <2>4, <2>5
  <2>. QED BY <2>5
<1>. QED BY <1>4, <1>5

\* What is under a node: the node, with everything its children lead to, nothing
\* else, all of one session, in a tree that only the node itself leaves upwards.
LEMMA BelowFacts ==
    ASSUME NEW s, IsState(s), Linked(s), Ranked(s), NEW n \in DOMAIN s.nodes
    PROVE  /\ n \in Below(s, n) /\ Below(s, n) \subseteq DOMAIN s.nodes
           /\ \A m \in Below(s, n) : Kids(s, m) \subseteq Below(s, n)
           /\ \A m \in Below(s, n) : m = n \/ s.nodes[m].parent \in Below(s, n)
           /\ \A m \in Below(s, n) : s.nodes[m].sess = s.nodes[n].sess
           /\ Kids(s, n) = {} => Below(s, n) = {n}
<1> DEFINE D == DOMAIN s.nodes
           Good(m) == /\ Below(s, m) \subseteq D
                      /\ \A x \in Below(s, m) : Kids(s, x) \subseteq Below(s, m)
                      /\ \A x \in Below(s, m) : x = m \/ s.nodes[x].parent \in Below(s, m)
                      /\ \A x \in Below(s, m) : s.nodes[x].sess = s.nodes[m].sess
           Bad == {m \in D : ~ Good(m)}
<1>1. \A m \in D : Below(s, m) = {m} \cup UNION {Below(s, k) : k \in Kids(s, m)}
  BY BelowIs
<1>2. \A m \in D : m \in Below(s, m)
  BY <1>1
<1>3. \A m \in D : \A k \in Kids(s, m) : /\ k \in D /\ s.nodes[k].parent = m
                                        /\ s.nodes[k].sess = s.nodes[m].sess
  BY DEF Linked, IsState, None
<1>4. ASSUME NEW m \in D, \A k \in Kids(s, m) : Good(k) PROVE Good(m)
  <2>1. \A x \in Below(s, m) : x = m \/ \E k \in Kids(s, m) : x \in Below(s, k)
    BY <1>1
  <2>2. \A k \in Kids(s, m) : Below(s, k) \subseteq Below(s, m)
    BY <1>1
  <2>3. Below(s, m) \subseteq D
    BY <1>3, <1>4, <2>1
  <2>4. ASSUME NEW x \in Below(s, m)
        PROVE  /\ Kids(s, x) \subseteq Below(s, m)
               /\ x = m \/ s.nodes[x].parent \in Below(s, m)
               /\ s.nodes[x].sess = s.nodes[m].sess
    <3>1. CASE x = m
      BY <1>2, <1>3, <2>2, <3>1
    <3>2. ASSUME NEW k \in Kids(s, m), x \in Below(s, k)
          PROVE  /\ Kids(s, x) \subseteq Below(s, m)
                 /\ s.nodes[x].parent \in Below(s, m)
                 /\ s.nodes[x].sess = s.nodes[m].sess
      <4>1. Good(k) /\ Below(s, k) \subseteq Below(s, m)
        BY <1>4, <2>2, <3>2
      <4>2. x = k => s.nodes[x].parent = m
        BY <1>3
      <4>. QED BY <1>2, <1>3, <3>2, <4>1, <4>2
    <3>. QED BY <2>1, <3>1, <3>2
  <2>. QED BY <2>3, <2>4
<1>5. Bad = {}
  <2> SUFFICES ASSUME Bad # {} PROVE FALSE
    OBVIOUS
  <2>0. Bad \in SUBSET DOMAIN s.nodes
    OBVIOUS
  <2> HIDE DEF Good, Bad
  <2>1. PICK m \in Bad : Kids(s, m) \cap Bad = {}
    BY <2>0, Grounded
  <2>2. m \in D /\ ~ Good(m) /\ \A k \in Kids(s, m) : Good(k)
    BY <1>3, <2>0, <2>1 DEF Bad
  <2>. QED BY <1>4, <2>2
<1> HIDE DEF Good
<1>6. Good(n)
  BY <1>5
<1> USE DEF Good
<1>7. Kids(s, n) = {} => Below(s, n) = {n}
  BY <1>1
<1>. QED BY <1>2, <1>6, <1>7

\* Nothing more is under a node than any set that holds it and is closed under
\* children has.
LEMMA BelowLeast ==
    ASSUME NEW s, IsState(s), Linked(s), Ranked(s), NEW n \in DOMAIN s.nodes, NEW X,
           n \in X, \A m \in X \cap DOMAIN s.nodes : Kids(s, m) \subseteq X
    PROVE  Below(s, n) \subseteq X
<1> DEFINE Y == Below(s, n) \ X
<1>1. /\ Below(s, n) \subseteq DOMAIN s.nodes
      /\ \A m \in Below(s, n) : m = n \/ s.nodes[m].parent \in Below(s, n)
  BY BelowFacts
<1> SUFFICES ASSUME Y # {} PROVE FALSE
  OBVIOUS
<1>2. PICK m \in Y : s.nodes[m].parent \notin Y
  BY <1>1, Grounded
<1>3. s.nodes[m].parent \in X /\ s.nodes[m].parent \in DOMAIN s.nodes
  BY <1>1, <1>2
<1>4. m \in Kids(s, s.nodes[m].parent)
  BY <1>1, <1>2, <1>3 DEF Linked, IsState, None
<1>. QED BY <1>2, <1>3, <1>4

\* In sound trees no walk meets a node that is gone.
LEMMA Unsevered ==
    ASSUME NEW s, IsState(s), Linked(s), Ranked(s), NEW n \in DOMAIN s.nodes
    PROVE  ~Severed(s, n) /\ \A m : ~Blocked(s, n, m)
<1>1. Below(s, n) \subseteq DOMAIN s.nodes
  BY BelowFacts
<1>2. \A m \in DOMAIN s.nodes : ToSet(s.nodes[m].kids) \subseteq DOMAIN s.nodes
  BY DEF Linked, Kids
<1>. QED BY <1>1, <1>2, Zenon DEF Severed, Blocked

\* The way up from each node, as PathUp defines it.
IsUp(g, s, D) ==
    g = [m \in D |-> IF s.nodes[m].parent = None THEN <<m>> ELSE <<m>> \o g[s.nodes[m].parent]]

\* Ranks go up from children to parents and stay below a bound, so the recursion
\* of PathUp ends.
LEMMA UpExists ==
    ASSUME NEW s, IsState(s), Linked(s), Ranked(s)
    PROVE  \E g : IsUp(g, s, DOMAIN s.nodes)
<1>1. PICK top \in Nat : \E rank \in [DOMAIN s.nodes -> 0 .. top] :
        \A n \in DOMAIN s.nodes : s.nodes[n].parent # None => rank[n] < rank[s.nodes[n].parent]
  BY DEF Ranked
<1>2. PICK rank \in [DOMAIN s.nodes -> 0 .. top] :
        \A n \in DOMAIN s.nodes : s.nodes[n].parent # None => rank[n] < rank[s.nodes[n].parent]
  BY <1>1
<1> DEFINE D == DOMAIN s.nodes
           High(k) == {m \in D : top - rank[m] < k}
           Bad == {k \in Nat : ~ \E g : IsUp(g, s, High(k))}
           up(g, m) == IF s.nodes[m].parent = None THEN <<m>> ELSE <<m>> \o g[s.nodes[m].parent]
<1>3. \A m \in D : s.nodes[m].parent # None =>
           s.nodes[m].parent \in D /\ rank[m] < rank[s.nodes[m].parent]
  BY <1>2 DEF Linked, None, IsState
<1>0. \A m \in D : rank[m] \in Nat /\ top - rank[m] \in Nat /\ top - rank[m] < top + 1
  BY <1>2
<1>4. Bad = {}
  <2> SUFFICES ASSUME Bad # {} PROVE FALSE
    OBVIOUS
  <2>1. PICK k \in Bad : \A j \in Bad : k <= j
    BY NatMin
  <2>2. k # 0
    <3>1. High(0) = {}
      BY <1>0
    <3>2. IsUp([m \in High(0) |-> {}], s, High(0))
      BY <3>1, Zenon DEF IsUp
    <3>. QED BY <2>1, <3>2
  <2>3. PICK g : IsUp(g, s, High(k - 1))
    <3>1. k - 1 \in Nat /\ ~ (k <= k - 1)
      BY <2>1, <2>2
    <3>2. k - 1 \notin Bad
      BY <2>1, <3>1
    <3>. QED BY <3>1, <3>2
  <2> DEFINE h == [m \in High(k) |-> up(g, m)]
  <2>4. \A m \in High(k) : s.nodes[m].parent # None => s.nodes[m].parent \in High(k - 1)
    BY <1>0, <1>3, <2>1
  <2>5. \A c \in High(k - 1) : c \in High(k)
    BY <1>0, <2>1
  <2>6. \A c \in High(k - 1) : g[c] = up(g, c)
    BY <2>3, Zenon DEF IsUp
  <2> HIDE DEF High, Bad
  <2>7. \A m \in High(k) : s.nodes[m].parent # None => h[s.nodes[m].parent] = g[s.nodes[m].parent]
    <3> HIDE DEF up
    <3>. QED BY <2>4, <2>5, <2>6
  <2>8. \A m \in High(k) : h[m] = up(h, m)
    <3>1. ASSUME NEW m \in High(k) PROVE up(h, m) = up(g, m)
      <4> HIDE DEF h
      <4>. QED BY <2>7
    <3>2. \A m \in High(k) : h[m] = up(g, m)
      OBVIOUS
    <3> HIDE DEF h, up
    <3>. QED BY <3>1, <3>2
  <2>9. h = [m \in High(k) |-> up(h, m)]
    <3>2. h = [m \in High(k) |-> h[m]]
      OBVIOUS
    <3> HIDE DEF h, up
    <3>. QED BY <2>8, <3>2
  <2>10. \E x : IsUp(x, s, High(k))
    BY <2>9 DEF IsUp
  <2>. QED BY <2>1, <2>10 DEF Bad
<1>5. High(top + 1) = D
  BY <1>0
<1>6. \E g : IsUp(g, s, High(top + 1))
  <2>1. top + 1 \in Nat
    OBVIOUS
  <2>2. top + 1 \notin Bad
    BY <1>4
  <2>. QED BY <2>1, <2>2
<1>. QED BY <1>5, <1>6

\* What PathUp gives.
LEMMA PathUpIs ==
    ASSUME NEW s, IsState(s), Linked(s), Ranked(s), NEW n \in DOMAIN s.nodes
    PROVE  PathUp(s, n) = IF s.nodes[n].parent = None THEN <<n>>
                          ELSE <<n>> \o PathUp(s, s.nodes[n].parent)
<1> DEFINE u == CHOOSE g : IsUp(g, s, DOMAIN s.nodes)
<1>1. \A m : PathUp(s, m) = u[m]
  BY DEF PathUp, IsUp
<1>2. IsUp(u, s, DOMAIN s.nodes)
  BY UpExists
<1> HIDE DEF u
<1>3. u[n] = IF s.nodes[n].parent = None THEN <<n>> ELSE <<n>> \o u[s.nodes[n].parent]
  BY <1>2 DEF IsUp
<1>. QED BY <1>1, <1>3

\* A list of nodes that starts at n and goes from each to its parent; and one that
\* goes on to the end.
IsChain(s, n, path) ==
    /\ path \in Seq(Nat) /\ Len(path) >= 1 /\ path[1] = n
    /\ \A i \in 1 .. Len(path) : path[i] \in DOMAIN s.nodes
    /\ \A i \in 1 .. Len(path) - 1 : s.nodes[path[i]].parent = path[i + 1]

IsPath(s, n, path) == IsChain(s, n, path) /\ s.nodes[path[Len(path)]].parent = None

\* A node before such a list.
LEMMA PathLonger ==
    ASSUME NEW s, NEW n \in DOMAIN s.nodes, n \in Nat, NEW p \in DOMAIN s.nodes, NEW path,
           IsPath(s, p, path), s.nodes[n].parent = p
    PROVE  IsPath(s, n, <<n>> \o path) /\ Last(<<n>> \o path) = Last(path)
<1> DEFINE a == <<n>>
           r == a \o path
<1>1. a \in Seq(Nat) /\ Len(a) = 1 /\ a[1] = n
  BY OneEntry, Zenon
<1>2. path \in Seq(Nat) /\ Len(path) \in Nat /\ Len(path) >= 1
  BY DEF IsPath, IsChain
<1> HIDE DEF a
<1>3. /\ r \in Seq(Nat) /\ Len(r) = Len(path) + 1
      /\ \A j \in 1 .. Len(path) + 1 : r[j] = IF j <= 1 THEN a[j] ELSE path[j - 1]
  <2>1. /\ r \in Seq(Nat) /\ Len(r) = Len(a) + Len(path)
        /\ \A j \in 1 .. Len(a) + Len(path) : r[j] = IF j <= Len(a) THEN a[j] ELSE path[j - Len(a)]
    BY <1>1, <1>2, ConcatIn, Zenon
  <2> HIDE DEF r
  <2>2. Len(a) + Len(path) = Len(path) + 1
    BY <1>1, <1>2
  <2>. QED BY <1>1, <2>1, <2>2, Zenon
<1> HIDE DEF r
<1>4. r[1] = n
  BY <1>1, <1>2, <1>3
<1>5. \A j \in 2 .. Len(path) + 1 : r[j] = path[j - 1]
  BY <1>2, <1>3
<1>6. ASSUME NEW i \in 1 .. Len(r) - 1 PROVE s.nodes[r[i]].parent = r[i + 1]
  <2>1. CASE i = 1
    <3>1. 2 \in 2 .. Len(path) + 1 /\ i + 1 = 2 /\ 2 - 1 = 1
      BY <1>2, <2>1
    <3>2. r[2] = path[1] /\ path[1] = p
      BY <1>5, <3>1 DEF IsPath, IsChain
    <3>. QED BY <1>4, <2>1, <3>1, <3>2
  <2>2. CASE i # 1
    <3>1. /\ i \in 2 .. Len(path) + 1 /\ i + 1 \in 2 .. Len(path) + 1
          /\ i - 1 \in 1 .. Len(path) - 1 /\ (i + 1) - 1 = (i - 1) + 1
      BY <1>2, <1>3, <2>2
    <3>2. r[i] = path[i - 1] /\ r[i + 1] = path[(i - 1) + 1]
      BY <1>5, <3>1
    <3>. QED BY <3>1, <3>2 DEF IsPath, IsChain
  <2>. QED BY <2>1, <2>2
<1>8. ASSUME NEW i \in 1 .. Len(r) PROVE r[i] \in DOMAIN s.nodes
  <2>1. i = 1 \/ (i \in 2 .. Len(path) + 1 /\ i - 1 \in 1 .. Len(path))
    BY <1>2, <1>3
  <2>. QED BY <1>4, <1>5, <2>1 DEF IsPath, IsChain
<1>7. r[Len(r)] = path[Len(path)]
  BY <1>2, <1>3, <1>5
<1>9. IsPath(s, n, r)
  BY <1>2, <1>3, <1>4, <1>6, <1>7, <1>8 DEF IsPath, IsChain
<1>. QED BY <1>7, <1>9 DEF Last, r, a

\* The way up from a node goes from child to parent, up to a node without one.
LEMMA PathUpFacts ==
    ASSUME NEW s, IsState(s), Linked(s), Ranked(s), NEW n \in DOMAIN s.nodes
    PROVE  IsPath(s, n, PathUp(s, n))
<1> DEFINE Bad == {m \in DOMAIN s.nodes : ~ IsPath(s, m, PathUp(s, m))}
<1>1. Bad \in SUBSET DOMAIN s.nodes
  OBVIOUS
<1> SUFFICES ASSUME Bad # {} PROVE FALSE
  OBVIOUS
<1>2. PICK m \in Bad : s.nodes[m].parent \notin Bad
  BY <1>1, Grounded
<1>3. CASE s.nodes[m].parent = None
  <2>1. PathUp(s, m) = <<m>>
    BY <1>2, <1>3, PathUpIs
  <2>2. IsPath(s, m, <<m>>)
    <3> DEFINE one == <<m>>
    <3>0. m \in DOMAIN s.nodes /\ m \in Nat
      BY <1>2 DEF IsState
    <3>1. one \in Seq(Nat) /\ Len(one) = 1 /\ one[1] = m
      BY <3>0, OneEntry, Zenon
    <3> HIDE DEF one
    <3>2. IsPath(s, m, one)
      BY <1>3, <3>0, <3>1 DEF IsPath, IsChain
    <3>. QED BY <3>2 DEF one
  <2>. QED BY <1>2, <2>1, <2>2
<1>4. CASE s.nodes[m].parent # None
  <2>1. s.nodes[m].parent \in DOMAIN s.nodes
    BY <1>2, <1>4 DEF Linked
  <2>2. IsPath(s, s.nodes[m].parent, PathUp(s, s.nodes[m].parent))
    BY <1>2, <2>1
  <2>3. PathUp(s, m) = <<m>> \o PathUp(s, s.nodes[m].parent)
    BY <1>2, <1>4, PathUpIs
  <2>4. m \in DOMAIN s.nodes /\ m \in Nat
    BY <1>2 DEF IsState
  <2>. QED BY <1>2, <2>1, <2>2, <2>3, <2>4, PathLonger
<1>. QED BY <1>3, <1>4

-----------------------------------------------------------------------------
(* What focusing a node lands on *)

\* A list by its entries.
LEMMA ListOf ==
    ASSUME NEW n \in Nat, NEW S, NEW list \in [1 .. n -> S]
    PROVE  list \in Seq(S) /\ Len(list) = n
  OBVIOUS

\* A set of numbers that is not empty has its Min.
LEMMA MinIs ==
    ASSUME NEW X \in SUBSET Nat, X # {}
    PROVE  Min(X) \in X /\ \A y \in X : Min(X) <= y
<1>1. \E x \in X : \A y \in X : x <= y
  BY NatMin
<1>. QED BY <1>1 DEF Min

\* The first entry that is not None is an entry, if there is any.
LEMMA FirstSomeIs ==
    ASSUME NEW list, NEW n \in Nat, Len(list) = n
    PROVE  /\ FirstSome(list) = None \/ \E i \in 1 .. n : FirstSome(list) = list[i] /\ list[i] # None
           /\ FirstSome(list) = None => \A i \in 1 .. n : list[i] = None
<1> DEFINE I == {i \in 1 .. Len(list) : list[i] # None}
<1>1. SelectInSeq(list, LAMBDA x : x # None) = IF I # {} THEN Min(I) ELSE 0
  BY DEF SelectInSeq
<1>2. I \in SUBSET Nat /\ \A i \in I : i \in 1 .. n /\ list[i] # None
  OBVIOUS
<1>3. I = {} => \A i \in 1 .. n : list[i] = None
  OBVIOUS
<1>4. CASE I = {}
  BY <1>1, <1>3, <1>4 DEF FirstSome
<1>5. CASE I # {}
  <2> HIDE DEF I
  <2>1. Min(I) \in I
    BY <1>2, <1>5, MinIs
  <2>2. FirstSome(list) = list[Min(I)]
    <3>1. Min(I) # 0
      BY <1>2, <2>1
    <3>. QED BY <1>1, <1>5, <3>1 DEF FirstSome
  <2>. QED BY <1>2, <2>1, <2>2
<1>. QED BY <1>4, <1>5

\* A container shows one of its children, if it has any.
LEMMA ShownKidIs ==
    ASSUME NEW node \in NodeType, \A k \in ToSet(node.kids) : k # None
    PROVE  /\ node.kids # <<>> => ShownKid(node) # None /\ ShownKid(node) \in ToSet(node.kids)
           /\ node.kids = <<>> => ShownKid(node) = None
<1>1. node.kids \in Seq(Nat) /\ node.active \in Nat
  BY DEF NodeType
<1> DEFINE l == node.kids
<1>2. \A i \in 1 .. Len(l) : l[i] \in ToSet(l)
  BY <1>1 DEF ToSet
<1>3. Len(l) \in Nat /\ (l = <<>> <=> Len(l) = 0)
  BY <1>1
<1>4. l # <<>> => Head(l) = l[1]
  BY <1>1
<1> HIDE DEF l
<1>5. CASE node.active < Len(l)
  <2>1. node.active + 1 \in 1 .. Len(l) /\ l # <<>>
    BY <1>1, <1>3, <1>5
  <2>2. ActiveKid(node) = l[node.active + 1]
    BY <1>5 DEF ActiveKid, TabAt, l
  <2>. QED BY <1>2, <2>1, <2>2 DEF ShownKid, l
<1>6. CASE ~ (node.active < Len(l))
  <2>1. ActiveKid(node) = None
    BY <1>6 DEF ActiveKid, l
  <2>2. l # <<>> => 1 \in 1 .. Len(l)
    BY <1>3
  <2>. QED BY <1>2, <1>4, <2>1, <2>2 DEF ShownKid, l
<1>. QED BY <1>5, <1>6

\* The choices at a list of nodes.
PicksAt(list, g) == [i \in DOMAIN list |-> g[list[i]]]

\* The choice at one node, from the choices at its children.
PickAt(g, s, m) ==
    CASE IsKind(s, m, "view") -> m
      [] IsKind(s, m, "split") ->
           IF s.nodes[m].last \in DOMAIN s.nodes /\ IsVisibleFrom(s, m, s.nodes[m].last)
           THEN s.nodes[m].last
           ELSE FirstSome(PicksAt(s.nodes[m].kids, g))
      [] OTHER ->
           IF ShownKid(s.nodes[m]) = None THEN None ELSE g[ShownKid(s.nodes[m])]

IsPick(g, s, D) == g = [m \in D |-> PickAt(g, s, m)]

\* The choice at a node only looks at its children.
LEMMA PickAtSame ==
    ASSUME NEW s, IsState(s), Linked(s), NEW m \in DOMAIN s.nodes, NEW g, NEW h,
           \A k \in Kids(s, m) : g[k] = h[k]
    PROVE  PickAt(g, s, m) = PickAt(h, s, m)
<1> DEFINE node == s.nodes[m]
<1>1. node \in NodeType /\ \A k \in ToSet(node.kids) : k # None
  <2>1. node \in NodeType /\ \A k \in DOMAIN s.nodes : k # 0
    BY DEF IsState
  <2>2. \A k \in Kids(s, m) : k \in DOMAIN s.nodes
    BY DEF Linked
  <2>. QED BY <2>1, <2>2 DEF Kids, None
<1>2. \A i \in DOMAIN node.kids : g[node.kids[i]] = h[node.kids[i]]
  BY DEF Kids, ToSet
<1>3. PicksAt(node.kids, g) = PicksAt(node.kids, h)
  BY <1>2 DEF PicksAt
<1>4. ShownKid(node) # None => g[ShownKid(node)] = h[ShownKid(node)]
  BY <1>1, ShownKidIs DEF Kids
<1>. QED BY <1>3, <1>4, Zenon DEF PickAt

\* The recursion of FocusCandidate ends.
LEMMA PickExists ==
    ASSUME NEW s, IsState(s), Linked(s), Ranked(s)
    PROVE  \E g : IsPick(g, s, DOMAIN s.nodes)
<1>1. PICK top \in Nat : \E rank \in [DOMAIN s.nodes -> 0 .. top] :
        \A n \in DOMAIN s.nodes : s.nodes[n].parent # None => rank[n] < rank[s.nodes[n].parent]
  BY DEF Ranked
<1>2. PICK rank \in [DOMAIN s.nodes -> 0 .. top] :
        \A n \in DOMAIN s.nodes : s.nodes[n].parent # None => rank[n] < rank[s.nodes[n].parent]
  BY <1>1
<1> DEFINE D == DOMAIN s.nodes
           Low(k) == {m \in D : rank[m] < k}
           Bad == {k \in Nat : ~ \E g : IsPick(g, s, Low(k))}
<1>3. \A m \in D : \A c \in Kids(s, m) : c \in D /\ rank[c] < rank[m]
  BY <1>2 DEF Linked, None, IsState
<1>0. \A m \in D : rank[m] \in Nat /\ rank[m] < top + 1
  BY <1>2
<1>4. Bad = {}
  <2> SUFFICES ASSUME Bad # {} PROVE FALSE
    OBVIOUS
  <2>1. PICK k \in Bad : \A j \in Bad : k <= j
    BY NatMin
  <2>2. k # 0
    <3>1. Low(0) = {}
      BY <1>0
    <3>2. IsPick([m \in Low(0) |-> {}], s, Low(0))
      BY <3>1 DEF IsPick
    <3>. QED BY <2>1, <3>2
  <2>3. PICK g : IsPick(g, s, Low(k - 1))
    <3>1. k - 1 \in Nat /\ ~ (k <= k - 1)
      BY <2>1, <2>2
    <3>2. k - 1 \notin Bad
      BY <2>1, <3>1
    <3>. QED BY <3>1, <3>2
  <2> DEFINE h == [m \in Low(k) |-> PickAt(g, s, m)]
  <2>4. \A m \in Low(k) : m \in D /\ \A c \in Kids(s, m) : c \in Low(k - 1)
    BY <1>0, <1>3, <2>1
  <2>5. \A c \in Low(k - 1) : c \in Low(k)
    BY <1>0, <2>1
  <2>6. \A c \in Low(k - 1) : g[c] = PickAt(g, s, c)
    BY <2>3 DEF IsPick
  <2> HIDE DEF Low, Bad
  <2>7. \A m \in Low(k) : \A c \in Kids(s, m) : g[c] = h[c]
    BY <2>4, <2>5, <2>6
  <2>8. \A m \in Low(k) : h[m] = PickAt(g, s, m)
    OBVIOUS
  <2>a. h = [m \in Low(k) |-> h[m]]
    OBVIOUS
  <2> HIDE DEF h
  <2>9. \A m \in Low(k) : h[m] = PickAt(h, s, m)
    <3>1. ASSUME NEW m \in Low(k) PROVE PickAt(g, s, m) = PickAt(h, s, m)
      BY <2>4, <2>7, PickAtSame
    <3>. QED BY <2>8, <3>1
  <2>10. IsPick(h, s, Low(k))
    BY <2>9, <2>a DEF IsPick
  <2>. QED BY <2>1, <2>10 DEF Bad
<1>5. Low(top + 1) = D
  BY <1>0
<1>6. \E g : IsPick(g, s, Low(top + 1))
  <2>1. top + 1 \in Nat
    OBVIOUS
  <2>2. top + 1 \notin Bad
    BY <1>4
  <2>. QED BY <2>1, <2>2
<1>. QED BY <1>5, <1>6

\* The same choice, as FocusCandidate makes it.
SearchAt(g, s, m) ==
    CASE IsKind(s, m, "view") -> m
      [] IsKind(s, m, "split") ->
           IF s.nodes[m].last \in DOMAIN s.nodes /\ Blocked(s, m, s.nodes[m].last) THEN Gone
           ELSE IF s.nodes[m].last \in DOMAIN s.nodes /\ IsVisibleFrom(s, m, s.nodes[m].last)
           THEN s.nodes[m].last
           ELSE FirstSome(Each(s, s.nodes[m].kids, g))
      [] OTHER ->
           IF ShownKid(s.nodes[m]) = None THEN None ELSE At(s, g, ShownKid(s.nodes[m]))

IsSearch(g, s, D) == g = [m \in D |-> SearchAt(g, s, m)]

LEMMA SearchAtIs ==
    ASSUME NEW s, IsState(s), Linked(s), Ranked(s), NEW m \in DOMAIN s.nodes, NEW g
    PROVE  SearchAt(g, s, m) = PickAt(g, s, m)
<1> DEFINE node == s.nodes[m]
<1>1. node \in NodeType /\ \A k \in ToSet(node.kids) : k # None /\ k \in DOMAIN s.nodes
  <2>1. node \in NodeType /\ \A k \in DOMAIN s.nodes : k # 0
    BY DEF IsState
  <2>2. \A k \in Kids(s, m) : k \in DOMAIN s.nodes
    BY DEF Linked
  <2>. QED BY <2>1, <2>2 DEF Kids, None
<1>2. \A i \in DOMAIN node.kids : At(s, g, node.kids[i]) = g[node.kids[i]]
  BY <1>1 DEF ToSet, At
<1>3. Each(s, node.kids, g) = PicksAt(node.kids, g)
  BY <1>2 DEF Each, PicksAt
<1>4. ShownKid(node) # None => At(s, g, ShownKid(node)) = g[ShownKid(node)]
  BY <1>1, ShownKidIs DEF At
<1>5. ~Blocked(s, m, node.last)
  BY Unsevered
<1>. QED BY <1>3, <1>4, <1>5, Zenon DEF PickAt, SearchAt

\* The choices, as FocusCandidate gives them.
LEMMA CandidateIs ==
    ASSUME NEW s, IsState(s), Linked(s), Ranked(s)
    PROVE  \E g : /\ IsPick(g, s, DOMAIN s.nodes)
                 /\ \A n \in DOMAIN s.nodes : FocusCandidate(s, n) = g[n]
<1> DEFINE u == CHOOSE g : IsSearch(g, s, DOMAIN s.nodes)
<1>1. \A m : FocusCandidate(s, m) = At(s, u, m)
  BY Zenon DEF FocusCandidate, IsSearch, SearchAt
<1>2. \A g : IsSearch(g, s, DOMAIN s.nodes) <=> IsPick(g, s, DOMAIN s.nodes)
  <2> SUFFICES ASSUME NEW g PROVE IsSearch(g, s, DOMAIN s.nodes) <=> IsPick(g, s, DOMAIN s.nodes)
    OBVIOUS
  <2>1. \A m \in DOMAIN s.nodes : SearchAt(g, s, m) = PickAt(g, s, m)
    BY SearchAtIs
  <2>. QED BY <2>1 DEF IsSearch, IsPick
<1>3. IsPick(u, s, DOMAIN s.nodes)
  BY <1>2, PickExists
<1> HIDE DEF u
<1>4. \A m \in DOMAIN s.nodes : FocusCandidate(s, m) = u[m]
  BY <1>1 DEF At
<1>. QED BY <1>3, <1>4

\* A node with a parent is a view or has children.
LEMMA NestedHasKids ==
    ASSUME NEW s, NEW F, NEW e, IsState(s), Rooted(s, F), Shaped(s, e),
           NEW n \in DOMAIN s.nodes, s.nodes[n].parent # None
    PROVE  s.nodes[n].kind = "view" \/ s.nodes[n].kids # <<>>
<1>1. n \notin SessionRoots(s) /\ n \notin FloatRoots(s)
  BY DEF Rooted
<1>2. s.nodes[n] \in NodeType
  BY DEF IsState
<1>3. s.nodes[n].kids \in Seq(Nat) /\ s.nodes[n].kind \in {"view", "split", "tabs"}
  BY <1>2 DEF NodeType
<1> DEFINE len == Len(s.nodes[n].kids)
           less == IF n = e THEN 1 ELSE 0
<1>5. len \in Nat
  BY <1>3
<1>6. s.nodes[n].kind # "view" => len + less >= 2
  BY <1>1, <1>3 DEF Shaped
<1> HIDE DEF len
<1>7. s.nodes[n].kind # "view" => len # 0
  BY <1>5, <1>6
<1>4. s.nodes[n].kind # "view" => Len(s.nodes[n].kids) # 0
  BY <1>7 DEF len
<1>. QED BY <1>3, <1>4

\* Focusing a node lands on a view under it, and fails to only at an empty
\* container.
LEMMA CandidateFacts ==
    ASSUME NEW s, NEW F, NEW e, Forest(s, F, e), NEW n \in DOMAIN s.nodes
    PROVE  LET c == FocusCandidate(s, n)
           IN  /\ c = None \/ (c \in Below(s, n) /\ c \in DOMAIN s.nodes /\ s.nodes[c].kind = "view"
                               /\ s.nodes[c].sess = s.nodes[n].sess)
               /\ s.nodes[n].kind = "view" \/ s.nodes[n].kids # <<>> => c # None
<1>0. IsState(s) /\ Linked(s) /\ Rooted(s, F) /\ Shaped(s, e) /\ Remembered(s) /\ Ranked(s)
  BY DEF Forest
<1> DEFINE D == DOMAIN s.nodes
<1>1. PICK g : IsPick(g, s, D) /\ \A m \in D : FocusCandidate(s, m) = g[m]
  BY <1>0, CandidateIs
<1>2. \A m \in D : g[m] = PickAt(g, s, m)
  BY <1>1 DEF IsPick
<1>3. \A m \in D : \A k \in Kids(s, m) : k \in D /\ s.nodes[k].parent = m /\ k # None /\ m # None
  BY <1>0 DEF Linked, IsState, None
<1> DEFINE Good(m) ==
             /\ g[m] = None \/ (g[m] \in Below(s, m) /\ s.nodes[g[m]].kind = "view")
             /\ s.nodes[m].kind = "view" \/ s.nodes[m].kids # <<>> => g[m] # None
           Bad == {m \in D : ~ Good(m)}
<1>4. ASSUME NEW m \in D, \A k \in Kids(s, m) : Good(k) PROVE Good(m)
  <2> DEFINE node == s.nodes[m]
  <2>1. node \in NodeType /\ node.kids \in Seq(Nat) /\ node.kind \in {"view", "split", "tabs"}
    BY <1>0 DEF IsState, NodeType
  <2>2. /\ m \in Below(s, m) /\ \A k \in Kids(s, m) : Below(s, k) \subseteq Below(s, m)
    <3>1. \A k \in Kids(s, m) : Below(s, k) \subseteq Below(s, m)
      BY <1>0, BelowIs
    <3>. QED BY <1>0, <3>1, BelowFacts
  <2>3. \A k \in Kids(s, m) : g[k] # None /\ g[k] \in Below(s, m) /\ s.nodes[g[k]].kind = "view"
    <3>1. ASSUME NEW k \in Kids(s, m) PROVE s.nodes[k].kind = "view" \/ s.nodes[k].kids # <<>>
      BY <1>0, <1>3, NestedHasKids
    <3>. QED BY <1>4, <2>2, <3>1
  <2>4. CASE node.kind = "view"
    <3>1. g[m] = m
      BY <1>2, <2>4 DEF PickAt, IsKind
    <3>. QED BY <1>0, <2>2, <2>4, <3>1 DEF IsState, None
  <2>5. CASE node.kind = "split"
    <3> DEFINE l == PicksAt(node.kids, g)
    <3>1. g[m] = IF node.last \in D /\ IsVisibleFrom(s, m, node.last) THEN node.last ELSE FirstSome(l)
      BY <1>2, <2>5 DEF PickAt, IsKind
    <3>2. CASE node.last \in D /\ IsVisibleFrom(s, m, node.last)
      <4>1. node.last \in Below(s, m)
        BY <3>2 DEF IsVisibleFrom
      <4>2. s.nodes[node.last].kind = "view" /\ node.last # None
        BY <1>0, <3>2 DEF Remembered, IsState, None
      <4>. QED BY <3>1, <3>2, <4>1, <4>2
    <3>3. CASE ~ (node.last \in D /\ IsVisibleFrom(s, m, node.last))
      <4>1. \A i \in 1 .. Len(node.kids) : node.kids[i] \in Kids(s, m) /\ l[i] = g[node.kids[i]]
        BY <2>1 DEF Kids, ToSet, PicksAt
      <4>2. Len(l) = Len(node.kids) /\ Len(node.kids) \in Nat
        <5>1. l \in [1 .. Len(node.kids) -> Below(s, m)]
          <6>1. DOMAIN node.kids = 1 .. Len(node.kids)
            BY <2>1
          <6>2. \A i \in 1 .. Len(node.kids) : g[node.kids[i]] \in Below(s, m)
            BY <2>3, <4>1
          <6>. QED BY <6>1, <6>2 DEF PicksAt
        <5> HIDE DEF l
        <5>. QED BY <2>1, <5>1, ListOf
      <4> HIDE DEF l
      <4>3. \/ FirstSome(l) = None /\ \A i \in 1 .. Len(node.kids) : l[i] = None
            \/ \E i \in 1 .. Len(node.kids) : FirstSome(l) = l[i] /\ l[i] # None
        BY <4>2, FirstSomeIs
      <4>4. node.kids # <<>> => 1 \in 1 .. Len(node.kids)
        BY <2>1
      <4>. QED BY <2>3, <2>5, <3>1, <3>3, <4>1, <4>3, <4>4
    <3>. QED BY <3>2, <3>3
  <2>6. CASE node.kind = "tabs"
    <3>1. g[m] = IF ShownKid(node) = None THEN None ELSE g[ShownKid(node)]
      BY <1>2, <2>6 DEF PickAt, IsKind
    <3>2. /\ node.kids # <<>> => ShownKid(node) # None /\ ShownKid(node) \in Kids(s, m)
          /\ node.kids = <<>> => ShownKid(node) = None
      BY <1>3, <2>1, ShownKidIs DEF Kids
    <3>. QED BY <2>3, <2>6, <3>1, <3>2
  <2>. QED BY <2>1, <2>4, <2>5, <2>6
<1>5. Bad = {}
  <2> SUFFICES ASSUME Bad # {} PROVE FALSE
    OBVIOUS
  <2>0. Bad \in SUBSET DOMAIN s.nodes
    OBVIOUS
  <2> HIDE DEF Good, Bad
  <2>1. PICK m \in Bad : Kids(s, m) \cap Bad = {}
    BY <1>0, <2>0, Grounded
  <2>2. m \in D /\ ~ Good(m) /\ \A k \in Kids(s, m) : Good(k)
    BY <1>3, <2>0, <2>1 DEF Bad
  <2>. QED BY <1>4, <2>2
<1> HIDE DEF Good
<1>6. Good(n)
  BY <1>5
<1> USE DEF Good
<1>7. \A c \in Below(s, n) : c \in D /\ s.nodes[c].sess = s.nodes[n].sess
  BY <1>0, BelowFacts
<1>. QED BY <1>1, <1>6, <1>7

-----------------------------------------------------------------------------
(* Changes that leave the trees as they are *)

\* Two states with the same trees, popups and buffers.
SameTree(s, x) ==
    /\ DOMAIN x.nodes = DOMAIN s.nodes
    /\ \A n \in DOMAIN s.nodes :
          /\ x.nodes[n].kind = s.nodes[n].kind /\ x.nodes[n].sess = s.nodes[n].sess
          /\ x.nodes[n].parent = s.nodes[n].parent /\ x.nodes[n].kids = s.nodes[n].kids
          /\ x.nodes[n].sizes = s.nodes[n].sizes /\ x.nodes[n].buf = s.nodes[n].buf
    /\ DOMAIN x.sessions = DOMAIN s.sessions
    /\ \A sid \in DOMAIN s.sessions : /\ x.sessions[sid].root = s.sessions[sid].root
                                      /\ x.sessions[sid].floats = s.sessions[sid].floats
    /\ DOMAIN x.floats = DOMAIN s.floats
    /\ \A f \in DOMAIN s.floats : /\ x.floats[f].root = s.floats[f].root
                                  /\ x.floats[f].sess = s.floats[f].sess
    /\ x.buffers = s.buffers /\ x.nextNode = s.nextNode
    /\ x.nextSession = s.nextSession /\ x.nextFloat = s.nextFloat

\* Of those, the ones in which no active tab and no last focus changed.
SameMemory(s, x) ==
    /\ \A n \in DOMAIN s.nodes : x.nodes[n].active = s.nodes[n].active
                                 /\ x.nodes[n].last = s.nodes[n].last
    /\ \A f \in DOMAIN s.floats : x.floats[f].last = s.floats[f].last
    /\ \A sid \in DOMAIN s.sessions : x.sessions[sid].float \in {s.sessions[sid].float, None}

\* Two such changes, one after the other.
LEMMA SameTreeTrans ==
    ASSUME NEW s, NEW x, NEW y, SameTree(s, x), SameTree(x, y)
    PROVE  SameTree(s, y)
  BY DEF SameTree

\* Whatever else such a change does, if active tabs and last focuses are in order
\* after it the forest is a forest.
LEMMA SameForest ==
    ASSUME NEW s, NEW F, NEW e, Forest(s, F, e), NEW x, IsState(x), SameTree(s, x),
           Pointed(x), Remembered(x), Owned(x)
    PROVE  Forest(x, F, e)
<1>0. IsState(s) /\ Linked(s) /\ Rooted(s, F) /\ Shaped(s, e) /\ Ranked(s)
  BY DEF Forest
<1>1. \A n : n \in DOMAIN s.nodes => Kids(x, n) = Kids(s, n)
  BY DEF SameTree, Kids
<1>2. Linked(x)
  BY <1>0, <1>1 DEF Linked, SameTree
<1>3. SessionRoots(x) = SessionRoots(s) /\ FloatRoots(x) = FloatRoots(s)
  BY DEF SessionRoots, FloatRoots, SameTree
<1>4. Rooted(x, F)
  <2>1. {f \in DOMAIN s.floats : TRUE} = {f \in DOMAIN x.floats : TRUE}
    BY DEF SameTree
  <2>2. \A sid : {f \in DOMAIN s.floats : s.floats[f].sess = sid} = {f \in DOMAIN x.floats : x.floats[f].sess = sid}
    BY DEF SameTree
  <2>. QED BY <1>0, <1>3, <2>2 DEF Rooted, SameTree
<1>5. Shaped(x, e)
  BY <1>0, <1>3, Zenon DEF Shaped, SameTree
<1>6. Ranked(x)
  <2>1. PICK top \in Nat : \E rank \in [DOMAIN s.nodes -> 0 .. top] :
          \A n \in DOMAIN s.nodes : s.nodes[n].parent # None => rank[n] < rank[s.nodes[n].parent]
    BY <1>0 DEF Ranked
  <2>2. PICK rank \in [DOMAIN s.nodes -> 0 .. top] :
          \A n \in DOMAIN s.nodes : s.nodes[n].parent # None => rank[n] < rank[s.nodes[n].parent]
    BY <2>1
  <2>3. /\ DOMAIN x.nodes = DOMAIN s.nodes
        /\ \A n \in DOMAIN s.nodes : x.nodes[n].parent = s.nodes[n].parent
    BY Zenon DEF SameTree
  <2>4. \A n \in DOMAIN x.nodes : x.nodes[n].parent # None => rank[n] < rank[x.nodes[n].parent]
    BY <2>2, <2>3
  <2>5. rank \in [DOMAIN x.nodes -> 0 .. top]
    BY <2>3
  <2>. QED BY <2>4, <2>5 DEF Ranked
<1>. QED BY <1>2, <1>4, <1>5, <1>6 DEF Forest

\* A change that touches neither trees nor memory keeps the forest.
LEMMA SameMemoryForest ==
    ASSUME NEW s, NEW F, NEW e, Forest(s, F, e), NEW x, IsState(x), SameTree(s, x), SameMemory(s, x)
    PROVE  Forest(x, F, e)
<1>0. Pointed(s) /\ Remembered(s) /\ Owned(s) /\ 0 \notin DOMAIN s.floats /\ s.nextFloat \in Nat
  BY DEF Forest, IsState
<1>1. Pointed(x)
  BY <1>0 DEF Pointed, SameTree, SameMemory
<1>2. Remembered(x)
  BY <1>0 DEF Remembered, SameTree, SameMemory
<1>3. \A sid \in DOMAIN s.sessions :
         s.sessions[sid].float \in 0 .. s.nextFloat - 1 /\ 0 \in 0 .. s.nextFloat - 1
  BY <1>0 DEF Owned
<1>4. Owned(x)
  BY <1>0, <1>3 DEF Owned, SameTree, SameMemory, None
<1>. QED BY <1>1, <1>2, <1>4, SameForest

\* The fields of a node.
LEMMA NodeFields ==
    ASSUME NEW x \in NodeType
    PROVE  /\ x.sess \in Nat /\ x.parent \in Nat /\ x.kids \in Seq(Nat) /\ x.sizes \in Seq(Nat)
           /\ x.active \in Nat /\ x.last \in Nat /\ x.buf \in Nat /\ x.focused \in BOOLEAN
           /\ x.kind \in {"view", "split", "tabs"} /\ Len(x.kids) \in Nat
  BY DEF NodeType

\* Of a state only the flags of nodes and popups and what a session points at change.
LEMMA ClearFocusKeeps ==
    ASSUME NEW s, IsState(s), NEW sid \in DOMAIN s.sessions
    PROVE  LET x == ClearFocus(s, sid) IN IsState(x) /\ SameTree(s, x) /\ SameMemory(s, x)
<1> DEFINE x == ClearFocus(s, sid)
           leaf == s.sessions[sid].leaf
<1>0. Shape(s)
  BY DEF IsState
<1>1. x.nodes = IF IsKind(s, leaf, "view") THEN [s.nodes EXCEPT ![leaf].focused = FALSE] ELSE s.nodes
  BY <1>0 DEF ClearFocus, Shape
<1>2. x.floats = [f \in DOMAIN s.floats |-> IF f \in ToSet(s.sessions[sid].floats)
                                            THEN [s.floats[f] EXCEPT !.focused = FALSE] ELSE s.floats[f]]
  BY <1>0 DEF ClearFocus, Shape
<1>3. x.sessions = [s.sessions EXCEPT ![sid].leaf = None, ![sid].float = None]
  BY <1>0 DEF ClearFocus, Shape
<1>4. /\ x.buffers = s.buffers /\ x.nextNode = s.nextNode
      /\ x.nextSession = s.nextSession /\ x.nextFloat = s.nextFloat
      /\ Shape(x)
  BY <1>0 DEF ClearFocus, Shape
<1> HIDE DEF x
<1>5. s.nodes \in [DOMAIN s.nodes -> NodeType] /\ s.floats \in [DOMAIN s.floats -> FloatType]
  BY DEF IsState
<1>6. /\ x.nodes \in [DOMAIN s.nodes -> NodeType]
      /\ \A n \in DOMAIN s.nodes :
            /\ x.nodes[n].kind = s.nodes[n].kind /\ x.nodes[n].sess = s.nodes[n].sess
            /\ x.nodes[n].parent = s.nodes[n].parent /\ x.nodes[n].kids = s.nodes[n].kids
            /\ x.nodes[n].sizes = s.nodes[n].sizes /\ x.nodes[n].buf = s.nodes[n].buf
            /\ x.nodes[n].active = s.nodes[n].active /\ x.nodes[n].last = s.nodes[n].last
  <2>1. CASE ~ IsKind(s, leaf, "view")
    BY <1>1, <1>5, <2>1
  <2>2. CASE IsKind(s, leaf, "view")
    <3>1. leaf \in DOMAIN s.nodes /\ s.nodes[leaf] \in NodeType
      BY <1>5, <2>2 DEF IsKind
    <3> DEFINE y == [s.nodes[leaf] EXCEPT !.focused = FALSE]
    <3>2. /\ y \in NodeType /\ y.kind = s.nodes[leaf].kind /\ y.sess = s.nodes[leaf].sess
          /\ y.parent = s.nodes[leaf].parent /\ y.kids = s.nodes[leaf].kids
          /\ y.sizes = s.nodes[leaf].sizes /\ y.buf = s.nodes[leaf].buf
          /\ y.active = s.nodes[leaf].active /\ y.last = s.nodes[leaf].last
      <4> DEFINE z == s.nodes[leaf]
                 w == [z EXCEPT !.focused = FALSE]
      <4>1. z \in NodeType
        BY <3>1
      <4> HIDE DEF z
      <4>2. /\ w \in NodeType /\ w.kind = z.kind /\ w.sess = z.sess /\ w.parent = z.parent
            /\ w.kids = z.kids /\ w.sizes = z.sizes /\ w.buf = z.buf
            /\ w.active = z.active /\ w.last = z.last
        BY <4>1 DEF NodeType
      <4>. QED BY <4>2 DEF z
    <3>3. x.nodes = [s.nodes EXCEPT ![leaf] = y]
      BY <1>1, <2>2
    <3> HIDE DEF y, leaf
    <3>. QED BY <1>5, <3>1, <3>2, <3>3
  <2>. QED BY <2>1, <2>2
<1>7. /\ x.floats \in [DOMAIN s.floats -> FloatType]
      /\ \A f \in DOMAIN s.floats : /\ x.floats[f].root = s.floats[f].root
                                     /\ x.floats[f].sess = s.floats[f].sess
                                     /\ x.floats[f].last = s.floats[f].last
  <2>1. ASSUME NEW f \in DOMAIN s.floats
        PROVE  /\ x.floats[f] \in FloatType /\ x.floats[f].root = s.floats[f].root
               /\ x.floats[f].sess = s.floats[f].sess /\ x.floats[f].last = s.floats[f].last
    <3> DEFINE y == [s.floats[f] EXCEPT !.focused = FALSE]
    <3>1. y \in FloatType /\ y.sess = s.floats[f].sess /\ y.root = s.floats[f].root
          /\ y.last = s.floats[f].last
      <4> DEFINE z == s.floats[f]
                 w == [z EXCEPT !.focused = FALSE]
      <4>1. z \in FloatType
        BY <1>5
      <4> HIDE DEF z
      <4>2. w \in FloatType /\ w.sess = z.sess /\ w.root = z.root /\ w.last = z.last
        BY <4>1 DEF FloatType
      <4>. QED BY <4>2 DEF z
    <3>2. x.floats[f] = y \/ x.floats[f] = s.floats[f]
      BY <1>2
    <3> HIDE DEF y
    <3>. QED BY <1>5, <3>1, <3>2
  <2>2. x.floats = [f \in DOMAIN s.floats |-> x.floats[f]]
    BY <1>2
  <2>. QED BY <2>1, <2>2
<1>8. /\ x.sessions = [a \in DOMAIN s.sessions |-> x.sessions[a]]
      /\ \A a \in DOMAIN s.sessions : /\ IsSession(x.sessions[a])
                                      /\ x.sessions[a].root = s.sessions[a].root
                                      /\ x.sessions[a].floats = s.sessions[a].floats
                                      /\ x.sessions[a].float \in {s.sessions[a].float, None}
  <2> DEFINE y == [s.sessions[sid] EXCEPT !.leaf = None, !.float = None]
  <2>0. \A a \in DOMAIN s.sessions : IsSession(s.sessions[a])
    BY DEF IsState
  <2>1. /\ IsSession(y) /\ y.root = s.sessions[sid].root /\ y.floats = s.sessions[sid].floats
        /\ y.float = None
    <3> DEFINE z == s.sessions[sid]
    <3>1. IsSession(z)
      BY <2>0
    <3> HIDE DEF z
    <3>2. LET u == [z EXCEPT !.leaf = None, !.float = None]
          IN  IsSession(u) /\ u.root = z.root /\ u.floats = z.floats /\ u.float = None
      BY <3>1 DEF IsSession
    <3>. QED BY <3>2 DEF z
  <2>2. x.sessions = [s.sessions EXCEPT ![sid] = y]
    BY <1>3
  <2> HIDE DEF y
  <2>. QED BY <2>0, <2>1, <2>2
<1>9. IsState(x)
  BY <1>4, <1>6, <1>7, <1>8 DEF IsState
<1>12. SameTree(s, x)
  BY <1>4, <1>6, <1>7, <1>8 DEF SameTree
<1>13. SameMemory(s, x)
  BY <1>6, <1>7, <1>8 DEF SameMemory
<1>. QED BY <1>9, <1>12, <1>13 DEF x

\* A flag of a node.
LEMMA MarkKeeps ==
    ASSUME NEW s, IsState(s), NEW n \in DOMAIN s.nodes, NEW v \in BOOLEAN
    PROVE  LET x == [s EXCEPT !.nodes[n].focused = v]
           IN  IsState(x) /\ SameTree(s, x) /\ SameMemory(s, x)
<1> DEFINE x == [s EXCEPT !.nodes[n].focused = v]
           y == [s.nodes[n] EXCEPT !.focused = v]
<1>0. Shape(s) /\ s.nodes \in [DOMAIN s.nodes -> NodeType] /\ s.nodes[n] \in NodeType
  BY DEF IsState
<1>1. x.nodes = [s.nodes EXCEPT ![n] = y]
  BY <1>0 DEF Shape
<1>2. /\ x.buffers = s.buffers /\ x.nextNode = s.nextNode /\ x.sessions = s.sessions
      /\ x.nextSession = s.nextSession /\ x.nextFloat = s.nextFloat /\ x.floats = s.floats
      /\ Shape(x)
  BY <1>0 DEF Shape
<1>3. /\ y \in NodeType /\ y.kind = s.nodes[n].kind /\ y.sess = s.nodes[n].sess
      /\ y.parent = s.nodes[n].parent /\ y.kids = s.nodes[n].kids
      /\ y.sizes = s.nodes[n].sizes /\ y.buf = s.nodes[n].buf
      /\ y.active = s.nodes[n].active /\ y.last = s.nodes[n].last
  <2> DEFINE z == s.nodes[n]
             w == [z EXCEPT !.focused = v]
  <2>1. z \in NodeType
    BY <1>0
  <2> HIDE DEF z
  <2>2. /\ w \in NodeType /\ w.kind = z.kind /\ w.sess = z.sess /\ w.parent = z.parent
        /\ w.kids = z.kids /\ w.sizes = z.sizes /\ w.buf = z.buf
        /\ w.active = z.active /\ w.last = z.last
    BY <2>1 DEF NodeType
  <2>. QED BY <2>2 DEF z
<1> HIDE DEF x, y
<1>4. x.nodes \in [DOMAIN s.nodes -> NodeType] /\ \A m \in DOMAIN s.nodes :
         x.nodes[m] = IF m = n THEN y ELSE s.nodes[m]
  BY <1>0, <1>1, <1>3
<1>5. IsState(x)
  BY <1>2, <1>4 DEF IsState
<1>6. SameTree(s, x) /\ SameMemory(s, x)
  BY <1>2, <1>3, <1>4 DEF SameTree, SameMemory
<1>. QED BY <1>5, <1>6 DEF x

\* What a session points at: an update of its record that keeps its root and popups.
LEMMA SessionKeeps ==
    ASSUME NEW s, IsState(s), NEW sid \in DOMAIN s.sessions, NEW x, NEW y, IsSession(y),
           y.root = s.sessions[sid].root, y.floats = s.sessions[sid].floats,
           y.float = s.sessions[sid].float, Shape(x),
           x.sessions = [s.sessions EXCEPT ![sid] = y],
           x.nodes = s.nodes, x.buffers = s.buffers, x.nextNode = s.nextNode, x.floats = s.floats,
           x.nextSession = s.nextSession, x.nextFloat = s.nextFloat
    PROVE  IsState(x) /\ SameTree(s, x) /\ SameMemory(s, x)
<1>1. x.sessions = [a \in DOMAIN s.sessions |-> x.sessions[a]]
  BY DEF IsState
<1>2. \A a \in DOMAIN s.sessions : x.sessions[a] = IF a = sid THEN y ELSE s.sessions[a]
  BY DEF IsState
<1>3. IsState(x)
  BY <1>1, <1>2 DEF IsState
<1>4. SameTree(s, x) /\ SameMemory(s, x)
  BY <1>1, <1>2 DEF SameTree, SameMemory
<1>. QED BY <1>3, <1>4

\* The focus history is no part of the trees.
LEMMA RememberFocusKeeps ==
    ASSUME NEW s, IsState(s), NEW sid \in DOMAIN s.sessions, NEW leaf
    PROVE  LET x == RememberFocus(s, sid, leaf) IN IsState(x) /\ SameTree(s, x) /\ SameMemory(s, x)
<1> DEFINE kept == SelectSeq(s.sessions[sid].history, LAMBDA e : e # leaf /\ e \in DOMAIN s.nodes)
           all == Append(kept, leaf)
           h == IF Len(all) > HistoryLimit THEN SubSeq(all, Len(all) - HistoryLimit + 1, Len(all)) ELSE all
           x == [s EXCEPT !.sessions[sid].history = h]
           y == [s.sessions[sid] EXCEPT !.history = h]
<1>0. RememberFocus(s, sid, leaf) = x
  BY DEF RememberFocus
<1> HIDE DEF h
<1>1. Shape(s) /\ IsSession(s.sessions[sid])
  BY DEF IsState
<1>2. /\ IsSession(y) /\ y.root = s.sessions[sid].root /\ y.floats = s.sessions[sid].floats
      /\ y.float = s.sessions[sid].float
  <2> DEFINE z == s.sessions[sid]
             w == [z EXCEPT !.history = h]
  <2>1. IsSession(z)
    BY <1>1
  <2> HIDE DEF z
  <2>2. IsSession(w) /\ w.root = z.root /\ w.floats = z.floats /\ w.float = z.float
    BY <2>1 DEF IsSession
  <2>. QED BY <2>2 DEF z
<1>3. /\ x.sessions = [s.sessions EXCEPT ![sid] = y] /\ Shape(x)
      /\ x.nodes = s.nodes /\ x.buffers = s.buffers /\ x.nextNode = s.nextNode /\ x.floats = s.floats
      /\ x.nextSession = s.nextSession /\ x.nextFloat = s.nextFloat
  BY <1>1 DEF Shape
<1> HIDE DEF x, y
<1>4. IsState(x) /\ SameTree(s, x) /\ SameMemory(s, x)
  BY <1>2, <1>3, SessionKeeps
<1>. QED BY <1>0, <1>4

\* The session points at the focused pane, and at the popup that holds it.
LEMMA PointKeeps ==
    ASSUME NEW s, NEW F, NEW e, Forest(s, F, e), NEW sid \in DOMAIN s.sessions,
           NEW leaf \in DOMAIN s.nodes, s.nodes[leaf].kind = "view",
           NEW owner, owner = None \/ (owner \in DOMAIN s.floats /\ s.floats[owner].sess = sid)
    PROVE  LET x == [s EXCEPT
                       !.sessions[sid].leaf = leaf,
                       !.sessions[sid].float = owner,
                       !.floats = IF owner = None THEN @
                                  ELSE [@ EXCEPT ![owner].focused = TRUE, ![owner].last = leaf]]
           IN  Forest(x, F, e) /\ SameTree(s, x)
<1> DEFINE fl == IF owner = None THEN s.floats
                 ELSE [s.floats EXCEPT ![owner].focused = TRUE, ![owner].last = leaf]
           x == [s EXCEPT !.sessions[sid].leaf = leaf, !.sessions[sid].float = owner,
                       !.floats = IF owner = None THEN @
                                  ELSE [@ EXCEPT ![owner].focused = TRUE, ![owner].last = leaf]]
<1>0. /\ IsState(s) /\ Shape(s) /\ s.floats \in [DOMAIN s.floats -> FloatType]
      /\ IsSession(s.sessions[sid]) /\ leaf \in Nat /\ leaf < s.nextNode /\ 0 \notin DOMAIN s.floats
  BY DEF Forest, IsState
<1>1. x.sessions = [s.sessions EXCEPT ![sid].leaf = leaf, ![sid].float = owner]
  BY <1>0 DEF Shape
<1>2. x.floats = fl
  BY <1>0 DEF Shape
<1>3. /\ x.nodes = s.nodes /\ x.buffers = s.buffers /\ x.nextNode = s.nextNode
      /\ x.nextSession = s.nextSession /\ x.nextFloat = s.nextFloat /\ Shape(x)
  BY <1>0 DEF Shape
<1>4. /\ fl \in [DOMAIN s.floats -> FloatType]
      /\ \A f \in DOMAIN s.floats : /\ fl[f].root = s.floats[f].root /\ fl[f].sess = s.floats[f].sess
                                     /\ fl[f].last \in {s.floats[f].last, leaf}
  <2>1. CASE owner = None
    BY <1>0, <2>1
  <2>2. CASE owner # None
    <3> DEFINE z == s.floats[owner]
               y == [z EXCEPT !.focused = TRUE, !.last = leaf]
    <3>1. z \in FloatType /\ owner \in DOMAIN s.floats
      BY <1>0, <2>2
    <3>2. fl = [s.floats EXCEPT ![owner] = y]
      BY <2>2, <3>1
    <3> HIDE DEF z
    <3>3. y \in FloatType /\ y.sess = z.sess /\ y.root = z.root /\ y.last = leaf
      BY <1>0, <3>1 DEF FloatType
    <3> HIDE DEF y, fl
    <3>. QED BY <1>0, <3>1, <3>2, <3>3 DEF z
  <2>. QED BY <2>1, <2>2
<1>5. /\ x.sessions = [a \in DOMAIN s.sessions |-> x.sessions[a]]
      /\ \A a \in DOMAIN s.sessions : /\ IsSession(x.sessions[a])
                                      /\ x.sessions[a].root = s.sessions[a].root
                                      /\ x.sessions[a].floats = s.sessions[a].floats
                                      /\ x.sessions[a].float = IF a = sid THEN owner
                                                               ELSE s.sessions[a].float
  <2> DEFINE z == s.sessions[sid]
             y == [z EXCEPT !.leaf = leaf, !.float = owner]
  <2>0. \A a \in DOMAIN s.sessions : IsSession(s.sessions[a])
    BY <1>0 DEF IsState
  <2>2. x.sessions = [s.sessions EXCEPT ![sid] = y]
    BY <1>1
  <2>a. IsSession(z)
    BY <1>0
  <2> HIDE DEF z
  <2>1. IsSession(y) /\ y.root = z.root /\ y.floats = z.floats /\ y.float = owner
    BY <2>a DEF IsSession
  <2> HIDE DEF y, x
  <2>. QED BY <2>0, <2>1, <2>2 DEF z
<1> HIDE DEF x, fl
<1>6. IsState(x)
  BY <1>0, <1>2, <1>3, <1>4, <1>5 DEF IsState
<1>7. SameTree(s, x)
  BY <1>2, <1>3, <1>4, <1>5 DEF SameTree
<1>8. Remembered(x)
  BY <1>0, <1>2, <1>3, <1>4 DEF Forest, Remembered
<1>9. Pointed(x)
  BY <1>3 DEF Forest, Pointed
<1>11. Owned(x)
  <2>1. owner \in 0 .. s.nextFloat - 1
    <3>1. \A f \in DOMAIN s.floats : f \in 1 .. s.nextFloat - 1
      BY <1>0 DEF IsState
    <3>2. \A f \in DOMAIN s.sessions : s.sessions[f].float \in 0 .. s.nextFloat - 1
      BY DEF Forest, Owned
    <3>3. 0 \in 0 .. s.nextFloat - 1
      BY <1>0, <3>2 DEF IsState
    <3>. QED BY <3>1, <3>3 DEF None
  <2>2. Owned(s)
    BY DEF Forest
  <2>3. DOMAIN x.sessions = DOMAIN s.sessions /\ DOMAIN x.floats = DOMAIN s.floats
    BY <1>7 DEF SameTree
  <2>4. \A f \in DOMAIN s.floats : x.floats[f].sess = s.floats[f].sess
    BY <1>7 DEF SameTree
  <2>5. ASSUME NEW a \in DOMAIN s.sessions
        PROVE  /\ x.sessions[a].float \in 0 .. s.nextFloat - 1
               /\ x.sessions[a].float \in DOMAIN s.floats => s.floats[x.sessions[a].float].sess = a
    <3>1. CASE a = sid
      BY <1>0, <1>5, <2>1, <3>1 DEF None
    <3>2. CASE a # sid
      BY <1>5, <2>2, <3>2 DEF Owned
    <3>. QED BY <3>1, <3>2
  <2>. QED BY <1>3, <2>3, <2>4, <2>5 DEF Owned
<1>10. Forest(x, F, e)
  BY <1>6, <1>7, <1>8, <1>9, <1>11, SameForest
<1>. QED BY <1>7, <1>10 DEF x

\* A chain in one state is one in any with the same trees.
LEMMA SameChain ==
    ASSUME NEW s, NEW x, SameTree(s, x), NEW n, NEW path, IsChain(s, n, path)
    PROVE  IsChain(x, n, path)
  BY DEF SameTree, IsChain

\* Along a chain up from a view, the active tabs are children.
LEMMA ActivateKeeps ==
    ASSUME NEW s, NEW F, NEW e, Forest(s, F, e), NEW leaf \in DOMAIN s.nodes,
           s.nodes[leaf].kind = "view", NEW path, IsChain(s, leaf, path)
    PROVE  Forest(Activate(s, path), F, e) /\ SameTree(s, Activate(s, path))
<1> DEFINE x == Activate(s, path)
           D == DOMAIN s.nodes
<1>0. /\ IsState(s) /\ Shape(s) /\ s.nodes \in [D -> NodeType] /\ Linked(s) /\ Pointed(s)
      /\ leaf \in Nat /\ leaf < s.nextNode /\ leaf # None /\ Remembered(s)
  BY DEF Forest, IsState, None
<1>1. /\ x.sessions = s.sessions /\ x.floats = s.floats /\ x.buffers = s.buffers
      /\ x.nextNode = s.nextNode /\ x.nextSession = s.nextSession /\ x.nextFloat = s.nextFloat
      /\ Shape(x)
  BY <1>0 DEF Shape, Activate
<1> DEFINE act(n) == IF s.nodes[n].kind = "tabs"
                     THEN Position(s.nodes[n].kids, path[Position(path, n)]) ELSE s.nodes[n].active
           y(n) == [s.nodes[n] EXCEPT !.last = path[1], !.active = act(n)]
<1>2. x.nodes = [n \in D |-> IF n \notin ToSet(Tail(path)) THEN s.nodes[n] ELSE y(n)]
  BY <1>0 DEF Shape, Activate
<1>3. path \in Seq(Nat) /\ Len(path) \in Nat /\ Len(path) >= 1 /\ path[1] = leaf
  BY DEF IsChain
<1>4. ASSUME NEW n \in ToSet(Tail(path)) PROVE n \in ToSet(path)
  <2>1. Tail(path) \in Seq(Nat) /\ DOMAIN Tail(path) = 1 .. Len(path) - 1
        /\ \A i \in 1 .. Len(path) - 1 : Tail(path)[i] = path[i + 1] /\ i + 1 \in DOMAIN path
    BY <1>3
  <2>. QED BY <2>1 DEF ToSet
<1>5. ASSUME NEW n \in D, n \in ToSet(Tail(path)), s.nodes[n].kind = "tabs"
      PROVE  act(n) \in Nat /\ act(n) < Len(s.nodes[n].kids)
  <2> DEFINE p == Position(path, n)
  <2>1. p \in 0 .. Len(path) - 1 /\ path[p + 1] = n
    BY <1>3, <1>4, <1>5, PositionIs
  <2> HIDE DEF p
  <2>2. p # 0
    <3>1. n # leaf
      BY <1>5
    <3>. QED BY <1>3, <2>1, <3>1
  <2>3. p \in 1 .. Len(path) - 1 /\ p \in 1 .. Len(path)
    BY <1>3, <2>1, <2>2
  <2>4. path[p] \in D /\ s.nodes[path[p]].parent = n
    BY <2>1, <2>3 DEF IsChain
  <2>5. path[p] \in ToSet(s.nodes[n].kids) /\ s.nodes[n].kids \in Seq(Nat)
    <3>1. s.nodes[n].kids \in Seq(Nat) /\ n # 0
      BY <1>0, NodeFields DEF IsState
    <3>. QED BY <1>0, <2>4, <3>1 DEF Linked, Kids, None
  <2>6. /\ Position(s.nodes[n].kids, path[p]) \in 0 .. Len(s.nodes[n].kids) - 1
        /\ Len(s.nodes[n].kids) \in Nat
    BY <2>5, PositionIs
  <2>. QED BY <1>5, <2>6 DEF p
<1>6. ASSUME NEW n \in D
      PROVE  /\ x.nodes[n] \in NodeType
             /\ x.nodes[n].kind = s.nodes[n].kind /\ x.nodes[n].sess = s.nodes[n].sess
             /\ x.nodes[n].parent = s.nodes[n].parent /\ x.nodes[n].kids = s.nodes[n].kids
             /\ x.nodes[n].sizes = s.nodes[n].sizes /\ x.nodes[n].buf = s.nodes[n].buf
             /\ x.nodes[n].last \in {s.nodes[n].last, leaf}
             /\ x.nodes[n].kind = "tabs" =>
                   x.nodes[n].active = s.nodes[n].active \/ x.nodes[n].active < Len(s.nodes[n].kids)
  <2> DEFINE z == s.nodes[n]
             a == act(n)
             w == [z EXCEPT !.last = leaf, !.active = a]
  <2>1. z \in NodeType /\ z.active \in Nat
    BY <1>0, NodeFields
  <2>2. CASE n \notin ToSet(Tail(path))
    <3>1. x.nodes[n] = z
      BY <1>2, <2>2, Zenon
    <3> HIDE DEF x
    <3>. QED BY <2>1, <3>1
  <2>3. CASE n \in ToSet(Tail(path))
    <3>1. x.nodes[n] = w
      BY <1>2, <1>3, <2>3, Zenon
    <3>2. a \in Nat /\ (z.kind = "tabs" => a < Len(z.kids))
      BY <1>5, <2>1, <2>3
    <3> HIDE DEF a, z, x
    <3>3. /\ w \in NodeType /\ w.kind = z.kind /\ w.sess = z.sess /\ w.parent = z.parent
          /\ w.kids = z.kids /\ w.sizes = z.sizes /\ w.buf = z.buf
          /\ w.active = a /\ w.last = leaf
      BY <1>0, <2>1, <3>2 DEF NodeType
    <3> HIDE DEF w
    <3>. QED BY <3>1, <3>2, <3>3 DEF z
  <2>. QED BY <2>2, <2>3
<1>7. x.nodes = [n \in D |-> x.nodes[n]]
  BY <1>2, Zenon
<1> HIDE DEF x
<1>8. x.nodes \in [D -> NodeType]
  BY <1>6, <1>7
<1>9. IsState(x)
  BY <1>0, <1>1, <1>8 DEF IsState
<1>10. SameTree(s, x)
  BY <1>1, <1>6, <1>8 DEF SameTree
<1>11. Pointed(x)
  BY <1>0, <1>6, <1>8 DEF Pointed
<1>12. Remembered(x)
  BY <1>0, <1>1, <1>6, <1>8 DEF Remembered
<1>13. Owned(x)
  BY <1>1 DEF Forest, Owned
<1>. QED BY <1>9, <1>10, <1>11, <1>12, <1>13, SameForest DEF x

-----------------------------------------------------------------------------
(* Focus and zoom *)

\* The root of the tree a node is in.
LEMMA TopRootFacts ==
    ASSUME NEW s, IsState(s), Linked(s), Ranked(s), NEW n \in DOMAIN s.nodes
    PROVE  LET t == TopRoot(s, n)
           IN  /\ t \in DOMAIN s.nodes /\ s.nodes[t].parent = None
               /\ s.nodes[t].sess = s.nodes[n].sess /\ n \in Below(s, t)
<1> DEFINE Good(m) == LET t == TopRoot(s, m)
                      IN  /\ t \in DOMAIN s.nodes /\ s.nodes[t].parent = None
                          /\ s.nodes[t].sess = s.nodes[m].sess /\ m \in Below(s, t)
           Bad == {m \in DOMAIN s.nodes : ~ Good(m)}
<1> SUFFICES ASSUME Bad # {} PROVE FALSE
  OBVIOUS
<1>1. Bad \in SUBSET DOMAIN s.nodes
  OBVIOUS
<1> HIDE DEF Bad
<1>2. PICK m \in Bad : s.nodes[m].parent \notin Bad
  BY <1>1, Grounded
<1>3. m \in DOMAIN s.nodes /\ ~ Good(m) /\ m \in Nat
  BY <1>1, <1>2 DEF Bad, IsState
<1>4. CASE s.nodes[m].parent = None
  <2>1. PathUp(s, m) = <<m>>
    BY <1>3, <1>4, PathUpIs
  <2>2. TopRoot(s, m) = m
    BY <2>1 DEF TopRoot, Last
  <2>3. m \in Below(s, m)
    BY <1>3, BelowFacts
  <2>. QED BY <1>3, <1>4, <2>2, <2>3
<1>5. CASE s.nodes[m].parent # None
  <2> DEFINE p == s.nodes[m].parent
             t == TopRoot(s, p)
  <2>1. p \in DOMAIN s.nodes /\ m \in Kids(s, p) /\ s.nodes[p].sess = s.nodes[m].sess
    BY <1>3, <1>5 DEF Linked
  <2>2. Good(p)
    BY <1>2, <2>1 DEF Bad
  <2>3. PathUp(s, m) = <<m>> \o PathUp(s, p) /\ IsPath(s, p, PathUp(s, p))
    BY <1>3, <1>5, <2>1, PathUpIs, PathUpFacts
  <2>4. TopRoot(s, m) = t
    BY <1>3, <2>1, <2>3, PathLonger, Zenon DEF TopRoot
  <2>5. /\ t \in DOMAIN s.nodes /\ s.nodes[t].parent = None
        /\ s.nodes[t].sess = s.nodes[p].sess /\ p \in Below(s, t)
    BY <2>2
  <2> HIDE DEF t, p, Good
  <2>6. Kids(s, p) \subseteq Below(s, t)
    BY <2>5, BelowFacts
  <2>7. Good(m)
    BY <2>1, <2>4, <2>5, <2>6 DEF Good
  <2>. QED BY <1>3, <2>7
<1>. QED BY <1>4, <1>5

\* The popup with a root.
LEMMA FloatByRootIs ==
    ASSUME NEW s, IsState(s), NEW n
    PROVE  /\ FloatByRoot(s, n) # None =>
                FloatByRoot(s, n) \in DOMAIN s.floats /\ s.floats[FloatByRoot(s, n)].root = n
           /\ FloatByRoot(s, n) = None <=> n \notin FloatRoots(s)
<1>1. 0 \notin DOMAIN s.floats
  BY DEF IsState
<1>. QED BY <1>1 DEF FloatByRoot, FloatRoots, None

\* The two ways to say that a node is the root of a session.
LEMMA IsSessionRootIs ==
    ASSUME NEW s, NEW n
    PROVE  IsSessionRoot(s, n) <=> n \in SessionRoots(s)
  BY DEF IsSessionRoot, SessionRoots, RootOf

\* The popup a node is in is of its session.
LEMMA FloatOfIs ==
    ASSUME NEW s, NEW F, NEW e, Forest(s, F, e), NEW n \in DOMAIN s.nodes
    PROVE  \/ FloatOf(s, n) = None
           \/ (FloatOf(s, n) \in DOMAIN s.floats /\ s.floats[FloatOf(s, n)].sess = s.nodes[n].sess)
<1>0. IsState(s) /\ Linked(s) /\ Ranked(s) /\ Rooted(s, F)
  BY DEF Forest
<1> DEFINE t == TopRoot(s, n)
           f == FloatByRoot(s, t)
<1>1. s.nodes[t].sess = s.nodes[n].sess
  BY <1>0, TopRootFacts
<1> HIDE DEF t
<1>2. f # None => f \in DOMAIN s.floats /\ s.floats[f].root = t
  BY <1>0, FloatByRootIs
<1>3. f # None => s.nodes[t].sess = s.floats[f].sess
  BY <1>0, <1>2 DEF Rooted
<1>. QED BY <1>1, <1>2, <1>3 DEF FloatOf, t

\* What a change of the focus alone leaves: the trees, whether or not it succeeds.
Kept(s, r, F, e) ==
    /\ r.ok \in BOOLEAN /\ Forest(r.s, F, e) /\ SameTree(s, r.s)
    /\ ~ r.ok => r.s = s

\* No change is such a change.
LEMMA SameTreeSelf == ASSUME NEW s PROVE SameTree(s, s)
  BY DEF SameTree

\* Nor does a refusal, or a success that does nothing, change the trees.
LEMMA KeptErr == ASSUME NEW s, NEW F, NEW e, Forest(s, F, e) PROVE Kept(s, Err(s), F, e) /\ Kept(s, Ok(s), F, e)
  BY SameTreeSelf DEF Kept, Err, Ok

\* Focusing a pane. It is refused only where it may be.
LEMMA FocusLeafKeeps ==
    ASSUME NEW s, NEW F, NEW e, Forest(s, F, e), NEW sid, NEW leaf
    PROVE  /\ Kept(s, FocusLeaf(s, sid, leaf), F, e)
           /\ Focusable(s, sid, leaf) => FocusLeaf(s, sid, leaf).ok
<1>1. CASE ~ Focusable(s, sid, leaf)
  BY <1>1, KeptErr DEF FocusLeaf
<1>2. CASE Focusable(s, sid, leaf)
  <2>0. /\ sid \in DOMAIN s.sessions /\ leaf \in DOMAIN s.nodes /\ s.nodes[leaf].kind = "view"
        /\ s.nodes[leaf].sess = sid
    BY <1>2 DEF Focusable, IsKind, SessionOf
  <2>a. IsState(s) /\ Linked(s) /\ Ranked(s)
    BY DEF Forest
  <2> DEFINE previous == s.sessions[sid].leaf
             owner    == FloatOf(s, leaf)
             clear    == ClearFocus(s, sid)
             cleared  == [clear EXCEPT !.nodes[leaf].focused = TRUE]
             noted    == IF previous \notin {None, leaf} THEN RememberFocus(cleared, sid, previous)
                         ELSE cleared
             pointed  == [noted EXCEPT
                            !.sessions[sid].leaf = leaf,
                            !.sessions[sid].float = owner,
                            !.floats = IF owner = None THEN @
                                       ELSE [@ EXCEPT ![owner].focused = TRUE, ![owner].last = leaf]]
             last == Activate(pointed, PathUp(s, leaf))
  <2>1. FocusLeaf(s, sid, leaf) = Ok(last)
    BY <1>2 DEF FocusLeaf
  <2>2. IsState(clear) /\ SameTree(s, clear) /\ Forest(clear, F, e)
    BY <2>0, <2>a, ClearFocusKeeps, SameMemoryForest
  <2> HIDE DEF clear
  <2>3. IsState(cleared) /\ SameTree(clear, cleared) /\ Forest(cleared, F, e)
    <3>1. leaf \in DOMAIN clear.nodes
      BY <2>0, <2>2 DEF SameTree
    <3>2. IsState(cleared) /\ SameTree(clear, cleared) /\ SameMemory(clear, cleared)
      BY <2>2, <3>1, MarkKeeps
    <3> HIDE DEF cleared
    <3>. QED BY <2>2, <3>2, SameMemoryForest
  <2> HIDE DEF cleared
  <2>4. SameTree(s, cleared)
    BY <2>2, <2>3, SameTreeTrans
  <2>5. IsState(noted) /\ SameTree(cleared, noted) /\ Forest(noted, F, e)
    <3>1. sid \in DOMAIN cleared.sessions
      BY <2>0, <2>4 DEF SameTree
    <3>2. CASE previous \notin {None, leaf}
      <4>1. IsState(noted) /\ SameTree(cleared, noted) /\ SameMemory(cleared, noted)
        BY <2>3, <3>1, <3>2, RememberFocusKeeps
      <4> HIDE DEF noted
      <4>. QED BY <2>3, <4>1, SameMemoryForest
    <3>3. CASE previous \in {None, leaf}
      BY <2>3, <3>3, SameTreeSelf
    <3>. QED BY <3>2, <3>3
  <2> HIDE DEF noted, previous
  <2>6. SameTree(s, noted)
    BY <2>4, <2>5, SameTreeTrans
  <2>7. Forest(pointed, F, e) /\ SameTree(noted, pointed)
    <3>1. owner = None \/ (owner \in DOMAIN s.floats /\ s.floats[owner].sess = sid)
      BY <2>0, FloatOfIs
    <3> HIDE DEF owner
    <3>2. /\ sid \in DOMAIN noted.sessions /\ leaf \in DOMAIN noted.nodes
          /\ noted.nodes[leaf].kind = "view"
          /\ owner = None \/ (owner \in DOMAIN noted.floats /\ noted.floats[owner].sess = sid)
      BY <2>0, <2>6, <3>1 DEF SameTree
    <3>. QED BY <2>5, <3>2, PointKeeps, Zenon
  <2> HIDE DEF pointed, owner
  <2>8. SameTree(s, pointed)
    BY <2>6, <2>7, SameTreeTrans
  <2>9. Forest(last, F, e) /\ SameTree(pointed, last)
    <3>1. IsChain(s, leaf, PathUp(s, leaf))
      BY <2>0, <2>a, PathUpFacts DEF IsPath
    <3>2. IsChain(pointed, leaf, PathUp(s, leaf))
      BY <2>8, <3>1, SameChain
    <3>3. leaf \in DOMAIN pointed.nodes /\ pointed.nodes[leaf].kind = "view"
      BY <2>0, <2>8 DEF SameTree
    <3>. QED BY <2>7, <3>2, <3>3, ActivateKeeps
  <2> HIDE DEF last
  <2>10. SameTree(s, last)
    BY <2>8, <2>9, SameTreeTrans
  <2>. QED BY <2>1, <2>9, <2>10 DEF Kept, Ok
<1>. QED BY <1>1, <1>2

\* Where every tree hangs from a session or a popup, every pane of a session can
\* be focused.
LEMMA FocusableIs ==
    ASSUME NEW s, NEW e, Forest(s, {}, e), NEW sid \in DOMAIN s.sessions,
           NEW leaf \in DOMAIN s.nodes, s.nodes[leaf].kind = "view", s.nodes[leaf].sess = sid
    PROVE  Focusable(s, sid, leaf)
<1>0. IsState(s) /\ Linked(s) /\ Ranked(s) /\ Rooted(s, {})
  BY DEF Forest
<1> DEFINE t == TopRoot(s, leaf)
<1>1. t \in DOMAIN s.nodes /\ s.nodes[t].parent = None /\ s.nodes[t].sess = sid
  BY <1>0, TopRootFacts
<1> HIDE DEF t
<1>2. t \in SessionRoots(s) \/ t \in FloatRoots(s)
  BY <1>0, <1>1 DEF Rooted
<1>3. CASE t \in SessionRoots(s)
  <2>1. PICK a \in DOMAIN s.sessions : t = s.sessions[a].root
    BY <1>3 DEF SessionRoots
  <2>2. s.nodes[t].sess = a
    BY <1>0, <2>1 DEF Rooted
  <2>3. t = RootOf(s, sid)
    BY <1>1, <2>1, <2>2 DEF RootOf
  <2>. QED BY <2>3 DEF Focusable, IsKind, SessionOf, t
<1>4. CASE t \in FloatRoots(s)
  <2>1. FloatByRoot(s, t) # None
    BY <1>0, <1>4, FloatByRootIs
  <2>. QED BY <2>1 DEF Focusable, IsKind, SessionOf, FloatOf, t
<1>. QED BY <1>2, <1>3, <1>4

\* The panes of a session, and None.
PanesOf(s, sid) ==
    {None} \cup {n \in DOMAIN s.nodes : s.nodes[n].kind = "view" /\ s.nodes[n].sess = sid}

\* A pane of the session gets the focus, or nothing has it; neither is refused.
LEMMA FocusOrClearKeeps ==
    ASSUME NEW s, NEW e, Forest(s, {}, e), NEW sid \in DOMAIN s.sessions,
           NEW leaf \in PanesOf(s, sid)
    PROVE  Kept(s, FocusOrClear(s, sid, leaf), {}, e) /\ FocusOrClear(s, sid, leaf).ok
<1>1. CASE leaf = None
  <2> DEFINE x == ClearFocus(s, sid)
  <2>1. IsState(x) /\ SameTree(s, x) /\ SameMemory(s, x)
    BY ClearFocusKeeps DEF Forest
  <2>2. FocusOrClear(s, sid, leaf) = Ok(x)
    BY <1>1 DEF FocusOrClear
  <2> HIDE DEF x
  <2>3. Forest(x, {}, e)
    BY <2>1, SameMemoryForest
  <2>. QED BY <2>1, <2>2, <2>3 DEF Kept, Ok
<1>2. CASE leaf # None
  <2>1. leaf \in DOMAIN s.nodes /\ s.nodes[leaf].kind = "view" /\ s.nodes[leaf].sess = sid
    BY <1>2 DEF PanesOf
  <2>2. Focusable(s, sid, leaf)
    BY <2>1, FocusableIs
  <2>. QED BY <1>2, <2>2, FocusLeafKeeps DEF FocusOrClear
<1>. QED BY <1>1, <1>2

\* Focusing a tree or a popup lands on a pane of its session.
LEMMA CandidatePanes ==
    ASSUME NEW s, NEW F, NEW e, Forest(s, F, e), NEW n \in DOMAIN s.nodes
    PROVE  FocusCandidate(s, n) \in PanesOf(s, s.nodes[n].sess)
  BY CandidateFacts DEF PanesOf

\* What focusing a popup lands on, too.
LEMMA FloatFocusPanes ==
    ASSUME NEW s, NEW F, NEW e, Forest(s, F, e), NEW f \in DOMAIN s.floats
    PROVE  FloatFocus(s, f) \in PanesOf(s, s.floats[f].sess)
<1>0. IsState(s) /\ Linked(s) /\ Ranked(s) /\ Rooted(s, F) /\ Remembered(s)
  BY DEF Forest
<1> DEFINE float == s.floats[f]
<1>1. float.root \in DOMAIN s.nodes /\ s.nodes[float.root].sess = float.sess
  BY <1>0 DEF Rooted
<1>2. FocusCandidate(s, float.root) \in PanesOf(s, float.sess)
  BY <1>1, CandidatePanes
<1>3. CASE float.last \in DOMAIN s.nodes /\ TopRoot(s, float.last) = float.root
  <2>1. s.nodes[float.last].kind = "view"
    BY <1>0, <1>3 DEF Remembered
  <2>2. s.nodes[float.root].sess = s.nodes[float.last].sess
    BY <1>0, <1>3, TopRootFacts
  <2>3. float.last \in PanesOf(s, float.sess)
    BY <1>1, <1>3, <2>1, <2>2 DEF PanesOf
  <2>4. ~Blocked(s, float.root, float.last)
    BY <1>0, <1>1, Unsevered
  <2>. QED BY <1>2, <2>3, <2>4 DEF FloatFocus
<1>4. CASE ~ (float.last \in DOMAIN s.nodes /\ TopRoot(s, float.last) = float.root)
  BY <1>2, <1>4 DEF FloatFocus
<1>. QED BY <1>3, <1>4

\* Whatever was removed, there is something to focus or the focus is cleared.
LEMMA HealFocusKeeps ==
    ASSUME NEW s, NEW e, Forest(s, {}, e), NEW sid \in DOMAIN s.sessions
    PROVE  Kept(s, HealFocus(s, sid), {}, e) /\ HealFocus(s, sid).ok
<1>0. IsState(s) /\ Rooted(s, {}) /\ Owned(s)
  BY DEF Forest
<1> DEFINE session == s.sessions[sid]
           V == PanesOf(s, sid)
           inFloat == [i \in DOMAIN session.floats |-> FloatFocus(s, session.floats[i])]
           focused == IF session.float \in DOMAIN s.floats THEN FloatFocus(s, session.float) ELSE None
           two == <<focused, FocusCandidate(s, session.root)>>
           list == two \o inFloat
<1>1. HealFocus(s, sid) = FocusOrClear(s, sid, FirstSome(list))
  BY DEF HealFocus
<1>2. focused \in V
  <2>1. CASE session.float \in DOMAIN s.floats
    <3>1. s.floats[session.float].sess = sid
      BY <1>0, <2>1 DEF Owned
    <3>. QED BY <2>1, <3>1, FloatFocusPanes
  <2>2. CASE session.float \notin DOMAIN s.floats
    BY <2>2 DEF PanesOf
  <2>. QED BY <2>1, <2>2
<1>3. FocusCandidate(s, session.root) \in V
  <2>1. session.root \in DOMAIN s.nodes /\ s.nodes[session.root].sess = sid
    BY <1>0 DEF Rooted
  <2>. QED BY <2>1, CandidatePanes
<1>4. inFloat \in Seq(V)
  <2>1. session.floats \in Seq(Nat) /\ ToSet(session.floats) = {f \in DOMAIN s.floats : s.floats[f].sess = sid}
    BY <1>0 DEF IsState, IsSession, Rooted
  <2>2. DOMAIN session.floats = 1 .. Len(session.floats) /\ Len(session.floats) \in Nat
    BY <2>1
  <2>3. ASSUME NEW i \in DOMAIN session.floats PROVE FloatFocus(s, session.floats[i]) \in V
    <3>1. session.floats[i] \in DOMAIN s.floats /\ s.floats[session.floats[i]].sess = sid
      BY <2>1 DEF ToSet
    <3>. QED BY <3>1, FloatFocusPanes
  <2>4. inFloat \in [1 .. Len(session.floats) -> V]
    <3> HIDE DEF V, session
    <3>. QED BY <2>2, <2>3
  <2> HIDE DEF inFloat, V
  <2>. QED BY <2>2, <2>4, ListOf
<1> HIDE DEF inFloat, V, focused
<1>5. two \in Seq(V) /\ Len(two) = 2
  BY <1>2, <1>3
<1> HIDE DEF two
<1>6. list \in Seq(V)
  BY <1>4, <1>5, ConcatIn
<1> HIDE DEF list
<1>7. Len(list) \in Nat /\ \A i \in 1 .. Len(list) : list[i] \in V
  BY <1>6
<1>8. FirstSome(list) \in V
  <2>1. None \in V
    BY DEF V, PanesOf
  <2>. QED BY <1>7, <2>1, FirstSomeIs
<1>. QED BY <1>1, <1>8, FocusOrClearKeeps DEF V

\* Focus into a node.
LEMMA FocusIntoKeeps ==
    ASSUME NEW s, NEW e, Forest(s, {}, e), NEW n \in DOMAIN s.nodes
    PROVE  LET r == FocusInto(s, s.nodes[n].sess, n) IN Kept(s, r, {}, e) /\ r.ok
<1> DEFINE sid == s.nodes[n].sess
           c == FocusCandidate(s, n)
<1>1. sid \in DOMAIN s.sessions
  BY DEF Forest, Linked
<1>2. c \in PanesOf(s, sid)
  BY CandidatePanes
<1> HIDE DEF c
<1>3. CASE c = None
  BY <1>1, <1>3, HealFocusKeeps DEF FocusInto, c
<1>4. CASE c # None
  <2>1. Kept(s, FocusOrClear(s, sid, c), {}, e) /\ FocusOrClear(s, sid, c).ok
    BY <1>1, <1>2, FocusOrClearKeeps
  <2>. QED BY <1>4, <2>1 DEF FocusInto, FocusOrClear, c
<1>. QED BY <1>3, <1>4

\* What a search found gets the focus, if it found anything.
LEMMA FocusFoundKeeps ==
    ASSUME NEW s, NEW F, NEW e, Forest(s, F, e), NEW sid, NEW leaf
    PROVE  Kept(s, FocusFound(s, sid, leaf), F, e)
  BY KeptErr, FocusLeafKeeps DEF FocusFound

\* A popup that has a pane can be focused.
LEMMA FocusFloatingKeeps ==
    ASSUME NEW s, NEW e, Forest(s, {}, e), NEW f \in DOMAIN s.floats
    PROVE  /\ Kept(s, FocusFloating(s, f), {}, e)
           /\ s.nodes[s.floats[f].root].kind = "view" \/ s.nodes[s.floats[f].root].kids # <<>>
                => FocusFloating(s, f).ok
<1> DEFINE c == FloatFocus(s, f)
           sid == s.floats[f].sess
<1>0. /\ IsState(s) /\ sid \in DOMAIN s.sessions /\ s.floats[f].root \in DOMAIN s.nodes
  BY DEF Forest, Rooted
<1>1. c \in PanesOf(s, sid)
  BY FloatFocusPanes
<1>2. Kept(s, FocusFloating(s, f), {}, e)
  BY FocusFoundKeeps DEF FocusFloating
<1>3. ASSUME s.nodes[s.floats[f].root].kind = "view" \/ s.nodes[s.floats[f].root].kids # <<>>
      PROVE  c # None
  <2>1. FocusCandidate(s, s.floats[f].root) # None
    BY <1>0, <1>3, CandidateFacts
  <2>2. None \notin DOMAIN s.nodes /\ Gone # None
    BY <1>0 DEF IsState, None, Gone
  <2>. QED BY <2>1, <2>2 DEF FloatFocus
<1>4. ASSUME c # None PROVE FocusFloating(s, f).ok
  <2>1. FocusOrClear(s, sid, c).ok
    BY <1>0, <1>1, FocusOrClearKeeps
  <2>. QED BY <1>4, <2>1 DEF FocusFloating, FocusFound, FocusOrClear
<1>. QED BY <1>2, <1>3, <1>4

\* A list of ancestors, cut short.
LEMMA ChainPrefix ==
    ASSUME NEW s, NEW n, NEW path, IsChain(s, n, path), NEW k \in 1 .. Len(path)
    PROVE  IsChain(s, n, SubSeq(path, 1, k))
<1> DEFINE q == SubSeq(path, 1, k)
<1>1. path \in Seq(Nat) /\ Len(path) \in Nat
  BY DEF IsChain
<1>2. q \in Seq(Nat) /\ Len(q) = k /\ \A i \in 1 .. k : q[i] = path[i]
  BY <1>1
<1> HIDE DEF q
<1>3. IsChain(s, n, q)
  <2>1. \A i \in 1 .. Len(path) : path[i] \in DOMAIN s.nodes
    BY DEF IsChain
  <2>2. \A i \in 1 .. Len(path) - 1 : s.nodes[path[i]].parent = path[i + 1]
    BY DEF IsChain
  <2>3. ASSUME NEW i \in 1 .. k PROVE q[i] \in DOMAIN s.nodes
    <3>1. i \in 1 .. Len(path)
      BY <1>1
    <3>2. q[i] = path[i]
      BY <1>2
    <3>. QED BY <2>1, <3>1, <3>2
  <2>4. \A i \in 1 .. k - 1 : s.nodes[q[i]].parent = q[i + 1]
    <3> SUFFICES ASSUME NEW i \in 1 .. k - 1 PROVE s.nodes[q[i]].parent = q[i + 1]
      OBVIOUS
    <3>1. i \in 1 .. Len(path) - 1 /\ i \in 1 .. k /\ i + 1 \in 1 .. k
      BY <1>1
    <3>2. q[i] = path[i] /\ q[i + 1] = path[i + 1]
      BY <1>2, <3>1
    <3>. QED BY <2>2, <3>1, <3>2
  <2>5. q[1] = n
    BY <1>1, <1>2 DEF IsChain
  <2>6. Len(q) = k /\ k >= 1 /\ q \in Seq(Nat)
    BY <1>2
  <2>7. /\ Len(q) >= 1
        /\ \A i \in 1 .. Len(q) : q[i] \in DOMAIN s.nodes
        /\ \A i \in 1 .. Len(q) - 1 : s.nodes[q[i]].parent = q[i + 1]
    BY <2>3, <2>4, <2>6
  <2>. QED BY <2>5, <2>6, <2>7, Zenon DEF IsChain
<1>. QED BY <1>3 DEF q

\* Selecting a pane of a window that does not show leaves the focus where it is.
LEMMA SelectPaneKeeps ==
    ASSUME NEW s, NEW F, NEW e, Forest(s, F, e), NEW sid, NEW leaf
    PROVE  Kept(s, SelectPane(s, sid, leaf), F, e)
<1> DEFINE window == WindowOf(s, sid, leaf)
           path == PathUp(s, leaf)
           q == SubSeq(path, 1, Position(path, window) + 1)
<1>1. CASE ~ Focusable(s, sid, leaf)
  BY <1>1, KeptErr DEF SelectPane
<1>2. CASE Focusable(s, sid, leaf)
  <2>0. leaf \in DOMAIN s.nodes /\ s.nodes[leaf].kind = "view"
    BY <1>2 DEF Focusable, IsKind
  <2> DEFINE blocked == window # None /\ Blocked(s, RootOf(s, sid), window)
  <2>3. CASE blocked
    BY <1>2, <2>3, KeptErr DEF SelectPane
  <2>1. CASE ~ blocked /\ (window = None \/ IsVisibleFrom(s, RootOf(s, sid), window))
    BY <1>2, <2>1, FocusLeafKeeps DEF SelectPane
  <2>2. CASE ~ blocked /\ ~ (window = None \/ IsVisibleFrom(s, RootOf(s, sid), window))
    <3>1. IsChain(s, leaf, path)
      BY <2>0, PathUpFacts DEF Forest, IsPath
    <3>2. path \in Seq(Nat) /\ Len(path) \in Nat
      BY <3>1 DEF IsChain
    <3>3. Len(path) > 1 /\ window = path[Len(path) - 1]
      BY <2>2 DEF WindowOf
    <3>4. window \in ToSet(path)
      BY <3>2, <3>3 DEF ToSet
    <3> HIDE DEF window, path
    <3>5. Position(path, window) + 1 \in 1 .. Len(path)
      BY <3>2, <3>4, PositionIs
    <3>6. IsChain(s, leaf, q)
      BY <3>1, <3>5, ChainPrefix
    <3>7. Forest(Activate(s, q), F, e) /\ SameTree(s, Activate(s, q))
      BY <2>0, <3>6, ActivateKeeps
    <3>8. SelectPane(s, sid, leaf) = Ok(Activate(s, q))
      BY <1>2, <2>2 DEF SelectPane, window, path
    <3>. QED BY <3>7, <3>8 DEF Kept, Ok
  <2>. QED BY <2>1, <2>2, <2>3
<1>. QED BY <1>1, <1>2

\* The zoom is no part of the trees.
LEMMA ZoomKeeps ==
    ASSUME NEW s, NEW F, NEW e, Forest(s, F, e), NEW sid \in DOMAIN s.sessions, NEW v
    PROVE  LET x == [s EXCEPT !.sessions[sid].zoom = v] IN Forest(x, F, e) /\ SameTree(s, x)
<1> DEFINE x == [s EXCEPT !.sessions[sid].zoom = v]
           z == s.sessions[sid]
           y == [z EXCEPT !.zoom = v]
<1>0. IsState(s) /\ Shape(s) /\ IsSession(s.sessions[sid])
  BY DEF Forest, IsState
<1>1. /\ x.sessions = [s.sessions EXCEPT ![sid] = y] /\ Shape(x) /\ x.nodes = s.nodes
      /\ x.buffers = s.buffers /\ x.nextNode = s.nextNode /\ x.floats = s.floats
      /\ x.nextSession = s.nextSession /\ x.nextFloat = s.nextFloat
  BY <1>0 DEF Shape
<1>2. IsSession(z)
  BY <1>0
<1> HIDE DEF z, x
<1>3. IsSession(y) /\ y.root = z.root /\ y.floats = z.floats /\ y.float = z.float
  BY <1>2 DEF IsSession
<1> HIDE DEF y
<1>4. IsState(x) /\ SameTree(s, x) /\ SameMemory(s, x)
  BY <1>0, <1>1, <1>3, SessionKeeps DEF z
<1>. QED BY <1>4, SameMemoryForest DEF x

\* Dropping a zoom whose node no longer shows.
LEMMA NormalizeZoomKeeps ==
    ASSUME NEW s, NEW F, NEW e, Forest(s, F, e), NEW sid \in DOMAIN s.sessions
    PROVE  Forest(NormalizeZoom(s, sid), F, e) /\ SameTree(s, NormalizeZoom(s, sid))
  BY ZoomKeeps DEF NormalizeZoom

\* In sound trees it can be told whether a node shows.
LEMMA CanTell ==
    ASSUME NEW s, NEW F, NEW e, Forest(s, F, e), NEW sid \in DOMAIN s.sessions,
           NEW n \in DOMAIN s.nodes
    PROVE  ~Unsure(s, sid, n)
<1>1. IsState(s) /\ Linked(s) /\ Ranked(s)
  BY DEF Forest
<1>2. TopRoot(s, n) \in DOMAIN s.nodes
  BY <1>1, TopRootFacts
<1>3. ~Blocked(s, TopRoot(s, n), n)
  BY <1>1, <1>2, Unsevered
<1>. QED BY <1>3, Zenon DEF Unsure

LEMMA CheckZoomIs ==
    ASSUME NEW s, NEW F, NEW e, Forest(s, F, e), NEW sid \in DOMAIN s.sessions
    PROVE  CheckZoom(s, sid) = Ok(NormalizeZoom(s, sid))
  BY CanTell DEF CheckZoom

\* Setting or dropping the zoom.
LEMMA SetZoomKeeps ==
    ASSUME NEW s, NEW F, NEW e, Forest(s, F, e), NEW sid \in DOMAIN s.sessions, NEW v
    PROVE  Kept(s, Ok(SetZoom(s, sid, v)), F, e)
  BY ZoomKeeps DEF SetZoom, Kept, Ok

\* Zooming a node moves the focus into it.
LEMMA ZoomNodeKeeps ==
    ASSUME NEW s, NEW e, Forest(s, {}, e), NEW n \in DOMAIN s.nodes
    PROVE  Kept(s, Zoom(s, n), {}, e)
<1> DEFINE sid == SessionOf(s, n)
           leaf == s.sessions[sid].leaf
           c == FocusCandidate(s, n)
           r == IF leaf # None /\ n \in ToSet(PathUp(s, leaf)) THEN Ok(s)
                ELSE FocusOrClear(s, sid, c)
           refused == \/ Unsure(s, sid, n) \/ ~IsVisible(s, sid, n)
                      \/ leaf # None /\ leaf \notin DOMAIN s.nodes
<1>0. sid \in DOMAIN s.sessions
  BY DEF Forest, Linked, SessionOf
<1>1. CASE refused
  BY <1>1, KeptErr DEF Zoom
<1>2. CASE ~ refused
  <2>1. Kept(s, r, {}, e) /\ r.ok
    <3>1. c \in PanesOf(s, sid)
      BY CandidatePanes DEF SessionOf
    <3>2. Kept(s, FocusOrClear(s, sid, c), {}, e) /\ FocusOrClear(s, sid, c).ok
      BY <1>0, <3>1, FocusOrClearKeeps
    <3>3. Kept(s, Ok(s), {}, e) /\ Ok(s).ok
      BY KeptErr DEF Ok
    <3>. QED BY <3>2, <3>3
  <2>2. Zoom(s, n) = Ok(SetZoom(r.s, sid, n))
    BY <1>2, <2>1 DEF Zoom, AndThen
  <2> HIDE DEF r
  <2>3. Forest(r.s, {}, e) /\ SameTree(s, r.s) /\ sid \in DOMAIN r.s.sessions
    BY <1>0, <2>1 DEF Kept, SameTree
  <2> HIDE DEF sid
  <2>4. Kept(r.s, Ok(SetZoom(r.s, sid, n)), {}, e)
    BY <2>3, SetZoomKeeps
  <2>5. Ok(SetZoom(r.s, sid, n)).ok
    BY DEF Ok
  <2>. QED BY <2>2, <2>3, <2>4, <2>5, SameTreeTrans DEF Kept
<1>. QED BY <1>1, <1>2

\* Zooming a node, or no longer.
LEMMA ToggleZoomKeeps ==
    ASSUME NEW s, NEW e, Forest(s, {}, e), NEW n \in DOMAIN s.nodes
    PROVE  Kept(s, ToggleZoom(s, n), {}, e)
<1>1. SessionOf(s, n) \in DOMAIN s.sessions
  BY DEF Forest, Linked, SessionOf
<1>. QED BY <1>1, SetZoomKeeps, ZoomNodeKeeps DEF ToggleZoom

\* What a closing operation ends with succeeds.
LEMMA SettleKeeps ==
    ASSUME NEW s, NEW e, Forest(s, {}, e), NEW sid \in DOMAIN s.sessions
    PROVE  Settle(s, sid).ok /\ Forest(Settle(s, sid).s, {}, e) /\ SameTree(s, Settle(s, sid).s)
<1> DEFINE x == NormalizeZoom(s, sid)
<1>1. Forest(x, {}, e) /\ SameTree(s, x)
  BY NormalizeZoomKeeps
<1>2. Settle(s, sid) = HealFocus(x, sid)
  BY CheckZoomIs DEF Settle, AndThen, Ok
<1> HIDE DEF x
<1>3. sid \in DOMAIN x.sessions
  BY <1>1 DEF SameTree
<1>. QED BY <1>1, <1>2, <1>3, HealFocusKeeps, SameTreeTrans DEF Kept

-----------------------------------------------------------------------------
(* Removing a tree *)

\* The views, and what they show, are the same.
SameViews(s, x) ==
    /\ x.buffers = s.buffers /\ DOMAIN x.sessions = DOMAIN s.sessions
    /\ \A n \in DOMAIN s.nodes : s.nodes[n].kind = "view" =>
          /\ n \in DOMAIN x.nodes /\ x.nodes[n].kind = "view"
          /\ x.nodes[n].buf = s.nodes[n].buf /\ x.nodes[n].sess = s.nodes[n].sess
    /\ \A n \in DOMAIN x.nodes : x.nodes[n].kind = "view" =>
          n \in DOMAIN s.nodes /\ s.nodes[n].kind = "view"

\* The same trees have the same views.
LEMMA SameTreeViews == ASSUME NEW s, NEW x, SameTree(s, x) PROVE SameViews(s, x)
  BY DEF SameTree, SameViews

\* Two steps that keep the views.
LEMMA SameViewsTrans ==
    ASSUME NEW s, NEW x, NEW y, SameViews(s, x), SameViews(x, y)
    PROVE  SameViews(s, y)
  BY DEF SameViews

\* Where the views are the same, views and buffers name each other as before.
LEMMA SameViewsAttached ==
    ASSUME NEW s, NEW x, NEW V, SameViews(s, x), Attached(s, V)
    PROVE  Attached(x, V)
<1>1. \A b \in DOMAIN x.buffers : x.buffers[b].att # None =>
          /\ x.buffers[b].att \in DOMAIN x.nodes /\ x.nodes[x.buffers[b].att].kind = "view"
          /\ x.nodes[x.buffers[b].att].buf = b
  BY DEF SameViews, Attached
<1>2. \A n \in DOMAIN x.nodes : x.nodes[n].kind = "view" /\ n \notin V =>
          x.nodes[n].buf \in DOMAIN x.buffers /\ x.buffers[x.nodes[n].buf].att = n
  BY DEF SameViews, Attached
<1>. QED BY <1>1, <1>2 DEF Attached

\* How many children a node needs, by what holds it.
Least(s, n) == IF n \in SessionRoots(s) THEN 0 ELSE IF n \in FloatRoots(s) THEN 1 ELSE 2

Fits(node, less, least) ==
    /\ node.kind = "view" => node.kids = <<>>
    /\ node.kind = "split" => Len(node.kids) + less >= 2 /\ Len(node.sizes) = Len(node.kids)
    /\ node.kind # "split" => node.sizes = <<>>
    /\ node.kind = "tabs" => Len(node.kids) + less >= least

\* Shaped, node by node.
LEMMA ShapedIs ==
    ASSUME NEW s, NEW e, s.nodes \in [DOMAIN s.nodes -> NodeType]
    PROVE  Shaped(s, e) <=> \A n \in DOMAIN s.nodes :
                              Fits(s.nodes[n], IF n = e THEN 1 ELSE 0, Least(s, n))
<1>1. \A n \in DOMAIN s.nodes : Len(s.nodes[n].kids) \in Nat
  <2>1. \A n \in DOMAIN s.nodes : s.nodes[n] \in NodeType
    OBVIOUS
  <2>2. \A y \in NodeType : Len(y.kids) \in Nat
    BY DEF NodeType
  <2>. QED BY <2>1, <2>2
<1>2. ASSUME NEW n \in DOMAIN s.nodes
      PROVE  (LET node == s.nodes[n]
                  less == IF n = e THEN 1 ELSE 0
              IN  /\ node.kind = "view" => node.kids = <<>>
                  /\ node.kind = "split" => Len(node.kids) + less >= 2 /\ Len(node.sizes) = Len(node.kids)
                  /\ node.kind # "split" => node.sizes = <<>>
                  /\ node.kind = "tabs" /\ n \notin SessionRoots(s) =>
                        Len(node.kids) + less >= IF n \in FloatRoots(s) THEN 1 ELSE 2)
             <=> Fits(s.nodes[n], IF n = e THEN 1 ELSE 0, Least(s, n))
  <2> DEFINE L == Len(s.nodes[n].kids)
             less == IF n = e THEN 1 ELSE 0
  <2>1. L \in Nat /\ less \in Nat
    BY <1>1
  <2> HIDE DEF L, less
  <2>2. L + less >= 0
    BY <2>1
  <2>3. CASE n \in SessionRoots(s)
    BY <2>2, <2>3 DEF Fits, Least, L, less
  <2>4. CASE n \notin SessionRoots(s)
    BY <2>4 DEF Fits, Least
  <2>. QED BY <2>3, <2>4
<1>. QED BY <1>2 DEF Shaped

\* What has room to lose a child, or needs fewer.
LEMMA FitsMore ==
    ASSUME NEW node \in NodeType, NEW less \in Nat, NEW least \in Nat, NEW more \in Nat, NEW fewer \in Nat,
           Fits(node, less, least), less <= more, fewer <= least
    PROVE  Fits(node, more, fewer)
<1>1. Len(node.kids) \in Nat
  BY DEF NodeType
<1>. QED BY <1>1 DEF Fits

\* A forest, whatever the number of children.
Trunk(s, free) ==
    /\ IsState(s) /\ Linked(s) /\ Rooted(s, free) /\ Pointed(s) /\ Remembered(s) /\ Owned(s)
    /\ Ranked(s)

\* A forest is a trunk with enough children everywhere.
LEMMA ForestIs ==
    ASSUME NEW s, NEW F, NEW e
    PROVE  Forest(s, F, e) <=> Trunk(s, F) /\ Shaped(s, e)
  BY DEF Forest, Trunk

\* What is left when a tree is removed.
CutNodes(s, x, n) ==
    /\ DOMAIN x.nodes = DOMAIN s.nodes \ Below(s, n)
    /\ \A m \in DOMAIN x.nodes : x.nodes[m] = s.nodes[m]
    /\ x.sessions = s.sessions /\ x.floats = s.floats /\ x.nextNode = s.nextNode
    /\ x.nextSession = s.nextSession /\ x.nextFloat = s.nextFloat

CutOff(s, x, n) ==
    /\ CutNodes(s, x, n)
    /\ DOMAIN x.buffers = DOMAIN s.buffers
    /\ \A b \in DOMAIN s.buffers :
          /\ x.buffers[b].exited = s.buffers[b].exited /\ x.buffers[b].ever = s.buffers[b].ever
          /\ x.buffers[b].att = IF s.buffers[b].att \in Below(s, n) /\ s.nodes[s.buffers[b].att].buf = b
                                THEN None ELSE s.buffers[b].att

\* RemoveSubtree drops the nodes under one and detaches what they showed.
LEMMA RemoveSubtreeIs ==
    ASSUME NEW s, IsState(s), NEW n, ~Severed(s, n)
    PROVE  LET x == RemoveSubtree(s, n) IN IsState(x) /\ CutOff(s, x, n)
<1> DEFINE gone == Below(s, n)
           buffer(b) == IF s.buffers[b].att \in gone /\ s.nodes[s.buffers[b].att].buf = b
                        THEN [s.buffers[b] EXCEPT !.att = None] ELSE s.buffers[b]
           xb == [b \in DOMAIN s.buffers |-> buffer(b)]
           xn == Restrict(s.nodes, DOMAIN s.nodes \ gone)
           x == RemoveSubtree(s, n)
<1>0. Shape(s)
  BY DEF IsState
<1>1. /\ x.nodes = xn /\ x.buffers = xb /\ x.sessions = s.sessions /\ x.floats = s.floats
      /\ x.nextNode = s.nextNode /\ x.nextSession = s.nextSession /\ x.nextFloat = s.nextFloat
      /\ Shape(x)
  BY <1>0 DEF Shape, RemoveSubtree
<1>2. DOMAIN xn = DOMAIN s.nodes \ gone /\ \A m \in DOMAIN xn : xn[m] = s.nodes[m]
  BY DEF Restrict
<1>3. s.nodes \in [DOMAIN s.nodes -> NodeType] /\ DOMAIN s.nodes \subseteq 1 .. s.nextNode - 1
  BY DEF IsState
<1>4. xn \in [DOMAIN s.nodes \ gone -> NodeType]
  BY <1>3 DEF Restrict
<1>5. ASSUME NEW b \in DOMAIN s.buffers
      PROVE  /\ buffer(b) \in BufferType /\ buffer(b).exited = s.buffers[b].exited
             /\ buffer(b).ever = s.buffers[b].ever
             /\ buffer(b).att = IF s.buffers[b].att \in gone /\ s.nodes[s.buffers[b].att].buf = b
                                THEN None ELSE s.buffers[b].att
  <2> DEFINE z == s.buffers[b]
  <2>1. z \in BufferType
    BY DEF IsState
  <2>2. [z EXCEPT !.att = None] \in BufferType /\ [z EXCEPT !.att = None].att = None
        /\ [z EXCEPT !.att = None].ever = z.ever /\ [z EXCEPT !.att = None].exited = z.exited
    <3> HIDE DEF z
    <3>. QED BY <2>1 DEF BufferType, None
  <2>. QED BY <2>1, <2>2
<1>6. xb \in [DOMAIN s.buffers -> BufferType]
  BY <1>5
<1> HIDE DEF x, xn, gone
<1>7. IsState(x)
  <2>1. DOMAIN xn \subseteq 1 .. s.nextNode - 1
    BY <1>2, <1>3
  <2> HIDE DEF xb
  <2>. QED BY <1>1, <1>2, <1>4, <1>6, <2>1 DEF IsState
<1> HIDE DEF buffer
<1>9. DOMAIN xb = DOMAIN s.buffers /\ \A b \in DOMAIN s.buffers : xb[b] = buffer(b)
  OBVIOUS
<1> HIDE DEF xb
<1>8. CutOff(s, x, n)
  <2>1. CutNodes(s, x, n)
    BY <1>1, <1>2, Zenon DEF CutNodes, gone
  <2>2. \A b \in DOMAIN s.buffers :
          /\ x.buffers[b].exited = s.buffers[b].exited /\ x.buffers[b].ever = s.buffers[b].ever
          /\ x.buffers[b].att = IF s.buffers[b].att \in gone /\ s.nodes[s.buffers[b].att].buf = b
                                THEN None ELSE s.buffers[b].att
    BY <1>1, <1>5, <1>9, Zenon
  <2>. QED BY <1>1, <1>9, <2>1, <2>2, Zenon DEF CutOff, gone
<1>. QED BY <1>7, <1>8 DEF x

\* It fails only where a walk does.
LEMMA RemoveTreeIs ==
    ASSUME NEW s, NEW n, ~Severed(s, n)
    PROVE  RemoveTree(s, n) = Ok(RemoveSubtree(s, n))
  BY DEF RemoveTree, Ok

\* What is left, views and buffers, name each other.
LEMMA CutAttached ==
    ASSUME NEW s, NEW x, NEW n, NEW V, CutOff(s, x, n), Attached(s, V)
    PROVE  Attached(x, V)
<1>1. ASSUME NEW b \in DOMAIN x.buffers, x.buffers[b].att # None
      PROVE  /\ x.buffers[b].att \in DOMAIN x.nodes /\ x.nodes[x.buffers[b].att].kind = "view"
             /\ x.nodes[x.buffers[b].att].buf = b
  <2>1. b \in DOMAIN s.buffers /\ x.buffers[b].att = s.buffers[b].att
    BY <1>1 DEF CutOff, CutNodes
  <2>2. /\ s.buffers[b].att \in DOMAIN s.nodes /\ s.nodes[s.buffers[b].att].kind = "view"
        /\ s.nodes[s.buffers[b].att].buf = b
    BY <1>1, <2>1 DEF Attached
  <2>3. s.buffers[b].att \notin Below(s, n)
    BY <1>1, <2>1, <2>2 DEF CutOff, CutNodes
  <2>. QED BY <2>1, <2>2, <2>3 DEF CutOff, CutNodes
<1>2. ASSUME NEW m \in DOMAIN x.nodes, x.nodes[m].kind = "view", m \notin V
      PROVE  x.nodes[m].buf \in DOMAIN x.buffers /\ x.buffers[x.nodes[m].buf].att = m
  <2>1. m \in DOMAIN s.nodes /\ m \notin Below(s, n) /\ x.nodes[m] = s.nodes[m]
    BY DEF CutOff, CutNodes
  <2>2. s.nodes[m].buf \in DOMAIN s.buffers /\ s.buffers[s.nodes[m].buf].att = m
    BY <1>2, <2>1 DEF Attached
  <2>. QED BY <2>1, <2>2 DEF CutOff, CutNodes
<1>. QED BY <1>1, <1>2 DEF Attached

\* Of what makes a forest, all but the roots survives the removal of a tree.
LEMMA CutKeeps ==
    ASSUME NEW s, NEW F, Trunk(s, F), NEW n \in DOMAIN s.nodes,
           s.nodes[n].parent = None, NEW x, IsState(x), CutNodes(s, x, n)
    PROVE  /\ Linked(x) /\ Pointed(x) /\ Remembered(x) /\ Owned(x) /\ Ranked(x)
           /\ \A m \in DOMAIN s.nodes : s.nodes[m].parent = None /\ m # n => m \in DOMAIN x.nodes
<1>0. IsState(s) /\ Linked(s) /\ Ranked(s) /\ None \notin DOMAIN s.nodes
  BY DEF Trunk, IsState, None
<1> DEFINE gone == Below(s, n)
<1>1. /\ n \in gone /\ gone \subseteq DOMAIN s.nodes
      /\ \A m \in gone : Kids(s, m) \subseteq gone
      /\ \A m \in gone : m = n \/ s.nodes[m].parent \in gone
  BY <1>0, BelowFacts
<1>2. /\ DOMAIN x.nodes = DOMAIN s.nodes \ gone
      /\ \A m \in DOMAIN x.nodes : x.nodes[m] = s.nodes[m]
      /\ x.sessions = s.sessions /\ x.floats = s.floats /\ x.nextNode = s.nextNode
      /\ x.nextFloat = s.nextFloat
  BY DEF CutNodes
<1> HIDE DEF gone
<1>3. Linked(x)
  <2> SUFFICES ASSUME NEW m \in DOMAIN x.nodes
               PROVE  /\ x.nodes[m].sess \in DOMAIN x.sessions
                      /\ x.nodes[m].parent # None =>
                            /\ x.nodes[m].parent \in DOMAIN x.nodes
                            /\ m \in Kids(x, x.nodes[m].parent)
                            /\ x.nodes[x.nodes[m].parent].sess = x.nodes[m].sess
                      /\ Distinct(x.nodes[m].kids)
                      /\ \A k \in Kids(x, m) : k \in DOMAIN x.nodes /\ x.nodes[k].parent = m
    BY DEF Linked
  <2>1. m \in DOMAIN s.nodes /\ m \notin gone /\ x.nodes[m] = s.nodes[m] /\ Kids(x, m) = Kids(s, m)
    BY <1>2 DEF Kids
  <2>2. s.nodes[m].sess \in DOMAIN s.sessions /\ Distinct(s.nodes[m].kids)
    BY <1>0, <2>1 DEF Linked
  <2>3. ASSUME s.nodes[m].parent # None
        PROVE  /\ s.nodes[m].parent \in DOMAIN x.nodes /\ m \in Kids(x, s.nodes[m].parent)
               /\ x.nodes[s.nodes[m].parent].sess = s.nodes[m].sess
    <3>1. /\ s.nodes[m].parent \in DOMAIN s.nodes /\ m \in Kids(s, s.nodes[m].parent)
          /\ s.nodes[s.nodes[m].parent].sess = s.nodes[m].sess
      BY <1>0, <2>1, <2>3 DEF Linked
    <3>2. s.nodes[m].parent \notin gone
      BY <1>1, <2>1, <3>1
    <3>. QED BY <1>2, <3>1, <3>2 DEF Kids
  <2>4. ASSUME NEW k \in Kids(s, m) PROVE k \in DOMAIN x.nodes /\ x.nodes[k].parent = m
    <3>1. k \in DOMAIN s.nodes /\ s.nodes[k].parent = m
      BY <1>0, <2>1 DEF Linked
    <3>2. k \notin gone
      BY <1>0, <1>1, <2>1, <3>1
    <3>. QED BY <1>2, <3>1, <3>2
  <2>. QED BY <1>2, <2>1, <2>2, <2>3, <2>4
<1>5. Pointed(x)
  BY <1>2 DEF Trunk, Pointed
<1>6. Remembered(x)
  BY <1>2 DEF Trunk, Remembered
<1>7. Owned(x)
  BY <1>2 DEF Trunk, Owned
<1>8. Ranked(x)
  <2>1. PICK top \in Nat : \E rank \in [DOMAIN s.nodes -> 0 .. top] :
          \A m \in DOMAIN s.nodes : s.nodes[m].parent # None => rank[m] < rank[s.nodes[m].parent]
    BY <1>0 DEF Ranked
  <2>2. PICK rank \in [DOMAIN s.nodes -> 0 .. top] :
          \A m \in DOMAIN s.nodes : s.nodes[m].parent # None => rank[m] < rank[s.nodes[m].parent]
    BY <2>1
  <2> DEFINE r == [m \in DOMAIN x.nodes |-> rank[m]]
  <2>3. r \in [DOMAIN x.nodes -> 0 .. top]
    BY <1>2, <2>2
  <2>4. ASSUME NEW m \in DOMAIN x.nodes, x.nodes[m].parent # None
        PROVE  r[m] < r[x.nodes[m].parent]
    <3>1. x.nodes[m] = s.nodes[m] /\ m \in DOMAIN s.nodes /\ x.nodes[m].parent \in DOMAIN x.nodes
      BY <1>2, <1>3, <2>4 DEF Linked
    <3>. QED BY <2>2, <2>4, <3>1
  <2> HIDE DEF r
  <2>. QED BY <2>3, <2>4 DEF Ranked
<1>9. \A m \in DOMAIN s.nodes : s.nodes[m].parent = None /\ m # n => m \in DOMAIN x.nodes
  BY <1>0, <1>1, <1>2
<1>. QED BY <1>3, <1>5, <1>6, <1>7, <1>8, <1>9

\* A container that is gone is no exception any more.
LEMMA NoException ==
    ASSUME NEW s, NEW F, NEW e, Forest(s, F, e), e \notin DOMAIN s.nodes
    PROVE  Forest(s, F, None)
<1>1. None \notin DOMAIN s.nodes
  BY DEF Forest, IsState, None
<1>2. Shaped(s, None)
  BY <1>1 DEF Forest, Shaped
<1>. QED BY <1>2 DEF Forest

\* Removing a tree that nothing holds.
LEMMA CutFreeTrunk ==
    ASSUME NEW s, NEW F, Trunk(s, F), NEW n \in F, NEW x, IsState(x), CutNodes(s, x, n)
    PROVE  Trunk(x, F \ {n}) /\ SessionRoots(x) = SessionRoots(s) /\ FloatRoots(x) = FloatRoots(s)
<1>0. IsState(s) /\ Linked(s) /\ Ranked(s) /\ Rooted(s, F) /\ None \notin DOMAIN s.nodes
  BY DEF Trunk, IsState, None
<1>1. n \in DOMAIN s.nodes /\ s.nodes[n].parent = None /\ n \notin SessionRoots(s) /\ n \notin FloatRoots(s)
  BY <1>0 DEF Rooted
<1>3. /\ Linked(x) /\ Pointed(x) /\ Remembered(x) /\ Owned(x) /\ Ranked(x)
      /\ \A m \in DOMAIN s.nodes : s.nodes[m].parent = None /\ m # n => m \in DOMAIN x.nodes
  BY <1>1, CutKeeps
<1>4. /\ DOMAIN x.nodes = DOMAIN s.nodes \ Below(s, n)
      /\ \A m \in DOMAIN x.nodes : x.nodes[m] = s.nodes[m]
      /\ x.sessions = s.sessions /\ x.floats = s.floats
  BY DEF CutNodes
<1>5. n \in Below(s, n)
  BY <1>0, <1>1, BelowFacts
<1>6. Rooted(x, F \ {n}) /\ SessionRoots(x) = SessionRoots(s) /\ FloatRoots(x) = FloatRoots(s)
  <2>1. SessionRoots(x) = SessionRoots(s) /\ FloatRoots(x) = FloatRoots(s)
    BY <1>4 DEF SessionRoots, FloatRoots
  <2>2. \A m \in DOMAIN x.nodes :
          x.nodes[m].parent = None <=> m \in SessionRoots(x) \/ m \in FloatRoots(x) \/ m \in F \ {n}
    BY <1>0, <1>4, <1>5, <2>1 DEF Rooted
  <2>3. F \ {n} \subseteq DOMAIN x.nodes
    BY <1>0, <1>3 DEF Rooted
  <2>4. \A m \in F \ {n} : m \notin SessionRoots(x) /\ m \notin FloatRoots(x)
    BY <1>0, <2>1 DEF Rooted
  <2>5. ASSUME NEW r \in SessionRoots(s) \cup FloatRoots(s), r \in DOMAIN s.nodes PROVE r \in DOMAIN x.nodes
    <3>1. s.nodes[r].parent = None /\ r # n
      BY <1>0, <1>1, <2>5 DEF Rooted
    <3>. QED BY <1>3, <2>5, <3>1
  <2>6. ASSUME NEW sid \in DOMAIN x.sessions
        PROVE  LET session == x.sessions[sid]
               IN  /\ session.root \in DOMAIN x.nodes
                   /\ x.nodes[session.root].kind = "tabs" /\ x.nodes[session.root].sess = sid
                   /\ Distinct(session.floats)
                   /\ ToSet(session.floats) = {f \in DOMAIN x.floats : x.floats[f].sess = sid}
    <3>1. s.sessions[sid].root \in SessionRoots(s) /\ s.sessions[sid].root \in DOMAIN s.nodes
      BY <1>0, <1>4 DEF Rooted, SessionRoots
    <3>2. s.sessions[sid].root \in DOMAIN x.nodes
      BY <2>5, <3>1
    <3>. QED BY <1>0, <1>4, <3>2 DEF Rooted
  <2>7. ASSUME NEW f \in DOMAIN x.floats
        PROVE  LET float == x.floats[f]
               IN  /\ float.root \in DOMAIN x.nodes /\ float.root \notin SessionRoots(x)
                   /\ float.sess \in DOMAIN x.sessions /\ x.nodes[float.root].sess = float.sess
                   /\ \A g \in DOMAIN x.floats : x.floats[g].root = float.root => g = f
    <3>1. s.floats[f].root \in FloatRoots(s) /\ s.floats[f].root \in DOMAIN s.nodes
      BY <1>0, <1>4 DEF Rooted, FloatRoots
    <3>2. s.floats[f].root \in DOMAIN x.nodes
      BY <2>5, <3>1
    <3>. QED BY <1>0, <1>4, <2>1, <3>2 DEF Rooted
  <2>. QED BY <2>1, <2>2, <2>3, <2>4, <2>6, <2>7 DEF Rooted
<1>. QED BY <1>3, <1>6 DEF Trunk

\* What is left has the children it had.
LEMMA CutShaped ==
    ASSUME NEW s, NEW x, NEW n, NEW e, IsState(x), CutNodes(s, x, n),
           \A m \in DOMAIN s.nodes \ Below(s, n) : Fits(s.nodes[m], IF m = e THEN 1 ELSE 0, Least(s, m))
    PROVE  Shaped(x, e)
<1>1. /\ DOMAIN x.nodes = DOMAIN s.nodes \ Below(s, n)
      /\ \A m \in DOMAIN x.nodes : x.nodes[m] = s.nodes[m]
      /\ x.sessions = s.sessions /\ x.floats = s.floats
  BY DEF CutNodes
<1>2. SessionRoots(x) = SessionRoots(s) /\ FloatRoots(x) = FloatRoots(s)
  BY <1>1 DEF SessionRoots, FloatRoots
<1>3. \A m \in DOMAIN x.nodes : Fits(x.nodes[m], IF m = e THEN 1 ELSE 0, Least(x, m))
  BY <1>1, <1>2 DEF Least
<1>4. x.nodes \in [DOMAIN x.nodes -> NodeType]
  BY DEF IsState
<1>. QED BY <1>3, <1>4, ShapedIs

\* Removing a tree that nothing holds leaves a forest.
LEMMA RemoveFreeKeeps ==
    ASSUME NEW s, NEW F, NEW e, Forest(s, F, e), NEW n \in F
    PROVE  LET x == RemoveSubtree(s, n)
           IN  /\ Forest(x, F \ {n}, e) /\ CutOff(s, x, n)
               /\ e \in Below(s, n) => Forest(x, F \ {n}, None)
<1> DEFINE x == RemoveSubtree(s, n)
<1>0. Trunk(s, F) /\ Shaped(s, e) /\ IsState(s) /\ s.nodes \in [DOMAIN s.nodes -> NodeType]
  BY ForestIs DEF Forest, IsState
<1>a. ~Severed(s, n)
  BY Unsevered DEF Forest, Rooted
<1>1. IsState(x) /\ CutOff(s, x, n) /\ CutNodes(s, x, n)
  BY <1>0, <1>a, RemoveSubtreeIs DEF CutOff
<1> HIDE DEF x
<1>2. Trunk(x, F \ {n})
  BY <1>0, <1>1, CutFreeTrunk
<1>3. \A m \in DOMAIN s.nodes : Fits(s.nodes[m], IF m = e THEN 1 ELSE 0, Least(s, m))
  BY <1>0, ShapedIs
<1>4. Shaped(x, e)
  BY <1>1, <1>3, CutShaped
<1>5. Forest(x, F \ {n}, e)
  BY <1>2, <1>4, ForestIs
<1>6. e \in Below(s, n) => Forest(x, F \ {n}, None)
  BY <1>1, <1>5, NoException DEF CutNodes
<1>. QED BY <1>1, <1>5, <1>6 DEF x

-----------------------------------------------------------------------------
(* Views and their buffers *)

\* Only weights, buffers and flags of nodes changed.
SameLinks(s, x) ==
    /\ DOMAIN x.nodes = DOMAIN s.nodes
    /\ \A n \in DOMAIN s.nodes :
          /\ x.nodes[n].kind = s.nodes[n].kind /\ x.nodes[n].sess = s.nodes[n].sess
          /\ x.nodes[n].parent = s.nodes[n].parent /\ x.nodes[n].kids = s.nodes[n].kids
          /\ x.nodes[n].active = s.nodes[n].active /\ x.nodes[n].last = s.nodes[n].last
          /\ s.nodes[n].sizes = <<>> => x.nodes[n].sizes = <<>>
          /\ Len(x.nodes[n].sizes) = Len(s.nodes[n].sizes)
    /\ x.sessions = s.sessions /\ x.floats = s.floats
    /\ x.nextNode = s.nextNode /\ x.nextSession = s.nextSession /\ x.nextFloat = s.nextFloat

\* States that differ in buffers and views only.
LEMMA LinksForest ==
    ASSUME NEW s, NEW F, NEW e, Forest(s, F, e), NEW x, IsState(x), SameLinks(s, x)
    PROVE  Forest(x, F, e)
<1>0. IsState(s) /\ Linked(s) /\ Rooted(s, F) /\ Shaped(s, e) /\ Ranked(s) /\ Pointed(s) /\ Remembered(s) /\ Owned(s)
  BY DEF Forest
<1>1. \A n : n \in DOMAIN s.nodes => Kids(x, n) = Kids(s, n)
  BY DEF SameLinks, Kids
<1>2. Linked(x)
  BY <1>0, <1>1 DEF Linked, SameLinks
<1>3. SessionRoots(x) = SessionRoots(s) /\ FloatRoots(x) = FloatRoots(s)
  BY DEF SessionRoots, FloatRoots, SameLinks
<1>4. Rooted(x, F)
  BY <1>0, <1>3 DEF Rooted, SameLinks
<1>5. Shaped(x, e)
  <2>1. DOMAIN x.nodes = DOMAIN s.nodes
    BY DEF SameLinks
  <2>2. ASSUME NEW n \in DOMAIN s.nodes
        PROVE  /\ x.nodes[n].kind = s.nodes[n].kind /\ x.nodes[n].kids = s.nodes[n].kids
               /\ s.nodes[n].sizes = <<>> => x.nodes[n].sizes = <<>>
               /\ Len(x.nodes[n].sizes) = Len(s.nodes[n].sizes)
    BY DEF SameLinks
  <2>. QED BY <1>0, <1>3, <2>1, <2>2 DEF Shaped
<1>6. Ranked(x)
  BY <1>0 DEF Ranked, SameLinks
<1>7. Pointed(x) /\ Remembered(x) /\ Owned(x)
  BY <1>0 DEF Pointed, Remembered, Owned, SameLinks
<1>. QED BY <1>2, <1>4, <1>5, <1>6, <1>7 DEF Forest

\* What inserting a node gives.
Inserted(s, x, y) ==
    /\ DOMAIN x.nodes = DOMAIN s.nodes \cup {s.nextNode}
    /\ x.nodes[s.nextNode] = y /\ \A m \in DOMAIN s.nodes : x.nodes[m] = s.nodes[m]
    /\ x.sessions = s.sessions /\ x.floats = s.floats /\ x.buffers = s.buffers
    /\ x.nextNode = s.nextNode + 1 /\ x.nextSession = s.nextSession /\ x.nextFloat = s.nextFloat
    /\ s.nextNode \in Nat \ {0} /\ s.nextNode \notin DOMAIN s.nodes

\* InsertNode adds the one node, under the next id.
LEMMA InsertNodeIs ==
    ASSUME NEW s, IsState(s), NEW y \in NodeType
    PROVE  LET x == InsertNode(s, y) IN IsState(x) /\ Inserted(s, x, y)
<1> DEFINE x == InsertNode(s, y)
           new == s.nextNode
           xn == Put(s.nodes, new, y)
<1>0. Shape(s) /\ s.nodes \in [DOMAIN s.nodes -> NodeType] /\ DOMAIN s.nodes \subseteq 1 .. new - 1
      /\ new \in Nat \ {0}
  BY DEF IsState
<1>1. /\ x.nodes = xn /\ x.buffers = s.buffers /\ x.sessions = s.sessions /\ x.floats = s.floats
      /\ x.nextNode = new + 1 /\ x.nextSession = s.nextSession /\ x.nextFloat = s.nextFloat
      /\ Shape(x)
  BY <1>0 DEF Shape, InsertNode
<1>2. new \notin DOMAIN s.nodes
  BY <1>0
<1>3. /\ DOMAIN xn = DOMAIN s.nodes \cup {new} /\ xn[new] = y
      /\ \A m \in DOMAIN s.nodes : xn[m] = s.nodes[m]
      /\ xn \in [DOMAIN s.nodes \cup {new} -> NodeType]
  BY <1>0, <1>2 DEF Put
<1> HIDE DEF xn, x
<1>4. DOMAIN s.nodes \cup {new} \subseteq 1 .. (new + 1) - 1
  BY <1>0
<1>5. IsState(x)
  BY <1>0, <1>1, <1>3, <1>4 DEF IsState
<1>. QED BY <1>0, <1>1, <1>2, <1>3, <1>5 DEF Inserted, x

\* A new view, or an empty tabs node, that nothing holds yet.
LEMMA InsertFreeKeeps ==
    ASSUME NEW s, NEW F, NEW e, Forest(s, F, e), NEW y \in NodeType, y.kind = "view",
           y.sess \in DOMAIN s.sessions, y.parent = None, y.kids = <<>>, y.sizes = <<>>, y.last = None
    PROVE  Forest(InsertNode(s, y), F \cup {s.nextNode}, e)
<1> DEFINE x == InsertNode(s, y)
           new == s.nextNode
<1>0. /\ IsState(s) /\ Linked(s) /\ Rooted(s, F) /\ Shaped(s, e) /\ Ranked(s) /\ Pointed(s)
      /\ Remembered(s) /\ Owned(s)
  BY DEF Forest
<1>1. IsState(x) /\ Inserted(s, x, y)
  BY <1>0, InsertNodeIs
<1> HIDE DEF x
<1>2. /\ DOMAIN x.nodes = DOMAIN s.nodes \cup {new} /\ new \notin DOMAIN s.nodes /\ new \in Nat \ {0}
      /\ x.nodes[new] = y /\ \A m \in DOMAIN s.nodes : x.nodes[m] = s.nodes[m]
      /\ x.sessions = s.sessions /\ x.floats = s.floats /\ x.nextNode = new + 1
      /\ x.nextSession = s.nextSession /\ x.nextFloat = s.nextFloat
  BY <1>1 DEF Inserted
<1>3. ToSet(<<>>) = {} /\ Distinct(<<>>)
  BY ShortLists
<1>4. \A m \in DOMAIN s.nodes : Kids(x, m) = Kids(s, m)
  BY <1>2 DEF Kids
<1>5. Kids(x, new) = {}
  BY <1>2, <1>3 DEF Kids
<1>6. Linked(x)
  <2>1. \A m \in DOMAIN s.nodes : s.nodes[m].parent # None => s.nodes[m].parent # new
    BY <1>0, <1>2 DEF Linked
  <2>. QED BY <1>0, <1>2, <1>3, <1>4, <1>5, <2>1 DEF Linked
<1>7. SessionRoots(x) = SessionRoots(s) /\ FloatRoots(x) = FloatRoots(s)
  BY <1>2 DEF SessionRoots, FloatRoots
<1>8. new \notin SessionRoots(s) /\ new \notin FloatRoots(s) /\ new \notin F
  BY <1>0, <1>2 DEF Rooted, SessionRoots, FloatRoots
<1>9. Rooted(x, F \cup {new})
  <2>1. \A m \in DOMAIN x.nodes :
          x.nodes[m].parent = None <=> m \in SessionRoots(x) \/ m \in FloatRoots(x) \/ m \in F \cup {new}
    BY <1>0, <1>2, <1>7 DEF Rooted
  <2>2. /\ F \cup {new} \subseteq DOMAIN x.nodes
        /\ \A m \in F \cup {new} : m \notin SessionRoots(x) /\ m \notin FloatRoots(x)
    BY <1>0, <1>2, <1>7, <1>8 DEF Rooted
  <2>3. ASSUME NEW sid \in DOMAIN x.sessions
        PROVE  LET session == x.sessions[sid]
               IN  /\ session.root \in DOMAIN x.nodes
                   /\ x.nodes[session.root].kind = "tabs" /\ x.nodes[session.root].sess = sid
                   /\ Distinct(session.floats)
                   /\ ToSet(session.floats) = {f \in DOMAIN x.floats : x.floats[f].sess = sid}
    BY <1>0, <1>2 DEF Rooted
  <2>4. ASSUME NEW f \in DOMAIN x.floats
        PROVE  LET float == x.floats[f]
               IN  /\ float.root \in DOMAIN x.nodes /\ float.root \notin SessionRoots(x)
                   /\ float.sess \in DOMAIN x.sessions /\ x.nodes[float.root].sess = float.sess
                   /\ \A g \in DOMAIN x.floats : x.floats[g].root = float.root => g = f
    BY <1>0, <1>2, <1>7 DEF Rooted
  <2>. QED BY <2>1, <2>2, <2>3, <2>4 DEF Rooted
<1>10. Shaped(x, e)
  <2>1. \A m \in DOMAIN s.nodes : x.nodes[m] = s.nodes[m]
    BY <1>2
  <2>2. ASSUME NEW m \in DOMAIN x.nodes
        PROVE  LET node == x.nodes[m]
                   less == IF m = e THEN 1 ELSE 0
               IN  /\ node.kind = "view" => node.kids = <<>>
                   /\ node.kind = "split" => Len(node.kids) + less >= 2 /\ Len(node.sizes) = Len(node.kids)
                   /\ node.kind # "split" => node.sizes = <<>>
                   /\ node.kind = "tabs" /\ m \notin SessionRoots(x) =>
                        Len(node.kids) + less >= IF m \in FloatRoots(x) THEN 1 ELSE 2
    <3>1. CASE m = new
      BY <1>2, <3>1
    <3>2. CASE m \in DOMAIN s.nodes
      BY <1>0, <1>7, <2>1, <3>2 DEF Shaped
    <3>. QED BY <1>2, <3>1, <3>2
  <2>. QED BY <2>2 DEF Shaped
<1>11. Pointed(x)
  BY <1>0, <1>2 DEF Pointed
<1>12. Remembered(x)
  <2>0. None \notin DOMAIN x.nodes
    BY <1>1 DEF IsState, None
  <2>1. \A m \in DOMAIN s.nodes : s.nodes[m].last \in Nat
    BY <1>0 DEF IsState, NodeType
  <2>2. \A f \in DOMAIN s.floats : s.floats[f].last \in Nat
    BY <1>0 DEF IsState, FloatType
  <2>3. ASSUME NEW m \in DOMAIN x.nodes
        PROVE  x.nodes[m].last < x.nextNode /\ (x.nodes[m].last \in DOMAIN x.nodes => x.nodes[x.nodes[m].last].kind = "view")
    <3>1. CASE m = new
      BY <1>2, <2>0, <3>1 DEF None
    <3>2. CASE m \in DOMAIN s.nodes
      BY <1>0, <1>2, <2>1, <3>2 DEF Remembered
    <3>. QED BY <1>2, <3>1, <3>2
  <2>4. ASSUME NEW f \in DOMAIN x.floats
        PROVE  x.floats[f].last < x.nextNode /\ (x.floats[f].last \in DOMAIN x.nodes => x.nodes[x.floats[f].last].kind = "view")
    BY <1>0, <1>2, <2>2 DEF Remembered
  <2>. QED BY <2>3, <2>4 DEF Remembered
<1>13. Owned(x)
  BY <1>0, <1>2 DEF Owned
<1>14. Ranked(x)
  <2>1. PICK top \in Nat : \E rank \in [DOMAIN s.nodes -> 0 .. top] :
          \A m \in DOMAIN s.nodes : s.nodes[m].parent # None => rank[m] < rank[s.nodes[m].parent]
    BY <1>0 DEF Ranked
  <2>2. PICK rank \in [DOMAIN s.nodes -> 0 .. top] :
          \A m \in DOMAIN s.nodes : s.nodes[m].parent # None => rank[m] < rank[s.nodes[m].parent]
    BY <2>1
  <2> DEFINE r == [m \in DOMAIN x.nodes |-> IF m = new THEN 0 ELSE rank[m]]
  <2>3. r \in [DOMAIN x.nodes -> 0 .. top]
    BY <1>2, <2>2
  <2>4. ASSUME NEW m \in DOMAIN x.nodes, x.nodes[m].parent # None
        PROVE  r[m] < r[x.nodes[m].parent]
    <3>1. m \in DOMAIN s.nodes /\ m # new /\ x.nodes[m] = s.nodes[m]
      BY <1>2, <2>4
    <3>2. s.nodes[m].parent \in DOMAIN s.nodes /\ s.nodes[m].parent # new
      BY <1>0, <1>2, <2>4, <3>1 DEF Linked
    <3>. QED BY <1>2, <2>2, <2>4, <3>1, <3>2
  <2> HIDE DEF r
  <2>. QED BY <2>3, <2>4 DEF Ranked
<1>15. Forest(x, F \cup {new}, e)
  BY <1>1, <1>6, <1>9, <1>10, <1>11, <1>12, <1>13, <1>14 DEF Forest
<1>. QED BY <1>15 DEF x

\* A buffer takes a view: what changes, and when it may.
AttachedTo(s, x, b, n) ==
    /\ SameLinks(s, x) /\ x.nodes[n].buf = b
    /\ \A m \in DOMAIN s.nodes : m # n => x.nodes[m] = s.nodes[m]
    /\ DOMAIN x.buffers = DOMAIN s.buffers /\ b \in DOMAIN s.buffers
    /\ s.buffers[b].att \in {None, n}
    /\ \A y \in DOMAIN s.buffers :
          x.buffers[y].att = IF y = b THEN n
                             ELSE IF y = s.nodes[n].buf /\ s.buffers[y].att = n THEN None
                             ELSE s.buffers[y].att

\* AttachBuffer is refused for a buffer shown elsewhere, and else gives it the view.
LEMMA AttachBufferIs ==
    ASSUME NEW s, IsState(s), NEW b, NEW n \in DOMAIN s.nodes
    PROVE  LET r == AttachBuffer(s, b, n)
           IN  /\ r.ok \in BOOLEAN /\ r.ok <=> b \in DOMAIN s.buffers /\ s.buffers[b].att \in {None, n}
               /\ ~ r.ok => r.s = s
               /\ r.ok => IsState(r.s) /\ AttachedTo(s, r.s, b, n)
<1> DEFINE old == s.nodes[n].buf
           buffer(y) == IF y = b THEN [s.buffers[y] EXCEPT !.att = n, !.ever = TRUE]
                        ELSE IF y = old /\ s.buffers[y].att = n THEN [s.buffers[y] EXCEPT !.att = None]
                        ELSE s.buffers[y]
           xb == [y \in DOMAIN s.buffers |-> buffer(y)]
           x == [s EXCEPT !.nodes[n].buf = b,
                          !.buffers = [y \in DOMAIN @ |->
                              IF y = b THEN [@[y] EXCEPT !.att = n, !.ever = TRUE]
                              ELSE IF y = old /\ @[y].att = n THEN [@[y] EXCEPT !.att = None]
                              ELSE @[y]]]
<1>1. CASE ~ (b \in DOMAIN s.buffers /\ s.buffers[b].att \in {None, n})
  BY <1>1 DEF AttachBuffer, Err
<1>2. CASE b \in DOMAIN s.buffers /\ s.buffers[b].att \in {None, n}
  <2>0. /\ Shape(s) /\ s.nodes \in [DOMAIN s.nodes -> NodeType] /\ DOMAIN s.nodes \subseteq 1 .. s.nextNode - 1
        /\ s.buffers \in [DOMAIN s.buffers -> BufferType] /\ DOMAIN s.buffers \subseteq Buffers
    BY DEF IsState
  <2>1. AttachBuffer(s, b, n) = Ok(x)
    BY <1>2 DEF AttachBuffer
  <2>2. /\ x.buffers = xb /\ x.sessions = s.sessions /\ x.floats = s.floats
        /\ x.nextNode = s.nextNode /\ x.nextSession = s.nextSession /\ x.nextFloat = s.nextFloat
        /\ Shape(x)
    BY <2>0 DEF Shape
  <2>3. x.nodes = [s.nodes EXCEPT ![n].buf = b]
    BY <2>0 DEF Shape
  <2>4. b \in Nat /\ n \in Nat
    <3>1. b \in Nat
      BY <1>2, <2>0, LayoutAssumption
    <3>2. \A i \in 1 .. s.nextNode - 1 : i \in Nat
      BY DEF IsState
    <3>. QED BY <2>0, <3>1, <3>2
  <2> DEFINE z == s.nodes[n]
             y == [z EXCEPT !.buf = b]
  <2>5. z \in NodeType /\ x.nodes = [s.nodes EXCEPT ![n] = y]
    BY <2>0, <2>3
  <2> HIDE DEF z
  <2>6. /\ y \in NodeType /\ y.kind = z.kind /\ y.sess = z.sess /\ y.parent = z.parent /\ y.kids = z.kids
        /\ y.active = z.active /\ y.last = z.last /\ y.sizes = z.sizes /\ y.buf = b
    BY <2>4, <2>5 DEF NodeType
  <2>7. ASSUME NEW c \in DOMAIN s.buffers
        PROVE  /\ buffer(c) \in BufferType
               /\ buffer(c).att = IF c = b THEN n
                                  ELSE IF c = old /\ s.buffers[c].att = n THEN None
                                  ELSE s.buffers[c].att
    <3> DEFINE w == s.buffers[c]
    <3>1. w \in BufferType
      BY <2>0
    <3>2. /\ [w EXCEPT !.att = n, !.ever = TRUE] \in BufferType /\ [w EXCEPT !.att = n, !.ever = TRUE].att = n
          /\ [w EXCEPT !.att = None] \in BufferType /\ [w EXCEPT !.att = None].att = None
      <4> HIDE DEF w
      <4>. QED BY <2>4, <3>1 DEF BufferType, None
    <3>. QED BY <3>1, <3>2
  <2>8. xb \in [DOMAIN s.buffers -> BufferType]
    BY <2>7, Zenon
  <2>9. \A c \in DOMAIN s.buffers : xb[c].att = IF c = b THEN n
                                                ELSE IF c = old /\ s.buffers[c].att = n THEN None
                                                ELSE s.buffers[c].att
    <3> HIDE DEF buffer
    <3>1. \A c \in DOMAIN s.buffers : xb[c] = buffer(c)
      OBVIOUS
    <3> HIDE DEF xb
    <3>. QED BY <2>7, <3>1, Zenon
  <2> HIDE DEF xb, x, y
  <2>10. /\ x.nodes \in [DOMAIN s.nodes -> NodeType] /\ x.nodes[n] = y
         /\ \A m \in DOMAIN s.nodes : m # n => x.nodes[m] = s.nodes[m]
    BY <2>0, <2>5, <2>6
  <2>11. IsState(x)
    BY <2>2, <2>8, <2>10 DEF IsState
  <2>12. SameLinks(s, x)
    <3>1. \A m \in DOMAIN s.nodes :
          /\ x.nodes[m].kind = s.nodes[m].kind /\ x.nodes[m].sess = s.nodes[m].sess
          /\ x.nodes[m].parent = s.nodes[m].parent /\ x.nodes[m].kids = s.nodes[m].kids
          /\ x.nodes[m].active = s.nodes[m].active /\ x.nodes[m].last = s.nodes[m].last
          /\ x.nodes[m].sizes = s.nodes[m].sizes
      BY <2>6, <2>10 DEF z
    <3>. QED BY <2>2, <2>10, <3>1 DEF SameLinks
  <2>13. AttachedTo(s, x, b, n)
    BY <1>2, <2>2, <2>6, <2>8, <2>9, <2>10, <2>12 DEF AttachedTo
  <2>. QED BY <1>2, <2>1, <2>11, <2>13 DEF Ok
<1>. QED BY <1>1, <1>2

\* The buffer the view showed before is left without one, so views and buffers name
\* each other.
LEMMA AttachedToAttached ==
    ASSUME NEW s, NEW x, NEW b, NEW n \in DOMAIN s.nodes, NEW V, AttachedTo(s, x, b, n),
           s.nodes[n].kind = "view", Attached(s, V), None \notin DOMAIN s.nodes
    PROVE  Attached(x, V \ {n})
<1>0. /\ DOMAIN x.nodes = DOMAIN s.nodes /\ x.nodes[n].kind = "view" /\ x.nodes[n].buf = b
      /\ \A m \in DOMAIN s.nodes : m # n => x.nodes[m] = s.nodes[m]
      /\ DOMAIN x.buffers = DOMAIN s.buffers /\ b \in DOMAIN s.buffers
      /\ s.buffers[b].att \in {None, n}
      /\ \A y \in DOMAIN s.buffers :
            x.buffers[y].att = IF y = b THEN n
                               ELSE IF y = s.nodes[n].buf /\ s.buffers[y].att = n THEN None
                               ELSE s.buffers[y].att
  BY DEF AttachedTo, SameLinks
<1>1. ASSUME NEW y \in DOMAIN x.buffers, x.buffers[y].att # None
      PROVE  /\ x.buffers[y].att \in DOMAIN x.nodes /\ x.nodes[x.buffers[y].att].kind = "view"
             /\ x.nodes[x.buffers[y].att].buf = y
  <2>1. CASE y = b
    BY <1>0, <2>1
  <2>2. CASE y # b
    <3>1. s.buffers[y].att # None /\ x.buffers[y].att = s.buffers[y].att
      BY <1>0, <1>1, <2>2
    <3>2. s.buffers[y].att \in DOMAIN s.nodes /\ s.nodes[s.buffers[y].att].kind = "view"
          /\ s.nodes[s.buffers[y].att].buf = y
      BY <1>0, <3>1 DEF Attached
    <3>3. s.buffers[y].att # n
      BY <1>0, <1>1, <2>2, <3>1, <3>2
    <3>. QED BY <1>0, <3>1, <3>2, <3>3
  <2>. QED BY <2>1, <2>2
<1>2. ASSUME NEW m \in DOMAIN x.nodes, x.nodes[m].kind = "view", m \notin V \ {n}
      PROVE  x.nodes[m].buf \in DOMAIN x.buffers /\ x.buffers[x.nodes[m].buf].att = m
  <2>1. CASE m = n
    BY <1>0, <2>1
  <2>2. CASE m # n
    <3>1. m \in DOMAIN s.nodes /\ x.nodes[m] = s.nodes[m] /\ m \notin V
      BY <1>0, <1>2, <2>2
    <3>2. s.nodes[m].buf \in DOMAIN s.buffers /\ s.buffers[s.nodes[m].buf].att = m
      BY <1>2, <3>1 DEF Attached
    <3>3. s.nodes[m].buf # b \/ m = None
      BY <1>0, <2>2, <3>2
    <3>4. m # None
      BY <3>1
    <3>. QED BY <1>0, <2>2, <3>1, <3>2, <3>3, <3>4
  <2>. QED BY <2>1, <2>2
<1>. QED BY <1>1, <1>2 DEF Attached

\* A sound layout, in which nothing is under way.
Sound(s) == Forest(s, {}, None) /\ Attached(s, {})

\* All that a refused request may have changed: ids that were given out, and
\* whether a buffer was ever shown.
Undone(s, x) ==
    /\ IsState(x) /\ x.nodes = s.nodes /\ x.sessions = s.sessions /\ x.floats = s.floats
    /\ AttachmentsOf(x) = AttachmentsOf(s)
    /\ x.nextNode >= s.nextNode /\ x.nextFloat >= s.nextFloat

\* What a refused request may leave behind is sound if the layout was.
LEMMA UndoneSound ==
    ASSUME NEW s, Sound(s), NEW x, Undone(s, x)
    PROVE  Sound(x)
<1>0. /\ IsState(s) /\ Linked(s) /\ Rooted(s, {}) /\ Shaped(s, None) /\ Ranked(s) /\ Pointed(s)
      /\ Remembered(s) /\ Owned(s) /\ Attached(s, {})
  BY DEF Forest, Sound
<1>1. /\ IsState(x) /\ x.nodes = s.nodes /\ x.sessions = s.sessions /\ x.floats = s.floats
      /\ x.nextNode >= s.nextNode /\ x.nextFloat >= s.nextFloat
      /\ s.nextNode \in Nat /\ x.nextNode \in Nat /\ s.nextFloat \in Nat /\ x.nextFloat \in Nat
  BY <1>0 DEF Undone, IsState
<1>2. DOMAIN x.buffers = DOMAIN s.buffers /\ \A b \in DOMAIN s.buffers : x.buffers[b].att = s.buffers[b].att
  <2>1. DOMAIN AttachmentsOf(x) = DOMAIN x.buffers /\ DOMAIN AttachmentsOf(s) = DOMAIN s.buffers
    BY DEF AttachmentsOf
  <2>2. DOMAIN x.buffers = DOMAIN s.buffers
    BY <2>1 DEF Undone
  <2>3. \A b \in DOMAIN s.buffers : AttachmentsOf(x)[b] = x.buffers[b].att /\ AttachmentsOf(s)[b] = s.buffers[b].att
    BY <2>2 DEF AttachmentsOf
  <2>. QED BY <2>2, <2>3 DEF Undone
<1>3. Kids(x, 0) = Kids(s, 0) /\ \A n : Kids(x, n) = Kids(s, n)
  BY <1>1 DEF Kids
<1>4. Linked(x)
  BY <1>0, <1>1, <1>3 DEF Linked
<1>5. SessionRoots(x) = SessionRoots(s) /\ FloatRoots(x) = FloatRoots(s)
  BY <1>1 DEF SessionRoots, FloatRoots
<1>6. Rooted(x, {})
  BY <1>0, <1>1, <1>5 DEF Rooted
<1>7. Shaped(x, None)
  BY <1>0, <1>1, <1>5 DEF Shaped
<1>8. Ranked(x) /\ Pointed(x)
  BY <1>0, <1>1 DEF Ranked, Pointed
<1>9. Remembered(x)
  <2>1. \A m \in DOMAIN s.nodes : s.nodes[m].last \in Nat
    BY <1>0 DEF IsState, NodeType
  <2>2. \A f \in DOMAIN s.floats : s.floats[f].last \in Nat
    BY <1>0 DEF IsState, FloatType
  <2>. QED BY <1>0, <1>1, <2>1, <2>2 DEF Remembered
<1>10. Owned(x)
  BY <1>0, <1>1 DEF Owned
<1>11. Attached(x, {})
  BY <1>0, <1>1, <1>2 DEF Attached
<1>. QED BY <1>1, <1>4, <1>6, <1>7, <1>8, <1>9, <1>10, <1>11 DEF Sound, Forest

\* Nothing changed.
LEMMA UndoneSelf == ASSUME NEW s, Sound(s) PROVE Undone(s, s)
  BY DEF Undone, Sound, Forest, IsState

\* What an operation gives: a sound layout, and the same one if it is refused.
Done(s, r) ==
    /\ r.ok \in BOOLEAN /\ Sound(r.s)
    /\ ~ r.ok => Undone(s, r.s)

\* A refusal, or a success that does nothing.
LEMMA DoneErr == ASSUME NEW s, Sound(s) PROVE Done(s, Err(s)) /\ Done(s, Ok(s))
  BY UndoneSelf DEF Done, Ok, Err

\* Operations that leave the trees alone.
LEMMA KeptDone ==
    ASSUME NEW s, Sound(s), NEW r, Kept(s, r, {}, None)
    PROVE  Done(s, r)
<1>1. Attached(r.s, {})
  BY SameTreeViews, SameViewsAttached DEF Kept, Sound
<1>. QED BY <1>1, UndoneSelf DEF Done, Kept, Sound

\* The view a buffer is shown in, which nothing holds yet.
NewView(s, x, sid, b) ==
    /\ DOMAIN x.nodes = DOMAIN s.nodes \cup {s.nextNode}
    /\ s.nextNode \notin DOMAIN s.nodes /\ s.nextNode # None
    /\ \A m \in DOMAIN s.nodes : x.nodes[m] = s.nodes[m]
    /\ x.nodes[s.nextNode].kind = "view" /\ x.nodes[s.nextNode].sess = sid
    /\ x.nodes[s.nextNode].parent = None /\ x.nodes[s.nextNode].kids = <<>>
    /\ x.nodes[s.nextNode].buf = b
    /\ x.sessions = s.sessions /\ x.floats = s.floats /\ x.nextNode = s.nextNode + 1
    /\ x.nextSession = s.nextSession /\ x.nextFloat = s.nextFloat

\* A new view is free, and all else is as it was.
LEMMA InsertViewIs ==
    ASSUME NEW s, Sound(s), NEW sid \in DOMAIN s.sessions, NEW b \in DOMAIN s.buffers
    PROVE  LET x == InsertNode(s, View(sid, b))
           IN  /\ Forest(x, {s.nextNode}, None) /\ NewView(s, x, sid, b) /\ x.buffers = s.buffers
               /\ Attached(x, {s.nextNode})
<1> DEFINE y == View(sid, b)
           x == InsertNode(s, y)
<1>0. Forest(s, {}, None) /\ IsState(s) /\ Attached(s, {})
  BY DEF Sound, Forest
<1>1. sid \in Nat /\ b \in Nat
  <2>1. sid \in 1 .. s.nextSession - 1 /\ s.nextSession \in Nat /\ b \in Buffers
    BY <1>0 DEF IsState
  <2>. QED BY <2>1, LayoutAssumption
<1>2. /\ y \in NodeType /\ y.kind = "view" /\ y.sess = sid /\ y.parent = None /\ y.kids = <<>>
      /\ y.sizes = <<>> /\ y.last = None /\ y.buf = b
  BY <1>1 DEF View, NodeType, None
<1> HIDE DEF y
<1>3. IsState(x) /\ Inserted(s, x, y)
  BY <1>0, <1>2, InsertNodeIs
<1>4. Forest(x, {} \cup {s.nextNode}, None)
  BY <1>0, <1>2, InsertFreeKeeps
<1> HIDE DEF x
<1>5. Forest(x, {s.nextNode}, None)
  BY <1>4
<1>6. NewView(s, x, sid, b)
  BY <1>2, <1>3 DEF NewView, Inserted, None
<1>7. Attached(x, {s.nextNode})
  BY <1>0, <1>3 DEF Attached, Inserted
<1>. QED BY <1>3, <1>5, <1>6, <1>7 DEF x, y, Inserted

\* A view of a buffer that has none, or a refusal.
LEMMA CreateViewIs ==
    ASSUME NEW s, Sound(s), NEW sid \in DOMAIN s.sessions, NEW b \in DOMAIN s.buffers
    PROVE  LET r == CreateView(s, sid, b)
           IN  /\ r.ok \in BOOLEAN
               /\ ~ r.ok => Undone(s, r.s)
               /\ r.ok => /\ Forest(r.s, {s.nextNode}, None) /\ NewView(s, r.s, sid, b)
                          /\ Attached(r.s, {})
                          /\ s.buffers[b].att = None /\ DOMAIN r.s.buffers = DOMAIN s.buffers
                          /\ \A y \in DOMAIN s.buffers :
                                r.s.buffers[y].att = IF y = b THEN s.nextNode ELSE s.buffers[y].att
<1> DEFINE x == InsertNode(s, View(sid, b))
           new == s.nextNode
           a == AttachBuffer(x, b, new)
           r == CreateView(s, sid, b)
<1>0. IsState(s) /\ Attached(s, {}) /\ None \notin DOMAIN s.nodes
  BY DEF Sound, Forest, IsState, None
<1>1. /\ Forest(x, {new}, None) /\ NewView(s, x, sid, b) /\ x.buffers = s.buffers
      /\ Attached(x, {new})
  BY InsertViewIs
<1>2. r = IF a.ok THEN a ELSE Err(DropNode(a.s, new))
  BY DEF CreateView, OrElse
<1> HIDE DEF x
<1>3. IsState(x) /\ None \notin DOMAIN x.nodes /\ new \in DOMAIN x.nodes /\ x.nodes[new].kind = "view"
  BY <1>0, <1>1 DEF Forest, NewView
<1>4. /\ a.ok \in BOOLEAN /\ a.ok <=> b \in DOMAIN x.buffers /\ x.buffers[b].att \in {None, new}
      /\ ~ a.ok => a.s = x
      /\ a.ok => IsState(a.s) /\ AttachedTo(x, a.s, b, new)
  BY <1>3, AttachBufferIs
<1> HIDE DEF a
<1>5. CASE a.ok
  <2>1. Forest(a.s, {new}, None)
    BY <1>1, <1>4, <1>5, LinksForest DEF AttachedTo
  <2>2. Attached(a.s, {new} \ {new})
    BY <1>1, <1>3, <1>4, <1>5, AttachedToAttached
  <2>3. Attached(a.s, {})
    <3>1. {new} \ {new} = {}
      OBVIOUS
    <3>. QED BY <2>2, <3>1
  <2>4. NewView(s, a.s, sid, b)
    BY <1>1, <1>4, <1>5 DEF NewView, AttachedTo, SameLinks
  <2>5. s.buffers[b].att = None
    <3>1. s.buffers[b].att \in {None, new}
      BY <1>1, <1>4, <1>5
    <3>2. s.buffers[b].att # None => s.buffers[b].att \in DOMAIN s.nodes
      BY <1>0 DEF Attached
    <3>. QED BY <1>1, <3>1, <3>2 DEF NewView
  <2>6. /\ DOMAIN a.s.buffers = DOMAIN s.buffers
        /\ \A y \in DOMAIN s.buffers :
               a.s.buffers[y].att = IF y = b THEN new ELSE s.buffers[y].att
    BY <1>1, <1>4, <1>5 DEF AttachedTo, NewView
  <2>. QED BY <1>2, <1>5, <2>1, <2>3, <2>4, <2>5, <2>6
<1>6. CASE ~ a.ok
  <2> DEFINE d == DropNode(x, new)
  <2>1. r = Err(d)
    BY <1>2, <1>4, <1>6
  <2>2. /\ d.nodes = Restrict(x.nodes, DOMAIN x.nodes \ {new}) /\ d.sessions = x.sessions
        /\ d.floats = x.floats /\ d.buffers = x.buffers /\ d.nextNode = x.nextNode
        /\ d.nextSession = x.nextSession /\ d.nextFloat = x.nextFloat /\ Shape(d)
    BY <1>3 DEF IsState, Shape, DropNode
  <2> HIDE DEF d
  <2>3. d.nodes = s.nodes
    <3>1. DOMAIN x.nodes \ {new} = DOMAIN s.nodes /\ \A m \in DOMAIN s.nodes : x.nodes[m] = s.nodes[m]
      BY <1>1 DEF NewView
    <3>2. s.nodes = [m \in DOMAIN s.nodes |-> s.nodes[m]]
      BY <1>0 DEF IsState
    <3>. QED BY <2>2, <3>1, <3>2 DEF Restrict
  <2>4. /\ d.sessions = s.sessions /\ d.floats = s.floats /\ d.buffers = s.buffers
        /\ d.nextNode = s.nextNode + 1 /\ d.nextSession = s.nextSession /\ d.nextFloat = s.nextFloat
    BY <1>1, <2>2 DEF NewView
  <2>5. s.nextNode \in Nat \ {0} /\ s.nextFloat \in Nat
    BY <1>0 DEF IsState
  <2>6. IsState(d)
    <3>1. DOMAIN s.nodes \subseteq 1 .. (s.nextNode + 1) - 1 /\ s.nextNode + 1 \in Nat \ {0}
      BY <1>0, <2>5 DEF IsState
    <3>. QED BY <1>0, <2>2, <2>3, <2>4, <3>1 DEF IsState
  <2>7. Undone(s, d)
    BY <2>3, <2>4, <2>5, <2>6 DEF Undone, AttachmentsOf
  <2>. QED BY <2>1, <2>7 DEF Err
<1>. QED BY <1>4, <1>5, <1>6

-----------------------------------------------------------------------------
(* Containers *)

\* A free node becomes a tab of a tabs node that is not under it.
TabAdded(s, x, t, index, child) ==
    /\ DOMAIN x.nodes = DOMAIN s.nodes
    /\ \A m \in DOMAIN s.nodes : m # t /\ m # child => x.nodes[m] = s.nodes[m]
    /\ x.nodes[child] = [s.nodes[child] EXCEPT !.parent = t]
    /\ x.nodes[t] = [s.nodes[t] EXCEPT !.kids = InsertedAt(s.nodes[t].kids, index, child), !.active = index]
    /\ x.sessions = s.sessions /\ x.floats = s.floats /\ x.buffers = s.buffers
    /\ x.nextNode = s.nextNode /\ x.nextSession = s.nextSession /\ x.nextFloat = s.nextFloat
    /\ Shape(x) /\ x.nodes = [m \in DOMAIN s.nodes |-> x.nodes[m]]

\* What AddTab writes.
LEMMA TabAddedIs ==
    ASSUME NEW s, IsState(s), NEW t \in DOMAIN s.nodes, NEW child \in DOMAIN s.nodes, child # t, NEW index
    PROVE  TabAdded(s, [SetParent(s, child, t) EXCEPT
                          !.nodes[t].kids = InsertedAt(@, index, child),
                          !.nodes[t].active = index], t, index, child)
<1> DEFINE x == [SetParent(s, child, t) EXCEPT
                          !.nodes[t].kids = InsertedAt(@, index, child),
                          !.nodes[t].active = index]
           w == SetParent(s, child, t)
           k == InsertedAt(s.nodes[t].kids, index, child)
<1>0. Shape(s) /\ s.nodes = [m \in DOMAIN s.nodes |-> s.nodes[m]]
  BY DEF IsState
<1>1. /\ w.nodes = [s.nodes EXCEPT ![child].parent = t] /\ Shape(w)
      /\ w.sessions = s.sessions /\ w.floats = s.floats /\ w.buffers = s.buffers
      /\ w.nextNode = s.nextNode /\ w.nextSession = s.nextSession /\ w.nextFloat = s.nextFloat
  BY <1>0 DEF SetParent, Shape
<1> HIDE DEF w
<1>2. w.nodes[t] = s.nodes[t] /\ DOMAIN w.nodes = DOMAIN s.nodes
  BY <1>0, <1>1
<1>3. /\ x.nodes = [w.nodes EXCEPT ![t] = [w.nodes[t] EXCEPT !.kids = InsertedAt(w.nodes[t].kids, index, child), !.active = index]]
      /\ Shape(x)
      /\ x.sessions = w.sessions /\ x.floats = w.floats /\ x.buffers = w.buffers
      /\ x.nextNode = w.nextNode /\ x.nextSession = w.nextSession /\ x.nextFloat = w.nextFloat
  BY <1>1 DEF Shape, w
<1> HIDE DEF x
<1>4. x.nodes = [w.nodes EXCEPT ![t] = [s.nodes[t] EXCEPT !.kids = k, !.active = index]]
  BY <1>2, <1>3
<1>5. TabAdded(s, x, t, index, child)
  <2> HIDE DEF k
  <2>1. x.nodes = [m \in DOMAIN s.nodes |-> x.nodes[m]]
    BY <1>0, <1>1, <1>4
  <2>2. DOMAIN x.nodes = DOMAIN s.nodes
    BY <1>0, <1>1, <1>4
  <2>3. \A m \in DOMAIN s.nodes : m # t /\ m # child => x.nodes[m] = s.nodes[m]
    BY <1>0, <1>1, <1>4
  <2>4. x.nodes[child] = [s.nodes[child] EXCEPT !.parent = t]
    BY <1>0, <1>1, <1>4
  <2>5. x.nodes[t] = [s.nodes[t] EXCEPT !.kids = k, !.active = index]
    BY <1>0, <1>1, <1>2, <1>4
  <2>. QED BY <1>1, <1>3, <2>1, <2>2, <2>3, <2>4, <2>5 DEF TabAdded, k
<1>. QED BY <1>5 DEF x, w

\* A free node as a new tab leaves a forest with the same views.
LEMMA AddedKeeps ==
    ASSUME NEW s, NEW F, NEW e, Forest(s, F, e), NEW child \in F, NEW t \in DOMAIN s.nodes,
           s.nodes[t].kind = "tabs", t \notin Below(s, child), s.nodes[child].sess = s.nodes[t].sess,
           NEW index \in 0 .. Len(s.nodes[t].kids), NEW x, TabAdded(s, x, t, index, child)
    PROVE  /\ Forest(x, F \ {child}, e) /\ SameViews(s, x)
           /\ e = t => Forest(x, F \ {child}, None)
<1>0. /\ IsState(s) /\ Linked(s) /\ Rooted(s, F) /\ Shaped(s, e) /\ Ranked(s) /\ Pointed(s)
      /\ Remembered(s) /\ Owned(s) /\ None \notin DOMAIN s.nodes
      /\ s.nodes \in [DOMAIN s.nodes -> NodeType]
  BY DEF Forest, IsState, None
<1>1. /\ child \in DOMAIN s.nodes /\ s.nodes[child].parent = None
      /\ child \notin SessionRoots(s) /\ child \notin FloatRoots(s)
  BY <1>0 DEF Rooted
<1>2. /\ child \in Below(s, child) /\ Below(s, child) \subseteq DOMAIN s.nodes
      /\ \A m \in Below(s, child) : Kids(s, m) \subseteq Below(s, child)
      /\ \A m \in Below(s, child) : m = child \/ s.nodes[m].parent \in Below(s, child)
  BY <1>0, <1>1, BelowFacts
<1>3. child # t /\ child # None /\ t # None /\ child \in Nat /\ t \in Nat
  <2>1. \A i \in 1 .. s.nextNode - 1 : i \in Nat
    BY <1>0 DEF IsState
  <2>. QED BY <1>0, <1>1, <1>2, <2>1 DEF IsState
<1> DEFINE z == s.nodes[t]
           c == s.nodes[child]
           k == InsertedAt(z.kids, index, child)
<1>4. z \in NodeType /\ c \in NodeType /\ z.kids \in Seq(Nat) /\ Distinct(z.kids) /\ child \notin ToSet(z.kids)
  <2>1. z \in NodeType /\ c \in NodeType
    BY <1>0, <1>1
  <2>2. Distinct(z.kids) /\ child \notin ToSet(z.kids)
    BY <1>0, <1>1, <1>3 DEF Linked, Kids
  <2> HIDE DEF z, c
  <2>3. z.kids \in Seq(Nat)
    BY <2>1 DEF NodeType
  <2>. QED BY <2>1, <2>2, <2>3
<1>5. /\ k \in Seq(Nat) /\ Len(k) = Len(z.kids) + 1 /\ Distinct(k) /\ ToSet(k) = ToSet(z.kids) \cup {child}
  BY <1>3, <1>4, InsertedSet
<1>6. /\ DOMAIN x.nodes = DOMAIN s.nodes
      /\ \A m \in DOMAIN s.nodes : m # t /\ m # child => x.nodes[m] = s.nodes[m]
      /\ x.nodes[child] = [c EXCEPT !.parent = t]
      /\ x.nodes[t] = [z EXCEPT !.kids = k, !.active = index]
      /\ x.sessions = s.sessions /\ x.floats = s.floats /\ x.buffers = s.buffers
      /\ x.nextNode = s.nextNode /\ x.nextSession = s.nextSession /\ x.nextFloat = s.nextFloat
      /\ Shape(x) /\ x.nodes = [m \in DOMAIN s.nodes |-> x.nodes[m]]
  BY DEF TabAdded
<1>7. z.kind = "tabs" /\ z.sess = c.sess /\ index \in Nat /\ index <= Len(z.kids) /\ Len(z.kids) \in Nat
  BY <1>4
<1> HIDE DEF k, z, c
<1> DEFINE xt == x.nodes[t]
           xc == x.nodes[child]
<1>8. /\ xt \in NodeType /\ xt.kind = "tabs" /\ xt.sess = z.sess /\ xt.parent = z.parent /\ xt.kids = k
      /\ xt.sizes = z.sizes /\ xt.active = index /\ xt.last = z.last /\ xt.buf = z.buf
  BY <1>4, <1>5, <1>6, <1>7 DEF NodeType
<1>9. /\ xc \in NodeType /\ xc.kind = c.kind /\ xc.sess = c.sess /\ xc.parent = t /\ xc.kids = c.kids
      /\ xc.sizes = c.sizes /\ xc.active = c.active /\ xc.last = c.last /\ xc.buf = c.buf
  BY <1>3, <1>4, <1>6 DEF NodeType
<1>10. \A m \in DOMAIN s.nodes :
          /\ x.nodes[m].kind = s.nodes[m].kind /\ x.nodes[m].sess = s.nodes[m].sess
          /\ x.nodes[m].parent = IF m = child THEN t ELSE s.nodes[m].parent
          /\ x.nodes[m].kids = IF m = t THEN k ELSE s.nodes[m].kids
          /\ x.nodes[m].active = IF m = t THEN index ELSE s.nodes[m].active
          /\ x.nodes[m].sizes = s.nodes[m].sizes /\ x.nodes[m].last = s.nodes[m].last
          /\ x.nodes[m].buf = s.nodes[m].buf
  <2>1. ASSUME NEW m \in DOMAIN s.nodes, m # t, m # child PROVE x.nodes[m] = s.nodes[m]
    BY <1>6, <2>1
  <2>2. s.nodes[t] = z /\ s.nodes[child] = c
    BY DEF z, c
  <2>. QED BY <1>3, <1>7, <1>8, <1>9, <2>1, <2>2
<1>a. /\ DOMAIN x.nodes = DOMAIN s.nodes
      /\ x.sessions = s.sessions /\ x.floats = s.floats /\ x.buffers = s.buffers
      /\ x.nextNode = s.nextNode /\ x.nextSession = s.nextSession /\ x.nextFloat = s.nextFloat
  BY <1>6
<1>11. IsState(x)
  <2>1. \A m \in DOMAIN s.nodes : x.nodes[m] \in NodeType
    BY <1>0, <1>6, <1>8, <1>9
  <2>2. x.nodes \in [DOMAIN s.nodes -> NodeType]
    BY <1>6, <2>1
  <2>. QED BY <1>0, <1>6, <2>2 DEF IsState
<1>12. \A m \in DOMAIN s.nodes : Kids(x, m) = IF m = t THEN Kids(s, t) \cup {child} ELSE Kids(s, m)
  BY <1>5, <1>10 DEF Kids, z
<1>13. Linked(x)
  <2> SUFFICES ASSUME NEW m \in DOMAIN s.nodes
               PROVE  /\ x.nodes[m].sess \in DOMAIN x.sessions
                      /\ x.nodes[m].parent # None =>
                            /\ x.nodes[m].parent \in DOMAIN x.nodes
                            /\ m \in Kids(x, x.nodes[m].parent)
                            /\ x.nodes[x.nodes[m].parent].sess = x.nodes[m].sess
                      /\ Distinct(x.nodes[m].kids)
                      /\ \A q \in Kids(x, m) : q \in DOMAIN x.nodes /\ x.nodes[q].parent = m
    BY <1>a DEF Linked
  <2>1. x.nodes[m].sess \in DOMAIN x.sessions
    BY <1>0, <1>a, <1>10 DEF Linked
  <2>2. Distinct(x.nodes[m].kids)
    BY <1>0, <1>5, <1>10 DEF Linked
  <2>3. ASSUME x.nodes[m].parent # None
        PROVE  /\ x.nodes[m].parent \in DOMAIN x.nodes
               /\ m \in Kids(x, x.nodes[m].parent)
               /\ x.nodes[x.nodes[m].parent].sess = x.nodes[m].sess
    <3>1. CASE m = child
      BY <1>3, <1>a, <1>7, <1>10, <1>12, <3>1 DEF z, c
    <3>2. CASE m # child
      <4>1. /\ s.nodes[m].parent # None /\ s.nodes[m].parent \in DOMAIN s.nodes
            /\ m \in Kids(s, s.nodes[m].parent) /\ s.nodes[s.nodes[m].parent].sess = s.nodes[m].sess
        BY <1>0, <1>10, <2>3, <3>2 DEF Linked
      <4>. QED BY <1>a, <1>10, <1>12, <3>2, <4>1
    <3>. QED BY <3>1, <3>2
  <2>4. ASSUME NEW q \in Kids(x, m) PROVE q \in DOMAIN x.nodes /\ x.nodes[q].parent = m
    <3>1. CASE q \in Kids(s, m)
      <4>1. q \in DOMAIN s.nodes /\ s.nodes[q].parent = m /\ m # None
        BY <1>0, <3>1 DEF Linked
      <4>2. q # child
        BY <1>1, <4>1
      <4>. QED BY <1>a, <1>10, <4>1, <4>2
    <3>2. CASE q = child /\ m = t
      BY <1>1, <1>a, <1>10, <3>2
    <3>. QED BY <1>12, <3>1, <3>2
  <2>. QED BY <2>1, <2>2, <2>3, <2>4
<1>14. SessionRoots(x) = SessionRoots(s) /\ FloatRoots(x) = FloatRoots(s)
  BY <1>a DEF SessionRoots, FloatRoots
<1>15. Rooted(x, F \ {child})
  <2>1. \A m \in DOMAIN x.nodes :
          x.nodes[m].parent = None <=> m \in SessionRoots(x) \/ m \in FloatRoots(x) \/ m \in F \ {child}
    BY <1>0, <1>1, <1>3, <1>a, <1>10, <1>14 DEF Rooted
  <2>2. /\ F \ {child} \subseteq DOMAIN x.nodes
        /\ \A m \in F \ {child} : m \notin SessionRoots(x) /\ m \notin FloatRoots(x)
    BY <1>0, <1>a, <1>14 DEF Rooted
  <2>3. ASSUME NEW sid \in DOMAIN x.sessions
        PROVE  LET session == x.sessions[sid]
               IN  /\ session.root \in DOMAIN x.nodes
                   /\ x.nodes[session.root].kind = "tabs" /\ x.nodes[session.root].sess = sid
                   /\ Distinct(session.floats)
                   /\ ToSet(session.floats) = {f \in DOMAIN x.floats : x.floats[f].sess = sid}
    BY <1>0, <1>a, <1>10 DEF Rooted
  <2>4. ASSUME NEW f \in DOMAIN x.floats
        PROVE  LET float == x.floats[f]
               IN  /\ float.root \in DOMAIN x.nodes /\ float.root \notin SessionRoots(x)
                   /\ float.sess \in DOMAIN x.sessions /\ x.nodes[float.root].sess = float.sess
                   /\ \A g \in DOMAIN x.floats : x.floats[g].root = float.root => g = f
    BY <1>0, <1>a, <1>10, <1>14 DEF Rooted
  <2>. QED BY <2>1, <2>2, <2>3, <2>4 DEF Rooted
<1>16. Shaped(x, e) /\ (e = t => Shaped(x, None))
  <2>1. \A m \in DOMAIN s.nodes : Len(s.nodes[m].kids) \in Nat
    <3>1. \A m \in DOMAIN s.nodes : s.nodes[m] \in NodeType
      BY <1>0
    <3>2. \A y \in NodeType : Len(y.kids) \in Nat
      BY DEF NodeType
    <3>. QED BY <3>1, <3>2
  <2>2. Len(xt.kids) = Len(s.nodes[t].kids) + 1
    BY <1>5, <1>8 DEF z
  <2>3. ASSUME NEW g \in {e, None}, g = e \/ e = t, NEW m \in DOMAIN x.nodes
        PROVE  LET node == x.nodes[m]
                   less == IF m = g THEN 1 ELSE 0
               IN  /\ node.kind = "view" => node.kids = <<>>
                   /\ node.kind = "split" => Len(node.kids) + less >= 2 /\ Len(node.sizes) = Len(node.kids)
                   /\ node.kind # "split" => node.sizes = <<>>
                   /\ node.kind = "tabs" /\ m \notin SessionRoots(x) =>
                        Len(node.kids) + less >= IF m \in FloatRoots(x) THEN 1 ELSE 2
    <3>1. /\ s.nodes[m].kind = "view" => s.nodes[m].kids = <<>>
          /\ s.nodes[m].kind = "split" => /\ Len(s.nodes[m].kids) + (IF m = e THEN 1 ELSE 0) >= 2
                                          /\ Len(s.nodes[m].sizes) = Len(s.nodes[m].kids)
          /\ s.nodes[m].kind # "split" => s.nodes[m].sizes = <<>>
          /\ s.nodes[m].kind = "tabs" /\ m \notin SessionRoots(s) =>
               Len(s.nodes[m].kids) + (IF m = e THEN 1 ELSE 0) >= IF m \in FloatRoots(s) THEN 1 ELSE 2
      BY <1>0, <1>a DEF Shaped
    <3>2. CASE m = t
      <4>1. x.nodes[m].kind = "tabs" /\ Len(x.nodes[m].kids) = Len(s.nodes[m].kids) + 1
            /\ x.nodes[m].sizes = s.nodes[m].sizes /\ s.nodes[m].kind = "tabs"
        BY <1>10, <2>2, <3>2
      <4>2. Len(s.nodes[m].kids) \in Nat
        BY <2>1, <3>2
      <4> DEFINE L == Len(s.nodes[m].kids)
                 least == IF m \in FloatRoots(s) THEN 1 ELSE 2
      <4>3. m \notin SessionRoots(s) => L + 1 >= least
        <5>1. m \notin SessionRoots(s) => L + (IF m = e THEN 1 ELSE 0) >= least
          BY <3>1, <4>1
        <5>2. L \in Nat /\ least \in Nat
          BY <4>2
        <5> HIDE DEF L, least
        <5>. QED BY <5>1, <5>2
      <4>4. m \notin SessionRoots(x) => Len(x.nodes[m].kids) + (IF m = g THEN 1 ELSE 0) >= least
        <5>1. Len(x.nodes[m].kids) = L + 1 /\ L \in Nat /\ least \in Nat
          BY <4>1, <4>2
        <5>2. m \notin SessionRoots(x) => L + 1 >= least
          BY <1>14, <4>3
        <5> HIDE DEF L, least
        <5>. QED BY <5>1, <5>2
      <4>. QED BY <1>14, <3>1, <4>1, <4>4
    <3>3. CASE m # t
      <4>1. /\ x.nodes[m].kind = s.nodes[m].kind /\ x.nodes[m].kids = s.nodes[m].kids
            /\ x.nodes[m].sizes = s.nodes[m].sizes
        BY <1>a, <1>10, <3>3
      <4>2. m = g <=> m = e
        BY <1>0, <1>a, <2>3, <3>3
      <4>. QED BY <1>14, <3>1, <4>1, <4>2
    <3>. QED BY <3>2, <3>3
  <2>. QED BY <2>3 DEF Shaped
<1>17. Pointed(x)
  <2>1. index < Len(k)
    BY <1>5, <1>7
  <2>. QED BY <1>0, <1>a, <1>10, <2>1 DEF Pointed
<1>18. Remembered(x)
  BY <1>0, <1>a, <1>10 DEF Remembered
<1>19. Owned(x)
  BY <1>0, <1>a DEF Owned
<1>20. Ranked(x)
  <2>1. PICK top \in Nat : \E rank \in [DOMAIN s.nodes -> 0 .. top] :
          \A m \in DOMAIN s.nodes : s.nodes[m].parent # None => rank[m] < rank[s.nodes[m].parent]
    BY <1>0 DEF Ranked
  <2>2. PICK rank \in [DOMAIN s.nodes -> 0 .. top] :
          \A m \in DOMAIN s.nodes : s.nodes[m].parent # None => rank[m] < rank[s.nodes[m].parent]
    BY <2>1
  <2> DEFINE r == [m \in DOMAIN x.nodes |-> IF m \in Below(s, child) THEN rank[m] ELSE rank[m] + top + 1]
             most == 2 * top + 1
  <2>3. \A m \in DOMAIN s.nodes : rank[m] \in Nat /\ rank[m] <= top
    BY <2>2
  <2>4. r \in [DOMAIN x.nodes -> 0 .. most] /\ most \in Nat
    BY <1>a, <2>3
  <2>5. ASSUME NEW m \in DOMAIN x.nodes, x.nodes[m].parent # None
        PROVE  r[m] < r[x.nodes[m].parent]
    <3>1. CASE m = child
      <4>1. r[m] = rank[child] /\ r[t] = rank[t] + top + 1 /\ x.nodes[m].parent = t
        BY <1>1, <1>2, <1>a, <1>10, <3>1
      <4> HIDE DEF r
      <4>. QED BY <1>1, <2>3, <4>1
    <3>2. CASE m # child
      <4> DEFINE p == s.nodes[m].parent
      <4>1. p \in DOMAIN s.nodes /\ m \in Kids(s, p) /\ x.nodes[m].parent = p /\ rank[m] < rank[p]
        BY <1>0, <1>a, <1>10, <2>2, <2>5, <3>2 DEF Linked
      <4>2. m \in Below(s, child) <=> p \in Below(s, child)
        BY <1>2, <3>2, <4>1
      <4> HIDE DEF p
      <4>3. r[m] = IF m \in Below(s, child) THEN rank[m] ELSE rank[m] + top + 1
        OBVIOUS
      <4>4. r[p] = IF p \in Below(s, child) THEN rank[p] ELSE rank[p] + top + 1
        BY <1>a, <4>1
      <4> HIDE DEF r
      <4>. QED BY <1>a, <2>3, <4>1, <4>2, <4>3, <4>4
    <3>. QED BY <3>1, <3>2
  <2> HIDE DEF r, most
  <2>. QED BY <2>4, <2>5 DEF Ranked
<1>21. SameViews(s, x)
  BY <1>a, <1>10 DEF SameViews
<1>. QED BY <1>11, <1>13, <1>15, <1>16, <1>17, <1>18, <1>19, <1>20, <1>21 DEF Forest

-----------------------------------------------------------------------------
(* Taking a child out *)

ActiveOf(node, kids, index) ==
    IF node.kind = "tabs" THEN ActiveAfterRemove(Len(kids), node.active, index) ELSE node.active

SizesOf(node, index) == IF index < Len(node.sizes) THEN RemovedAt(node.sizes, index) ELSE node.sizes

\* The container without the child, and the child on its own.
ChildRemoved(s, x, p, c) ==
    LET index == Position(s.nodes[p].kids, c)
        kids  == RemovedAt(s.nodes[p].kids, index)
    IN  /\ DOMAIN x.nodes = DOMAIN s.nodes
        /\ \A m \in DOMAIN s.nodes :
              /\ x.nodes[m].kind = s.nodes[m].kind /\ x.nodes[m].sess = s.nodes[m].sess
              /\ x.nodes[m].parent = IF m = c THEN None ELSE s.nodes[m].parent
              /\ x.nodes[m].kids = IF m = p THEN kids ELSE s.nodes[m].kids
              /\ x.nodes[m].active = IF m = p THEN ActiveOf(s.nodes[m], kids, index) ELSE s.nodes[m].active
              /\ x.nodes[m].sizes = IF m = p THEN SizesOf(s.nodes[m], index) ELSE s.nodes[m].sizes
              /\ x.nodes[m].last = s.nodes[m].last /\ x.nodes[m].buf = s.nodes[m].buf
        /\ x.sessions = s.sessions /\ x.floats = s.floats /\ x.buffers = s.buffers
        /\ x.nextNode = s.nextNode /\ x.nextSession = s.nextSession /\ x.nextFloat = s.nextFloat

\* The active index stays within what is left.
LEMMA RemovedActive ==
    ASSUME NEW N \in Nat, NEW a \in Nat, a < N, NEW i \in 0 .. N - 1, NEW L \in Nat, L = N - 1
    PROVE  /\ ActiveAfterRemove(L, a, i) \in Nat
           /\ ActiveAfterRemove(L, a, i) < L \/ (L = 0 /\ ActiveAfterRemove(L, a, i) = 0)
  BY DEF ActiveAfterRemove

\* The facts about the list of children, its weights and its active index.
LEMMA RemovedFields ==
    ASSUME NEW z \in NodeType, Distinct(z.kids), NEW c \in ToSet(z.kids),
           z.kind = "split" => Len(z.sizes) = Len(z.kids),
           z.kind # "split" => z.sizes = <<>>,
           z.kind = "tabs" => z.active < Len(z.kids)
    PROVE  LET index == Position(z.kids, c)
               kids  == RemovedAt(z.kids, index)
           IN  /\ kids \in Seq(Nat) /\ Len(kids) = Len(z.kids) - 1 /\ Distinct(kids)
               /\ ToSet(kids) = ToSet(z.kids) \ {c}
               /\ SizesOf(z, index) \in Seq(Nat) /\ ActiveOf(z, kids, index) \in Nat
               /\ z.kind = "split" => Len(SizesOf(z, index)) = Len(kids)
               /\ z.kind # "split" => SizesOf(z, index) = <<>>
               /\ z.kind = "tabs" => \/ ActiveOf(z, kids, index) < Len(kids)
                                     \/ (kids = <<>> /\ ActiveOf(z, kids, index) = 0)
<1> DEFINE index == Position(z.kids, c)
           kids == RemovedAt(z.kids, index)
<1>1. /\ z.kids \in Seq(Nat) /\ z.sizes \in Seq(Nat) /\ z.active \in Nat
      /\ Len(z.kids) \in Nat /\ Len(z.sizes) \in Nat
  BY DEF NodeType
<1>2. index \in 0 .. Len(z.kids) - 1
  BY <1>1, PositionIs
<1>3. /\ kids \in Seq(Nat) /\ Len(kids) = Len(z.kids) - 1 /\ Distinct(kids)
      /\ ToSet(kids) = ToSet(z.kids) \ {c}
  BY <1>1, RemovedSet
<1> HIDE DEF kids, index
<1>4. SizesOf(z, index) \in Seq(Nat) /\ (z.kind = "split" => Len(SizesOf(z, index)) = Len(kids))
  <2>1. CASE index < Len(z.sizes)
    <3>1. index \in 0 .. Len(z.sizes) - 1
      BY <1>1, <1>2, <2>1
    <3>2. RemovedAt(z.sizes, index) \in Seq(Nat) /\ Len(RemovedAt(z.sizes, index)) = Len(z.sizes) - 1
      BY <1>1, <3>1, RemovedAtIs
    <3>3. SizesOf(z, index) = RemovedAt(z.sizes, index)
      BY <2>1 DEF SizesOf
    <3>. QED BY <1>3, <3>2, <3>3
  <2>2. CASE ~ (index < Len(z.sizes))
    <3>1. SizesOf(z, index) = z.sizes
      BY <2>2 DEF SizesOf
    <3>. QED BY <1>1, <1>2, <2>2, <3>1
  <2>. QED BY <2>1, <2>2
<1>5. z.kind # "split" => SizesOf(z, index) = <<>>
  <2>1. Len(<<>>) = 0
    BY ShortLists
  <2>2. z.kind # "split" => ~ (index < Len(z.sizes))
    BY <1>2, <2>1
  <2>. QED BY <2>2 DEF SizesOf
<1>6. /\ ActiveOf(z, kids, index) \in Nat
      /\ z.kind = "tabs" => \/ ActiveOf(z, kids, index) < Len(kids)
                            \/ (kids = <<>> /\ ActiveOf(z, kids, index) = 0)
  <2>1. Len(kids) = 0 => kids = <<>>
    BY <1>3, ShortLists
  <2>2. Len(kids) \in Nat
    BY <1>3
  <2>3. CASE z.kind = "tabs"
    <3>1. ActiveOf(z, kids, index) = ActiveAfterRemove(Len(kids), z.active, index)
      BY <2>3 DEF ActiveOf
    <3>2. /\ ActiveAfterRemove(Len(kids), z.active, index) \in Nat
          /\ \/ ActiveAfterRemove(Len(kids), z.active, index) < Len(kids)
             \/ (Len(kids) = 0 /\ ActiveAfterRemove(Len(kids), z.active, index) = 0)
      <4>1. /\ Len(z.kids) \in Nat /\ z.active \in Nat /\ z.active < Len(z.kids)
            /\ index \in 0 .. Len(z.kids) - 1 /\ Len(kids) \in Nat /\ Len(kids) = Len(z.kids) - 1
        BY <1>1, <1>2, <1>3, <2>2, <2>3
      <4> DEFINE N == Len(z.kids)
                 L == Len(kids)
                 a == z.active
      <4>2. N \in Nat /\ a \in Nat /\ a < N /\ index \in 0 .. N - 1 /\ L \in Nat /\ L = N - 1
        BY <4>1
      <4> HIDE DEF N, L, a
      <4>3. /\ ActiveAfterRemove(L, a, index) \in Nat
            /\ ActiveAfterRemove(L, a, index) < L \/ (L = 0 /\ ActiveAfterRemove(L, a, index) = 0)
        BY <4>2, RemovedActive
      <4>. QED BY <4>3 DEF L, a
    <3>. QED BY <2>1, <3>1, <3>2
  <2>4. CASE z.kind # "tabs"
    BY <1>1, <2>4 DEF ActiveOf
  <2>. QED BY <2>3, <2>4
<1>. QED BY <1>3, <1>4, <1>5, <1>6 DEF kids, index

\* RemoveChild takes the one child from the list and leaves it without a parent.
LEMMA RemoveChildIs ==
    ASSUME NEW s, NEW F, NEW e, Forest(s, F, e), NEW p \in DOMAIN s.nodes, NEW c \in Kids(s, p)
    PROVE  LET x == RemoveChild(s, p, c) IN IsState(x) /\ ChildRemoved(s, x, p, c)
<1>0. /\ IsState(s) /\ Shape(s) /\ Linked(s) /\ Shaped(s, e) /\ Pointed(s) /\ None \notin DOMAIN s.nodes
      /\ s.nodes \in [DOMAIN s.nodes -> NodeType]
  BY DEF Forest, IsState, None
<1> DEFINE z == s.nodes[p]
           index == Position(z.kids, c)
           kids == RemovedAt(z.kids, index)
           w == [s EXCEPT
            !.nodes[p].kids = kids,
            !.nodes[p].sizes = IF index < Len(@) THEN RemovedAt(@, index) ELSE @,
            !.nodes[p].active = IF z.kind = "tabs"
                                THEN ActiveAfterRemove(Len(kids), @, index) ELSE @]
           y == [z EXCEPT !.kids = kids, !.sizes = SizesOf(z, index), !.active = ActiveOf(z, kids, index)]
           x == RemoveChild(s, p, c)
<1>1. c \in DOMAIN s.nodes /\ s.nodes[c].parent = p /\ c # p
  <2>1. c \in DOMAIN s.nodes /\ s.nodes[c].parent = p
    BY <1>0 DEF Linked
  <2>2. c # p
    <3>1. PICK top \in Nat : \E rank \in [DOMAIN s.nodes -> 0 .. top] :
            \A n \in DOMAIN s.nodes : s.nodes[n].parent # None => rank[n] < rank[s.nodes[n].parent]
      BY DEF Forest, Ranked
    <3>2. PICK rank \in [DOMAIN s.nodes -> 0 .. top] :
            \A n \in DOMAIN s.nodes : s.nodes[n].parent # None => rank[n] < rank[s.nodes[n].parent]
      BY <3>1
    <3>3. rank[p] \in Nat
      BY <3>2
    <3>. QED BY <1>0, <2>1, <3>2, <3>3
  <2>. QED BY <2>1, <2>2
<1>2. /\ z \in NodeType /\ Distinct(z.kids) /\ c \in ToSet(z.kids)
      /\ z.kind = "split" => Len(z.sizes) = Len(z.kids)
      /\ z.kind # "split" => z.sizes = <<>>
      /\ z.kind = "tabs" => z.active < Len(z.kids)
  <2>1. z \in NodeType
    BY <1>0
  <2>2. Distinct(z.kids) /\ c \in ToSet(z.kids)
    BY <1>0 DEF Linked, Kids
  <2>3. z.kids # <<>>
    BY <2>2, ShortLists
  <2>. QED BY <1>0, <2>1, <2>2, <2>3 DEF Shaped, Pointed
<1>3. /\ kids \in Seq(Nat) /\ Len(kids) = Len(z.kids) - 1
      /\ SizesOf(z, index) \in Seq(Nat) /\ ActiveOf(z, kids, index) \in Nat
  BY <1>2, RemovedFields
<1>4. /\ w.nodes = [s.nodes EXCEPT ![p] = y] /\ Shape(w)
      /\ w.sessions = s.sessions /\ w.floats = s.floats /\ w.buffers = s.buffers
      /\ w.nextNode = s.nextNode /\ w.nextSession = s.nextSession /\ w.nextFloat = s.nextFloat
  <2>1. w.nodes = [s.nodes EXCEPT ![p] = [z EXCEPT !.kids = kids,
                      !.sizes = IF index < Len(z.sizes) THEN RemovedAt(z.sizes, index) ELSE z.sizes,
                      !.active = IF z.kind = "tabs" THEN ActiveAfterRemove(Len(kids), z.active, index)
                                 ELSE z.active]]
    <3> HIDE DEF kids, index
    <3>. QED BY <1>0, <1>2 DEF Shape, NodeType
  <2>2. y = [z EXCEPT !.kids = kids,
                      !.sizes = IF index < Len(z.sizes) THEN RemovedAt(z.sizes, index) ELSE z.sizes,
                      !.active = IF z.kind = "tabs" THEN ActiveAfterRemove(Len(kids), z.active, index)
                                 ELSE z.active]
    BY DEF SizesOf, ActiveOf
  <2>3. /\ Shape(w)
        /\ w.sessions = s.sessions /\ w.floats = s.floats /\ w.buffers = s.buffers
        /\ w.nextNode = s.nextNode /\ w.nextSession = s.nextSession /\ w.nextFloat = s.nextFloat
    BY <1>0 DEF Shape
  <2>. QED BY <2>1, <2>2, <2>3, Zenon
<1>5. x = SetParent(w, c, None)
  BY <1>1 DEF RemoveChild
<1> HIDE DEF w
<1>6. /\ x.nodes = [w.nodes EXCEPT ![c].parent = None] /\ Shape(x)
      /\ x.sessions = s.sessions /\ x.floats = s.floats /\ x.buffers = s.buffers
      /\ x.nextNode = s.nextNode /\ x.nextSession = s.nextSession /\ x.nextFloat = s.nextFloat
  BY <1>4, <1>5 DEF SetParent, Shape
<1> HIDE DEF x, z, kids, index
<1>7. /\ y \in NodeType /\ y.kind = z.kind /\ y.sess = z.sess /\ y.parent = z.parent /\ y.kids = kids
      /\ y.sizes = SizesOf(z, index) /\ y.active = ActiveOf(z, kids, index) /\ y.last = z.last /\ y.buf = z.buf
  BY <1>2, <1>3 DEF NodeType
<1> HIDE DEF y
<1> DEFINE d == s.nodes[c]
           g == [d EXCEPT !.parent = None]
<1>8. d \in NodeType /\ w.nodes[c] = d /\ DOMAIN w.nodes = DOMAIN s.nodes
  BY <1>0, <1>1, <1>4
<1>9. x.nodes = [[s.nodes EXCEPT ![p] = y] EXCEPT ![c] = g]
  BY <1>1, <1>4, <1>6, <1>8
<1> HIDE DEF d
<1>10. /\ g \in NodeType /\ g.kind = d.kind /\ g.sess = d.sess /\ g.parent = None /\ g.kids = d.kids
       /\ g.sizes = d.sizes /\ g.active = d.active /\ g.last = d.last /\ g.buf = d.buf
  BY <1>8 DEF NodeType, None
<1> HIDE DEF g
<1>11. /\ x.nodes \in [DOMAIN s.nodes -> NodeType] /\ x.nodes[p] = y /\ x.nodes[c] = g
       /\ \A m \in DOMAIN s.nodes : m # p /\ m # c => x.nodes[m] = s.nodes[m]
  BY <1>0, <1>1, <1>7, <1>9, <1>10
<1>12. IsState(x)
  <2>1. DOMAIN x.nodes = DOMAIN s.nodes
    BY <1>11
  <2>. QED BY <1>0, <1>6, <1>11, <2>1 DEF IsState
<1>13. \A m \in DOMAIN s.nodes :
              /\ x.nodes[m].kind = s.nodes[m].kind /\ x.nodes[m].sess = s.nodes[m].sess
              /\ x.nodes[m].parent = IF m = c THEN None ELSE s.nodes[m].parent
              /\ x.nodes[m].kids = IF m = p THEN kids ELSE s.nodes[m].kids
              /\ x.nodes[m].active = IF m = p THEN ActiveOf(s.nodes[m], kids, index) ELSE s.nodes[m].active
              /\ x.nodes[m].sizes = IF m = p THEN SizesOf(s.nodes[m], index) ELSE s.nodes[m].sizes
              /\ x.nodes[m].last = s.nodes[m].last /\ x.nodes[m].buf = s.nodes[m].buf
  <2>1. s.nodes[p] = z /\ s.nodes[c] = d
    BY DEF z, d
  <2>. QED BY <1>1, <1>7, <1>10, <1>11, <2>1
<1>14. DOMAIN x.nodes = DOMAIN s.nodes
  BY <1>11
<1>15. ChildRemoved(s, x, p, c)
  BY <1>6, <1>13, <1>14 DEF ChildRemoved, z, kids, index
<1>. QED BY <1>12, <1>15 DEF x

\* The sessions and popups hold the trees they held.
LEMMA RootedSame ==
    ASSUME NEW s, NEW F, Rooted(s, F), NEW x, NEW G,
           x.sessions = s.sessions, x.floats = s.floats,
           \A m \in SessionRoots(s) \cup FloatRoots(s) :
              m \in DOMAIN x.nodes /\ x.nodes[m].kind = s.nodes[m].kind /\ x.nodes[m].sess = s.nodes[m].sess,
           G \subseteq DOMAIN x.nodes,
           \A m \in G : m \notin SessionRoots(s) /\ m \notin FloatRoots(s),
           \A m \in DOMAIN x.nodes :
              x.nodes[m].parent = None <=> m \in SessionRoots(s) \/ m \in FloatRoots(s) \/ m \in G
    PROVE  Rooted(x, G) /\ SessionRoots(x) = SessionRoots(s) /\ FloatRoots(x) = FloatRoots(s)
<1>1. SessionRoots(x) = SessionRoots(s) /\ FloatRoots(x) = FloatRoots(s)
  BY DEF SessionRoots, FloatRoots
<1>2. \A sid \in DOMAIN s.sessions : s.sessions[sid].root \in SessionRoots(s)
  BY DEF SessionRoots
<1>3. \A f \in DOMAIN s.floats : s.floats[f].root \in FloatRoots(s)
  BY DEF FloatRoots
<1>4. ASSUME NEW sid \in DOMAIN x.sessions
      PROVE  LET session == x.sessions[sid]
             IN  /\ session.root \in DOMAIN x.nodes
                 /\ x.nodes[session.root].kind = "tabs" /\ x.nodes[session.root].sess = sid
                 /\ Distinct(session.floats)
                 /\ ToSet(session.floats) = {f \in DOMAIN x.floats : x.floats[f].sess = sid}
  BY <1>2 DEF Rooted
<1>5. ASSUME NEW f \in DOMAIN x.floats
      PROVE  LET float == x.floats[f]
             IN  /\ float.root \in DOMAIN x.nodes /\ float.root \notin SessionRoots(x)
                 /\ float.sess \in DOMAIN x.sessions /\ x.nodes[float.root].sess = float.sess
                 /\ \A g \in DOMAIN x.floats : x.floats[g].root = float.root => g = f
  BY <1>1, <1>3 DEF Rooted
<1>. QED BY <1>1, <1>4, <1>5 DEF Rooted

\* The child is free then, and its container may have one child too few.
LEMMA RemoveChildKeeps ==
    ASSUME NEW s, Forest(s, {}, None), NEW p \in DOMAIN s.nodes, NEW c \in Kids(s, p)
    PROVE  LET x == RemoveChild(s, p, c)
           IN  /\ Forest(x, {c}, p) /\ SameViews(s, x) /\ ChildRemoved(s, x, p, c)
<1> DEFINE x == RemoveChild(s, p, c)
           z == s.nodes[p]
           index == Position(z.kids, c)
           kids == RemovedAt(z.kids, index)
<1>0. /\ IsState(s) /\ Linked(s) /\ Rooted(s, {}) /\ Shaped(s, None) /\ Ranked(s) /\ Pointed(s)
      /\ Remembered(s) /\ Owned(s) /\ None \notin DOMAIN s.nodes
      /\ s.nodes \in [DOMAIN s.nodes -> NodeType]
  BY DEF Forest, IsState, None
<1>1. IsState(x) /\ ChildRemoved(s, x, p, c)
  BY RemoveChildIs
<1> HIDE DEF x
<1>2. c \in DOMAIN s.nodes /\ s.nodes[c].parent = p /\ p # None /\ c \notin SessionRoots(s) /\ c \notin FloatRoots(s)
  BY <1>0 DEF Linked, Rooted
<1>3. /\ z \in NodeType /\ Distinct(z.kids) /\ c \in ToSet(z.kids)
      /\ z.kind = "split" => Len(z.sizes) = Len(z.kids)
      /\ z.kind # "split" => z.sizes = <<>>
      /\ z.kind = "tabs" => z.active < Len(z.kids)
  <2>1. z \in NodeType
    BY <1>0
  <2>2. Distinct(z.kids) /\ c \in ToSet(z.kids)
    BY <1>0 DEF Linked, Kids
  <2>3. z.kids # <<>>
    BY <2>2, ShortLists
  <2>. QED BY <1>0, <2>1, <2>2, <2>3 DEF Shaped, Pointed
<1>4. /\ kids \in Seq(Nat) /\ Len(kids) = Len(z.kids) - 1 /\ Distinct(kids)
      /\ ToSet(kids) = ToSet(z.kids) \ {c}
      /\ z.kind = "split" => Len(SizesOf(z, index)) = Len(kids)
      /\ z.kind # "split" => SizesOf(z, index) = <<>>
      /\ z.kind = "tabs" => \/ ActiveOf(z, kids, index) < Len(kids)
                            \/ (kids = <<>> /\ ActiveOf(z, kids, index) = 0)
  BY <1>3, RemovedFields
<1>5. /\ DOMAIN x.nodes = DOMAIN s.nodes
      /\ x.sessions = s.sessions /\ x.floats = s.floats /\ x.buffers = s.buffers
      /\ x.nextNode = s.nextNode /\ x.nextSession = s.nextSession /\ x.nextFloat = s.nextFloat
  BY <1>1 DEF ChildRemoved
<1>6. \A m \in DOMAIN s.nodes :
              /\ x.nodes[m].kind = s.nodes[m].kind /\ x.nodes[m].sess = s.nodes[m].sess
              /\ x.nodes[m].parent = IF m = c THEN None ELSE s.nodes[m].parent
              /\ x.nodes[m].kids = IF m = p THEN kids ELSE s.nodes[m].kids
              /\ x.nodes[m].active = IF m = p THEN ActiveOf(s.nodes[m], kids, index) ELSE s.nodes[m].active
              /\ x.nodes[m].sizes = IF m = p THEN SizesOf(s.nodes[m], index) ELSE s.nodes[m].sizes
              /\ x.nodes[m].last = s.nodes[m].last /\ x.nodes[m].buf = s.nodes[m].buf
  BY <1>1 DEF ChildRemoved
<1> HIDE DEF kids, index
<1>7. \A m \in DOMAIN s.nodes : Kids(x, m) = IF m = p THEN Kids(s, p) \ {c} ELSE Kids(s, m)
  BY <1>4, <1>6 DEF Kids
<1>8. Linked(x)
  <2> SUFFICES ASSUME NEW m \in DOMAIN s.nodes
               PROVE  /\ x.nodes[m].sess \in DOMAIN x.sessions
                      /\ x.nodes[m].parent # None =>
                            /\ x.nodes[m].parent \in DOMAIN x.nodes
                            /\ m \in Kids(x, x.nodes[m].parent)
                            /\ x.nodes[x.nodes[m].parent].sess = x.nodes[m].sess
                      /\ Distinct(x.nodes[m].kids)
                      /\ \A q \in Kids(x, m) : q \in DOMAIN x.nodes /\ x.nodes[q].parent = m
    BY <1>5 DEF Linked
  <2>1. x.nodes[m].sess \in DOMAIN x.sessions
    BY <1>0, <1>5, <1>6 DEF Linked
  <2>2. Distinct(x.nodes[m].kids)
    BY <1>0, <1>4, <1>6 DEF Linked
  <2>3. ASSUME x.nodes[m].parent # None
        PROVE  /\ x.nodes[m].parent \in DOMAIN x.nodes
               /\ m \in Kids(x, x.nodes[m].parent)
               /\ x.nodes[x.nodes[m].parent].sess = x.nodes[m].sess
    <3>1. m # c /\ x.nodes[m].parent = s.nodes[m].parent
      BY <1>6, <2>3
    <3>2. /\ s.nodes[m].parent # None /\ s.nodes[m].parent \in DOMAIN s.nodes
          /\ m \in Kids(s, s.nodes[m].parent) /\ s.nodes[s.nodes[m].parent].sess = s.nodes[m].sess
      BY <1>0, <2>3, <3>1 DEF Linked
    <3>. QED BY <1>5, <1>6, <1>7, <3>1, <3>2
  <2>4. ASSUME NEW q \in Kids(x, m) PROVE q \in DOMAIN x.nodes /\ x.nodes[q].parent = m
    <3>1. q \in Kids(s, m) /\ (m = p => q # c)
      BY <1>7
    <3>2. q \in DOMAIN s.nodes /\ s.nodes[q].parent = m
      BY <1>0, <3>1 DEF Linked
    <3>3. q # c
      BY <1>2, <3>1, <3>2
    <3>. QED BY <1>5, <1>6, <3>2, <3>3
  <2>. QED BY <2>1, <2>2, <2>3, <2>4
<1>9. Rooted(x, {c}) /\ SessionRoots(x) = SessionRoots(s) /\ FloatRoots(x) = FloatRoots(s)
  <2>1. \A m \in SessionRoots(s) \cup FloatRoots(s) : m \in DOMAIN s.nodes
    BY <1>0 DEF Rooted, SessionRoots, FloatRoots
  <2>2. \A m \in SessionRoots(s) \cup FloatRoots(s) :
              m \in DOMAIN x.nodes /\ x.nodes[m].kind = s.nodes[m].kind /\ x.nodes[m].sess = s.nodes[m].sess
    BY <1>5, <1>6, <2>1
  <2>3. \A m \in DOMAIN x.nodes :
              x.nodes[m].parent = None <=> m \in SessionRoots(s) \/ m \in FloatRoots(s) \/ m \in {c}
    BY <1>0, <1>2, <1>5, <1>6 DEF Rooted
  <2>4. {c} \subseteq DOMAIN x.nodes
    BY <1>2, <1>5
  <2>5. \A m \in {c} : m \notin SessionRoots(s) /\ m \notin FloatRoots(s)
    BY <1>2
  <2>. QED BY <1>0, <1>5, <2>2, <2>3, <2>4, <2>5, RootedSame
<1>10. Shaped(x, p)
  <2>1. \A m \in DOMAIN s.nodes : Fits(s.nodes[m], IF m = None THEN 1 ELSE 0, Least(s, m))
    BY <1>0, ShapedIs
  <2>2. \A m \in DOMAIN s.nodes : Least(x, m) = Least(s, m)
    BY <1>9 DEF Least
  <2>3. ASSUME NEW m \in DOMAIN s.nodes PROVE Fits(x.nodes[m], IF m = p THEN 1 ELSE 0, Least(x, m))
    <3>1. Fits(s.nodes[m], 0, Least(s, m))
      BY <1>0, <2>1
    <3>2. CASE m # p
      <4>1. /\ x.nodes[m].kind = s.nodes[m].kind /\ x.nodes[m].kids = s.nodes[m].kids
            /\ x.nodes[m].sizes = s.nodes[m].sizes
        BY <1>6, <3>2
      <4>. QED BY <2>2, <3>1, <3>2, <4>1 DEF Fits
    <3>3. CASE m = p
      <4>1. Fits(z, 0, Least(s, p))
        BY <3>1, <3>3
      <4>2. /\ x.nodes[p].kind = z.kind /\ x.nodes[p].kids = kids
            /\ x.nodes[p].sizes = SizesOf(z, index)
        BY <1>6
      <4>3. Len(kids) + 1 = Len(z.kids) + 0
        BY <1>3, <1>4 DEF NodeType
      <4>4. z.kind # "view"
        BY <1>3, <4>1, ShortLists DEF Fits
      <4> HIDE DEF z
      <4>5. Fits(x.nodes[p], 1, Least(s, p))
        BY <1>4, <4>1, <4>2, <4>3, <4>4 DEF Fits
      <4>. QED BY <2>2, <3>3, <4>5
    <3>. QED BY <3>2, <3>3
  <2>4. x.nodes \in [DOMAIN x.nodes -> NodeType]
    BY <1>1 DEF IsState
  <2>. QED BY <1>5, <2>3, <2>4, ShapedIs
<1>11. Pointed(x)
  <2>1. ASSUME NEW m \in DOMAIN x.nodes, x.nodes[m].kind = "tabs"
        PROVE  x.nodes[m].active < Len(x.nodes[m].kids) \/ (x.nodes[m].kids = <<>> /\ x.nodes[m].active = 0)
    <3>1. CASE m = p
      BY <1>4, <1>6, <2>1, <3>1
    <3>2. CASE m # p
      BY <1>0, <1>5, <1>6, <2>1, <3>2 DEF Pointed
    <3>. QED BY <3>1, <3>2
  <2>. QED BY <2>1 DEF Pointed
<1>12. Remembered(x)
  BY <1>0, <1>5, <1>6 DEF Remembered
<1>13. Owned(x)
  BY <1>0, <1>5 DEF Owned
<1>14. Ranked(x)
  <2>1. \A m \in DOMAIN x.nodes : x.nodes[m].parent # None =>
            s.nodes[m].parent # None /\ x.nodes[m].parent = s.nodes[m].parent
    BY <1>5, <1>6
  <2>. QED BY <1>0, <1>5, <2>1 DEF Ranked
<1>15. SameViews(s, x)
  BY <1>5, <1>6 DEF SameViews
<1>. QED BY <1>1, <1>8, <1>9, <1>10, <1>11, <1>12, <1>13, <1>14, <1>15 DEF Forest, x

-----------------------------------------------------------------------------
(* Popups *)

\* A popup gives up its tree.
Unheld(s, x, f) ==
    LET n == s.floats[f].root
    IN  /\ Trunk(x, {n}) /\ x.nodes = s.nodes /\ x.buffers = s.buffers
        /\ SessionRoots(x) = SessionRoots(s) /\ FloatRoots(x) = FloatRoots(s) \ {n}
        /\ DOMAIN x.sessions = DOMAIN s.sessions /\ DOMAIN x.floats = DOMAIN s.floats \ {f}
        /\ x.nextNode = s.nextNode /\ x.nextSession = s.nextSession /\ x.nextFloat = s.nextFloat
        /\ \A a \in DOMAIN s.sessions : /\ x.sessions[a].root = s.sessions[a].root
                                        /\ ToSet(x.sessions[a].floats) = ToSet(s.sessions[a].floats) \ {f}
        /\ \A g \in DOMAIN x.floats : x.floats[g] = s.floats[g]

\* RemoveFloat drops the popup and leaves its root free.
LEMMA RemoveFloatIs ==
    ASSUME NEW s, Trunk(s, {}), NEW f \in DOMAIN s.floats
    PROVE  Unheld(s, RemoveFloat(s, f), f)
<1> DEFINE x == RemoveFloat(s, f)
           n == s.floats[f].root
           sid == s.floats[f].sess
           z == s.sessions[sid]
           y == [z EXCEPT !.floats = Without(z.floats, f), !.float = IF z.float = f THEN None ELSE z.float]
           D == DOMAIN s.sessions
<1>0. /\ IsState(s) /\ Linked(s) /\ Rooted(s, {}) /\ Ranked(s) /\ Pointed(s)
      /\ Remembered(s) /\ Owned(s) /\ Shape(s) /\ None \notin DOMAIN s.floats
      /\ s.floats \in [DOMAIN s.floats -> FloatType]
      /\ s.nextFloat \in Nat \ {0}
  BY DEF Trunk, IsState, None
<1>1. /\ sid \in D /\ n \in DOMAIN s.nodes /\ n \notin SessionRoots(s) /\ s.nodes[n].sess = sid
      /\ \A g \in DOMAIN s.floats : s.floats[g].root = n => g = f
  BY <1>0, Zenon DEF Rooted
<1>2. IsSession(z) /\ Distinct(z.floats) /\ ToSet(z.floats) = {g \in DOMAIN s.floats : s.floats[g].sess = sid}
  BY <1>0, <1>1 DEF IsState, Rooted
<1>3. /\ x.nodes = s.nodes /\ x.buffers = s.buffers /\ Shape(x)
      /\ x.floats = Restrict(s.floats, DOMAIN s.floats \ {f})
      /\ x.nextNode = s.nextNode /\ x.nextSession = s.nextSession /\ x.nextFloat = s.nextFloat
  BY <1>0, Zenon DEF RemoveFloat, Shape
<1>4. x.sessions = [s.sessions EXCEPT ![sid] = y]
  <2>1. x.sessions = [s.sessions EXCEPT ![sid].floats = Without(@, f), ![sid].float = IF @ = f THEN None ELSE @]
    BY <1>0, Zenon DEF RemoveFloat, Shape
  <2>. QED BY <1>1, <2>1
<1> HIDE DEF x
<1>5. z.floats \in Seq(Nat)
  BY <1>2, Zenon DEF IsSession
<1>6. Without(z.floats, f) \in Seq(Nat) /\ Distinct(Without(z.floats, f)) /\ ToSet(Without(z.floats, f)) = ToSet(z.floats) \ {f}
  BY <1>2, <1>5, WithoutIs
<1> DEFINE W == Without(z.floats, f)
<1> HIDE DEF W, z
<1>7. IsSession(y) /\ y.root = z.root /\ y.floats = W /\ y.float = (IF z.float = f THEN None ELSE z.float)
  BY <1>2, <1>6 DEF IsSession, W
<1> HIDE DEF y
<1>8. /\ DOMAIN x.floats = DOMAIN s.floats \ {f} /\ \A g \in DOMAIN x.floats : x.floats[g] = s.floats[g]
      /\ x.floats \in [DOMAIN s.floats \ {f} -> FloatType]
  BY <1>0, <1>3 DEF Restrict
<1>9. /\ DOMAIN x.sessions = D /\ x.sessions[sid] = y /\ \A a \in D : a # sid => x.sessions[a] = s.sessions[a]
      /\ x.sessions = [a \in D |-> x.sessions[a]]
  <2>1. s.sessions = [a \in D |-> s.sessions[a]]
    BY <1>0 DEF IsState
  <2>. QED BY <1>1, <1>4, <2>1
<1> HIDE DEF D
<1>10. IsState(x)
  <2>1. \A a \in DOMAIN x.sessions : IsSession(x.sessions[a]) /\ a \in 1 .. x.nextSession - 1
    BY <1>0, <1>3, <1>7, <1>9 DEF IsState, D
  <2>2. DOMAIN x.floats \subseteq 1 .. x.nextFloat - 1
    BY <1>0, <1>3, <1>8 DEF IsState
  <2>3. x.floats \in [DOMAIN x.floats -> FloatType]
    BY <1>8
  <2>4. x.nodes \in [DOMAIN x.nodes -> NodeType] /\ DOMAIN x.nodes \subseteq 1 .. x.nextNode - 1
        /\ x.buffers \in [DOMAIN x.buffers -> BufferType] /\ DOMAIN x.buffers \subseteq Buffers
        /\ x.nextNode \in Nat \ {0} /\ x.nextSession \in Nat \ {0} /\ x.nextFloat \in Nat \ {0}
    BY <1>0, <1>3 DEF IsState
  <2>. QED BY <1>3, <1>9, <2>1, <2>2, <2>3, <2>4 DEF IsState
<1>11. \A m : Kids(x, m) = Kids(s, m)
  BY <1>3 DEF Kids
<1>12. Linked(x)
  BY <1>0, <1>3, <1>9, <1>11 DEF Linked, D
<1>13. \A a \in D : x.sessions[a].root = s.sessions[a].root
  BY <1>7, <1>9 DEF z
<1>14. SessionRoots(x) = SessionRoots(s)
  <2>1. DOMAIN x.sessions = DOMAIN s.sessions
    BY <1>9 DEF D
  <2>2. \A a \in DOMAIN s.sessions : x.sessions[a].root = s.sessions[a].root
    BY <1>13 DEF D
  <2>. QED BY <2>1, <2>2 DEF SessionRoots
<1>15. FloatRoots(x) = FloatRoots(s) \ {n}
  <2>1. \A g \in DOMAIN x.floats : g \in DOMAIN s.floats /\ g # f /\ s.floats[g].root # n /\ x.floats[g].root = s.floats[g].root
    BY <1>1, <1>8
  <2>2. \A g \in DOMAIN s.floats : s.floats[g].root # n => g \in DOMAIN x.floats /\ x.floats[g].root = s.floats[g].root
    BY <1>8
  <2> HIDE DEF n
  <2>. QED BY <2>1, <2>2 DEF FloatRoots
<1>16. \A a \in D : /\ Distinct(x.sessions[a].floats)
                    /\ ToSet(x.sessions[a].floats) = ToSet(s.sessions[a].floats) \ {f}
                    /\ ToSet(x.sessions[a].floats) = {g \in DOMAIN x.floats : x.floats[g].sess = a}
  <2> SUFFICES ASSUME NEW a \in D
               PROVE  /\ Distinct(x.sessions[a].floats)
                      /\ ToSet(x.sessions[a].floats) = ToSet(s.sessions[a].floats) \ {f}
                      /\ ToSet(x.sessions[a].floats) = {g \in DOMAIN x.floats : x.floats[g].sess = a}
    OBVIOUS
  <2>1. Distinct(s.sessions[a].floats) /\ ToSet(s.sessions[a].floats) = {g \in DOMAIN s.floats : s.floats[g].sess = a}
    BY <1>0 DEF Rooted, D
  <2>2. {g \in DOMAIN x.floats : x.floats[g].sess = a} = {g \in DOMAIN s.floats : s.floats[g].sess = a} \ {f}
    BY <1>8
  <2>3. CASE a = sid
    BY <1>6, <1>7, <1>9, <2>1, <2>2, <2>3, Zenon DEF W, z
  <2>4. CASE a # sid
    <3>1. f \notin ToSet(s.sessions[a].floats)
      BY <2>1, <2>4
    <3>. QED BY <1>9, <2>1, <2>2, <2>4, <3>1
  <2>. QED BY <2>3, <2>4
<1>17. n \in FloatRoots(s)
  BY DEF FloatRoots
<1>18. Rooted(x, {n})
  <2>1. \A m \in DOMAIN x.nodes :
          x.nodes[m].parent = None <=> m \in SessionRoots(x) \/ m \in FloatRoots(x) \/ m \in {n}
    BY <1>0, <1>3, <1>14, <1>15, <1>17 DEF Rooted
  <2>2. {n} \subseteq DOMAIN x.nodes /\ \A m \in {n} : m \notin SessionRoots(x) /\ m \notin FloatRoots(x)
    BY <1>1, <1>3, <1>14, <1>15
  <2>3. ASSUME NEW a \in DOMAIN x.sessions
        PROVE  LET session == x.sessions[a]
               IN  /\ session.root \in DOMAIN x.nodes
                   /\ x.nodes[session.root].kind = "tabs" /\ x.nodes[session.root].sess = a
                   /\ Distinct(session.floats)
                   /\ ToSet(session.floats) = {g \in DOMAIN x.floats : x.floats[g].sess = a}
    <3>1. a \in DOMAIN s.sessions /\ x.sessions[a].root = s.sessions[a].root
      BY <1>9, <1>13 DEF D
    <3>2. /\ s.sessions[a].root \in DOMAIN s.nodes
          /\ s.nodes[s.sessions[a].root].kind = "tabs" /\ s.nodes[s.sessions[a].root].sess = a
      BY <1>0, <3>1, Zenon DEF Rooted
    <3>. QED BY <1>3, <1>16, <3>1, <3>2, Zenon DEF D
  <2>4. ASSUME NEW g \in DOMAIN x.floats
        PROVE  LET float == x.floats[g]
               IN  /\ float.root \in DOMAIN x.nodes /\ float.root \notin SessionRoots(x)
                   /\ float.sess \in DOMAIN x.sessions /\ x.nodes[float.root].sess = float.sess
                   /\ \A h \in DOMAIN x.floats : x.floats[h].root = float.root => h = g
    BY <1>0, <1>3, <1>8, <1>9, <1>14 DEF Rooted, D
  <2>. QED BY <2>1, <2>2, <2>3, <2>4 DEF Rooted
<1>19. Pointed(x) /\ Ranked(x)
  BY <1>0, <1>3 DEF Pointed, Ranked
<1>20. Remembered(x)
  BY <1>0, <1>3, <1>8, Zenon DEF Remembered
<1>21. Owned(x)
  <2>1. ASSUME NEW a \in DOMAIN x.sessions
        PROVE  x.sessions[a].float \in 0 .. x.nextFloat - 1
               /\ (x.sessions[a].float \in DOMAIN x.floats => x.floats[x.sessions[a].float].sess = a)
    <3>1. /\ s.sessions[a].float \in 0 .. s.nextFloat - 1
          /\ s.sessions[a].float \in DOMAIN s.floats => s.floats[s.sessions[a].float].sess = a
      BY <1>0, <1>9 DEF Owned, D
    <3>2. x.sessions[a].float = s.sessions[a].float \/ x.sessions[a].float = None
      BY <1>7, <1>9 DEF z
    <3>3. None \in 0 .. s.nextFloat - 1
      BY <1>0 DEF None
    <3>. QED BY <1>0, <1>3, <1>8, <3>1, <3>2, <3>3
  <2>. QED BY <2>1 DEF Owned
<1>22. Trunk(x, {n})
  BY <1>10, <1>12, <1>18, <1>19, <1>20, <1>21 DEF Trunk
<1>23. Unheld(s, x, f)
  BY <1>3, <1>8, <1>9, <1>13, <1>14, <1>15, <1>16, <1>22 DEF D, Unheld
<1>. QED BY <1>23 DEF x

\* A popup takes a tree that nothing holds.
Opened(s, sid, n) ==
    [s EXCEPT !.floats = Put(@, s.nextFloat, [sess |-> sid, root |-> n, focused |-> FALSE, last |-> None]),
              !.sessions[sid].floats = Append(@, s.nextFloat),
              !.nextFloat = @ + 1]

\* A list with one entry more.
LEMMA AppendedSet ==
    ASSUME NEW q \in Seq(Nat), Distinct(q), NEW v \in Nat, v \notin ToSet(q)
    PROVE  Append(q, v) \in Seq(Nat) /\ Distinct(Append(q, v)) /\ ToSet(Append(q, v)) = ToSet(q) \cup {v}
<1> DEFINE r == Append(q, v)
<1>1. r \in Seq(Nat) /\ Len(r) = Len(q) + 1 /\ Len(q) \in Nat
  OBVIOUS
<1>2. r[Len(q) + 1] = v /\ \A i \in 1 .. Len(q) : r[i] = q[i]
  OBVIOUS
<1> HIDE DEF r
<1>3. DOMAIN r = 1 .. Len(q) + 1 /\ DOMAIN q = 1 .. Len(q)
  BY <1>1
<1>4. \A i \in 1 .. Len(q) + 1 : i = Len(q) + 1 \/ i \in 1 .. Len(q)
  BY <1>1
<1>5. ToSet(r) = ToSet(q) \cup {v}
  <2>1. ASSUME NEW i \in DOMAIN r PROVE r[i] \in ToSet(q) \cup {v}
    BY <1>2, <1>3, <1>4 DEF ToSet
  <2>2. ASSUME NEW i \in DOMAIN q PROVE \E j \in DOMAIN r : r[j] = q[i]
    BY <1>1, <1>2, <1>3
  <2>3. \E j \in DOMAIN r : r[j] = v
    BY <1>1, <1>2, <1>3
  <2>. QED BY <2>1, <2>2, <2>3 DEF ToSet
<1>6. Distinct(r)
  <2>1. \A i \in 1 .. Len(q) : q[i] # v
    BY <1>3 DEF ToSet
  <2>. QED BY <1>1, <1>2, <1>3, <1>4, <2>1 DEF Distinct
<1>. QED BY <1>1, <1>5, <1>6 DEF r

Held(s, x, n) ==
    LET f == s.nextFloat
    IN  /\ Trunk(x, {}) /\ x.nodes = s.nodes /\ x.buffers = s.buffers
        /\ SessionRoots(x) = SessionRoots(s) /\ FloatRoots(x) = FloatRoots(s) \cup {n}
        /\ f \in DOMAIN x.floats /\ x.floats[f].root = n /\ x.floats[f].sess = s.nodes[n].sess

\* What CreateFloating writes before it focuses.
LEMMA OpenedIs ==
    ASSUME NEW s, NEW n, Trunk(s, {n})
    PROVE  Held(s, Opened(s, s.nodes[n].sess, n), n)
<1> DEFINE f == s.nextFloat
           sid == s.nodes[n].sess
           x == Opened(s, sid, n)
           w == [sess |-> sid, root |-> n, focused |-> FALSE, last |-> None]
           z == s.sessions[sid]
           y == [z EXCEPT !.floats = Append(z.floats, f)]
           D == DOMAIN s.sessions
<1>0. /\ IsState(s) /\ Linked(s) /\ Rooted(s, {n}) /\ Ranked(s) /\ Pointed(s)
      /\ Remembered(s) /\ Owned(s) /\ Shape(s)
      /\ s.floats \in [DOMAIN s.floats -> FloatType] /\ DOMAIN s.floats \subseteq 1 .. f - 1
      /\ f \in Nat \ {0} /\ s.nextNode \in Nat \ {0} /\ None \notin DOMAIN s.nodes
  BY DEF Trunk, IsState, None
<1>1. n \in DOMAIN s.nodes /\ n \notin SessionRoots(s) /\ n \notin FloatRoots(s) /\ s.nodes[n].parent = None
  BY <1>0 DEF Rooted
<1>2. sid \in D /\ n \in Nat /\ sid \in Nat /\ f \notin DOMAIN s.floats
  <2>1. sid \in D
    BY <1>0, <1>1 DEF Linked
  <2>2. \A i \in 1 .. s.nextNode - 1 : i \in Nat
    BY <1>0
  <2>3. \A i \in 1 .. s.nextSession - 1 : i \in Nat
    BY <1>0 DEF IsState
  <2>4. sid \in 1 .. s.nextSession - 1 /\ n \in 1 .. s.nextNode - 1
    BY <1>0, <1>1, <2>1 DEF IsState
  <2>5. f \notin 1 .. f - 1
    BY <1>0
  <2>. QED BY <1>0, <2>1, <2>2, <2>3, <2>4, <2>5
<1>3. IsSession(z) /\ Distinct(z.floats) /\ ToSet(z.floats) = {g \in DOMAIN s.floats : s.floats[g].sess = sid}
  BY <1>0, <1>2 DEF IsState, Rooted
<1>4. /\ x.nodes = s.nodes /\ x.buffers = s.buffers /\ Shape(x) /\ x.floats = Put(s.floats, f, w)
      /\ x.nextNode = s.nextNode /\ x.nextSession = s.nextSession /\ x.nextFloat = f + 1
  BY <1>0 DEF Opened, Shape
<1>5. x.sessions = [s.sessions EXCEPT ![sid] = y]
  <2>1. x.sessions = [s.sessions EXCEPT ![sid].floats = Append(@, f)]
    BY <1>0 DEF Opened, Shape
  <2>. QED BY <1>2, <2>1
<1> HIDE DEF x
<1>6. z.floats \in Seq(Nat) /\ f \notin ToSet(z.floats)
  BY <1>2, <1>3, Zenon DEF IsSession
<1> DEFINE W == Append(z.floats, f)
<1>7. W \in Seq(Nat) /\ Distinct(W) /\ ToSet(W) = ToSet(z.floats) \cup {f}
  BY <1>0, <1>3, <1>6, AppendedSet
<1> HIDE DEF W, z
<1>8. IsSession(y) /\ y.root = z.root /\ y.floats = W /\ y.float = z.float
  BY <1>3, <1>7 DEF IsSession, W
<1> HIDE DEF y
<1>9. w \in FloatType /\ w.sess = sid /\ w.root = n /\ w.last = None
  BY <1>2 DEF FloatType, None
<1> HIDE DEF w
<1>10. /\ DOMAIN x.floats = DOMAIN s.floats \cup {f} /\ \A g \in DOMAIN s.floats : x.floats[g] = s.floats[g]
       /\ x.floats[f] = w /\ x.floats \in [DOMAIN s.floats \cup {f} -> FloatType]
  BY <1>0, <1>2, <1>4, <1>9 DEF Put
<1>11. /\ DOMAIN x.sessions = D /\ x.sessions[sid] = y /\ \A a \in D : a # sid => x.sessions[a] = s.sessions[a]
       /\ x.sessions = [a \in D |-> x.sessions[a]]
  <2>1. s.sessions = [a \in D |-> s.sessions[a]]
    BY <1>0 DEF IsState
  <2>. QED BY <1>2, <1>5, <2>1
<1> HIDE DEF D
<1>12. IsState(x)
  <2>1. \A a \in DOMAIN x.sessions : IsSession(x.sessions[a]) /\ a \in 1 .. x.nextSession - 1
    BY <1>0, <1>4, <1>8, <1>11 DEF IsState, D
  <2>2. DOMAIN x.floats \subseteq 1 .. x.nextFloat - 1 /\ x.nextFloat \in Nat \ {0}
    BY <1>0, <1>4, <1>10
  <2>3. x.floats \in [DOMAIN x.floats -> FloatType]
    BY <1>10
  <2>4. x.nodes \in [DOMAIN x.nodes -> NodeType] /\ DOMAIN x.nodes \subseteq 1 .. x.nextNode - 1
        /\ x.buffers \in [DOMAIN x.buffers -> BufferType] /\ DOMAIN x.buffers \subseteq Buffers
        /\ x.nextNode \in Nat \ {0} /\ x.nextSession \in Nat \ {0}
    BY <1>0, <1>4 DEF IsState
  <2>. QED BY <1>4, <1>11, <2>1, <2>2, <2>3, <2>4 DEF IsState
<1>13. \A m : Kids(x, m) = Kids(s, m)
  BY <1>4 DEF Kids
<1>14. Linked(x)
  BY <1>0, <1>4, <1>11, <1>13 DEF Linked, D
<1>15. DOMAIN x.sessions = DOMAIN s.sessions /\ \A a \in DOMAIN s.sessions : x.sessions[a].root = s.sessions[a].root
                                              /\ x.sessions[a].float = s.sessions[a].float
  BY <1>8, <1>11 DEF z, D
<1>16. SessionRoots(x) = SessionRoots(s)
  BY <1>15 DEF SessionRoots
<1>17. FloatRoots(x) = FloatRoots(s) \cup {n}
  <2>1. \A g \in DOMAIN x.floats : (g = f /\ x.floats[g].root = n) \/ (g \in DOMAIN s.floats /\ x.floats[g].root = s.floats[g].root)
    BY <1>9, <1>10
  <2>2. \A g \in DOMAIN s.floats : g \in DOMAIN x.floats /\ x.floats[g].root = s.floats[g].root
    BY <1>10
  <2>3. f \in DOMAIN x.floats /\ x.floats[f].root = n
    BY <1>9, <1>10
  <2>. QED BY <2>1, <2>2, <2>3 DEF FloatRoots
<1>18. \A a \in DOMAIN s.sessions :
                    /\ Distinct(x.sessions[a].floats)
                    /\ ToSet(x.sessions[a].floats) = {g \in DOMAIN x.floats : x.floats[g].sess = a}
  <2> SUFFICES ASSUME NEW a \in DOMAIN s.sessions
               PROVE  /\ Distinct(x.sessions[a].floats)
                      /\ ToSet(x.sessions[a].floats) = {g \in DOMAIN x.floats : x.floats[g].sess = a}
    OBVIOUS
  <2>1. Distinct(s.sessions[a].floats) /\ ToSet(s.sessions[a].floats) = {g \in DOMAIN s.floats : s.floats[g].sess = a}
    BY <1>0 DEF Rooted
  <2>2. {g \in DOMAIN x.floats : x.floats[g].sess = a}
           = {g \in DOMAIN s.floats : s.floats[g].sess = a} \cup (IF a = sid THEN {f} ELSE {})
    BY <1>2, <1>9, <1>10, Zenon
  <2>3. CASE a = sid
    BY <1>7, <1>8, <1>11, <2>1, <2>2, <2>3 DEF z, D
  <2>4. CASE a # sid
    BY <1>11, <2>1, <2>2, <2>4 DEF D
  <2>. QED BY <2>3, <2>4
<1>19. Rooted(x, {})
  <2>1. \A m \in DOMAIN x.nodes :
          x.nodes[m].parent = None <=> m \in SessionRoots(x) \/ m \in FloatRoots(x) \/ m \in {}
    BY <1>0, <1>4, <1>16, <1>17 DEF Rooted
  <2>3. ASSUME NEW a \in DOMAIN x.sessions
        PROVE  LET session == x.sessions[a]
               IN  /\ session.root \in DOMAIN x.nodes
                   /\ x.nodes[session.root].kind = "tabs" /\ x.nodes[session.root].sess = a
                   /\ Distinct(session.floats)
                   /\ ToSet(session.floats) = {g \in DOMAIN x.floats : x.floats[g].sess = a}
    BY <1>0, <1>4, <1>15, <1>18 DEF Rooted
  <2>4. ASSUME NEW g \in DOMAIN x.floats
        PROVE  LET float == x.floats[g]
               IN  /\ float.root \in DOMAIN x.nodes /\ float.root \notin SessionRoots(x)
                   /\ float.sess \in DOMAIN x.sessions /\ x.nodes[float.root].sess = float.sess
                   /\ \A h \in DOMAIN x.floats : x.floats[h].root = float.root => h = g
    <3>0. \A h \in DOMAIN s.floats : s.floats[h].root \in FloatRoots(s)
      BY DEF FloatRoots
    <3>1. CASE g = f
      <4>1. x.floats[g].root = n /\ x.floats[g].sess = sid
        BY <1>9, <1>10, <3>1
      <4>2. \A h \in DOMAIN x.floats : x.floats[h].root = n => h = f
        BY <1>1, <1>10, <3>0
      <4>. QED BY <1>1, <1>2, <1>4, <1>15, <1>16, <3>1, <4>1, <4>2 DEF D
    <3>2. CASE g \in DOMAIN s.floats
      <4>1. x.floats[g] = s.floats[g]
        BY <1>10, <3>2
      <4>2. \A h \in DOMAIN x.floats : x.floats[h].root = s.floats[g].root => h = g
        <5>1. s.floats[g].root # n
          BY <1>1, <3>0, <3>2
        <5>2. \A h \in DOMAIN s.floats : s.floats[h].root = s.floats[g].root => h = g
          BY <1>0, <3>2 DEF Rooted
        <5>. QED BY <1>9, <1>10, <5>1, <5>2
      <4>. QED BY <1>0, <1>4, <1>15, <1>16, <3>2, <4>1, <4>2 DEF Rooted
    <3>. QED BY <1>10, <3>1, <3>2
  <2>. QED BY <2>1, <2>3, <2>4 DEF Rooted
<1>20. Pointed(x) /\ Ranked(x)
  BY <1>0, <1>4 DEF Pointed, Ranked
<1>21. Remembered(x)
  <2>1. w.last < x.nextNode /\ w.last \notin DOMAIN x.nodes
    BY <1>0, <1>4, <1>9 DEF None
  <2>. QED BY <1>0, <1>4, <1>10, <2>1 DEF Remembered
<1>22. Owned(x)
  BY <1>0, <1>2, <1>4, <1>10, <1>15 DEF Owned
<1>23. Trunk(x, {})
  BY <1>12, <1>14, <1>19, <1>20, <1>21, <1>22 DEF Trunk
<1>24. Held(s, x, n)
  BY <1>4, <1>9, <1>10, <1>16, <1>17, <1>23 DEF Held
<1>. QED BY <1>24 DEF x

-----------------------------------------------------------------------------
(* A holder that holds another node *)

\* A popup may have another root than it had.
LEMMA RootedSwap ==
    ASSUME NEW s, NEW F, Rooted(s, F), NEW x, NEW old, NEW new, NEW H, H \subseteq DOMAIN x.nodes,
           \A m \in H : m \notin SessionRoots(s) /\ m \notin FloatRoots(s) /\ m # new,
           x.sessions = s.sessions, DOMAIN x.floats = DOMAIN s.floats,
           \A f \in DOMAIN s.floats :
              /\ x.floats[f].sess = s.floats[f].sess
              /\ x.floats[f].root = IF s.floats[f].root = old THEN new ELSE s.floats[f].root,
           old \notin SessionRoots(s), new \notin SessionRoots(s), new \notin FloatRoots(s),
           old \in FloatRoots(s) => new \in DOMAIN x.nodes /\ x.nodes[new].sess = s.nodes[old].sess,
           \A m \in SessionRoots(s) \cup FloatRoots(s) : m # old =>
              m \in DOMAIN x.nodes /\ x.nodes[m].kind = s.nodes[m].kind /\ x.nodes[m].sess = s.nodes[m].sess,
           \A m \in DOMAIN x.nodes : x.nodes[m].parent = None <=>
              m \in SessionRoots(s) \/ m \in FloatRoots(s) \ {old} \/ (m = new /\ old \in FloatRoots(s)) \/ m \in H
    PROVE  /\ Rooted(x, H) /\ SessionRoots(x) = SessionRoots(s)
           /\ FloatRoots(x) = IF old \in FloatRoots(s) THEN (FloatRoots(s) \ {old}) \cup {new} ELSE FloatRoots(s)
<1>1. SessionRoots(x) = SessionRoots(s)
  BY DEF SessionRoots
<1>2. \A sid \in DOMAIN s.sessions : s.sessions[sid].root \in SessionRoots(s)
  BY DEF SessionRoots
<1>3. \A f \in DOMAIN s.floats : s.floats[f].root \in FloatRoots(s)
  BY DEF FloatRoots
<1>4. FloatRoots(x) = IF old \in FloatRoots(s) THEN (FloatRoots(s) \ {old}) \cup {new} ELSE FloatRoots(s)
  <2>1. CASE old \in FloatRoots(s)
    <3>1. ASSUME NEW m \in FloatRoots(x) PROVE m \in (FloatRoots(s) \ {old}) \cup {new}
      BY <1>3, <2>1 DEF FloatRoots
    <3>2. ASSUME NEW m \in FloatRoots(s) \ {old} PROVE m \in FloatRoots(x)
      BY <2>1 DEF FloatRoots
    <3>3. new \in FloatRoots(x)
      BY <2>1 DEF FloatRoots
    <3>. QED BY <2>1, <3>1, <3>2, <3>3
  <2>2. CASE old \notin FloatRoots(s)
    <3>1. \A f \in DOMAIN s.floats : x.floats[f].root = s.floats[f].root
      BY <1>3, <2>2
    <3>. QED BY <2>2, <3>1 DEF FloatRoots
  <2>. QED BY <2>1, <2>2
<1>5. ASSUME NEW m \in DOMAIN x.nodes
      PROVE  x.nodes[m].parent = None <=> m \in SessionRoots(x) \/ m \in FloatRoots(x) \/ m \in H
  BY <1>1, <1>4
<1>6. ASSUME NEW sid \in DOMAIN x.sessions
      PROVE  LET session == x.sessions[sid]
             IN  /\ session.root \in DOMAIN x.nodes
                 /\ x.nodes[session.root].kind = "tabs" /\ x.nodes[session.root].sess = sid
                 /\ Distinct(session.floats)
                 /\ ToSet(session.floats) = {f \in DOMAIN x.floats : x.floats[f].sess = sid}
  <2>1. s.sessions[sid].root # old
    BY <1>2
  <2>2. /\ s.sessions[sid].root \in DOMAIN x.nodes
        /\ x.nodes[s.sessions[sid].root].kind = "tabs" /\ x.nodes[s.sessions[sid].root].sess = sid
    BY <1>2, <2>1 DEF Rooted
  <2>3. {f \in DOMAIN x.floats : x.floats[f].sess = sid} = {f \in DOMAIN s.floats : s.floats[f].sess = sid}
    OBVIOUS
  <2>. QED BY <2>2, <2>3 DEF Rooted
<1>7. ASSUME NEW f \in DOMAIN x.floats
      PROVE  LET float == x.floats[f]
             IN  /\ float.root \in DOMAIN x.nodes /\ float.root \notin SessionRoots(x)
                 /\ float.sess \in DOMAIN x.sessions /\ x.nodes[float.root].sess = float.sess
                 /\ \A g \in DOMAIN x.floats : x.floats[g].root = float.root => g = f
  <2>1. /\ s.floats[f].sess \in DOMAIN s.sessions /\ s.nodes[s.floats[f].root].sess = s.floats[f].sess
        /\ s.floats[f].root \notin SessionRoots(s)
        /\ \A g \in DOMAIN s.floats : s.floats[g].root = s.floats[f].root => g = f
    BY DEF Rooted
  <2>2. \A g \in DOMAIN s.floats : s.floats[g].root # new
    BY <1>3
  <2>3. \A g \in DOMAIN x.floats : x.floats[g].root = x.floats[f].root => g = f
    BY <2>1, <2>2
  <2>4. CASE s.floats[f].root = old
    <3>1. x.floats[f].root = new /\ old \in FloatRoots(s)
      BY <1>3, <2>4
    <3>. QED BY <1>1, <2>1, <2>3, <2>4, <3>1
  <2>5. CASE s.floats[f].root # old
    <3>1. x.floats[f].root = s.floats[f].root /\ s.floats[f].root \in FloatRoots(s)
      BY <1>3, <2>5
    <3>. QED BY <1>1, <2>1, <2>3, <2>5, <3>1
  <2>. QED BY <2>4, <2>5
<1>8. Rooted(x, H)
  <2>1. \A m \in H : m \notin SessionRoots(x) /\ m \notin FloatRoots(x)
    BY <1>1, <1>4
  <2>. QED BY <1>5, <1>6, <1>7, <2>1 DEF Rooted
<1>. QED BY <1>1, <1>4, <1>8

\* Whoever held one node holds another in its place.
Repointed(s, x, owner, old, new) ==
    /\ DOMAIN x.nodes = DOMAIN s.nodes
    /\ \A m \in DOMAIN s.nodes :
          /\ x.nodes[m].kind = s.nodes[m].kind /\ x.nodes[m].sess = s.nodes[m].sess
          /\ x.nodes[m].parent = IF m = new THEN owner ELSE s.nodes[m].parent
          /\ x.nodes[m].kids = IF m = owner THEN ReplaceAt(s.nodes[m].kids, Position(s.nodes[m].kids, old) + 1, new)
                               ELSE s.nodes[m].kids
          /\ x.nodes[m].active = s.nodes[m].active /\ x.nodes[m].sizes = s.nodes[m].sizes
          /\ x.nodes[m].last = s.nodes[m].last /\ x.nodes[m].buf = s.nodes[m].buf
    /\ DOMAIN x.floats = DOMAIN s.floats
    /\ \A f \in DOMAIN s.floats :
          /\ x.floats[f].sess = s.floats[f].sess /\ x.floats[f].last = s.floats[f].last
          /\ x.floats[f].root = IF owner = None /\ s.floats[f].root = old THEN new ELSE s.floats[f].root
    /\ x.sessions = s.sessions /\ x.buffers = s.buffers
    /\ x.nextNode = s.nextNode /\ x.nextSession = s.nextSession /\ x.nextFloat = s.nextFloat

\* SetParent writes the one parent.
LEMMA SetParentIs ==
    ASSUME NEW s, IsState(s), NEW n \in DOMAIN s.nodes, NEW p \in Nat
    PROVE  LET x == SetParent(s, n, p)
           IN  /\ IsState(x) /\ DOMAIN x.nodes = DOMAIN s.nodes
               /\ \A m \in DOMAIN s.nodes :
                    /\ x.nodes[m].kind = s.nodes[m].kind /\ x.nodes[m].sess = s.nodes[m].sess
                    /\ x.nodes[m].parent = IF m = n THEN p ELSE s.nodes[m].parent
                    /\ x.nodes[m].kids = s.nodes[m].kids
                    /\ x.nodes[m].active = s.nodes[m].active /\ x.nodes[m].sizes = s.nodes[m].sizes
                    /\ x.nodes[m].last = s.nodes[m].last /\ x.nodes[m].buf = s.nodes[m].buf
               /\ \A m \in DOMAIN s.nodes : m # n => x.nodes[m] = s.nodes[m]
               /\ x.floats = s.floats /\ x.sessions = s.sessions /\ x.buffers = s.buffers
               /\ x.nextNode = s.nextNode /\ x.nextSession = s.nextSession /\ x.nextFloat = s.nextFloat
<1> DEFINE x == SetParent(s, n, p)
           z == s.nodes[n]
           y == [z EXCEPT !.parent = p]
<1>0. Shape(s) /\ s.nodes \in [DOMAIN s.nodes -> NodeType]
  BY DEF IsState
<1>1. /\ x.nodes = [s.nodes EXCEPT ![n] = y] /\ Shape(x)
      /\ x.floats = s.floats /\ x.sessions = s.sessions /\ x.buffers = s.buffers
      /\ x.nextNode = s.nextNode /\ x.nextSession = s.nextSession /\ x.nextFloat = s.nextFloat
  BY <1>0 DEF SetParent, Shape
<1>2. z \in NodeType
  BY <1>0
<1> HIDE DEF x, z
<1>3. /\ y \in NodeType /\ y.kind = z.kind /\ y.sess = z.sess /\ y.parent = p /\ y.kids = z.kids
      /\ y.active = z.active /\ y.sizes = z.sizes /\ y.last = z.last /\ y.buf = z.buf
  BY <1>2 DEF NodeType
<1> HIDE DEF y
<1>4. /\ x.nodes \in [DOMAIN s.nodes -> NodeType] /\ x.nodes[n] = y /\ DOMAIN x.nodes = DOMAIN s.nodes
      /\ \A m \in DOMAIN s.nodes : m # n => x.nodes[m] = s.nodes[m]
  BY <1>0, <1>1, <1>3
<1>5. IsState(x)
  BY <1>1, <1>4 DEF IsState
<1>. QED BY <1>1, <1>3, <1>4, <1>5 DEF x, z

\* What holding another node comes to.
LEMMA RepointIs ==
    ASSUME NEW s, IsState(s), NEW sid, NEW owner, NEW old, NEW new \in DOMAIN s.nodes,
           owner # None => /\ owner \in DOMAIN s.nodes /\ owner # new /\ Distinct(s.nodes[owner].kids)
                           /\ old \in Kids(s, owner) /\ new \notin Kids(s, owner),
           owner = None => /\ old \notin SessionRoots(s) /\ old \in FloatRoots(s)
                           /\ \A f, g \in DOMAIN s.floats :
                                s.floats[f].root = old /\ s.floats[g].root = old => f = g
    PROVE  LET r == RepointOwner(s, sid, owner, old, new)
           IN  r.ok = TRUE /\ IsState(r.s) /\ Repointed(s, r.s, owner, old, new)
<1>0. /\ Shape(s) /\ s.nodes \in [DOMAIN s.nodes -> NodeType] /\ None \notin DOMAIN s.nodes
      /\ s.floats \in [DOMAIN s.floats -> FloatType] /\ new \in Nat /\ None \in Nat
  BY DEF IsState, None
<1>1. CASE owner # None
  <2> DEFINE z == s.nodes[owner]
             kids == ReplaceAt(z.kids, Position(z.kids, old) + 1, new)
             y == [z EXCEPT !.kids = kids]
             w == [s EXCEPT !.nodes[owner].kids = ReplaceAt(@, Position(@, old) + 1, new)]
  <2>1. z \in NodeType /\ z.kids \in Seq(Nat) /\ owner \in Nat
    BY <1>0, <1>1 DEF NodeType, IsState
  <2>2. kids \in Seq(Nat)
    BY <1>0, <1>1, <2>1, ReplacedSet DEF Kids
  <2>3. /\ w.nodes = [s.nodes EXCEPT ![owner] = y] /\ Shape(w)
        /\ w.floats = s.floats /\ w.sessions = s.sessions /\ w.buffers = s.buffers
        /\ w.nextNode = s.nextNode /\ w.nextSession = s.nextSession /\ w.nextFloat = s.nextFloat
    BY <1>0 DEF Shape
  <2>4. RepointOwner(s, sid, owner, old, new) = Ok(SetParent(w, new, owner))
    BY <1>1 DEF RepointOwner, ReplaceKid
  <2> HIDE DEF z, kids, w
  <2>5. /\ y \in NodeType /\ y.kind = z.kind /\ y.sess = z.sess /\ y.parent = z.parent /\ y.kids = kids
        /\ y.active = z.active /\ y.sizes = z.sizes /\ y.last = z.last /\ y.buf = z.buf
    BY <2>1, <2>2 DEF NodeType
  <2> HIDE DEF y
  <2>6. /\ w.nodes \in [DOMAIN s.nodes -> NodeType] /\ w.nodes[owner] = y /\ DOMAIN w.nodes = DOMAIN s.nodes
        /\ \A m \in DOMAIN s.nodes : m # owner => w.nodes[m] = s.nodes[m]
    BY <1>0, <1>1, <2>3, <2>5
  <2>7. IsState(w)
    BY <2>3, <2>6 DEF IsState
  <2>8. \A m \in DOMAIN s.nodes :
          /\ w.nodes[m].kind = s.nodes[m].kind /\ w.nodes[m].sess = s.nodes[m].sess
          /\ w.nodes[m].parent = s.nodes[m].parent
          /\ w.nodes[m].kids = IF m = owner THEN kids ELSE s.nodes[m].kids
          /\ w.nodes[m].active = s.nodes[m].active /\ w.nodes[m].sizes = s.nodes[m].sizes
          /\ w.nodes[m].last = s.nodes[m].last /\ w.nodes[m].buf = s.nodes[m].buf
    BY <2>5, <2>6 DEF z
  <2> DEFINE x == SetParent(w, new, owner)
  <2>9. /\ IsState(x) /\ DOMAIN x.nodes = DOMAIN s.nodes
        /\ \A m \in DOMAIN s.nodes :
             /\ x.nodes[m].kind = w.nodes[m].kind /\ x.nodes[m].sess = w.nodes[m].sess
             /\ x.nodes[m].parent = IF m = new THEN owner ELSE w.nodes[m].parent
             /\ x.nodes[m].kids = w.nodes[m].kids
             /\ x.nodes[m].active = w.nodes[m].active /\ x.nodes[m].sizes = w.nodes[m].sizes
             /\ x.nodes[m].last = w.nodes[m].last /\ x.nodes[m].buf = w.nodes[m].buf
        /\ x.floats = w.floats /\ x.sessions = w.sessions /\ x.buffers = w.buffers
        /\ x.nextNode = w.nextNode /\ x.nextSession = w.nextSession /\ x.nextFloat = w.nextFloat
    BY <2>1, <2>6, <2>7, SetParentIs
  <2> HIDE DEF x
  <2>10. \A m \in DOMAIN s.nodes : m = owner => kids = ReplaceAt(s.nodes[m].kids, Position(s.nodes[m].kids, old) + 1, new)
    BY DEF kids, z
  <2>11. Repointed(s, x, owner, old, new)
    BY <1>1, <2>3, <2>8, <2>9, <2>10 DEF Repointed
  <2>. QED BY <2>4, <2>9, <2>11 DEF x, Ok
<1>2. CASE owner = None
  <2> DEFINE f == FloatByRoot(s, old)
             z == s.floats[f]
             y == [z EXCEPT !.root = new]
             w == [s EXCEPT !.floats[f].root = new]
  <2>1. f # None /\ f \in DOMAIN s.floats /\ z.root = old /\ ~ IsSessionRoot(s, old)
    BY <1>2, FloatByRootIs, IsSessionRootIs
  <2>2. RepointOwner(s, sid, owner, old, new) = Ok(SetParent(w, new, None))
    BY <1>2, <2>1 DEF RepointOwner
  <2>3. /\ w.floats = [s.floats EXCEPT ![f] = y] /\ Shape(w)
        /\ w.nodes = s.nodes /\ w.sessions = s.sessions /\ w.buffers = s.buffers
        /\ w.nextNode = s.nextNode /\ w.nextSession = s.nextSession /\ w.nextFloat = s.nextFloat
    BY <1>0 DEF Shape
  <2>4. z \in FloatType
    BY <1>0, <2>1
  <2>5. \A g \in DOMAIN s.floats : s.floats[g].root = old <=> g = f
    BY <1>2, <2>1
  <2> HIDE DEF f, z, w
  <2>6. y \in FloatType /\ y.sess = z.sess /\ y.last = z.last /\ y.root = new
    BY <1>0, <2>4 DEF FloatType
  <2> HIDE DEF y
  <2>7. /\ w.floats \in [DOMAIN s.floats -> FloatType] /\ w.floats[f] = y /\ DOMAIN w.floats = DOMAIN s.floats
        /\ \A g \in DOMAIN s.floats : g # f => w.floats[g] = s.floats[g]
    BY <1>0, <2>1, <2>3, <2>6
  <2>8. IsState(w)
    BY <2>3, <2>7 DEF IsState
  <2>9. \A g \in DOMAIN s.floats :
          /\ w.floats[g].sess = s.floats[g].sess /\ w.floats[g].last = s.floats[g].last
          /\ w.floats[g].root = IF s.floats[g].root = old THEN new ELSE s.floats[g].root
    BY <2>5, <2>6, <2>7 DEF z
  <2> DEFINE x == SetParent(w, new, None)
  <2>10. /\ IsState(x) /\ DOMAIN x.nodes = DOMAIN s.nodes
         /\ \A m \in DOMAIN s.nodes :
             /\ x.nodes[m].kind = w.nodes[m].kind /\ x.nodes[m].sess = w.nodes[m].sess
             /\ x.nodes[m].parent = IF m = new THEN None ELSE w.nodes[m].parent
             /\ x.nodes[m].kids = w.nodes[m].kids
             /\ x.nodes[m].active = w.nodes[m].active /\ x.nodes[m].sizes = w.nodes[m].sizes
             /\ x.nodes[m].last = w.nodes[m].last /\ x.nodes[m].buf = w.nodes[m].buf
         /\ x.floats = w.floats /\ x.sessions = w.sessions /\ x.buffers = w.buffers
         /\ x.nextNode = w.nextNode /\ x.nextSession = w.nextSession /\ x.nextFloat = w.nextFloat
    <3>1. new \in DOMAIN w.nodes /\ DOMAIN w.nodes = DOMAIN s.nodes
      BY <2>3
    <3>. QED BY <1>0, <2>8, <3>1, SetParentIs
  <2> HIDE DEF x
  <2>11. \A m \in DOMAIN s.nodes : m # owner
    BY <1>0, <1>2
  <2>12. /\ DOMAIN x.floats = DOMAIN s.floats
         /\ \A g \in DOMAIN s.floats :
             /\ x.floats[g].sess = s.floats[g].sess /\ x.floats[g].last = s.floats[g].last
             /\ x.floats[g].root = IF owner = None /\ s.floats[g].root = old THEN new ELSE s.floats[g].root
    BY <1>2, <2>7, <2>9, <2>10
  <2>13. Repointed(s, x, owner, old, new)
    BY <1>2, <2>3, <2>10, <2>11, <2>12 DEF Repointed
  <2>. QED BY <2>2, <2>10, <2>13 DEF x, Ok
<1>. QED BY <1>1, <1>2

-----------------------------------------------------------------------------
(* A container around a node *)

\* A new node y holds n and the free nodes F, where n was.
Wrapped(s, x, n, F, y) ==
    LET p == s.nodes[n].parent
        new == s.nextNode
    IN  /\ DOMAIN x.nodes = DOMAIN s.nodes \cup {new}
        /\ \A m \in DOMAIN s.nodes :
              /\ x.nodes[m].kind = s.nodes[m].kind /\ x.nodes[m].sess = s.nodes[m].sess
              /\ x.nodes[m].parent = IF m \in F \cup {n} THEN new ELSE s.nodes[m].parent
              /\ x.nodes[m].kids = IF m = p THEN ReplaceAt(s.nodes[m].kids, Position(s.nodes[m].kids, n) + 1, new)
                                   ELSE s.nodes[m].kids
              /\ x.nodes[m].active = s.nodes[m].active /\ x.nodes[m].sizes = s.nodes[m].sizes
              /\ x.nodes[m].last = s.nodes[m].last /\ x.nodes[m].buf = s.nodes[m].buf
        /\ x.nodes[new].kind = y.kind /\ x.nodes[new].sess = y.sess /\ x.nodes[new].parent = p
        /\ x.nodes[new].kids = y.kids /\ x.nodes[new].active = y.active
        /\ x.nodes[new].sizes = y.sizes /\ x.nodes[new].last = y.last
        /\ DOMAIN x.floats = DOMAIN s.floats
        /\ \A f \in DOMAIN s.floats :
              /\ x.floats[f].sess = s.floats[f].sess /\ x.floats[f].last = s.floats[f].last
              /\ x.floats[f].root = IF s.floats[f].root = n THEN new ELSE s.floats[f].root
        /\ x.sessions = s.sessions /\ x.buffers = s.buffers
        /\ x.nextNode = s.nextNode + 1 /\ x.nextSession = s.nextSession /\ x.nextFloat = s.nextFloat

\* The new node around the others, which nothing holds yet.
Gathered(s, w, n, F, y) ==
    /\ DOMAIN w.nodes = DOMAIN s.nodes \cup {s.nextNode} /\ s.nextNode \notin DOMAIN s.nodes
    /\ \A m \in DOMAIN s.nodes :
          /\ w.nodes[m].kind = s.nodes[m].kind /\ w.nodes[m].sess = s.nodes[m].sess
          /\ w.nodes[m].parent = IF m \in F \cup {n} THEN s.nextNode ELSE s.nodes[m].parent
          /\ w.nodes[m].kids = s.nodes[m].kids
          /\ w.nodes[m].active = s.nodes[m].active /\ w.nodes[m].sizes = s.nodes[m].sizes
          /\ w.nodes[m].last = s.nodes[m].last /\ w.nodes[m].buf = s.nodes[m].buf
    /\ w.nodes[s.nextNode] = y
    /\ w.sessions = s.sessions /\ w.floats = s.floats /\ w.buffers = s.buffers
    /\ w.nextNode = s.nextNode + 1 /\ w.nextSession = s.nextSession /\ w.nextFloat = s.nextFloat

\* A new container around one node.
LEMMA GatherOne ==
    ASSUME NEW s, IsState(s), NEW n \in DOMAIN s.nodes, NEW y \in NodeType
    PROVE  LET w == SetParent(InsertNode(s, y), n, s.nextNode)
           IN  IsState(w) /\ Gathered(s, w, n, {}, y)
<1> DEFINE v == InsertNode(s, y)
           w == SetParent(v, n, s.nextNode)
<1>1. IsState(v) /\ Inserted(s, v, y)
  BY InsertNodeIs
<1> HIDE DEF v
<1>2. n \in DOMAIN v.nodes /\ s.nextNode \in Nat /\ n # s.nextNode
  BY <1>1 DEF Inserted
<1>3. /\ IsState(w) /\ DOMAIN w.nodes = DOMAIN v.nodes
      /\ \A m \in DOMAIN v.nodes :
           /\ w.nodes[m].kind = v.nodes[m].kind /\ w.nodes[m].sess = v.nodes[m].sess
           /\ w.nodes[m].parent = IF m = n THEN s.nextNode ELSE v.nodes[m].parent
           /\ w.nodes[m].kids = v.nodes[m].kids
           /\ w.nodes[m].active = v.nodes[m].active /\ w.nodes[m].sizes = v.nodes[m].sizes
           /\ w.nodes[m].last = v.nodes[m].last /\ w.nodes[m].buf = v.nodes[m].buf
      /\ \A m \in DOMAIN v.nodes : m # n => w.nodes[m] = v.nodes[m]
      /\ w.floats = v.floats /\ w.sessions = v.sessions /\ w.buffers = v.buffers
      /\ w.nextNode = v.nextNode /\ w.nextSession = v.nextSession /\ w.nextFloat = v.nextFloat
  BY <1>1, <1>2, SetParentIs
<1> HIDE DEF w
<1>4. Gathered(s, w, n, {}, y)
  BY <1>1, <1>2, <1>3 DEF Gathered, Inserted
<1>. QED BY <1>3, <1>4 DEF w, v

\* A new container around two nodes.
LEMMA GatherTwo ==
    ASSUME NEW s, IsState(s), NEW n \in DOMAIN s.nodes, NEW y \in NodeType, NEW c \in DOMAIN s.nodes, c # n
    PROVE  LET w == SetParent(SetParent(InsertNode(s, y), n, s.nextNode), c, s.nextNode)
           IN  IsState(w) /\ Gathered(s, w, n, {c}, y)
<1> DEFINE v == SetParent(InsertNode(s, y), n, s.nextNode)
           w == SetParent(v, c, s.nextNode)
<1>1. IsState(v) /\ Gathered(s, v, n, {}, y)
  BY GatherOne
<1> HIDE DEF v
<1>2. c \in DOMAIN v.nodes /\ s.nextNode \in Nat /\ c # s.nextNode
  BY <1>1 DEF Gathered, IsState
<1>3. /\ IsState(w) /\ DOMAIN w.nodes = DOMAIN v.nodes
      /\ \A m \in DOMAIN v.nodes :
           /\ w.nodes[m].kind = v.nodes[m].kind /\ w.nodes[m].sess = v.nodes[m].sess
           /\ w.nodes[m].parent = IF m = c THEN s.nextNode ELSE v.nodes[m].parent
           /\ w.nodes[m].kids = v.nodes[m].kids
           /\ w.nodes[m].active = v.nodes[m].active /\ w.nodes[m].sizes = v.nodes[m].sizes
           /\ w.nodes[m].last = v.nodes[m].last /\ w.nodes[m].buf = v.nodes[m].buf
      /\ \A m \in DOMAIN v.nodes : m # c => w.nodes[m] = v.nodes[m]
      /\ w.floats = v.floats /\ w.sessions = v.sessions /\ w.buffers = v.buffers
      /\ w.nextNode = v.nextNode /\ w.nextSession = v.nextSession /\ w.nextFloat = v.nextFloat
  BY <1>1, <1>2, SetParentIs
<1> HIDE DEF w
<1>4. Gathered(s, w, n, {c}, y)
  BY <1>1, <1>2, <1>3 DEF Gathered
<1>. QED BY <1>3, <1>4 DEF w, v

\* Whoever held the node now holds the new container; this cannot fail for a node
\* that is held.
LEMMA WrappedIs ==
    ASSUME NEW s, NEW E, NEW F, NEW e, Forest(s, E, e), NEW n \in DOMAIN s.nodes, n \notin E,
           n \notin SessionRoots(s), NEW y \in NodeType, y.parent = s.nodes[n].parent,
           NEW w, IsState(w), Gathered(s, w, n, F, y), NEW sid
    PROVE  LET r == RepointOwner(w, sid, s.nodes[n].parent, n, s.nextNode)
           IN  r.ok = TRUE /\ IsState(r.s) /\ Wrapped(s, r.s, n, F, y)
<1> DEFINE p == s.nodes[n].parent
           new == s.nextNode
           r == RepointOwner(w, sid, p, n, new)
           x == r.s
<1>0. /\ IsState(s) /\ Linked(s) /\ Rooted(s, E) /\ None \notin DOMAIN s.nodes
  BY DEF Forest, IsState, None
<1>1. new \in DOMAIN w.nodes /\ new \notin DOMAIN s.nodes
  BY DEF Gathered
<1>2. p # None => /\ p \in DOMAIN s.nodes /\ n \in Kids(s, p) /\ Distinct(s.nodes[p].kids)
                  /\ Kids(s, p) \subseteq DOMAIN s.nodes
  BY <1>0 DEF Linked
<1>3. p # None => /\ p \in DOMAIN w.nodes /\ p # new /\ Distinct(w.nodes[p].kids)
                  /\ n \in Kids(w, p) /\ new \notin Kids(w, p)
  BY <1>1, <1>2 DEF Gathered, Kids
<1>4. p = None => n \in FloatRoots(s)
  BY <1>0 DEF Rooted
<1>5. SessionRoots(w) = SessionRoots(s) /\ FloatRoots(w) = FloatRoots(s)
  BY DEF Gathered, SessionRoots, FloatRoots
<1>6. \A f, g \in DOMAIN s.floats : s.floats[f].root = n /\ s.floats[g].root = n => f = g
  BY <1>0 DEF Rooted
<1>6a. \A f, g \in DOMAIN w.floats : w.floats[f].root = n /\ w.floats[g].root = n => f = g
  BY <1>6 DEF Gathered
<1> HIDE DEF p, new
<1>7. r.ok = TRUE /\ IsState(x) /\ Repointed(w, x, p, n, new)
  BY <1>1, <1>3, <1>4, <1>5, <1>6a, RepointIs
<1> HIDE DEF r
<1>8. p # None => n \notin FloatRoots(s)
  BY <1>0 DEF Rooted, p
<1>9. \A f \in DOMAIN s.floats : s.floats[f].root = n => p = None
  BY <1>8 DEF FloatRoots
<1>10. /\ DOMAIN x.floats = DOMAIN s.floats
       /\ \A f \in DOMAIN s.floats :
           /\ x.floats[f].sess = s.floats[f].sess /\ x.floats[f].last = s.floats[f].last
           /\ x.floats[f].root = IF s.floats[f].root = n THEN new ELSE s.floats[f].root
  BY <1>7, <1>9 DEF Repointed, Gathered
<1>11. /\ DOMAIN x.nodes = DOMAIN s.nodes \cup {new}
       /\ \A m \in DOMAIN s.nodes :
              /\ x.nodes[m].kind = s.nodes[m].kind /\ x.nodes[m].sess = s.nodes[m].sess
              /\ x.nodes[m].parent = IF m \in F \cup {n} THEN new ELSE s.nodes[m].parent
              /\ x.nodes[m].active = s.nodes[m].active /\ x.nodes[m].sizes = s.nodes[m].sizes
              /\ x.nodes[m].last = s.nodes[m].last /\ x.nodes[m].buf = s.nodes[m].buf
  BY <1>1, <1>7 DEF Repointed, Gathered, new
<1>12. \A m \in DOMAIN s.nodes :
         x.nodes[m].kids = IF m = p THEN ReplaceAt(s.nodes[m].kids, Position(s.nodes[m].kids, n) + 1, new)
                           ELSE s.nodes[m].kids
  BY <1>1, <1>7 DEF Repointed, Gathered, new
<1>13. p # new
  BY <1>0, <1>1, <1>2, <1>7 DEF IsState, new, None, p
<1>14. /\ x.nodes[new].kind = y.kind /\ x.nodes[new].sess = y.sess /\ x.nodes[new].parent = p
       /\ x.nodes[new].kids = y.kids /\ x.nodes[new].active = y.active
       /\ x.nodes[new].sizes = y.sizes /\ x.nodes[new].last = y.last
  <2>1. w.nodes[new] = y
    BY DEF Gathered, new
  <2>. QED BY <1>1, <1>7, <1>13, <2>1 DEF Repointed
<1>15. /\ x.sessions = s.sessions /\ x.buffers = s.buffers
       /\ x.nextNode = s.nextNode + 1 /\ x.nextSession = s.nextSession /\ x.nextFloat = s.nextFloat
  BY <1>7 DEF Repointed, Gathered
<1>16. Wrapped(s, x, n, F, y)
  BY <1>10, <1>11, <1>12, <1>14, <1>15 DEF Wrapped, p, new
<1>. QED BY <1>7, <1>16 DEF r, p, new

\* The container fits where the node was, and the trees stay trees.
LEMMA WrapKeeps ==
    ASSUME NEW s, NEW F, NEW H, Forest(s, F \cup H, None), F \cap H = {},
           NEW n \in DOMAIN s.nodes, n \notin F, n \notin H,
           n \notin SessionRoots(s), \A v \in F : s.nodes[v].kids = <<>> /\ s.nodes[v].sess = s.nodes[n].sess,
           NEW y \in NodeType, y.kind # "view", y.sess = s.nodes[n].sess,
           ToSet(y.kids) = F \cup {n}, Distinct(y.kids), y.active = 0,
           y.last < s.nextNode, y.last \in DOMAIN s.nodes => s.nodes[y.last].kind = "view",
           NEW e \in {None, s.nextNode}, Fits(y, IF e = s.nextNode THEN 1 ELSE 0, 2),
           Fits(s.nodes[n], 0, 2), NEW x, IsState(x), Wrapped(s, x, n, F, y)
    PROVE  Forest(x, H, e) /\ SameViews(s, x)
<1> DEFINE D == DOMAIN s.nodes
           new == s.nextNode
           p == s.nodes[n].parent
           K == F \cup {n}
<1>0. /\ IsState(s) /\ Linked(s) /\ Rooted(s, F \cup H) /\ Shaped(s, None) /\ Pointed(s) /\ Remembered(s)
      /\ Owned(s) /\ Ranked(s)
  BY DEF Forest
<1>1. /\ new \notin D /\ new \in Nat /\ new # None /\ None \notin D /\ None \in Nat
      /\ s.nodes \in [D -> NodeType] /\ \A m \in D : m \in Nat
  BY <1>0 DEF IsState, None
<1>2. F \subseteq D /\ K \subseteq D /\ n \in K /\ H \subseteq D
  BY <1>0 DEF Rooted
<1>3. \A v \in F \cup H : s.nodes[v].parent = None /\ v \notin SessionRoots(s) /\ v \notin FloatRoots(s)
  BY <1>0, <1>2, Zenon DEF Rooted
<1>4. /\ p # None => p \in D /\ n \in Kids(s, p) /\ s.nodes[p].sess = s.nodes[n].sess
      /\ p = None => n \in FloatRoots(s)
  BY <1>0 DEF Linked, Rooted
<1>5. p \notin F /\ p # n /\ p # new
  <2>1. p \notin F
    <3>1. ASSUME p \in F PROVE FALSE
      <4>1. s.nodes[p].kids = <<>> /\ p # None
        BY <1>1, <1>2, <3>1
      <4>2. Kids(s, p) = {}
        BY <4>1, ShortLists DEF Kids
      <4>. QED BY <1>4, <4>1, <4>2
    <3>. QED BY <3>1
  <2>2. p # n
    <3>1. PICK top \in Nat : \E rank \in [DOMAIN s.nodes -> 0 .. top] :
            \A m \in DOMAIN s.nodes : s.nodes[m].parent # None => rank[m] < rank[s.nodes[m].parent]
      BY <1>0 DEF Ranked
    <3>. QED BY <1>1, <3>1
  <2>. QED BY <1>1, <1>4, <2>1, <2>2
<1>6. /\ DOMAIN x.nodes = D \cup {new}
      /\ \A m \in D :
            /\ x.nodes[m].kind = s.nodes[m].kind /\ x.nodes[m].sess = s.nodes[m].sess
            /\ x.nodes[m].parent = IF m \in K THEN new ELSE s.nodes[m].parent
            /\ m # p => x.nodes[m].kids = s.nodes[m].kids
            /\ x.nodes[m].active = s.nodes[m].active /\ x.nodes[m].sizes = s.nodes[m].sizes
            /\ x.nodes[m].last = s.nodes[m].last /\ x.nodes[m].buf = s.nodes[m].buf
      /\ x.nodes[new].kind = y.kind /\ x.nodes[new].sess = y.sess /\ x.nodes[new].parent = p
      /\ x.nodes[new].kids = y.kids /\ x.nodes[new].active = y.active
      /\ x.nodes[new].sizes = y.sizes /\ x.nodes[new].last = y.last
  BY DEF Wrapped
<1>7. /\ DOMAIN x.floats = DOMAIN s.floats
      /\ \A f \in DOMAIN s.floats :
            /\ x.floats[f].sess = s.floats[f].sess /\ x.floats[f].last = s.floats[f].last
            /\ x.floats[f].root = IF s.floats[f].root = n THEN new ELSE s.floats[f].root
      /\ x.sessions = s.sessions /\ x.buffers = s.buffers
      /\ x.nextNode = new + 1 /\ x.nextFloat = s.nextFloat
  BY Zenon DEF Wrapped
<1>8. p # None => /\ x.nodes[p].kids \in Seq(Nat) /\ Len(x.nodes[p].kids) = Len(s.nodes[p].kids)
                  /\ Distinct(x.nodes[p].kids) /\ ToSet(x.nodes[p].kids) = (Kids(s, p) \ {n}) \cup {new}
  <2> SUFFICES ASSUME p # None
               PROVE  /\ x.nodes[p].kids \in Seq(Nat) /\ Len(x.nodes[p].kids) = Len(s.nodes[p].kids)
                      /\ Distinct(x.nodes[p].kids) /\ ToSet(x.nodes[p].kids) = (Kids(s, p) \ {n}) \cup {new}
    OBVIOUS
  <2>1. p \in D /\ n \in Kids(s, p) /\ s.nodes[p].kids \in Seq(Nat)
    BY <1>1, <1>4 DEF NodeType
  <2>2. Distinct(s.nodes[p].kids) /\ new \notin Kids(s, p)
    BY <1>0, <1>1, <2>1 DEF Linked
  <2>3. x.nodes[p].kids = ReplaceAt(s.nodes[p].kids, Position(s.nodes[p].kids, n) + 1, new)
    BY <2>1 DEF Wrapped
  <2>. QED BY <1>1, <2>1, <2>2, <2>3, ReplacedSet DEF Kids
<1>9. \A m \in D : Kids(x, m) = IF m = p THEN (Kids(s, m) \ {n}) \cup {new} ELSE Kids(s, m)
  <2> SUFFICES ASSUME NEW m \in D
               PROVE  Kids(x, m) = IF m = p THEN (Kids(s, m) \ {n}) \cup {new} ELSE Kids(s, m)
    OBVIOUS
  <2>1. CASE m = p
    <3>1. p # None
      BY <1>1, <2>1
    <3>2. ToSet(x.nodes[p].kids) = (Kids(s, p) \ {n}) \cup {new}
      BY <1>8, <3>1
    <3> HIDE DEF p
    <3>. QED BY <2>1, <3>2 DEF Kids
  <2>2. CASE m # p
    <3>1. x.nodes[m].kids = s.nodes[m].kids
      BY <1>6, <2>2
    <3> HIDE DEF p
    <3>. QED BY <2>2, <3>1 DEF Kids
  <2>. QED BY <2>1, <2>2
<1>10. Kids(x, new) = K
  BY <1>6 DEF Kids
<1>11. \A m \in D : Distinct(x.nodes[m].kids) /\ Len(x.nodes[m].kids) = Len(s.nodes[m].kids)
  BY <1>0, <1>1, <1>6, <1>8 DEF Linked
<1> HIDE DEF D, K, new, p
<1>12. \A m \in D : \A k \in Kids(s, m) : k \in D /\ s.nodes[k].parent = m
  BY <1>0 DEF Linked, D
<1>13. \A m \in D : m \in F => Kids(s, m) = {}
  BY ShortLists DEF Kids
<1>14. Linked(x)
  <2>1. ASSUME NEW m \in D
        PROVE  /\ x.nodes[m].sess \in DOMAIN x.sessions
               /\ x.nodes[m].parent # None =>
                     /\ x.nodes[m].parent \in DOMAIN x.nodes
                     /\ m \in Kids(x, x.nodes[m].parent)
                     /\ x.nodes[x.nodes[m].parent].sess = x.nodes[m].sess
               /\ Distinct(x.nodes[m].kids)
               /\ \A k \in Kids(x, m) : k \in DOMAIN x.nodes /\ x.nodes[k].parent = m
    <3>1. x.nodes[m].sess \in DOMAIN x.sessions
      BY <1>0, <1>6, <1>7 DEF Linked, D
    <3>2. ASSUME m \in K
          PROVE  /\ x.nodes[m].parent \in DOMAIN x.nodes
                 /\ m \in Kids(x, x.nodes[m].parent)
                 /\ x.nodes[x.nodes[m].parent].sess = x.nodes[m].sess
      <4>1. s.nodes[m].sess = s.nodes[n].sess
        BY <3>2 DEF K
      <4>. QED BY <1>6, <1>10, <3>2, <4>1
    <3>3. ASSUME m \notin K, x.nodes[m].parent # None
          PROVE  /\ x.nodes[m].parent \in DOMAIN x.nodes
                 /\ m \in Kids(x, x.nodes[m].parent)
                 /\ x.nodes[x.nodes[m].parent].sess = x.nodes[m].sess
      <4> DEFINE q == s.nodes[m].parent
      <4>1. x.nodes[m].parent = q
        BY <1>6, <3>3
      <4>2. q \in D /\ m \in Kids(s, q) /\ s.nodes[q].sess = s.nodes[m].sess
        BY <1>0, <3>3, <4>1 DEF Linked, D
      <4>3. m # n
        BY <3>3 DEF K
      <4>. QED BY <1>6, <1>9, <4>1, <4>2, <4>3
    <3>4. ASSUME NEW k \in Kids(x, m) PROVE k \in DOMAIN x.nodes /\ x.nodes[k].parent = m
      <4>1. CASE k = new
        <5>1. m = p
          BY <1>1, <1>9, <1>12, <4>1
        <5>. QED BY <1>6, <4>1, <5>1
      <4>2. CASE k # new
        <5>1. k \in Kids(s, m) /\ (m = p => k # n)
          BY <1>9, <4>2
        <5>2. k \in D /\ s.nodes[k].parent = m
          BY <1>12, <5>1
        <5>3. k # n
          BY <5>1, <5>2 DEF p
        <5>4. k \notin F
          BY <1>1, <1>3, <5>2
        <5>. QED BY <1>6, <5>2, <5>3, <5>4 DEF K
      <4>. QED BY <4>1, <4>2
    <3>. QED BY <1>11, <3>1, <3>2, <3>3, <3>4
  <2>2. /\ x.nodes[new].sess \in DOMAIN x.sessions
        /\ x.nodes[new].parent # None =>
              /\ x.nodes[new].parent \in DOMAIN x.nodes
              /\ new \in Kids(x, x.nodes[new].parent)
              /\ x.nodes[x.nodes[new].parent].sess = x.nodes[new].sess
        /\ Distinct(x.nodes[new].kids)
        /\ \A k \in Kids(x, new) : k \in DOMAIN x.nodes /\ x.nodes[k].parent = new
    <3>1. s.nodes[n].sess \in DOMAIN s.sessions
      BY <1>0 DEF Linked
    <3>2. p # None => p \in DOMAIN x.nodes /\ new \in Kids(x, p) /\ x.nodes[p].sess = s.nodes[n].sess
      BY <1>4, <1>6, <1>9
    <3>. QED BY <1>2, <1>6, <1>7, <1>10, <3>1, <3>2
  <2>. QED BY <1>6, <2>1, <2>2 DEF Linked
<1>15. /\ Rooted(x, H) /\ SessionRoots(x) = SessionRoots(s)
       /\ FloatRoots(x) = IF n \in FloatRoots(s) THEN (FloatRoots(s) \ {n}) \cup {new} ELSE FloatRoots(s)
  <2>1. SessionRoots(s) \subseteq D /\ FloatRoots(s) \subseteq D
    BY <1>0 DEF Rooted, SessionRoots, FloatRoots, D
  <2>2. n \in FloatRoots(s) <=> p = None
    BY <1>0, <1>4 DEF Rooted, p
  <2>3. ASSUME NEW m \in DOMAIN x.nodes
        PROVE  x.nodes[m].parent = None <=>
                 m \in SessionRoots(s) \/ m \in FloatRoots(s) \ {n} \/ (m = new /\ n \in FloatRoots(s)) \/ m \in H
    <3>1. CASE m = new
      BY <1>1, <1>2, <1>6, <2>1, <2>2, <3>1
    <3>2. CASE m \in K
      BY <1>1, <1>2, <1>3, <1>6, <3>2 DEF K
    <3>3. CASE m \in D /\ m \notin K
      <4>1. s.nodes[m].parent = None <=> m \in SessionRoots(s) \/ m \in FloatRoots(s) \/ m \in F \cup H
        BY <1>0, <3>3 DEF Rooted, D
      <4>. QED BY <1>1, <1>6, <3>3, <4>1 DEF K
    <3>. QED BY <1>6, <3>1, <3>2, <3>3
  <2>4. new \notin SessionRoots(s) /\ new \notin FloatRoots(s)
    BY <1>1, <2>1
  <2>5. new \in DOMAIN x.nodes /\ x.nodes[new].sess = s.nodes[n].sess
    BY <1>6
  <2>6. \A m \in SessionRoots(s) \cup FloatRoots(s) : m # n =>
          m \in DOMAIN x.nodes /\ x.nodes[m].kind = s.nodes[m].kind /\ x.nodes[m].sess = s.nodes[m].sess
    BY <1>6, <2>1
  <2>7. /\ x.sessions = s.sessions /\ DOMAIN x.floats = DOMAIN s.floats
        /\ \A f \in DOMAIN s.floats :
              /\ x.floats[f].sess = s.floats[f].sess
              /\ x.floats[f].root = IF s.floats[f].root = n THEN new ELSE s.floats[f].root
    BY <1>7
  <2>8. \A m \in DOMAIN x.nodes : x.nodes[m].parent = None <=>
          m \in SessionRoots(s) \/ m \in FloatRoots(s) \ {n} \/ (m = new /\ n \in FloatRoots(s)) \/ m \in H
    BY <2>3
  <2>9. n \in FloatRoots(s) => new \in DOMAIN x.nodes /\ x.nodes[new].sess = s.nodes[n].sess
    BY <2>5
  <2>10. Rooted(s, F \cup H)
    BY <1>0
  <2>11. H \subseteq DOMAIN x.nodes /\ \A m \in H : m \notin SessionRoots(s) /\ m \notin FloatRoots(s) /\ m # new
    BY <1>1, <1>2, <1>3, <1>6
  <2>. QED BY <2>11, <2>4, <2>6, <2>7, <2>8, <2>9, <2>10, RootedSwap
<1>16. Pointed(x)
  <2>1. ASSUME NEW m \in D, x.nodes[m].kind = "tabs"
        PROVE  x.nodes[m].active < Len(x.nodes[m].kids) \/ (x.nodes[m].kids = <<>> /\ x.nodes[m].active = 0)
    <3>1. s.nodes[m].active < Len(s.nodes[m].kids) \/ (s.nodes[m].kids = <<>> /\ s.nodes[m].active = 0)
      BY <1>0, <1>6, <2>1 DEF Pointed, D
    <3>2. CASE m # p
      BY <1>6, <3>1, <3>2
    <3>3. CASE m = p
      <4>1. s.nodes[m].kids # <<>>
        BY <1>1, <1>4, <3>3, ShortLists DEF Kids
      <4>. QED BY <1>6, <1>11, <3>1, <4>1
    <3>. QED BY <3>2, <3>3
  <2>2. x.nodes[new].active < Len(x.nodes[new].kids)
    <3>1. Len(y.kids) \in Nat /\ y.kids # <<>> /\ y.kids \in Seq(Nat)
      BY <1>2, ShortLists DEF NodeType, K
    <3>2. Len(y.kids) > 0
      BY <3>1, ShortLists
    <3>. QED BY <1>6, <3>1, <3>2
  <2>. QED BY <1>6, <2>1, <2>2 DEF Pointed
<1>17. Remembered(x)
  <2>1. ASSUME NEW m \in D
        PROVE  x.nodes[m].last < x.nextNode
               /\ (x.nodes[m].last \in DOMAIN x.nodes => x.nodes[x.nodes[m].last].kind = "view")
    <3>1. /\ s.nodes[m].last < new /\ s.nodes[m].last \in Nat
          /\ s.nodes[m].last \in D => s.nodes[s.nodes[m].last].kind = "view"
      BY <1>0, <1>1 DEF Remembered, new, D, NodeType
    <3>2. s.nodes[m].last # new /\ s.nodes[m].last < new + 1
      BY <1>1, <3>1
    <3>. QED BY <1>6, <1>7, <3>1, <3>2
  <2>2. x.nodes[new].last < x.nextNode
        /\ (x.nodes[new].last \in DOMAIN x.nodes => x.nodes[x.nodes[new].last].kind = "view")
    <3>1. y.last \in Nat /\ y.last < new
      BY DEF NodeType, new
    <3>2. y.last # new /\ y.last < new + 1
      BY <1>1, <3>1
    <3>. QED BY <1>6, <1>7, <3>2 DEF D
  <2>3. ASSUME NEW f \in DOMAIN x.floats
        PROVE  x.floats[f].last < x.nextNode
               /\ (x.floats[f].last \in DOMAIN x.nodes => x.nodes[x.floats[f].last].kind = "view")
    <3>1. /\ s.floats[f].last < new /\ s.floats[f].last \in Nat
          /\ s.floats[f].last \in D => s.nodes[s.floats[f].last].kind = "view"
      <4>1. s.floats[f] \in FloatType
        BY <1>0, <1>7 DEF IsState
      <4>. QED BY <1>0, <1>7, <4>1 DEF Remembered, new, D, FloatType
    <3>2. s.floats[f].last # new /\ s.floats[f].last < new + 1
      BY <1>1, <3>1
    <3>. QED BY <1>6, <1>7, <3>1, <3>2
  <2>. QED BY <1>6, <2>1, <2>2, <2>3 DEF Remembered
<1>18. Owned(x)
  BY <1>0, <1>7 DEF Owned
<1>19. Ranked(x)
  <2>1. PICK top \in Nat : \E rank \in [D -> 0 .. top] :
          \A m \in D : s.nodes[m].parent # None => rank[m] < rank[s.nodes[m].parent]
    BY <1>0 DEF Ranked, D
  <2>2. PICK rank \in [D -> 0 .. top] :
          \A m \in D : s.nodes[m].parent # None => rank[m] < rank[s.nodes[m].parent]
    BY <2>1
  <2> DEFINE r == [m \in DOMAIN x.nodes |-> IF m \in F THEN 0 ELSE IF m = new THEN 2 * rank[n] + 2
                                            ELSE 2 * rank[m] + 1]
  <2>3. \A m \in D : rank[m] \in Nat /\ rank[m] <= top
    BY <2>2
  <2>4. 2 * top + 2 \in Nat
    BY <2>1
  <2>5. r \in [DOMAIN x.nodes -> 0 .. 2 * top + 2]
    <3>1. \A m \in D : 2 * rank[m] + 1 \in 0 .. 2 * top + 2 /\ 2 * rank[m] + 2 \in 0 .. 2 * top + 2
      BY <2>1, <2>3
    <3>2. n \in D /\ 0 \in 0 .. 2 * top + 2
      BY <2>4 DEF D
    <3>. QED BY <1>6, <3>1, <3>2
  <2>6. ASSUME NEW m \in DOMAIN x.nodes, x.nodes[m].parent # None
        PROVE  r[m] < r[x.nodes[m].parent]
    <3>0. n \in D /\ n \notin F /\ n # new /\ new \notin F /\ F \subseteq D
      BY <1>1, <1>2 DEF D
    <3>1. CASE m \in F
      <4>1. x.nodes[m].parent = new
        BY <1>6, <3>0, <3>1 DEF K
      <4>2. r[m] = 0 /\ r[new] = 2 * rank[n] + 2
        BY <1>6, <3>0, <3>1
      <4>. QED BY <2>3, <3>0, <4>1, <4>2
    <3>2. CASE m = n
      <4>1. x.nodes[m].parent = new
        BY <1>6, <3>0, <3>2 DEF K
      <4>2. r[m] = 2 * rank[n] + 1 /\ r[new] = 2 * rank[n] + 2
        BY <1>6, <3>0, <3>2
      <4>. QED BY <2>3, <3>0, <4>1, <4>2
    <3>3. CASE m = new
      <4>1. x.nodes[m].parent = p /\ p # None /\ p \in D
        BY <1>4, <1>6, <2>6, <3>3
      <4>2. r[m] = 2 * rank[n] + 2 /\ r[p] = 2 * rank[p] + 1
        BY <1>5, <1>6, <3>0, <3>3, <4>1
      <4>3. rank[n] < rank[p]
        BY <2>2, <3>0, <4>1 DEF p
      <4>. QED BY <2>3, <3>0, <4>1, <4>2, <4>3
    <3>4. CASE m \in D /\ m # n /\ m \notin F
      <4> DEFINE q == s.nodes[m].parent
      <4>1. x.nodes[m].parent = q
        BY <1>6, <3>4 DEF K
      <4>2. q \in D /\ m \in Kids(s, q)
        BY <1>0, <2>6, <3>4, <4>1 DEF Linked, D
      <4>3. q \notin F /\ q # new /\ m # new
        BY <1>1, <1>13, <3>4, <4>2
      <4>4. rank[m] < rank[q]
        BY <2>2, <2>6, <3>4, <4>1
      <4> HIDE DEF q
      <4>5. r[m] = 2 * rank[m] + 1 /\ r[q] = 2 * rank[q] + 1
        BY <1>6, <3>4, <4>2, <4>3
      <4>. QED BY <2>3, <3>4, <4>1, <4>2, <4>4, <4>5
    <3>. QED BY <1>6, <3>1, <3>2, <3>3, <3>4
  <2> HIDE DEF r
  <2>7. \E rr \in [DOMAIN x.nodes -> 0 .. 2 * top + 2] :
          \A m \in DOMAIN x.nodes : x.nodes[m].parent # None => rr[m] < rr[x.nodes[m].parent]
    BY <2>5, <2>6
  <2>. QED BY <2>4, <2>7 DEF Ranked
<1>20. Shaped(x, e)
  <2>1. \A m \in D : Fits(s.nodes[m], 0, Least(s, m))
    BY <1>0, <1>1, ShapedIs DEF D
  <2>2. x.nodes \in [DOMAIN x.nodes -> NodeType]
    BY DEF IsState
  <2>3. ASSUME NEW m \in D PROVE Fits(x.nodes[m], IF m = e THEN 1 ELSE 0, Least(x, m))
    <3>1. m # e
      BY <1>1 DEF new
    <3>2. Fits(s.nodes[m], 0, Least(x, m))
      <4>1. CASE m = n
        <5>1. Least(x, m) \in Nat /\ Least(x, m) <= 2
          BY DEF Least
        <5>. QED BY <1>1, <4>1, <5>1, FitsMore
      <4>2. CASE m # n
        <5>1. m # new
          BY <1>1
        <5>2. Least(x, m) = Least(s, m)
          BY <1>15, <4>2, <5>1 DEF Least
        <5>. QED BY <2>1, <5>2
      <4>. QED BY <4>1, <4>2
    <3>3. /\ x.nodes[m].kind = s.nodes[m].kind /\ x.nodes[m].sizes = s.nodes[m].sizes
          /\ Len(x.nodes[m].kids) = Len(s.nodes[m].kids)
      BY <1>6, <1>11
    <3>4. s.nodes[m].kids = <<>> => x.nodes[m].kids = <<>>
      <4>1. CASE m # p
        BY <1>6, <4>1
      <4>2. CASE m = p
        BY <1>1, <1>4, <4>2, ShortLists DEF Kids
      <4>. QED BY <4>1, <4>2
    <3>. QED BY <3>1, <3>2, <3>3, <3>4 DEF Fits
  <2>4. Fits(x.nodes[new], IF new = e THEN 1 ELSE 0, Least(x, new))
    <3> DEFINE less == IF new = e THEN 1 ELSE 0
    <3>1. Least(x, new) \in Nat /\ Least(x, new) <= 2 /\ less \in Nat /\ less <= less
      BY DEF Least
    <3>2. Fits(y, less, 2)
      BY DEF new
    <3> HIDE DEF less
    <3>3. Fits(y, less, Least(x, new))
      BY <3>1, <3>2, FitsMore
    <3>4. x.nodes[new].kind = y.kind /\ x.nodes[new].kids = y.kids /\ x.nodes[new].sizes = y.sizes
      BY <1>6
    <3>5. Fits(x.nodes[new], less, Least(x, new))
      BY <3>3, <3>4 DEF Fits
    <3>. QED BY <3>5 DEF less
  <2>. QED BY <1>6, <2>2, <2>3, <2>4, ShapedIs
<1>21. SameViews(s, x)
  BY <1>6, <1>7 DEF SameViews, D
<1>. QED BY <1>14, <1>15, <1>16, <1>17, <1>18, <1>19, <1>20, <1>21 DEF Forest

-----------------------------------------------------------------------------
(* A container that gives way to its only child *)

\* DropNode takes the one node away.
LEMMA DropNodeIs ==
    ASSUME NEW s, IsState(s), NEW n
    PROVE  LET x == DropNode(s, n)
           IN  /\ IsState(x) /\ DOMAIN x.nodes = DOMAIN s.nodes \ {n}
               /\ \A m \in DOMAIN x.nodes : x.nodes[m] = s.nodes[m]
               /\ x.floats = s.floats /\ x.sessions = s.sessions /\ x.buffers = s.buffers
               /\ x.nextNode = s.nextNode /\ x.nextSession = s.nextSession /\ x.nextFloat = s.nextFloat
<1> DEFINE x == DropNode(s, n)
           xn == Restrict(s.nodes, DOMAIN s.nodes \ {n})
<1>0. Shape(s) /\ s.nodes \in [DOMAIN s.nodes -> NodeType] /\ DOMAIN s.nodes \subseteq 1 .. s.nextNode - 1
  BY DEF IsState
<1>1. /\ x.nodes = xn /\ x.buffers = s.buffers /\ x.sessions = s.sessions /\ x.floats = s.floats
      /\ x.nextNode = s.nextNode /\ x.nextSession = s.nextSession /\ x.nextFloat = s.nextFloat
      /\ Shape(x)
  BY <1>0 DEF Shape, DropNode
<1>2. DOMAIN xn = DOMAIN s.nodes \ {n} /\ \A m \in DOMAIN xn : xn[m] = s.nodes[m]
  BY DEF Restrict
<1>3. xn \in [DOMAIN s.nodes \ {n} -> NodeType]
  BY <1>0 DEF Restrict
<1> HIDE DEF x, xn
<1>4. IsState(x)
  <2>1. DOMAIN xn \subseteq 1 .. s.nextNode - 1
    BY <1>0, <1>2
  <2>. QED BY <1>1, <1>2, <1>3, <2>1 DEF IsState
<1>. QED BY <1>1, <1>2, <1>4 DEF x

\* A write of a last focus.
LEMMA LastIs ==
    ASSUME NEW s, IsState(s), NEW n \in DOMAIN s.nodes, NEW v \in Nat
    PROVE  LET x == [s EXCEPT !.nodes[n].last = v]
           IN  /\ IsState(x) /\ DOMAIN x.nodes = DOMAIN s.nodes
               /\ \A m \in DOMAIN s.nodes :
                    /\ x.nodes[m].kind = s.nodes[m].kind /\ x.nodes[m].sess = s.nodes[m].sess
                    /\ x.nodes[m].parent = s.nodes[m].parent
                    /\ x.nodes[m].kids = s.nodes[m].kids
                    /\ x.nodes[m].active = s.nodes[m].active /\ x.nodes[m].sizes = s.nodes[m].sizes
                    /\ x.nodes[m].last = IF m = n THEN v ELSE s.nodes[m].last
                    /\ x.nodes[m].buf = s.nodes[m].buf
               /\ x.floats = s.floats /\ x.sessions = s.sessions /\ x.buffers = s.buffers
               /\ x.nextNode = s.nextNode /\ x.nextSession = s.nextSession /\ x.nextFloat = s.nextFloat
<1> DEFINE x == [s EXCEPT !.nodes[n].last = v]
           z == s.nodes[n]
           y == [z EXCEPT !.last = v]
<1>0. Shape(s) /\ s.nodes \in [DOMAIN s.nodes -> NodeType]
  BY DEF IsState
<1>1. /\ x.nodes = [s.nodes EXCEPT ![n] = y] /\ Shape(x)
      /\ x.floats = s.floats /\ x.sessions = s.sessions /\ x.buffers = s.buffers
      /\ x.nextNode = s.nextNode /\ x.nextSession = s.nextSession /\ x.nextFloat = s.nextFloat
  BY <1>0 DEF Shape
<1>2. z \in NodeType
  BY <1>0
<1> HIDE DEF x, z
<1>3. /\ y \in NodeType /\ y.kind = z.kind /\ y.sess = z.sess /\ y.parent = z.parent /\ y.kids = z.kids
      /\ y.active = z.active /\ y.sizes = z.sizes /\ y.last = v /\ y.buf = z.buf
  BY <1>2 DEF NodeType
<1> HIDE DEF y
<1>4. /\ x.nodes \in [DOMAIN s.nodes -> NodeType] /\ x.nodes[n] = y /\ DOMAIN x.nodes = DOMAIN s.nodes
      /\ \A m \in DOMAIN s.nodes : m # n => x.nodes[m] = s.nodes[m]
  BY <1>0, <1>1, <1>3
<1>5. IsState(x)
  BY <1>1, <1>4 DEF IsState
<1>. QED BY <1>1, <1>3, <1>4, <1>5 DEF x, z

\* The child c is where the container n was.
Collapsed(s, x, n, c) ==
    LET p == s.nodes[n].parent
    IN  /\ DOMAIN x.nodes = DOMAIN s.nodes \ {n}
        /\ \A m \in DOMAIN x.nodes :
              /\ x.nodes[m].kind = s.nodes[m].kind /\ x.nodes[m].sess = s.nodes[m].sess
              /\ x.nodes[m].parent = IF m = c THEN p ELSE s.nodes[m].parent
              /\ x.nodes[m].kids = IF m = p THEN ReplaceAt(s.nodes[m].kids, Position(s.nodes[m].kids, n) + 1, c)
                                   ELSE s.nodes[m].kids
              /\ x.nodes[m].active = s.nodes[m].active /\ x.nodes[m].sizes = s.nodes[m].sizes
              /\ x.nodes[m].last \in {s.nodes[m].last, FocusCandidate(s, c)}
              /\ x.nodes[m].buf = s.nodes[m].buf
        /\ DOMAIN x.floats = DOMAIN s.floats
        /\ \A f \in DOMAIN s.floats :
              /\ x.floats[f].sess = s.floats[f].sess /\ x.floats[f].last = s.floats[f].last
              /\ x.floats[f].root = IF s.floats[f].root = n THEN c ELSE s.floats[f].root
        /\ x.sessions = s.sessions /\ x.buffers = s.buffers
        /\ x.nextNode = s.nextNode /\ x.nextSession = s.nextSession /\ x.nextFloat = s.nextFloat

\* A container gives way to its only child: what is written.
LEMMA CollapseIs ==
    ASSUME NEW s, NEW e, Forest(s, {}, e), NEW n \in DOMAIN s.nodes, n \notin SessionRoots(s),
           NEW c \in Kids(s, n)
    PROVE  LET r == ReplaceInOwner(s, n, c)
               x == DropNode(r.s, n)
           IN  r.ok = TRUE /\ IsState(x) /\ Collapsed(s, x, n, c)
<1> DEFINE D == DOMAIN s.nodes
           p == s.nodes[n].parent
           w == RepointOwner(s, SessionOf(s, n), p, n, c)
           last == IF p = None THEN None ELSE s.nodes[p].last
           moves == last # None /\ (last \in DOMAIN s.nodes => last \in Below(s, n))
           v == IF moves THEN [w.s EXCEPT !.nodes[p].last = FocusCandidate(s, c)] ELSE w.s
           u == SetParent(v, n, None)
           x == DropNode(u, n)
<1>0. /\ IsState(s) /\ Linked(s) /\ Rooted(s, {}) /\ Ranked(s) /\ None \notin D /\ None \in Nat
  BY DEF Forest, IsState, None
<1>1. c \in D /\ s.nodes[c].parent = n
  BY <1>0 DEF Linked
<1>2. p # None => p \in D /\ n \in Kids(s, p) /\ Distinct(s.nodes[p].kids) /\ \A k \in Kids(s, p) : s.nodes[k].parent = p
  BY <1>0 DEF Linked
<1>3. p # c /\ p # n /\ c # n
  <2>1. PICK top \in Nat : \E rank \in [D -> 0 .. top] :
          \A m \in D : s.nodes[m].parent # None => rank[m] < rank[s.nodes[m].parent]
    BY <1>0 DEF Ranked
  <2>2. PICK rank \in [D -> 0 .. top] :
          \A m \in D : s.nodes[m].parent # None => rank[m] < rank[s.nodes[m].parent]
    BY <2>1
  <2>3. rank[c] < rank[n] /\ rank[c] \in Nat /\ rank[n] \in Nat /\ (p # None => rank[n] < rank[p] /\ rank[p] \in Nat)
    BY <1>0, <1>1, <1>2, <2>2
  <2>. QED BY <1>0, <1>1, <2>3
<1>4. p = None => /\ n \in FloatRoots(s)
                  /\ \A f, g \in DOMAIN s.floats : s.floats[f].root = n /\ s.floats[g].root = n => f = g
  BY <1>0 DEF Rooted
<1>5. p # None => c \notin Kids(s, p)
  BY <1>1, <1>2, <1>3
<1>6. w.ok = TRUE /\ IsState(w.s) /\ Repointed(s, w.s, p, n, c)
  <2> HIDE DEF p
  <2>. QED BY <1>0, <1>1, <1>2, <1>3, <1>4, <1>5, RepointIs, Zenon
<1>8. FocusCandidate(s, c) \in Nat
  <2>1. FocusCandidate(s, c) = None \/ FocusCandidate(s, c) \in D
    BY <1>1, CandidateFacts
  <2>2. D \subseteq 1 .. s.nextNode - 1
    BY <1>0 DEF IsState
  <2>3. D \subseteq Nat
    BY <2>2
  <2> HIDE DEF D
  <2>. QED BY <1>0, <2>1, <2>3, Zenon
<1>7. ReplaceInOwner(s, n, c) = Ok(u)
  <2>1. FocusCandidate(s, c) # Gone
    BY <1>8 DEF Gone
  <2>2. ~Blocked(s, n, last)
    BY <1>0, Unsevered
  <2>. QED BY <1>6, <2>1, <2>2, Zenon DEF ReplaceInOwner, AndThen
<1>9. moves => p # None
  OBVIOUS
<1> HIDE DEF w, moves, p
<1>10. DOMAIN w.s.nodes = D
  BY <1>6 DEF Repointed
<1>11. /\ IsState(v) /\ DOMAIN v.nodes = D
       /\ \A m \in D :
           /\ v.nodes[m].kind = w.s.nodes[m].kind /\ v.nodes[m].sess = w.s.nodes[m].sess
           /\ v.nodes[m].parent = w.s.nodes[m].parent
           /\ v.nodes[m].kids = w.s.nodes[m].kids
           /\ v.nodes[m].active = w.s.nodes[m].active /\ v.nodes[m].sizes = w.s.nodes[m].sizes
           /\ v.nodes[m].last \in {w.s.nodes[m].last, FocusCandidate(s, c)}
           /\ v.nodes[m].buf = w.s.nodes[m].buf
       /\ v.floats = w.s.floats /\ v.sessions = w.s.sessions /\ v.buffers = w.s.buffers
       /\ v.nextNode = w.s.nextNode /\ v.nextSession = w.s.nextSession /\ v.nextFloat = w.s.nextFloat
  <2>1. CASE ~ moves
    BY <1>6, <1>10, <2>1
  <2>2. CASE moves
    <3> DEFINE t == w.s
               z == FocusCandidate(s, c)
    <3>1. IsState(t) /\ p \in DOMAIN t.nodes /\ z \in Nat
      BY <1>2, <1>6, <1>8, <1>9, <1>10, <2>2
    <3>2. v = [t EXCEPT !.nodes[p].last = z]
      BY <2>2
    <3> HIDE DEF t, z, v
    <3>3. /\ IsState(v) /\ DOMAIN v.nodes = DOMAIN t.nodes
          /\ \A m \in DOMAIN t.nodes :
               /\ v.nodes[m].kind = t.nodes[m].kind /\ v.nodes[m].sess = t.nodes[m].sess
               /\ v.nodes[m].parent = t.nodes[m].parent
               /\ v.nodes[m].kids = t.nodes[m].kids
               /\ v.nodes[m].active = t.nodes[m].active /\ v.nodes[m].sizes = t.nodes[m].sizes
               /\ v.nodes[m].last = IF m = p THEN z ELSE t.nodes[m].last
               /\ v.nodes[m].buf = t.nodes[m].buf
          /\ v.floats = t.floats /\ v.sessions = t.sessions /\ v.buffers = t.buffers
          /\ v.nextNode = t.nextNode /\ v.nextSession = t.nextSession /\ v.nextFloat = t.nextFloat
      BY <3>1, <3>2, LastIs
    <3>. QED BY <1>10, <3>3 DEF t, z
  <2>. QED BY <2>1, <2>2
<1> HIDE DEF v
<1>12. /\ IsState(u) /\ DOMAIN u.nodes = D
       /\ \A m \in D : m # n => u.nodes[m] = v.nodes[m]
       /\ u.floats = v.floats /\ u.sessions = v.sessions /\ u.buffers = v.buffers
       /\ u.nextNode = v.nextNode /\ u.nextSession = v.nextSession /\ u.nextFloat = v.nextFloat
  BY <1>0, <1>11, SetParentIs
<1> HIDE DEF u
<1>13. /\ IsState(x) /\ DOMAIN x.nodes = D \ {n}
       /\ \A m \in DOMAIN x.nodes : x.nodes[m] = u.nodes[m]
       /\ x.floats = u.floats /\ x.sessions = u.sessions /\ x.buffers = u.buffers
       /\ x.nextNode = u.nextNode /\ x.nextSession = u.nextSession /\ x.nextFloat = u.nextFloat
  BY <1>12, DropNodeIs
<1> HIDE DEF x
<1>14. \A m \in D \ {n} : x.nodes[m] = v.nodes[m]
  BY <1>12, <1>13
<1>15. \A m \in DOMAIN x.nodes :
              /\ x.nodes[m].kind = s.nodes[m].kind /\ x.nodes[m].sess = s.nodes[m].sess
              /\ x.nodes[m].parent = IF m = c THEN p ELSE s.nodes[m].parent
              /\ x.nodes[m].kids = IF m = p THEN ReplaceAt(s.nodes[m].kids, Position(s.nodes[m].kids, n) + 1, c)
                                   ELSE s.nodes[m].kids
              /\ x.nodes[m].active = s.nodes[m].active /\ x.nodes[m].sizes = s.nodes[m].sizes
              /\ x.nodes[m].last \in {s.nodes[m].last, FocusCandidate(s, c)}
              /\ x.nodes[m].buf = s.nodes[m].buf
  BY <1>6, <1>11, <1>13, <1>14 DEF Repointed
<1>16. \A f \in DOMAIN s.floats : s.floats[f].root = n => p = None
  BY <1>0 DEF Rooted, FloatRoots, p
<1>17. /\ DOMAIN x.floats = DOMAIN s.floats
       /\ \A f \in DOMAIN s.floats :
              /\ x.floats[f].sess = s.floats[f].sess /\ x.floats[f].last = s.floats[f].last
              /\ x.floats[f].root = IF s.floats[f].root = n THEN c ELSE s.floats[f].root
  <2>1. x.floats = w.s.floats
    BY <1>11, <1>12, <1>13
  <2>. QED BY <1>6, <1>16, <2>1 DEF Repointed
<1>18. /\ x.sessions = s.sessions /\ x.buffers = s.buffers
       /\ x.nextNode = s.nextNode /\ x.nextSession = s.nextSession /\ x.nextFloat = s.nextFloat
  BY <1>6, <1>11, <1>12, <1>13 DEF Repointed
<1>19. Collapsed(s, x, n, c)
  BY <1>13, <1>15, <1>17, <1>18 DEF Collapsed, p
<1>. QED BY <1>7, <1>13, <1>19 DEF x, Ok

\* It leaves a forest with the same views.
LEMMA CollapseKeeps ==
    ASSUME NEW s, NEW n \in DOMAIN s.nodes, NEW e \in {None, n}, Forest(s, {}, e),
           n \notin SessionRoots(s), NEW c, Kids(s, n) = {c}, s.nodes[n].kind # "view",
           NEW x, IsState(x), Collapsed(s, x, n, c)
    PROVE  Forest(x, {}, None) /\ SameViews(s, x)
<1> DEFINE D == DOMAIN s.nodes
           p == s.nodes[n].parent
<1>0. /\ IsState(s) /\ Linked(s) /\ Rooted(s, {}) /\ Shaped(s, e) /\ Pointed(s) /\ Remembered(s)
      /\ Owned(s) /\ Ranked(s)
  BY DEF Forest
<1>1. /\ None \notin D /\ None \in Nat /\ s.nodes \in [D -> NodeType] /\ \A m \in D : m \in Nat
  BY <1>0 DEF IsState, None
<1>2. c \in D /\ s.nodes[c].parent = n /\ s.nodes[c].sess = s.nodes[n].sess
  <2>1. c \in Kids(s, n)
    OBVIOUS
  <2>2. c \in D /\ s.nodes[c].parent = n
    BY <1>0, <2>1 DEF Linked
  <2>. QED BY <1>0, <1>1, <2>2 DEF Linked
<1>3. /\ p # None => p \in D /\ n \in Kids(s, p) /\ s.nodes[p].sess = s.nodes[n].sess
      /\ p = None => n \in FloatRoots(s)
  BY <1>0 DEF Linked, Rooted
<1>4. PICK top \in Nat : \E rank \in [D -> 0 .. top] :
        \A m \in D : s.nodes[m].parent # None => rank[m] < rank[s.nodes[m].parent]
  BY <1>0 DEF Ranked
<1>5. PICK rank \in [D -> 0 .. top] :
        \A m \in D : s.nodes[m].parent # None => rank[m] < rank[s.nodes[m].parent]
  BY <1>4
<1>6. rank[c] < rank[n] /\ rank[c] \in Nat /\ rank[n] \in Nat /\ (p # None => rank[n] < rank[p] /\ rank[p] \in Nat)
  BY <1>1, <1>2, <1>3, <1>5
<1>7. p # c /\ p # n /\ c # n
  BY <1>1, <1>2, <1>6
<1>8. /\ DOMAIN x.nodes = D \ {n}
      /\ \A m \in D \ {n} :
            /\ x.nodes[m].kind = s.nodes[m].kind /\ x.nodes[m].sess = s.nodes[m].sess
            /\ x.nodes[m].parent = IF m = c THEN p ELSE s.nodes[m].parent
            /\ m # p => x.nodes[m].kids = s.nodes[m].kids
            /\ x.nodes[m].active = s.nodes[m].active /\ x.nodes[m].sizes = s.nodes[m].sizes
            /\ x.nodes[m].last \in {s.nodes[m].last, FocusCandidate(s, c)} /\ x.nodes[m].buf = s.nodes[m].buf
  BY DEF Collapsed
<1>9. /\ DOMAIN x.floats = DOMAIN s.floats
      /\ \A f \in DOMAIN s.floats :
            /\ x.floats[f].sess = s.floats[f].sess /\ x.floats[f].last = s.floats[f].last
            /\ x.floats[f].root = IF s.floats[f].root = n THEN c ELSE s.floats[f].root
      /\ x.sessions = s.sessions /\ x.buffers = s.buffers
      /\ x.nextNode = s.nextNode /\ x.nextFloat = s.nextFloat
  BY Zenon DEF Collapsed
<1>10. p # None => /\ x.nodes[p].kids \in Seq(Nat) /\ Len(x.nodes[p].kids) = Len(s.nodes[p].kids)
                   /\ Distinct(x.nodes[p].kids) /\ ToSet(x.nodes[p].kids) = (Kids(s, p) \ {n}) \cup {c}
  <2> SUFFICES ASSUME p # None
               PROVE  /\ x.nodes[p].kids \in Seq(Nat) /\ Len(x.nodes[p].kids) = Len(s.nodes[p].kids)
                      /\ Distinct(x.nodes[p].kids) /\ ToSet(x.nodes[p].kids) = (Kids(s, p) \ {n}) \cup {c}
    OBVIOUS
  <2>1. p \in D /\ n \in Kids(s, p) /\ s.nodes[p].kids \in Seq(Nat)
    BY <1>1, <1>3 DEF NodeType
  <2>2. Distinct(s.nodes[p].kids) /\ c \notin Kids(s, p)
    BY <1>0, <1>1, <1>2, <1>7, <2>1 DEF Linked
  <2>3. x.nodes[p].kids = ReplaceAt(s.nodes[p].kids, Position(s.nodes[p].kids, n) + 1, c)
    BY <1>7, <2>1 DEF Collapsed
  <2>4. c \in Nat
    BY <1>1, <1>2
  <2>. QED BY <2>1, <2>2, <2>3, <2>4, ReplacedSet DEF Kids
<1>11. \A m \in D \ {n} : Kids(x, m) = IF m = p THEN (Kids(s, m) \ {n}) \cup {c} ELSE Kids(s, m)
  <2> SUFFICES ASSUME NEW m \in D \ {n}
               PROVE  Kids(x, m) = IF m = p THEN (Kids(s, m) \ {n}) \cup {c} ELSE Kids(s, m)
    OBVIOUS
  <2>1. CASE m = p
    <3>1. p # None
      BY <1>1, <2>1
    <3>2. ToSet(x.nodes[p].kids) = (Kids(s, p) \ {n}) \cup {c}
      BY <1>10, <3>1
    <3> HIDE DEF p
    <3>. QED BY <2>1, <3>2 DEF Kids
  <2>2. CASE m # p
    <3>1. x.nodes[m].kids = s.nodes[m].kids
      BY <1>8, <2>2
    <3> HIDE DEF p
    <3>. QED BY <2>2, <3>1 DEF Kids
  <2>. QED BY <2>1, <2>2
<1>12. \A m \in D \ {n} : Distinct(x.nodes[m].kids) /\ Len(x.nodes[m].kids) = Len(s.nodes[m].kids)
  <2> SUFFICES ASSUME NEW m \in D \ {n}
               PROVE  Distinct(x.nodes[m].kids) /\ Len(x.nodes[m].kids) = Len(s.nodes[m].kids)
    OBVIOUS
  <2>1. CASE m = p
    <3>1. p # None
      BY <1>1, <2>1
    <3>2. Distinct(x.nodes[p].kids) /\ Len(x.nodes[p].kids) = Len(s.nodes[p].kids)
      BY <1>10, <3>1, Zenon
    <3> HIDE DEF p
    <3>. QED BY <2>1, <3>2
  <2>2. CASE m # p
    <3>1. x.nodes[m].kids = s.nodes[m].kids
      BY <1>8, <2>2
    <3>2. Distinct(s.nodes[m].kids)
      BY <1>0 DEF Linked
    <3>. QED BY <3>1, <3>2
  <2>. QED BY <2>1, <2>2
<1> HIDE DEF D, p
<1>13. \A m \in D : \A k \in Kids(s, m) : k \in D /\ s.nodes[k].parent = m
  BY <1>0 DEF Linked, D
<1>13a. n \in D
  BY DEF D
<1>14. Linked(x)
  <2>1. ASSUME NEW m \in D \ {n}
        PROVE  /\ x.nodes[m].sess \in DOMAIN x.sessions
               /\ x.nodes[m].parent # None =>
                     /\ x.nodes[m].parent \in DOMAIN x.nodes
                     /\ m \in Kids(x, x.nodes[m].parent)
                     /\ x.nodes[x.nodes[m].parent].sess = x.nodes[m].sess
               /\ Distinct(x.nodes[m].kids)
               /\ \A k \in Kids(x, m) : k \in DOMAIN x.nodes /\ x.nodes[k].parent = m
    <3>1. x.nodes[m].sess \in DOMAIN x.sessions
      BY <1>0, <1>8, <1>9 DEF Linked, D
    <3>2. ASSUME m = c, p # None
          PROVE  p \in DOMAIN x.nodes /\ m \in Kids(x, p) /\ x.nodes[p].sess = x.nodes[m].sess
      BY <1>2, <1>3, <1>7, <1>8, <1>11, <3>2
    <3>3. ASSUME m # c, s.nodes[m].parent # None
          PROVE  /\ s.nodes[m].parent \in DOMAIN x.nodes
                 /\ m \in Kids(x, s.nodes[m].parent)
                 /\ x.nodes[s.nodes[m].parent].sess = x.nodes[m].sess
      <4> DEFINE q == s.nodes[m].parent
      <4>2. q \in D /\ m \in Kids(s, q) /\ s.nodes[q].sess = s.nodes[m].sess
        BY <1>0, <3>3 DEF Linked, D
      <4>3. q # n
        BY <3>3, <4>2
      <4> HIDE DEF q
      <4>4. q \in DOMAIN x.nodes /\ m \in Kids(x, q) /\ x.nodes[q].sess = x.nodes[m].sess
        BY <1>8, <1>11, <4>2, <4>3
      <4>. QED BY <4>4 DEF q
    <3>4. ASSUME NEW k \in Kids(x, m) PROVE k \in DOMAIN x.nodes /\ x.nodes[k].parent = m
      <4>1. CASE k = c
        <5>1. m = p
          BY <1>2, <1>11, <1>13, <4>1
        <5>. QED BY <1>2, <1>7, <1>8, <4>1, <5>1
      <4>2. CASE k # c
        <5>1. k \in Kids(s, m) /\ (m = p => k # n)
          BY <1>11, <4>2
        <5>2. k \in D /\ s.nodes[k].parent = m
          BY <1>13, <5>1
        <5>3. k # n
          BY <5>1, <5>2 DEF p
        <5>. QED BY <1>8, <4>2, <5>2, <5>3
      <4>. QED BY <4>1, <4>2
    <3>5. x.nodes[m].parent = IF m = c THEN p ELSE s.nodes[m].parent
      BY <1>8
    <3>. QED BY <1>12, <3>1, <3>2, <3>3, <3>4, <3>5
  <2>. QED BY <1>8, <2>1 DEF Linked
<1>15. /\ Rooted(x, {}) /\ SessionRoots(x) = SessionRoots(s)
       /\ FloatRoots(x) = IF n \in FloatRoots(s) THEN (FloatRoots(s) \ {n}) \cup {c} ELSE FloatRoots(s)
  <2>1. SessionRoots(s) \subseteq D /\ FloatRoots(s) \subseteq D
    BY <1>0 DEF Rooted, SessionRoots, FloatRoots, D
  <2>2. n \in FloatRoots(s) <=> p = None
    BY <1>0, <1>3 DEF Rooted, p
  <2> DEFINE H == {}
  <2>3. ASSUME NEW m \in DOMAIN x.nodes
        PROVE  x.nodes[m].parent = None <=>
                 m \in SessionRoots(s) \/ m \in FloatRoots(s) \ {n} \/ (m = c /\ n \in FloatRoots(s))
    <3>1. s.nodes[m].parent = None <=> m \in SessionRoots(s) \/ m \in FloatRoots(s)
      BY <1>0, <1>8 DEF Rooted, D
    <3>2. m # n /\ n # None /\ m \in D
      BY <1>1, <1>8, <1>13a
    <3>3. x.nodes[m].parent = IF m = c THEN p ELSE s.nodes[m].parent
      BY <1>8, <3>2
    <3>. QED BY <1>2, <2>2, <3>1, <3>2, <3>3
  <2>4. c \notin SessionRoots(s) /\ c \notin FloatRoots(s)
    BY <1>0, <1>1, <1>2, <1>13a DEF Rooted, D
  <2>6. \A m \in SessionRoots(s) \cup FloatRoots(s) : m # n =>
          m \in DOMAIN x.nodes /\ x.nodes[m].kind = s.nodes[m].kind /\ x.nodes[m].sess = s.nodes[m].sess
    BY <1>8, <2>1
  <2>7. /\ x.sessions = s.sessions /\ DOMAIN x.floats = DOMAIN s.floats
        /\ \A f \in DOMAIN s.floats :
              /\ x.floats[f].sess = s.floats[f].sess
              /\ x.floats[f].root = IF s.floats[f].root = n THEN c ELSE s.floats[f].root
    BY <1>9
  <2>8. \A m \in DOMAIN x.nodes : x.nodes[m].parent = None <=>
          m \in SessionRoots(s) \/ m \in FloatRoots(s) \ {n} \/ (m = c /\ n \in FloatRoots(s)) \/ m \in H
    BY <2>3
  <2>9. n \in FloatRoots(s) => c \in DOMAIN x.nodes /\ x.nodes[c].sess = s.nodes[n].sess
    BY <1>2, <1>7, <1>8
  <2>10. /\ Rooted(s, {}) /\ H \subseteq DOMAIN x.nodes
         /\ \A m \in H : m \notin SessionRoots(s) /\ m \notin FloatRoots(s) /\ m # c
    BY <1>0
  <2> HIDE DEF H
  <2>11. n \notin SessionRoots(s)
    OBVIOUS
  <2>12. /\ Rooted(x, H) /\ SessionRoots(x) = SessionRoots(s)
         /\ FloatRoots(x) = IF n \in FloatRoots(s) THEN (FloatRoots(s) \ {n}) \cup {c} ELSE FloatRoots(s)
    BY <2>4, <2>6, <2>7, <2>8, <2>9, <2>10, <2>11, RootedSwap
  <2>. QED BY <2>12 DEF H
<1>16. Pointed(x)
  <2>1. ASSUME NEW m \in D \ {n}, x.nodes[m].kind = "tabs"
        PROVE  x.nodes[m].active < Len(x.nodes[m].kids) \/ (x.nodes[m].kids = <<>> /\ x.nodes[m].active = 0)
    <3>1. s.nodes[m].active < Len(s.nodes[m].kids) \/ (s.nodes[m].kids = <<>> /\ s.nodes[m].active = 0)
      BY <1>0, <1>8, <2>1 DEF Pointed, D
    <3>2. CASE m # p
      BY <1>8, <3>1, <3>2
    <3>3. CASE m = p
      <4>1. s.nodes[m].kids # <<>>
        BY <1>1, <1>3, <3>3, ShortLists DEF Kids
      <4>. QED BY <1>8, <1>12, <3>1, <4>1
    <3>. QED BY <3>2, <3>3
  <2>. QED BY <1>8, <2>1 DEF Pointed
<1>17. Remembered(x)
  <2>0. FocusCandidate(s, c) = None \/ (FocusCandidate(s, c) \in D /\ s.nodes[FocusCandidate(s, c)].kind = "view")
    BY <1>2, CandidateFacts DEF D
  <2>1. FocusCandidate(s, c) < s.nextNode
    BY <1>0, <1>1, <2>0 DEF IsState, None, D
  <2>2. ASSUME NEW m \in D \ {n}
        PROVE  x.nodes[m].last < x.nextNode
               /\ (x.nodes[m].last \in DOMAIN x.nodes => x.nodes[x.nodes[m].last].kind = "view")
    <3>1. /\ s.nodes[m].last < s.nextNode
          /\ s.nodes[m].last \in D => s.nodes[s.nodes[m].last].kind = "view"
      BY <1>0 DEF Remembered, D
    <3>. QED BY <1>1, <1>8, <1>9, <2>0, <2>1, <3>1
  <2>3. ASSUME NEW f \in DOMAIN x.floats
        PROVE  x.floats[f].last < x.nextNode
               /\ (x.floats[f].last \in DOMAIN x.nodes => x.nodes[x.floats[f].last].kind = "view")
    <3>1. /\ s.floats[f].last < s.nextNode
          /\ s.floats[f].last \in D => s.nodes[s.floats[f].last].kind = "view"
      BY <1>0, <1>9 DEF Remembered, D
    <3>. QED BY <1>8, <1>9, <3>1
  <2>. QED BY <1>8, <2>2, <2>3 DEF Remembered
<1>18. Owned(x)
  BY <1>0, <1>9 DEF Owned
<1>19. Ranked(x)
  <2> DEFINE r == [m \in DOMAIN x.nodes |-> rank[m]]
  <2>1. r \in [DOMAIN x.nodes -> 0 .. top]
    BY <1>5, <1>8
  <2>2. ASSUME NEW m \in DOMAIN x.nodes, x.nodes[m].parent # None
        PROVE  r[m] < r[x.nodes[m].parent]
    <3>1. m \in D /\ m # n /\ x.nodes[m].parent \in DOMAIN x.nodes
      BY <1>8, <1>14, <2>2 DEF Linked
    <3>2. r[m] = rank[m] /\ r[x.nodes[m].parent] = rank[x.nodes[m].parent]
      BY <3>1
    <3>3. CASE m = c
      <4>1. x.nodes[m].parent = p
        BY <1>8, <3>1, <3>3
      <4>. QED BY <1>6, <2>2, <3>2, <3>3, <4>1
    <3>4. CASE m # c
      <4>1. x.nodes[m].parent = s.nodes[m].parent
        BY <1>8, <3>1, <3>4
      <4>. QED BY <1>5, <2>2, <3>1, <3>2, <4>1
    <3>. QED BY <3>3, <3>4
  <2> HIDE DEF r
  <2>. QED BY <2>1, <2>2 DEF Ranked
<1>20. Shaped(x, None)
  <2>1. \A m \in D : Fits(s.nodes[m], IF m = e THEN 1 ELSE 0, Least(s, m))
    BY <1>0, <1>1, ShapedIs DEF D
  <2>2. x.nodes \in [DOMAIN x.nodes -> NodeType]
    BY DEF IsState
  <2>3. ASSUME NEW m \in D \ {n} PROVE Fits(x.nodes[m], IF m = None THEN 1 ELSE 0, Least(x, m))
    <3>1. m # None /\ m # e
      BY <1>1
    <3>2. Fits(s.nodes[m], 0, Least(x, m))
      <4>0. Fits(s.nodes[m], 0, Least(s, m))
        BY <2>1, <3>1
      <4>1. CASE m = c
        <5>1. Least(s, m) = 2
          BY <1>0, <1>1, <1>2, <1>13a, <4>1 DEF Least, Rooted, D
        <5>2. Least(x, m) \in Nat /\ Least(x, m) <= 2
          BY DEF Least
        <5>. QED BY <1>1, <4>0, <5>1, <5>2, FitsMore
      <4>2. CASE m # c
        <5>2. Least(x, m) = Least(s, m)
          BY <1>15, <4>2 DEF Least
        <5>. QED BY <4>0, <5>2
      <4>. QED BY <4>1, <4>2
    <3>3. /\ x.nodes[m].kind = s.nodes[m].kind /\ x.nodes[m].sizes = s.nodes[m].sizes
          /\ Len(x.nodes[m].kids) = Len(s.nodes[m].kids)
      BY <1>8, <1>12
    <3>4. s.nodes[m].kids = <<>> => x.nodes[m].kids = <<>>
      <4>1. CASE m # p
        BY <1>8, <4>1
      <4>2. CASE m = p
        BY <1>1, <1>3, <4>2, ShortLists DEF Kids
      <4>. QED BY <4>1, <4>2
    <3>. QED BY <3>1, <3>2, <3>3, <3>4 DEF Fits
  <2>. QED BY <1>8, <2>2, <2>3, ShapedIs
<1>21. SameViews(s, x)
  <2>1. \A m \in D : s.nodes[m].kind = "view" => m # n
    OBVIOUS
  <2>. QED BY <1>8, <1>9, <2>1 DEF SameViews, D
<1>. QED BY <1>14, <1>15, <1>16, <1>17, <1>18, <1>19, <1>20, <1>21 DEF Forest

-----------------------------------------------------------------------------
(* Normalisation *)

\* A popup whose root tabs node is empty goes, with the node.
LEMMA DropPopupKeeps ==
    ASSUME NEW s, NEW n \in DOMAIN s.nodes, Forest(s, {}, n), NEW f \in DOMAIN s.floats,
           s.floats[f].root = n, Kids(s, n) = {}, s.nodes[n].kind # "view"
    PROVE  LET x == DropNode(RemoveFloat(s, f), n) IN Forest(x, {}, None) /\ SameViews(s, x)
<1> DEFINE y == RemoveFloat(s, f)
           x == DropNode(y, n)
<1>0. Trunk(s, {}) /\ Shaped(s, n) /\ IsState(s) /\ s.nodes \in [DOMAIN s.nodes -> NodeType]
      /\ None \notin DOMAIN s.nodes
  BY ForestIs DEF Forest, IsState, None
<1>1. /\ Trunk(y, {n}) /\ y.nodes = s.nodes /\ y.buffers = s.buffers
      /\ SessionRoots(y) = SessionRoots(s) /\ FloatRoots(y) = FloatRoots(s) \ {n}
      /\ DOMAIN y.sessions = DOMAIN s.sessions
  <2>1. Unheld(s, y, f)
    BY <1>0, RemoveFloatIs
  <2> HIDE DEF y
  <2>. QED BY <2>1 DEF Unheld
<1> HIDE DEF y
<1>2. IsState(y) /\ Linked(y) /\ Ranked(y)
  BY <1>1 DEF Trunk
<1>3. Below(y, n) = {n}
  <2>1. Kids(y, n) = {}
    BY <1>1 DEF Kids
  <2>. QED BY <1>1, <1>2, <2>1, BelowFacts
<1>4. /\ IsState(x) /\ DOMAIN x.nodes = DOMAIN y.nodes \ {n}
      /\ \A m \in DOMAIN x.nodes : x.nodes[m] = y.nodes[m]
      /\ x.floats = y.floats /\ x.sessions = y.sessions /\ x.buffers = y.buffers
      /\ x.nextNode = y.nextNode /\ x.nextSession = y.nextSession /\ x.nextFloat = y.nextFloat
  BY <1>2, DropNodeIs
<1> HIDE DEF x
<1>5. CutNodes(y, x, n)
  BY <1>3, <1>4 DEF CutNodes
<1>6. Trunk(x, {n} \ {n})
  BY <1>1, <1>4, <1>5, CutFreeTrunk
<1>7. \A m \in DOMAIN s.nodes : Fits(s.nodes[m], IF m = n THEN 1 ELSE 0, Least(s, m))
  BY <1>0, ShapedIs
<1>8. \A m \in DOMAIN y.nodes \ Below(y, n) : Fits(y.nodes[m], IF m = None THEN 1 ELSE 0, Least(y, m))
  <2> SUFFICES ASSUME NEW m \in DOMAIN s.nodes, m # n PROVE Fits(s.nodes[m], 0, Least(y, m))
    BY <1>0, <1>1, <1>3
  <2>1. Least(y, m) = Least(s, m)
    BY <1>1 DEF Least
  <2>. QED BY <1>7, <2>1
<1>9. Shaped(x, None)
  BY <1>4, <1>5, <1>8, CutShaped
<1>10. {n} \ {n} = {}
  OBVIOUS
<1>11. Forest(x, {}, None)
  BY <1>6, <1>9, <1>10, ForestIs
<1>12. SameViews(s, x)
  <2>1. \A m \in DOMAIN s.nodes : s.nodes[m].kind = "view" => m # n
    OBVIOUS
  <2>. QED BY <1>1, <1>4, <2>1 DEF SameViews
<1>. QED BY <1>11, <1>12 DEF x, y

\* A container that has what it needs is no exception.
LEMMA ExceptionOver ==
    ASSUME NEW s, NEW F, NEW e, Forest(s, F, e), e \in DOMAIN s.nodes => Fits(s.nodes[e], 0, Least(s, e))
    PROVE  Forest(s, F, None)
<1>0. Trunk(s, F) /\ Shaped(s, e) /\ s.nodes \in [DOMAIN s.nodes -> NodeType] /\ None \notin DOMAIN s.nodes
  BY ForestIs DEF Forest, IsState, None
<1>1. \A m \in DOMAIN s.nodes : Fits(s.nodes[m], IF m = e THEN 1 ELSE 0, Least(s, m))
  BY <1>0, ShapedIs
<1>2. \A m \in DOMAIN s.nodes : Fits(s.nodes[m], IF m = None THEN 1 ELSE 0, Least(s, m))
  <2> SUFFICES ASSUME NEW m \in DOMAIN s.nodes PROVE Fits(s.nodes[m], 0, Least(s, m))
    BY <1>0
  <2>1. CASE m = e
    BY <2>1
  <2>2. CASE m # e
    BY <1>1, <2>2
  <2>. QED BY <2>1, <2>2
<1>3. Shaped(s, None)
  BY <1>0, <1>2, ShapedIs
<1>. QED BY <1>0, <1>3, ForestIs

\* New weights of a container, as many as before.
LEMMA SizesKeep ==
    ASSUME NEW s, NEW F, NEW e, Forest(s, F, e), NEW n \in DOMAIN s.nodes, NEW sizes \in Seq(Nat),
           Len(sizes) = Len(s.nodes[n].sizes), s.nodes[n].kind = "split"
    PROVE  LET x == [s EXCEPT !.nodes[n].sizes = sizes] IN Forest(x, F, e) /\ SameViews(s, x)
<1> DEFINE x == [s EXCEPT !.nodes[n].sizes = sizes]
           z == s.nodes[n]
           y == [z EXCEPT !.sizes = sizes]
<1>0. Shape(s) /\ s.nodes \in [DOMAIN s.nodes -> NodeType] /\ IsState(s)
  BY DEF Forest, IsState
<1>1. /\ x.nodes = [s.nodes EXCEPT ![n] = y] /\ Shape(x)
      /\ x.floats = s.floats /\ x.sessions = s.sessions /\ x.buffers = s.buffers
      /\ x.nextNode = s.nextNode /\ x.nextSession = s.nextSession /\ x.nextFloat = s.nextFloat
  BY <1>0 DEF Shape
<1>2. z \in NodeType /\ Len(sizes) = Len(z.sizes)
  BY <1>0
<1> HIDE DEF x, z
<1>3. /\ y \in NodeType /\ y.kind = z.kind /\ y.sess = z.sess /\ y.parent = z.parent /\ y.kids = z.kids
      /\ y.active = z.active /\ y.sizes = sizes /\ y.last = z.last /\ y.buf = z.buf
  BY <1>2 DEF NodeType
<1> HIDE DEF y
<1>4. /\ x.nodes \in [DOMAIN s.nodes -> NodeType] /\ x.nodes[n] = y /\ DOMAIN x.nodes = DOMAIN s.nodes
      /\ \A m \in DOMAIN s.nodes : m # n => x.nodes[m] = s.nodes[m]
  BY <1>0, <1>1, <1>3
<1>5. IsState(x)
  BY <1>0, <1>1, <1>4 DEF IsState
<1>6. z.sizes = <<>> => sizes = <<>>
  BY <1>2, ShortLists DEF NodeType
<1>7. \A m \in DOMAIN s.nodes :
          /\ x.nodes[m].kind = s.nodes[m].kind /\ x.nodes[m].sess = s.nodes[m].sess
          /\ x.nodes[m].parent = s.nodes[m].parent /\ x.nodes[m].kids = s.nodes[m].kids
          /\ x.nodes[m].active = s.nodes[m].active /\ x.nodes[m].last = s.nodes[m].last
          /\ s.nodes[m].sizes = <<>> => x.nodes[m].sizes = <<>>
          /\ Len(x.nodes[m].sizes) = Len(s.nodes[m].sizes) /\ x.nodes[m].buf = s.nodes[m].buf
  BY <1>2, <1>3, <1>4, <1>6 DEF z
<1>8. SameLinks(s, x)
  BY <1>1, <1>4, <1>7 DEF SameLinks
<1>9. Forest(x, F, e)
  BY <1>5, <1>8, LinksForest
<1>10. SameViews(s, x)
  BY <1>1, <1>4, <1>7 DEF SameViews
<1>. QED BY <1>9, <1>10 DEF x

\* A tabs node that points at a tab of its own, and remembers what it did or nothing.
LEMMA TabsKeep ==
    ASSUME NEW s, NEW F, NEW e, Forest(s, F, e), NEW n \in DOMAIN s.nodes, NEW active \in Nat,
           active < Len(s.nodes[n].kids) \/ (s.nodes[n].kids = <<>> /\ active = 0),
           NEW x, IsState(x), SameTree(s, x), x.sessions = s.sessions, x.floats = s.floats,
           \A m \in DOMAIN s.nodes : /\ x.nodes[m].active = IF m = n THEN active ELSE s.nodes[m].active
                                     /\ x.nodes[m].last \in {s.nodes[m].last, None}
    PROVE  Forest(x, F, e)
<1>0. /\ Pointed(s) /\ Remembered(s) /\ Owned(s) /\ None < s.nextNode /\ None \notin DOMAIN s.nodes
  BY DEF Forest, IsState, None
<1>1. /\ DOMAIN x.nodes = DOMAIN s.nodes /\ x.nextNode = s.nextNode /\ x.nextFloat = s.nextFloat
      /\ \A m \in DOMAIN s.nodes : x.nodes[m].kind = s.nodes[m].kind /\ x.nodes[m].kids = s.nodes[m].kids
  BY DEF SameTree
<1>9. Pointed(x)
  BY <1>0, <1>1 DEF Pointed
<1>10. Remembered(x)
  BY <1>0, <1>1 DEF Remembered
<1>11. Owned(x)
  BY <1>0, <1>1 DEF Owned
<1>. QED BY <1>9, <1>10, <1>11, SameForest

\* Of a node only the active tab and the last focus changed.
Pointing(s, x, n, active, last) ==
    /\ IsState(x) /\ SameTree(s, x) /\ x.sessions = s.sessions /\ x.floats = s.floats
    /\ \A m \in DOMAIN s.nodes : /\ x.nodes[m].active = IF m = n THEN active ELSE s.nodes[m].active
                                 /\ x.nodes[m].last = IF m = n THEN last ELSE s.nodes[m].last

\* Writes of an active index and a last focus.
LEMMA ActiveLastIs ==
    ASSUME NEW s, IsState(s), NEW n \in DOMAIN s.nodes, NEW a \in Nat, NEW l \in Nat
    PROVE  /\ Pointing(s, [s EXCEPT !.nodes[n].active = a, !.nodes[n].last = l], n, a, l)
           /\ Pointing(s, [s EXCEPT !.nodes[n].active = a], n, a, s.nodes[n].last)
<1> DEFINE z == s.nodes[n]
           y1 == [z EXCEPT !.active = a, !.last = l]
           y2 == [z EXCEPT !.active = a]
           x1 == [s EXCEPT !.nodes[n].active = a, !.nodes[n].last = l]
           x2 == [s EXCEPT !.nodes[n].active = a]
<1>0. Shape(s) /\ s.nodes \in [DOMAIN s.nodes -> NodeType]
  BY DEF IsState
<1>1. /\ x1.nodes = [s.nodes EXCEPT ![n] = y1] /\ Shape(x1)
      /\ x1.floats = s.floats /\ x1.sessions = s.sessions /\ x1.buffers = s.buffers
      /\ x1.nextNode = s.nextNode /\ x1.nextSession = s.nextSession /\ x1.nextFloat = s.nextFloat
  BY <1>0 DEF Shape
<1>2. /\ x2.nodes = [s.nodes EXCEPT ![n] = y2] /\ Shape(x2)
      /\ x2.floats = s.floats /\ x2.sessions = s.sessions /\ x2.buffers = s.buffers
      /\ x2.nextNode = s.nextNode /\ x2.nextSession = s.nextSession /\ x2.nextFloat = s.nextFloat
  BY <1>0 DEF Shape
<1>3. z \in NodeType
  BY <1>0
<1> HIDE DEF x1, x2, z
<1>4. /\ y1 \in NodeType /\ y1.kind = z.kind /\ y1.sess = z.sess /\ y1.parent = z.parent /\ y1.kids = z.kids
      /\ y1.active = a /\ y1.sizes = z.sizes /\ y1.last = l /\ y1.buf = z.buf
  BY <1>3 DEF NodeType
<1>5. /\ y2 \in NodeType /\ y2.kind = z.kind /\ y2.sess = z.sess /\ y2.parent = z.parent /\ y2.kids = z.kids
      /\ y2.active = a /\ y2.sizes = z.sizes /\ y2.last = z.last /\ y2.buf = z.buf
  BY <1>3 DEF NodeType
<1> HIDE DEF y1, y2
<1>6. /\ x1.nodes \in [DOMAIN s.nodes -> NodeType] /\ x1.nodes[n] = y1 /\ DOMAIN x1.nodes = DOMAIN s.nodes
      /\ \A m \in DOMAIN s.nodes : m # n => x1.nodes[m] = s.nodes[m]
  BY <1>0, <1>1, <1>4
<1>7. /\ x2.nodes \in [DOMAIN s.nodes -> NodeType] /\ x2.nodes[n] = y2 /\ DOMAIN x2.nodes = DOMAIN s.nodes
      /\ \A m \in DOMAIN s.nodes : m # n => x2.nodes[m] = s.nodes[m]
  BY <1>0, <1>2, <1>5
<1>8. IsState(x1) /\ IsState(x2)
  BY <1>1, <1>2, <1>6, <1>7 DEF IsState
<1>9. Pointing(s, x1, n, a, l)
  BY <1>1, <1>4, <1>6, <1>8 DEF Pointing, SameTree, z
<1>10. Pointing(s, x2, n, a, s.nodes[n].last)
  BY <1>2, <1>5, <1>7, <1>8 DEF Pointing, SameTree, z
<1>. QED BY <1>9, <1>10 DEF x1, x2

\* A step of the normalisation, at the container that is the exception, ends it;
\* elsewhere it leaves a sound layout sound. It does not fail.
LEMMA NormalizeNodeKeeps ==
    ASSUME NEW s, NEW n \in DOMAIN s.nodes, NEW e \in {None, n}, Forest(s, {}, e)
    PROVE  LET r == NormalizeNode(s, n) IN r.ok = TRUE /\ Forest(r.s, {}, None) /\ SameViews(s, r.s)
<1> DEFINE node == s.nodes[n]
           float == FloatByRoot(s, n)
           size == Len(node.kids)
           less == IF n = e THEN 1 ELSE 0
           Good(x) == Forest(x, {}, None) /\ SameViews(s, x)
<1>0. /\ IsState(s) /\ Rooted(s, {}) /\ s.nodes \in [DOMAIN s.nodes -> NodeType] /\ None \notin DOMAIN s.nodes
      /\ Shaped(s, e) /\ Pointed(s) /\ Shape(s)
  BY DEF Forest, IsState, None
<1>1. /\ node \in NodeType /\ node.kind \in {"view", "split", "tabs"} /\ size \in Nat
      /\ node.kids \in Seq(Nat) /\ less \in {0, 1} /\ node.active \in Nat
  BY <1>0 DEF NodeType
<1>2. Fits(node, less, Least(s, n)) /\ Least(s, n) \in {0, 1, 2}
  BY <1>0, ShapedIs DEF Least
<1>3. /\ IsSessionRoot(s, n) <=> n \in SessionRoots(s)
      /\ float = None <=> n \notin FloatRoots(s)
      /\ float # None => float \in DOMAIN s.floats /\ s.floats[float].root = n
  BY <1>0, IsSessionRootIs, FloatByRootIs
<1>4. SameViews(s, s)
  BY DEF SameViews
<1>5. ASSUME Fits(node, 0, Least(s, n)) PROVE Forest(s, {}, None)
  BY <1>5, ExceptionOver
<1>6. node.kind = "tabs" => node.active < size \/ (node.kids = <<>> /\ node.active = 0)
  BY <1>0 DEF Pointed
<1>7. node.kids = <<>> <=> size = 0
  BY <1>1, ShortLists
<1> HIDE DEF Good
<1>8. CASE node.kind = "view"
  <2>1. NormalizeNode(s, n) = [ok |-> TRUE, s |-> s, up |-> node.parent]
    BY <1>8, Zenon DEF NormalizeNode, Ok
  <2>2. Fits(node, 0, Least(s, n))
    BY <1>2, <1>8 DEF Fits
  <2>. QED BY <1>4, <1>5, <2>1, <2>2
<1>9. CASE size = 1 /\ (node.kind = "split" \/ (node.kind = "tabs" /\ n \notin SessionRoots(s) /\ float = None))
  <2> DEFINE c == Head(node.kids)
             r == ReplaceInOwner(s, n, c)
             x == DropNode(r.s, n)
  <2>1. Kids(s, n) = {c}
    <3>1. DOMAIN node.kids = {1} /\ node.kids[1] = c
      BY <1>1, <1>9
    <3>. QED BY <3>1 DEF Kids, ToSet
  <2>2. n \notin SessionRoots(s)
    <3>1. ASSUME node.kind = "split" PROVE n \notin SessionRoots(s)
      BY <1>0, <3>1 DEF Rooted, SessionRoots
    <3>. QED BY <1>9, <3>1
  <2>3. node.kind # "view"
    BY <1>9
  <2> HIDE DEF c
  <2>4. r.ok = TRUE /\ IsState(x) /\ Collapsed(s, x, n, c)
    BY <2>1, <2>2, CollapseIs
  <2>5. Forest(x, {}, None) /\ SameViews(s, x)
    <3> HIDE DEF x
    <3>. QED BY <2>1, <2>2, <2>3, <2>4, CollapseKeeps
  <2> HIDE DEF r
  <2>6. NormalizeNode(s, n) = [ok |-> TRUE, s |-> x, up |-> c]
    <3>1. NormalizeNode(s, n) =
            LET a == AndThen(r, LAMBDA v : Ok(DropNode(v, n))) IN [ok |-> a.ok, s |-> a.s, up |-> c]
      BY <1>3, <1>9 DEF NormalizeNode, r, c
    <3>. QED BY <2>4, <3>1 DEF AndThen, Ok
  <2>. QED BY <2>5, <2>6
<1>10. CASE node.kind = "split" /\ size # 1
  <2> DEFINE sizes == IF Len(node.sizes) = size /\ 0 \notin ToSet(node.sizes) THEN node.sizes
                      ELSE [i \in 1 .. size |-> 1]
             x == [s EXCEPT !.nodes[n].sizes = sizes]
  <2>1. size > 1 /\ Len(node.sizes) = size
    <3>1. size + less >= 2 /\ Len(node.sizes) = size
      BY <1>2, <1>10 DEF Fits
    <3> HIDE DEF size, less
    <3>. QED BY <1>1, <1>10, <3>1
  <2>2. NormalizeNode(s, n) = [ok |-> TRUE, s |-> x, up |-> node.parent]
    <3>1. size # 0 /\ node.kind # "tabs" /\ node.kind # "view"
      BY <1>1, <1>10, <2>1
    <3>2. x = [s EXCEPT !.nodes[n].sizes = IF Len(@) = size /\ 0 \notin ToSet(@) THEN @
                                           ELSE [i \in 1 .. size |-> 1]]
      OBVIOUS
    <3>. QED BY <1>10, <2>1, <3>1, <3>2, Zenon DEF NormalizeNode, Ok
  <2>3. sizes \in Seq(Nat) /\ Len(sizes) = Len(node.sizes)
    <3>1. [i \in 1 .. size |-> 1] \in Seq(Nat) /\ Len([i \in 1 .. size |-> 1]) = size
      BY <1>1
    <3>2. node.sizes \in Seq(Nat)
      BY <1>1 DEF NodeType
    <3>. QED BY <2>1, <3>1, <3>2
  <2>4. Forest(s, {}, None)
    <3>1. Fits(node, 0, Least(s, n))
      BY <1>1, <1>2, <1>10, <2>1 DEF Fits
    <3>. QED BY <1>5, <3>1
  <2> HIDE DEF sizes
  <2>5. Forest(x, {}, None) /\ SameViews(s, x)
    BY <1>10, <2>3, <2>4, SizesKeep
  <2>. QED BY <2>2, <2>5
<1>11. CASE node.kind = "tabs" /\ size = 0 /\ n \in SessionRoots(s)
  <2> DEFINE x == [s EXCEPT !.nodes[n].active = 0, !.nodes[n].last = None]
  <2>1. NormalizeNode(s, n) = [ok |-> TRUE, s |-> x, up |-> node.parent]
    BY <1>3, <1>11, Zenon DEF NormalizeNode, Ok
  <2>2. Forest(s, {}, None)
    <3>1. Least(s, n) = 0
      BY <1>11 DEF Least
    <3>2. Fits(node, 0, Least(s, n))
      BY <1>1, <1>2, <1>11, <3>1 DEF Fits
    <3>. QED BY <1>5, <3>2
  <2>3. Pointing(s, x, n, 0, None)
    BY <1>0, ActiveLastIs, Zenon DEF None
  <2> HIDE DEF x
  <2>4. Forest(x, {}, None) /\ SameTree(s, x)
    <3>1. 0 \in Nat /\ (0 < Len(s.nodes[n].kids) \/ (s.nodes[n].kids = <<>> /\ 0 = 0))
      BY <1>7, <1>11
    <3>2. /\ IsState(x) /\ SameTree(s, x) /\ x.sessions = s.sessions /\ x.floats = s.floats
          /\ \A m \in DOMAIN s.nodes : /\ x.nodes[m].active = IF m = n THEN 0 ELSE s.nodes[m].active
                                       /\ x.nodes[m].last \in {s.nodes[m].last, None}
      BY <2>3 DEF Pointing
    <3>. QED BY <2>2, <3>1, <3>2, TabsKeep
  <2>. QED BY <2>1, <2>4, SameTreeViews
<1>12. CASE node.kind = "tabs" /\ size = 0 /\ n \notin SessionRoots(s) /\ float # None
  <2> DEFINE x == DropNode(RemoveFloat(s, float), n)
  <2>1. NormalizeNode(s, n) = [ok |-> TRUE, s |-> x, up |-> None]
    BY <1>3, <1>12, Zenon DEF NormalizeNode, Ok
  <2>2. e = n
    <3>1. Least(s, n) = 1
      BY <1>3, <1>12 DEF Least
    <3>2. less # 0
      BY <1>1, <1>2, <1>12, <3>1 DEF Fits
    <3>. QED BY <3>2
  <2>3. Kids(s, n) = {} /\ node.kind # "view"
    BY <1>7, <1>12, ShortLists DEF Kids
  <2> HIDE DEF float
  <2>4. Forest(x, {}, None) /\ SameViews(s, x)
    BY <1>3, <1>12, <2>2, <2>3, DropPopupKeeps
  <2>. QED BY <2>1, <2>4
<1>13. CASE node.kind = "tabs" /\ size = 0 /\ n \notin SessionRoots(s) /\ float = None
  <2>1. Least(s, n) = 2
    BY <1>3, <1>13 DEF Least
  <2>. QED BY <1>1, <1>2, <1>13, <2>1 DEF Fits
<1>14. CASE node.kind = "tabs" /\ size # 0 /\ ~ (size = 1 /\ n \notin SessionRoots(s) /\ float = None)
  <2> DEFINE x == [s EXCEPT !.nodes[n].active = IF @ >= size THEN size - 1 ELSE @]
  <2>1. NormalizeNode(s, n) = [ok |-> TRUE, s |-> x, up |-> node.parent]
    BY <1>3, <1>14, Zenon DEF NormalizeNode, Ok
  <2>2. Forest(s, {}, None)
    <3>1. size >= Least(s, n)
      <4>1. CASE n \in SessionRoots(s)
        <5>1. Least(s, n) = 0
          BY <4>1 DEF Least
        <5> HIDE DEF size
        <5>. QED BY <1>1, <5>1
      <4>2. CASE n \notin SessionRoots(s) /\ float = None
        <5>1. Least(s, n) = 2 /\ size # 1 /\ size # 0
          BY <1>3, <1>14, <4>2 DEF Least
        <5> HIDE DEF size
        <5>. QED BY <1>1, <5>1
      <4>3. CASE n \notin SessionRoots(s) /\ float # None
        <5>1. Least(s, n) = 1 /\ size # 0
          BY <1>3, <1>14, <4>3 DEF Least
        <5> HIDE DEF size
        <5>. QED BY <1>1, <5>1
      <4>. QED BY <4>1, <4>2, <4>3
    <3>2. Fits(node, 0, Least(s, n))
      BY <1>1, <1>2, <1>14, <3>1 DEF Fits
    <3>. QED BY <1>5, <3>2
  <2>3. node.active < size
    BY <1>6, <1>7, <1>14
  <2>4. /\ x.nodes = [s.nodes EXCEPT ![n] = [s.nodes[n] EXCEPT !.active = node.active]]
        /\ Shape(x) /\ x.floats = s.floats /\ x.sessions = s.sessions /\ x.buffers = s.buffers
        /\ x.nextNode = s.nextNode /\ x.nextSession = s.nextSession /\ x.nextFloat = s.nextFloat
    BY <1>0, <1>1, <2>3 DEF Shape
  <2>5. x.nodes = s.nodes
    <3>1. [node EXCEPT !.active = node.active] = node
      <4> HIDE DEF node
      <4>. QED BY <1>1 DEF NodeType
    <3>. QED BY <1>0, <2>4, <3>1
  <2> HIDE DEF x
  <2>6. SameTree(s, x) /\ IsState(x) /\ SameMemory(s, x)
    BY <1>0, <2>4, <2>5 DEF SameTree, IsState, SameMemory
  <2>7. Forest(x, {}, None)
    BY <2>2, <2>6, SameMemoryForest
  <2>. QED BY <2>1, <2>6, <2>7, SameTreeViews
<1>. QED BY <1>1, <1>8, <1>9, <1>10, <1>11, <1>12, <1>13, <1>14

\* The walk upwards: each step from the one before.
WalkStep(r) == IF r.ok /\ r.up \in DOMAIN r.s.nodes THEN NormalizeNode(r.s, r.up) ELSE r
IsWalk(g, s, n, N) ==
    g = [k \in 0 .. N |-> IF k = 0 THEN [ok |-> TRUE, s |-> s, up |-> n] ELSE WalkStep(g[k - 1])]

\* The recursion of NormalizeUpwards ends.
LEMMA WalkExists ==
    ASSUME NEW s, NEW n, NEW N \in Nat
    PROVE  \E g : IsWalk(g, s, n, N)
<1> DEFINE a == [ok |-> TRUE, s |-> s, up |-> n]
           Bad == {m \in Nat : ~ \E g : IsWalk(g, s, n, m)}
<1> SUFFICES ASSUME Bad # {} PROVE FALSE
  OBVIOUS
<1>1. PICK m \in Bad : \A j \in Bad : m <= j
  BY NatMin
<1>2. m # 0
  <2>1. IsWalk([k \in 0 .. 0 |-> a], s, n, 0)
    BY DEF IsWalk
  <2>. QED BY <1>1, <2>1
<1>3. PICK g : IsWalk(g, s, n, m - 1)
  BY <1>1, <1>2
<1> HIDE DEF a
<1> DEFINE last == WalkStep(g[m - 1])
           h == [k \in 0 .. m |-> IF k = m THEN last ELSE g[k]]
<1>4. \A k \in 0 .. m : h[k] = IF k = 0 THEN a ELSE WalkStep(h[k - 1])
  <2>1. \A k \in 0 .. m - 1 : g[k] = IF k = 0 THEN a ELSE WalkStep(g[k - 1])
    BY <1>3 DEF IsWalk, a
  <2>2. \A k \in 0 .. m - 1 : h[k] = g[k]
    BY <1>1
  <2>3. h[m] = last
    BY <1>1
  <2> HIDE DEF h
  <2>4. last = WalkStep(h[m - 1])
    BY <1>1, <1>2, <2>2
  <2>5. ASSUME NEW k \in 0 .. m - 1 PROVE h[k] = IF k = 0 THEN a ELSE WalkStep(h[k - 1])
    BY <2>1, <2>2
  <2>6. \A k \in 0 .. m : k = m \/ k \in 0 .. m - 1
    BY <1>1
  <2>7. h[m] = IF m = 0 THEN a ELSE WalkStep(h[m - 1])
    BY <1>2, <2>3, <2>4
  <2> HIDE DEF last
  <2>. QED BY <2>5, <2>6, <2>7
<1>5. h = [k \in 0 .. m |-> h[k]]
  OBVIOUS
<1> HIDE DEF h
<1>6. IsWalk(h, s, n, m)
  BY <1>4, <1>5 DEF IsWalk, a
<1>. QED BY <1>1, <1>6

\* Normalising upwards from the container that is the exception leaves a sound
\* layout, with the same views. It does not fail.
LEMMA NormalizeUpwardsKeeps ==
    ASSUME NEW s, NEW n \in DOMAIN s.nodes, NEW e \in {None, n}, Forest(s, {}, e)
    PROVE  LET r == NormalizeUpwards(s, n) IN r.ok = TRUE /\ Forest(r.s, {}, None) /\ SameViews(s, r.s)
<1> DEFINE N == 2 * Cardinality(DOMAIN s.nodes) + 1
           g == CHOOSE g : IsWalk(g, s, n, N)
<1>1. N \in Nat /\ N >= 1
  <2>1. DOMAIN s.nodes \subseteq 1 .. s.nextNode - 1 /\ s.nextNode - 1 \in Int
    BY DEF Forest, IsState
  <2>2. IsFiniteSet(1 .. s.nextNode - 1)
    BY <2>1, FS_Interval
  <2>3. IsFiniteSet(DOMAIN s.nodes)
    BY <2>1, <2>2, FS_Subset
  <2>4. Cardinality(DOMAIN s.nodes) \in Nat
    BY <2>3, FS_CardinalityType
  <2>. QED BY <2>4
<1>2. NormalizeUpwards(s, n) = [ok |-> g[N].ok, s |-> g[N].s]
  BY Zenon DEF NormalizeUpwards, IsWalk, WalkStep
<1> HIDE DEF N
<1>3. IsWalk(g, s, n, N)
  BY <1>1, WalkExists
<1> HIDE DEF g
<1> DEFINE Bad == {k \in Nat : k \in 1 .. N
                     /\ ~ (g[k].ok = TRUE /\ Forest(g[k].s, {}, None) /\ SameViews(s, g[k].s))}
<1>4. Bad = {}
  <2> SUFFICES ASSUME Bad # {} PROVE FALSE
    OBVIOUS
  <2>1. PICK k \in Bad : \A j \in Bad : k <= j
    BY NatMin
  <2>2. k \in 1 .. N /\ g[k] = WalkStep(g[k - 1])
    <3> DEFINE a == [ok |-> TRUE, s |-> s, up |-> n]
    <3>1. g = [j \in 0 .. N |-> IF j = 0 THEN a ELSE WalkStep(g[j - 1])]
      BY <1>3 DEF IsWalk
    <3>2. k \in 1 .. N /\ k \in 0 .. N /\ k # 0
      BY <1>1, <2>1
    <3> HIDE DEF a
    <3>. QED BY <3>1, <3>2
  <2>3. CASE k = 1
    <3>1. g[0].ok = TRUE /\ g[0].s = s /\ g[0].up = n
      BY <1>1, <1>3 DEF IsWalk
    <3>2. g[1] = NormalizeNode(s, n)
      BY <2>2, <2>3, <3>1 DEF WalkStep
    <3>. QED BY <2>1, <2>3, <3>2, NormalizeNodeKeeps
  <2>4. CASE k # 1
    <3> DEFINE r == g[k - 1]
    <3>1. r.ok = TRUE /\ Forest(r.s, {}, None) /\ SameViews(s, r.s)
      <4>1. k - 1 \in Nat /\ k - 1 \in 1 .. N /\ ~ (k <= k - 1)
        BY <1>1, <2>1, <2>2, <2>4
      <4>2. k - 1 \notin Bad
        BY <2>1, <4>1
      <4>. QED BY <4>1, <4>2
    <3> HIDE DEF r
    <3>2. CASE r.up \notin DOMAIN r.s.nodes
      <4>1. g[k] = r
        BY <2>2, <3>2 DEF WalkStep, r
      <4>. QED BY <2>1, <3>1, <4>1
    <3>3. CASE r.up \in DOMAIN r.s.nodes
      <4>1. g[k] = NormalizeNode(r.s, r.up)
        BY <2>2, <3>1, <3>3 DEF WalkStep, r
      <4>2. g[k].ok = TRUE /\ Forest(g[k].s, {}, None) /\ SameViews(r.s, g[k].s)
        BY <3>1, <3>3, <4>1, NormalizeNodeKeeps
      <4>3. SameViews(s, g[k].s)
        BY <3>1, <4>2, SameViewsTrans
      <4>. QED BY <2>1, <4>2, <4>3
    <3>. QED BY <3>2, <3>3
  <2>. QED BY <2>3, <2>4
<1>5. N \in 1 .. N
  BY <1>1
<1>6. g[N].ok = TRUE /\ Forest(g[N].s, {}, None) /\ SameViews(s, g[N].s)
  BY <1>1, <1>4, <1>5
<1>. QED BY <1>2, <1>6
=============================================================================
