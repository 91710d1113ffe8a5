-------------------------- MODULE ConnectionsProofs --------------------------
(***************************************************************************)
(* What holds of the server's connections for any number of connections,   *)
(* sessions and buffers, any queue capacity and any requests.              *)
(***************************************************************************)
EXTENDS Connections, FiniteSetTheorems, WellFoundedInduction, TLAPS

------------------------------------------------------------------------------
(* Least members, and what a filter (EventFeed's Wanted) keeps *)

\* A set of numbers that is not empty has a least member. A claim about every
\* number follows from it: a least counterexample cannot exist.
LEMMA NatMin ==
    ASSUME NEW X \in SUBSET Nat, X # {}
    PROVE  \E x \in X : \A y \in X : x <= y
<1>1. IsWellFoundedOn(OpToRel(<, Nat), Nat)
  BY NatLessThanWellFounded
<1>2. PICK x \in X : \A y \in X : ~ (<<y, x>> \in OpToRel(<, Nat))
  BY <1>1, WFMin
<1>3. \A y \in X : ~ (y < x)
  BY <1>2 DEF OpToRel
<1>. QED BY <1>3

\* What is kept of the first k elements of s, those with an index in K.
IsFilter(g, s, K, n) ==
    g = [k \in 0 .. n |-> IF k = 0 THEN <<>>
                          ELSE IF k \in K THEN Append(g[k - 1], s[k]) ELSE g[k - 1]]

\* The filter of the first N elements exists: its recursion is well founded.
LEMMA FilterExists ==
    ASSUME NEW s, NEW K, NEW N \in Nat
    PROVE  \E g : IsFilter(g, s, K, N)
<1> DEFINE Bad == {n \in Nat : ~ \E g : IsFilter(g, s, K, n)}
<1> SUFFICES ASSUME Bad # {} PROVE FALSE
  OBVIOUS
<1>1. PICK n \in Bad : \A m \in Bad : n <= m
  BY NatMin
<1>2. n # 0
  <2>1. IsFilter([k \in 0 .. 0 |-> <<>>], s, K, 0)
    BY DEF IsFilter
  <2>. QED BY <1>1, <2>1
<1>3. PICK g : IsFilter(g, s, K, n - 1)
  BY <1>1, <1>2
<1> DEFINE last == IF n \in K THEN Append(g[n - 1], s[n]) ELSE g[n - 1]
           h == [k \in 0 .. n |-> IF k = n THEN last ELSE g[k]]
<1>4. \A k \in 0 .. n : h[k] = IF k = 0 THEN <<>>
                               ELSE IF k \in K THEN Append(h[k - 1], s[k]) ELSE h[k - 1]
  <2>1. \A k \in 0 .. n - 1 : g[k] = IF k = 0 THEN <<>>
                                     ELSE IF k \in K THEN Append(g[k - 1], s[k]) ELSE g[k - 1]
    BY <1>3 DEF IsFilter
  <2>2. \A k \in 0 .. n - 1 : h[k] = g[k]
    BY <1>1
  <2>3. h[n] = last
    BY <1>1
  <2> HIDE DEF h
  <2>4. last = IF n \in K THEN Append(h[n - 1], s[n]) ELSE h[n - 1]
    BY <1>1, <1>2, <2>2
  <2>5. ASSUME NEW k \in 0 .. n - 1
        PROVE  h[k] = IF k = 0 THEN <<>>
                      ELSE IF k \in K THEN Append(h[k - 1], s[k]) ELSE h[k - 1]
    BY <2>1, <2>2
  <2>. QED BY <1>1, <1>2, <2>3, <2>4, <2>5
<1>5. IsFilter(h, s, K, n)
  <2>1. h = [k \in 0 .. n |-> h[k]]
    OBVIOUS
  <2> HIDE DEF h
  <2>. QED BY <1>4, <2>1 DEF IsFilter
<1>. QED BY <1>1, <1>5

\* What a filter keeps are elements of the sequence, and no more of them.
LEMMA FilterType ==
    ASSUME NEW S, NEW s \in Seq(S), NEW K, NEW g, IsFilter(g, s, K, Len(s)),
           NEW k \in 0 .. Len(s)
    PROVE  g[k] \in Seq(S) /\ Len(g[k]) <= k
<1> DEFINE Bad == {n \in Nat : n <= Len(s) /\ ~ (g[n] \in Seq(S) /\ Len(g[n]) <= n)}
<1> SUFFICES ASSUME Bad # {} PROVE FALSE
  OBVIOUS
<1>1. PICK n \in Bad : \A m \in Bad : n <= m
  BY NatMin
<1>2. \A m \in 0 .. Len(s) : g[m] = IF m = 0 THEN <<>>
                                    ELSE IF m \in K THEN Append(g[m - 1], s[m]) ELSE g[m - 1]
  BY DEF IsFilter
<1>3. ASSUME n = 0 PROVE FALSE
  <2>1. g[0] = <<>>
    BY <1>2
  <2>2. <<>> \in Seq(S) /\ Len(<<>>) = 0
    OBVIOUS
  <2>. QED BY <1>1, <1>3, <2>1, <2>2
<1>4. g[n - 1] \in Seq(S) /\ Len(g[n - 1]) <= n - 1 /\ Len(g[n - 1]) \in Nat
  BY <1>1, <1>3
<1>5. s[n] \in S /\ n \in 0 .. Len(s)
  BY <1>1, <1>3
<1>6. CASE n \in K
  <2>1. g[n] = Append(g[n - 1], s[n])
    BY <1>2, <1>3, <1>5, <1>6
  <2>2. Append(g[n - 1], s[n]) \in Seq(S) /\ Len(Append(g[n - 1], s[n])) = Len(g[n - 1]) + 1
    BY <1>4, <1>5
  <2>3. g[n] \in Seq(S) /\ Len(g[n]) = Len(g[n - 1]) + 1
    BY <2>1, <2>2, Zenon
  <2> HIDE DEF Bad
  <2>4. n \in Nat /\ n <= Len(s) /\ ~ (g[n] \in Seq(S) /\ Len(g[n]) <= n)
    BY <1>1 DEF Bad
  <2>. QED BY <1>4, <2>3, <2>4
<1>7. CASE n \notin K
  <2>1. g[n] = g[n - 1]
    BY <1>2, <1>3, <1>5, <1>7
  <2>. QED BY <1>1, <1>4, <2>1
<1>. QED BY <1>6, <1>7

------------------------------------------------------------------------------
(* The inductive invariant *)

\* A request that works on a client, or on a closed session, has it in hand.
InHand ==
    \A c \in Conn :
        /\ pc[c] \in {"switched", "display", "detach", "wait"} => work[c].target \in Conn
        /\ pc[c] = "closed" => work[c].session \in Session

\* Where only a connection that ended can be, and where one that ended and one
\* that serves a request can.
Ending == {"closing", "flush", "cleanup", "unsubscribe", "lastFlush", "done"}
Shared == {"sync", "tell", "watchRead", "watchWrite"}

\* How far a connection has come agrees with how it ended and with its writer.
Phases ==
    \A c \in Conn :
        /\ pc[c] \in Ending => exit[c] # "none"
        /\ exit[c] # "none" => pc[c] \in Ending \cup Shared
        /\ pc[c] = "closing" => exit[c] = "closed"
        /\ pc[c] = "flush" => exit[c] = "self"
        /\ pc[c] = "lastFlush" => exit[c] = "stopped"
        /\ writer[c] = "none" <=> pc[c] = "none"
        /\ pc[c] = "none" => clients[c] = None /\ subs[c] = None
        /\ writer[c] # "running" => out[c] = <<>>

\* What the cleanup of a connection took away does not come back.
CleanedUp ==
    \A c \in Conn : exit[c] # "none" /\ pc[c] \notin {"closing", "flush"} =>
        /\ pc[c] # "cleanup" => clients[c] = None
        /\ pc[c] \notin {"cleanup", "unsubscribe"} => subs[c] = None
        /\ exit[c] \in {"closed", "self"} \/ pc[c] = "done" => writer[c] = "ended"

\* Some client answers graphics queries.
Answers == \E c \in Conn : clients[c] # None /\ clients[c].graphics

\* Whoever is about to tell the keepers holds the lock.
TellerHolds == \A c \in Conn : syncing = c <=> pc[c] = "tell"

\* When the keepers were told something else, somebody has still to tell them.
ToldOrDue == told = Answers \/ \E c \in Conn : SyncDue(c)

\* When what connection c is about to tell is out of date, somebody will tell
\* them again afterwards: another connection, or c, detached meanwhile.
ReadOrDue ==
    \A c \in Conn : pc[c] = "tell" /\ work[c].on # Answers =>
        \/ \E d \in Conn \ {c} : SyncDue(d)
        \/ clients[c] = None /\ exit[c] = "none"

ConnectionsInv ==
    /\ TypeOK /\ InHand /\ Phases /\ CleanedUp /\ ShownSessionExists
    /\ TellerHolds /\ ToldOrDue /\ ReadOrDue
------------------------------------------------------------------------------
(* Events, batches and what a subscriber wants of them *)

\* A batch is a sequence of events.
LEMMA BatchTypes == Batches \subseteq Seq(Event) /\ Feed!Notice \in Event
<1>1. Cardinality(Conn) \in Nat
  BY ConnectionConstants, FS_CardinalityType
<1>2. ASSUME NEW s \in Session, NEW n \in 0 .. Cardinality(Conn)
      PROVE  ClosedEvents(s, n) \in Seq(Event)
  <2>1. n \in Nat /\ Closed(s) \in Event /\ ClientChanged({s}) \in Event
    BY <1>1 DEF Closed, ClientChanged, Event
  <2>2. [i \in 1 .. n |-> ClientChanged({s})] \in Seq(Event)
    BY <2>1
  <2> HIDE DEF Event
  <2>. QED BY <2>1, <2>2 DEF ClosedEvents
<1>3. <<>> \in Seq(Event) /\ <<Output>> \in Seq(Event)
  BY DEF Output, Event
<1>4. \A s \in Session : <<Changed(s)>> \in Seq(Event)
  BY DEF Changed, Event
<1>5. \A S \in SUBSET Session : <<ClientChanged(S)>> \in Seq(Event)
  BY DEF ClientChanged, Event
<1>6. Feed!Notice \in Event
  BY DEF Feed!Notice, Event
<1>7. ASSUME NEW es \in Batches PROVE es \in Seq(Event)
  <2> HIDE DEF Event
  <2>1. \/ es \in {<<>>, <<Output>>}
        \/ \E s \in Session : es = <<Changed(s)>>
        \/ \E S \in SUBSET Session : es = <<ClientChanged(S)>>
        \/ \E s \in Session, n \in 0 .. Cardinality(Conn) : es = ClosedEvents(s, n)
    BY DEF Batches
  <2>. QED BY <1>2, <1>3, <1>4, <1>5, <2>1, Zenon
<1>. QED BY <1>6, <1>7

\* The batches the requests put together.
LEMMA BatchMembers ==
    /\ <<>> \in Batches /\ <<Output>> \in Batches
    /\ \A s \in Session : <<Changed(s)>> \in Batches
    /\ \A S \in SUBSET Session : <<ClientChanged(S)>> \in Batches
    /\ \A s \in Session, D \in SUBSET Conn : ClosedEvents(s, Cardinality(D)) \in Batches
<1>1. ASSUME NEW s \in Session, NEW D \in SUBSET Conn
      PROVE  ClosedEvents(s, Cardinality(D)) \in Batches
  <2>1. Cardinality(D) <= Cardinality(Conn) /\ Cardinality(D) \in Nat
    BY ConnectionConstants, FS_Subset, FS_CardinalityType
  <2>2. Cardinality(D) \in 0 .. Cardinality(Conn)
    BY <2>1, ConnectionConstants, FS_CardinalityType
  <2>. QED BY <2>2 DEF Batches
<1>. QED BY <1>1 DEF Batches

\* What a subscriber wants of a batch is a sequence of events no longer than it.
LEMMA WantedType ==
    ASSUME NEW i, NEW es \in Seq(Event)
    PROVE  Feed!Wanted(i, es) \in Seq(Event) /\ Len(Feed!Wanted(i, es)) <= Len(es)
<1> DEFINE K == {k \in 1 .. Len(es) : Feed!Wants(i, es[k])}
           F(g) == g = [k \in 0 .. Len(es) |->
                          IF k = 0 THEN <<>>
                          ELSE IF Feed!Wants(i, es[k]) THEN Append(g[k - 1], es[k])
                          ELSE g[k - 1]]
           kept == CHOOSE g : F(g)
<1>1. ASSUME NEW g PROVE F(g) <=> IsFilter(g, es, K, Len(es))
  <2>1. \A k \in 0 .. Len(es) :
           (IF k = 0 THEN <<>> ELSE IF Feed!Wants(i, es[k]) THEN Append(g[k - 1], es[k])
                               ELSE g[k - 1])
         = (IF k = 0 THEN <<>> ELSE IF k \in K THEN Append(g[k - 1], es[k]) ELSE g[k - 1])
    OBVIOUS
  <2>. QED BY <2>1 DEF IsFilter
<1>2. PICK g : IsFilter(g, es, K, Len(es))
  <2>1. Len(es) \in Nat
    OBVIOUS
  <2>. QED BY <2>1, FilterExists
<1>3. F(kept)
  <2>1. F(g)
    BY <1>1, <1>2
  <2> HIDE DEF F
  <2>. QED BY <2>1
<1>4. IsFilter(kept, es, K, Len(es))
  BY <1>1, <1>3
<1>5. Feed!Wanted(i, es) = kept[Len(es)]
  BY DEF Feed!Wanted
<1> HIDE DEF kept, F, K, Event
<1>6. kept[Len(es)] \in Seq(Event) /\ Len(kept[Len(es)]) <= Len(es)
  BY <1>4, FilterType
<1>. QED BY <1>5, <1>6

\* How much of a batch is sent to a connection: no more than it wants, than the
\* batch has and than its queue has room for.
LEMMA FitsType ==
    ASSUME TypeOK, NEW c \in Conn, NEW es \in Seq(Event)
    PROVE  /\ Fits(c, es) \in 0 .. Len(es)
           /\ Fits(c, es) <= Len(Feed!Wanted(subs[c], es))
           /\ Fits(c, es) <= Capacity - Len(out[c])
<1> DEFINE w == Feed!Wanted(subs[c], es)
<1>1. w \in Seq(Event) /\ Len(w) <= Len(es) /\ Len(w) \in Nat /\ Len(es) \in Nat
  BY WantedType
<1>2. Len(out[c]) \in Nat /\ Len(out[c]) <= Capacity /\ Capacity \in Nat
  BY ConnectionConstants DEF TypeOK
<1>3. Fits(c, es) = IF writer[c] # "running" THEN 0
                    ELSE IF Len(w) <= Capacity - Len(out[c]) THEN Len(w)
                    ELSE Capacity - Len(out[c])
  BY DEF Fits, Room
<1> DEFINE f == Fits(c, es)
           l == Len(w)
           o == Len(out[c])
           e == Len(es)
<1>4. /\ l \in Nat /\ e \in Nat /\ o \in Nat /\ Capacity \in Nat
      /\ l <= e /\ o <= Capacity
      /\ f = IF writer[c] # "running" THEN 0 ELSE IF l <= Capacity - o THEN l ELSE Capacity - o
  BY <1>1, <1>2, <1>3
<1> HIDE DEF f, l, o, e
<1>5. f \in 0 .. e /\ f <= l /\ f <= Capacity - o
  BY <1>4
<1>. QED BY <1>5 DEF f, l, o, e
------------------------------------------------------------------------------
(* Types *)

\* The types of the tasks, of the queues, and of the rest.
TaskOK ==
    /\ pc \in [Conn -> Steps]
    /\ exit \in [Conn -> {"none", "closed", "self", "stopped"}]
    /\ work \in [Conn -> Work]
    /\ requests \in [Conn -> 0 .. MaxRequests]

QueueOK ==
    /\ subs \in [Conn -> Session \cup {All, None}]
    /\ out \in [Conn -> Seq(Event)]
    /\ \A c \in Conn : Len(out[c]) <= Capacity
    /\ writer \in [Conn -> {"none", "running", "ended"}]

RestOK ==
    /\ clients \in [Conn -> Client \cup {None}]
    /\ asked \in [Conn -> BOOLEAN]
    /\ peer \in [Conn -> {"reading", "stalled", "gone"}]
    /\ sessions \subseteq Session
    /\ told \in BOOLEAN
    /\ syncing \in Conn \cup {None}
    /\ flag \in [Buffer -> BOOLEAN]
    /\ server \in {"running", "stopping", "closed", "stopped"}

\* The type invariant is these three.
LEMMA TypeParts == TypeOK <=> TaskOK /\ QueueOK /\ RestOK
  BY DEF TypeOK, TaskOK, QueueOK, RestOK

\* ... and so it is after a step.
LEMMA TypePartsNext == TypeOK' <=> TaskOK' /\ QueueOK' /\ RestOK'
  BY DEF TypeOK, TaskOK, QueueOK, RestOK

\* The work of a request that has nothing in hand.
LEMMA IdleType == Idle \in Work
  BY BatchMembers DEF Idle, Work

\* A broadcast keeps the queues typed and within their bound.
LEMMA BroadcastTypes ==
    ASSUME TypeOK, NEW es \in Batches, NEW retired, Broadcast(es, retired)
    PROVE  QueueOK'
<1>1. es \in Seq(Event)
  BY BatchTypes
<1>2. ASSUME NEW c \in Conn
      PROVE  out'[c] \in Seq(Event) /\ Len(out'[c]) <= Capacity
  <2> DEFINE w == Feed!Wanted(subs[c], es)
             f == Fits(c, es)
             q == out[c]
  <2>1. w \in Seq(Event) /\ q \in Seq(Event) /\ Len(q) \in Nat /\ Len(w) \in Nat
    BY <1>1, WantedType DEF TypeOK
  <2>2. f \in Nat /\ f <= Len(w) /\ f <= Capacity - Len(q)
    BY <1>1, FitsType
  <2>3. out'[c] = q \o SubSeq(w, 1, f)
    BY DEF Broadcast
  <2> HIDE DEF w, f, q, Event
  <2>4. SubSeq(w, 1, f) \in Seq(Event) /\ Len(SubSeq(w, 1, f)) = f
    BY <2>1, <2>2
  <2>5. q \o SubSeq(w, 1, f) \in Seq(Event) /\ Len(q \o SubSeq(w, 1, f)) = Len(q) + f
    BY <2>1, <2>2, <2>4
  <2>6. Capacity \in Nat
    BY ConnectionConstants
  <2>. QED BY <2>1, <2>2, <2>3, <2>5, <2>6
<1>3. out' \in [Conn -> Seq(Event)] /\ \A c \in Conn : Len(out'[c]) <= Capacity
  <2>1. out' = [c \in Conn |-> out'[c]]
    BY DEF Broadcast
  <2>. QED BY <1>2, <2>1
<1>4. subs' \in [Conn -> Session \cup {All, None}]
  BY DEF Broadcast, TypeOK
<1>5. writer' \in [Conn -> {"none", "running", "ended"}]
  BY DEF Broadcast, TypeOK
<1>. QED BY <1>3, <1>4, <1>5 DEF QueueOK

\* One more notice in a queue that has room.
LEMMA NoticeTypes ==
    ASSUME TypeOK, NEW c \in Conn, Room(c) > 0,
           out' = [out EXCEPT ![c] = Append(@, Feed!Notice)], UNCHANGED <<subs, writer>>
    PROVE  QueueOK'
<1>1. out[c] \in Seq(Event) /\ Feed!Notice \in Event
  BY BatchTypes DEF TypeOK
<1>2. Len(out[c]) \in Nat /\ Len(out[c]) < Capacity /\ Capacity \in Nat
  BY ConnectionConstants DEF TypeOK, Room
<1> HIDE DEF Event
<1>3. /\ Append(out[c], Feed!Notice) \in Seq(Event)
      /\ Len(Append(out[c], Feed!Notice)) = Len(out[c]) + 1
  BY <1>1
<1>4. Len(Append(out[c], Feed!Notice)) <= Capacity
  BY <1>2, <1>3
<1>5. /\ out' \in [Conn -> Seq(Event)]
      /\ \A d \in Conn : Len(out'[d]) <= Capacity
  BY <1>3, <1>4 DEF TypeOK
<1>. QED BY <1>5 DEF TypeOK, QueueOK

\* A notice that is sent if there is room.
LEMMA TrySendTypes ==
    ASSUME TypeOK, NEW c \in Conn, TrySend(c)
    PROVE  QueueOK'
<1>1. CASE writer[c] = "running" /\ Room(c) > 0
  BY <1>1, NoticeTypes DEF TrySend
<1>2. CASE ~ (writer[c] = "running" /\ Room(c) > 0)
  BY <1>2 DEF TrySend, TypeOK, QueueOK
<1>. QED BY <1>1, <1>2

\* Emptying the queue of a connection and ending its writer.
LEMMA EndTypes ==
    ASSUME TypeOK, NEW c \in Conn, UNCHANGED subs,
           writer' = [writer EXCEPT ![c] = "ended"], out' = [out EXCEPT ![c] = <<>>]
    PROVE  QueueOK'
<1>1. <<>> \in Seq(Event) /\ Len(<<>>) = 0 /\ 0 <= Capacity
  BY ConnectionConstants
<1>2. /\ out' \in [Conn -> Seq(Event)]
      /\ \A d \in Conn : Len(out'[d]) <= Capacity
  BY <1>1 DEF TypeOK
<1>. QED BY <1>2 DEF TypeOK, QueueOK

\* A task that goes on.
LEMMA GotoTypes ==
    ASSUME TypeOK, NEW c \in Conn, NEW step \in Steps, NEW w \in Work, Goto(c, step, w)
    PROVE  TaskOK'
  BY DEF Goto, TypeOK, TaskOK

\* A task that takes a request.
LEMMA TakeTypes ==
    ASSUME TypeOK, NEW c \in Conn, NEW ask, NEW step \in Steps, NEW w \in Work,
           Take(c, ask, step, w)
    PROVE  TaskOK'
<1>1. requests[c] + 1 \in 0 .. MaxRequests
  BY ConnectionConstants DEF Take, TypeOK
<1>. QED BY <1>1 DEF Take, TypeOK, TaskOK

\* A task that ends.
LEMMA LeavesTypes ==
    ASSUME TypeOK, NEW c \in Conn, NEW how \in {"none", "closed", "self", "stopped"},
           NEW step \in Steps, Leaves(c, how, step)
    PROVE  TaskOK'
  BY DEF Leaves, TypeOK, TaskOK

\* What a step does not touch keeps its type.
LEMMA SameTypes ==
    ASSUME TypeOK
    PROVE  /\ UNCHANGED task => TaskOK'
           /\ UNCHANGED queues => QueueOK'
           /\ UNCHANGED rest => RestOK'
  BY DEF TypeOK, TaskOK, QueueOK, RestOK, task, queues, rest

\* Taking a request keeps the types.
LEMMA AskTypes ==
    ASSUME TypeOK, InHand, NEW c \in Conn, Ask(c)
    PROVE  TypeOK'
<1> USE TypePartsNext, SameTypes, IdleType
<1>0. /\ {"reply", "closed", "switched", "display", "sync", "watching", "watchRead",
          "detach"} \subseteq Steps
      /\ \A d \in Conn : clients[d] \in Client \cup {None}
  BY DEF Steps, TypeOK
<1>1. ASSUME NEW i \in Session \cup {All}, AskSubscribe(c, i) PROVE TypeOK'
  <2>1. TaskOK'
    BY <1>0, <1>1, TakeTypes DEF AskSubscribe
  <2>2. QueueOK'
    BY <1>1 DEF AskSubscribe, TypeOK, QueueOK
  <2>. QED BY <1>1, <2>1, <2>2 DEF AskSubscribe
<1>2. ASSUME AskUnsubscribe(c) PROVE TypeOK'
  <2>1. TaskOK'
    BY <1>0, <1>2, TakeTypes DEF AskUnsubscribe
  <2>2. QueueOK'
    BY <1>2 DEF AskUnsubscribe, TypeOK, QueueOK
  <2>. QED BY <1>2, <2>1, <2>2 DEF AskUnsubscribe
<1>3. ASSUME NEW s \in Session, AskChange(c, s) PROVE TypeOK'
  <2> DEFINE w == IF s \in sessions THEN [Idle EXCEPT !.events = <<Changed(s)>>] ELSE Idle
  <2>1. w \in Work
    BY BatchMembers DEF Idle, Work
  <2>2. Take(c, "change", "reply", w)
    BY <1>3 DEF AskChange
  <2> HIDE DEF w
  <2>3. TaskOK'
    BY <1>0, <2>1, <2>2, TakeTypes
  <2>. QED BY <1>3, <2>3 DEF AskChange
<1>4. ASSUME NEW s \in Session, AskClose(c, s) PROVE TypeOK'
  <2> DEFINE w == [Idle EXCEPT !.session = s, !.conns = {d \in Conn : ShowsSession(d, s)}]
  <2>1. w \in Work
    BY BatchMembers DEF Idle, Work
  <2>2. \/ Take(c, "close", "closed", w) /\ ClearClientSession(s)
        \/ Take(c, "close", "reply", Idle) /\ UNCHANGED clients
    BY <1>4 DEF AskClose
  <2> HIDE DEF w
  <2>3. TaskOK'
    BY <1>0, <2>1, <2>2, TakeTypes
  <2>4. clients' \in [Conn -> Client \cup {None}]
    <3>1. CASE ClearClientSession(s)
      <4>1. \A d \in Conn : clients[d] \in Client => [clients[d] EXCEPT !.session = None] \in Client
        BY DEF Client
      <4>2. \A d \in Conn : ShowsSession(d, s) => clients[d] \in Client
        BY <1>0 DEF ShowsSession
      <4>. QED BY <1>0, <3>1, <4>1, <4>2 DEF ClearClientSession
    <3>. QED BY <2>2, <3>1 DEF TypeOK
  <2>5. RestOK' /\ UNCHANGED queues
    BY <1>4, <2>4 DEF AskClose, TypeOK, RestOK
  <2>. QED BY <2>3, <2>5
<1>5. ASSUME NEW t \in Conn, NEW s \in Session, AskSwitch(c, t, s) PROVE TypeOK'
  <2> DEFINE w == [Idle EXCEPT !.target = t, !.session = clients[t].session]
  <2>1. clients[t] # None => w \in Work /\ [clients[t] EXCEPT !.session = s] \in Client
    BY <1>0, BatchMembers DEF Idle, Work, Client
  <2>2. \/ /\ clients[t] # None /\ Take(c, "switch", "switched", w)
           /\ clients' = [clients EXCEPT ![t].session = s]
        \/ Take(c, "switch", "reply", Idle) /\ UNCHANGED clients
    BY <1>5 DEF AskSwitch
  <2> HIDE DEF w
  <2>3. TaskOK'
    BY <1>0, <2>1, <2>2, TakeTypes
  <2>4. clients' \in [Conn -> Client \cup {None}]
    BY <2>1, <2>2 DEF TypeOK
  <2>5. RestOK' /\ UNCHANGED queues
    BY <1>5, <2>4 DEF AskSwitch, TypeOK, RestOK
  <2>. QED BY <2>3, <2>5
<1>6. ASSUME NEW t \in Conn, AskDisplay(c, t) PROVE TypeOK'
  <2> DEFINE w == [Idle EXCEPT !.target = t]
  <2>1. w \in Work
    BY BatchMembers DEF Idle, Work
  <2>2. Take(c, "display", "reply", Idle) \/ Take(c, "display", "display", w)
    BY <1>6 DEF AskDisplay
  <2> HIDE DEF w
  <2>3. TaskOK'
    BY <1>0, <2>1, <2>2, TakeTypes
  <2>. QED BY <1>6, <2>3 DEF AskDisplay
<1>7. ASSUME NEW t \in Conn, AskDetach(c, t) PROVE TypeOK'
  <2> DEFINE w == [Idle EXCEPT !.target = t]
  <2>1. w \in Work
    BY BatchMembers DEF Idle, Work
  <2>2. Take(c, "detach", "reply", Idle) \/ Take(c, "detach", "detach", w)
    BY <1>7 DEF AskDetach
  <2> HIDE DEF w
  <2>3. TaskOK'
    BY <1>0, <2>1, <2>2, TakeTypes
  <2>4. RestOK' /\ UNCHANGED queues
    BY <1>7 DEF AskDetach, TypeOK, RestOK
  <2>. QED BY <2>3, <2>4
<1>8. ASSUME NEW on \in BOOLEAN, AskGraphics(c, on) PROVE TypeOK'
  <2>1. TaskOK'
    BY <1>0, <1>8, TakeTypes DEF AskGraphics
  <2>2. clients[c] # None => [clients[c] EXCEPT !.graphics = on] \in Client
    BY <1>0 DEF Client
  <2>3. clients' \in [Conn -> Client \cup {None}]
    BY <1>8, <2>2 DEF AskGraphics, TypeOK
  <2>4. RestOK' /\ UNCHANGED queues
    BY <1>8, <2>3 DEF AskGraphics, TypeOK, RestOK
  <2>. QED BY <2>1, <2>4
<1>9. ASSUME NEW b \in Buffer, AskWatch(c, b) \/ AskUnwatch(c, b) PROVE TypeOK'
  <2> DEFINE w == [Idle EXCEPT !.buffers = {b}]
  <2>1. w \in Work
    BY BatchMembers DEF Idle, Work
  <2>2. Take(c, "watch", "watching", w) \/ Take(c, "watch", "watchRead", w)
    BY <1>9 DEF AskWatch, AskUnwatch
  <2> HIDE DEF w
  <2>3. TaskOK'
    BY <1>0, <2>1, <2>2, TakeTypes
  <2>4. clients[c] # None => [clients[c] EXCEPT !.watched = @ \ {b}] \in Client
    BY <1>0 DEF Client
  <2>5. clients' \in [Conn -> Client \cup {None}]
    BY <1>9, <2>4 DEF AskWatch, AskUnwatch, TypeOK
  <2>6. RestOK' /\ UNCHANGED queues
    BY <1>9, <2>5 DEF AskWatch, AskUnwatch, TypeOK, RestOK
  <2>. QED BY <2>3, <2>6
<1>10. ASSUME AskKill(c) PROVE TypeOK'
  <2> DEFINE w == [Idle EXCEPT !.kill = TRUE]
  <2>1. w \in Work
    BY BatchMembers DEF Idle, Work
  <2>2. Take(c, "kill", "reply", w)
    BY <1>10 DEF AskKill
  <2> HIDE DEF w
  <2>3. TaskOK'
    BY <1>0, <2>1, <2>2, TakeTypes
  <2>. QED BY <1>10, <2>3 DEF AskKill
<1>. QED BY <1>1, <1>2, <1>3, <1>4, <1>5, <1>6, <1>7, <1>8, <1>9, <1>10 DEF Ask

\* What the task of a connection does on its own keeps the types.
LEMMA StepTypes ==
    ASSUME TypeOK, InHand, NEW c \in Conn, Step(c) \/ Reply(c) \/ SyncRead(c)
    PROVE  TypeOK'
<1> USE TypePartsNext, SameTypes, IdleType
<1>0. /\ work[c] \in Work
      /\ \A d \in Conn : clients[d] \in Client \cup {None}
  BY DEF TypeOK
<1>1. ASSUME ClientChangedEvents(c) PROVE TypeOK'
  <2> DEFINE known == {d \in work[c].conns : clients[d] # None}
             w == [Idle EXCEPT !.events = ClosedEvents(work[c].session, Cardinality(known)),
                               !.retired = {work[c].session}]
  <2>1. known \in SUBSET Conn /\ work[c].session \in Session
    BY <1>0, <1>1 DEF Work, InHand, ClientChangedEvents
  <2>2. Goto(c, "reply", w)
    BY <1>1 DEF ClientChangedEvents
  <2>3. w \in Work
    <3>1. ClosedEvents(work[c].session, Cardinality(known)) \in Batches
      BY <2>1, BatchMembers
    <3> HIDE DEF known
    <3>. QED BY <2>1, <3>1 DEF Idle, Work
  <2> HIDE DEF w
  <2>4. TaskOK'
    BY <2>2, <2>3, GotoTypes DEF Steps
  <2>. QED BY <1>1, <2>4 DEF ClientChangedEvents
<1>2. ASSUME SwitchedEvent(c) PROVE TypeOK'
  <2> DEFINE t == work[c].target
             S == {work[c].session, clients[t].session} \ {None}
             w == IF clients[t] = None THEN Idle
                  ELSE [Idle EXCEPT !.events = <<ClientChanged(S)>>]
  <2>1. t \in Conn
    BY <1>2 DEF InHand, SwitchedEvent
  <2>2. clients[t] # None => S \in SUBSET Session
    BY <1>0, <2>1 DEF Work, Client
  <2>3. Goto(c, "reply", w)
    BY <1>2 DEF SwitchedEvent
  <2>4. w \in Work
    <3>1. clients[t] # None => <<ClientChanged(S)>> \in Batches
      BY <2>2, BatchMembers
    <3> HIDE DEF S
    <3>. QED BY <3>1 DEF Idle, Work
  <2> HIDE DEF w
  <2>5. TaskOK'
    BY <2>3, <2>4, GotoTypes DEF Steps
  <2>. QED BY <1>2, <2>5 DEF SwitchedEvent
<1>3. ASSUME SendToClient(c) PROVE TypeOK'
  <2>1. TaskOK'
    BY <1>3, GotoTypes DEF SendToClient, Steps
  <2>2. work[c].target \in Conn
    BY <1>3 DEF InHand, SendToClient
  <2>3. QueueOK'
    BY <1>3, <2>2, TrySendTypes DEF SendToClient
  <2>. QED BY <1>3, <2>1, <2>3 DEF SendToClient
<1>4. ASSUME NoteWatching(c) PROVE TypeOK'
  <2>1. TaskOK'
    BY <1>4, GotoTypes DEF NoteWatching, Steps
  <2>2. clients[c] # None => [clients[c] EXCEPT !.watched = @ \cup work[c].buffers] \in Client
    BY <1>0 DEF Client, Work
  <2>3. clients' \in [Conn -> Client \cup {None}]
    BY <1>4, <2>2 DEF NoteWatching, TypeOK
  <2>4. RestOK' /\ UNCHANGED queues
    BY <1>4, <2>3 DEF NoteWatching, TypeOK, RestOK
  <2>. QED BY <2>1, <2>4
<1>5. ASSUME DetachSubscription(c) PROVE TypeOK'
  <2>1. work[c].target \in Conn
    BY <1>5 DEF InHand, DetachSubscription
  <2>2. TaskOK'
    BY <1>0, <1>5, GotoTypes DEF DetachSubscription, Steps
  <2>3. QueueOK' /\ RestOK'
    BY <1>5, <2>1 DEF DetachSubscription, TypeOK, QueueOK, RestOK
  <2>. QED BY <2>2, <2>3
<1>6. ASSUME Detached(c) PROVE TypeOK'
  <2>1. TaskOK'
    BY <1>6, GotoTypes DEF Detached, Steps
  <2>. QED BY <1>6, <2>1 DEF Detached
<1>7. ASSUME SyncRead(c) PROVE TypeOK'
  <2> DEFINE w == [work[c] EXCEPT !.on = \E d \in Conn : clients[d] # None /\ clients[d].graphics]
  <2>1. w \in Work
    BY <1>0 DEF Work
  <2>2. Goto(c, "tell", w)
    BY <1>7 DEF SyncRead
  <2> HIDE DEF w
  <2>3. TaskOK'
    BY <2>1, <2>2, GotoTypes DEF Steps
  <2>4. RestOK' /\ UNCHANGED queues
    BY <1>7 DEF SyncRead, TypeOK, RestOK
  <2>. QED BY <2>3, <2>4
<1>8. ASSUME SyncTell(c) PROVE TypeOK'
  <2> DEFINE w == [work[c] EXCEPT !.on = FALSE]
  <2>1. w \in Work /\ work[c].on \in BOOLEAN
    BY <1>0 DEF Work
  <2>2. Goto(c, AfterSync(c), w)
    BY <1>8 DEF SyncTell
  <2> HIDE DEF w
  <2>3. AfterSync(c) \in Steps
    BY DEF AfterSync, Steps
  <2>4. TaskOK'
    BY <2>1, <2>2, <2>3, GotoTypes
  <2>5. RestOK' /\ UNCHANGED queues
    BY <1>8, <2>1 DEF SyncTell, TypeOK, RestOK
  <2>. QED BY <2>4, <2>5
<1>9. ASSUME WatchRead(c) PROVE TypeOK'
  <2> DEFINE seen == UNION {clients[d].watched : d \in {e \in Conn : clients[e] # None}}
             w == [work[c] EXCEPT !.seen = seen]
  <2>1. seen \subseteq Buffer
    BY <1>0 DEF Client
  <2>2. Goto(c, "watchWrite", w)
    BY <1>9 DEF WatchRead
  <2> HIDE DEF seen
  <2>3. w \in Work
    BY <1>0, <2>1 DEF Work
  <2> HIDE DEF w
  <2>4. TaskOK'
    BY <2>2, <2>3, GotoTypes DEF Steps
  <2>. QED BY <1>9, <2>4 DEF WatchRead
<1>10. ASSUME WatchWrite(c) PROVE TypeOK'
  <2> DEFINE step == CASE exit[c] = "none" -> "reply"
                       [] exit[c] = "stopped" -> "lastFlush"
                       [] OTHER -> "done"
  <2>1. step \in Steps
    BY DEF Steps
  <2>2. Goto(c, step, Idle)
    BY <1>10 DEF WatchWrite
  <2> HIDE DEF step
  <2>3. TaskOK'
    BY <2>1, <2>2, GotoTypes
  <2>4. flag' \in [Buffer -> BOOLEAN]
    <3> DEFINE v(b) == IF b \in work[c].buffers THEN b \in work[c].seen ELSE flag[b]
    <3>1. ASSUME NEW b \in Buffer PROVE v(b) \in BOOLEAN
      <4>1. flag[b] \in BOOLEAN
        BY DEF TypeOK
      <4>2. CASE b \in work[c].buffers
        <5>1. v(b) = TRUE \/ v(b) = FALSE
          BY <4>2, SMT
        <5> HIDE DEF v
        <5>. QED BY <5>1, Zenon
      <4>3. CASE b \notin work[c].buffers
        BY <4>1, <4>3, Zenon
      <4>. QED BY <4>2, <4>3
    <3>2. flag' = [b \in Buffer |-> v(b)]
      BY <1>10 DEF WatchWrite
    <3> HIDE DEF v
    <3>. QED BY <3>1, <3>2
  <2>5. RestOK' /\ UNCHANGED queues
    BY <1>10, <2>4 DEF WatchWrite, TypeOK, RestOK
  <2>. QED BY <2>3, <2>5
<1>11. ASSUME Reply(c) PROVE TypeOK'
  <2>1. TaskOK'
    BY <1>0, <1>11, GotoTypes DEF Reply, Steps
  <2>2. QueueOK'
    BY <1>11, NoticeTypes DEF Reply
  <2>. QED BY <1>11, <2>1, <2>2 DEF Reply
<1>12. ASSUME ReplyFails(c) PROVE TypeOK'
  <2>1. TaskOK'
    BY <1>12 DEF ReplyFails, TypeOK, TaskOK, Steps
  <2>. QED BY <1>12, <2>1 DEF ReplyFails
<1>13. ASSUME Finish(c) PROVE TypeOK'
  <2>1. TaskOK'
    BY <1>13 DEF Finish, TypeOK, TaskOK, Steps
  <2>2. QueueOK'
    <3>1. work[c].events \in Batches
      BY <1>0 DEF Work
    <3>. QED BY <1>13, <3>1, BroadcastTypes DEF Finish
  <2>3. RestOK'
    BY <1>13 DEF Finish, TypeOK, RestOK
  <2>. QED BY <2>1, <2>2, <2>3
<1>14. ASSUME EndOnStop(c) PROVE TypeOK'
  <2>1. TaskOK'
    BY <1>14, LeavesTypes DEF EndOnStop, Steps
  <2>2. QueueOK'
    BY <1>14, TrySendTypes DEF EndOnStop
  <2>. QED BY <1>14, <2>1, <2>2 DEF EndOnStop
<1>15. ASSUME EndOnDetach(c) \/ EndOnLeave(c) PROVE TypeOK'
  <2>1. TaskOK'
    BY <1>15, LeavesTypes DEF EndOnDetach, EndOnLeave, Steps
  <2>. QED BY <1>15, <2>1 DEF EndOnDetach, EndOnLeave
<1>16. ASSUME AbortWriter(c) \/ LastFlush(c) PROVE TypeOK'
  <2>1. TaskOK'
    BY <1>16, GotoTypes DEF AbortWriter, LastFlush, Steps
  <2>2. QueueOK'
    BY <1>16, EndTypes DEF AbortWriter, LastFlush
  <2>. QED BY <1>16, <2>1, <2>2 DEF AbortWriter, LastFlush
<1>17. ASSUME Flushed(c) PROVE TypeOK'
  <2>1. TaskOK'
    BY <1>17, GotoTypes DEF Flushed, Steps
  <2>. QED BY <1>17, <2>1 DEF Flushed
<1>18. ASSUME Cleanup(c) PROVE TypeOK'
  <2> DEFINE w == [Idle EXCEPT !.buffers = IF clients[c] = None THEN {} ELSE clients[c].watched]
  <2>1. w \in Work
    BY <1>0, BatchMembers DEF Idle, Work, Client
  <2>2. Goto(c, "unsubscribe", w)
    BY <1>18 DEF Cleanup
  <2> HIDE DEF w
  <2>3. TaskOK'
    BY <2>1, <2>2, GotoTypes DEF Steps
  <2>4. RestOK' /\ UNCHANGED queues
    BY <1>18 DEF Cleanup, TypeOK, RestOK
  <2>. QED BY <2>3, <2>4
<1>19. ASSUME CleanupSubscription(c) PROVE TypeOK'
  <2>1. TaskOK'
    BY <1>0, <1>19, GotoTypes DEF CleanupSubscription, Steps
  <2>2. QueueOK'
    BY <1>19 DEF CleanupSubscription, TypeOK, QueueOK
  <2>. QED BY <1>19, <2>1, <2>2 DEF CleanupSubscription
<1>. QED BY <1>1, <1>2, <1>3, <1>4, <1>5, <1>6, <1>7, <1>8, <1>9, <1>10, <1>11, <1>12,
            <1>13, <1>14, <1>15, <1>16, <1>17, <1>18, <1>19 DEF Step

\* Every step keeps the types.
LEMMA TypeStep == TypeOK /\ InHand /\ [Next]_vars => TypeOK'
<1> SUFFICES ASSUME TypeOK, InHand, [Next]_vars PROVE TypeOK'
  OBVIOUS
<1> USE TypePartsNext, SameTypes
<1>1. ASSUME NEW c \in Conn, Accept(c) PROVE TypeOK'
  <2>1. NoClient \in Client
    BY DEF NoClient, Client
  <2>2. TaskOK'
    BY <1>1 DEF Accept, TypeOK, TaskOK, Steps
  <2>3. QueueOK'
    BY <1>1 DEF Accept, TypeOK, QueueOK
  <2>4. RestOK'
    BY <1>1, <2>1 DEF Accept, TypeOK, RestOK
  <2>. QED BY <2>2, <2>3, <2>4
<1>2. ASSUME NEW c \in Conn, Write(c) PROVE TypeOK'
  <2>1. out[c] \in Seq(Event) /\ out[c] # <<>> /\ Len(out[c]) <= Capacity
    BY <1>2 DEF Write, TypeOK
  <2>2. Tail(out[c]) \in Seq(Event) /\ Len(Tail(out[c])) <= Capacity
    <3> HIDE DEF Event
    <3>1. Tail(out[c]) \in Seq(Event) /\ Len(Tail(out[c])) = Len(out[c]) - 1 /\ Len(out[c]) \in Nat
      BY <2>1
    <3>. QED BY <2>1, <3>1, ConnectionConstants
  <2>3. QueueOK'
    BY <1>2, <2>2 DEF Write, TypeOK, QueueOK
  <2>. QED BY <1>2, <2>3 DEF Write
<1>3. ASSUME NEW c \in Conn, WriterEnds(c) PROVE TypeOK'
  BY <1>3, EndTypes DEF WriterEnds
<1>4. ASSUME NEW c \in Conn, Stall(c) \/ Leave(c) PROVE TypeOK'
  <2>1. RestOK'
    BY <1>4 DEF Stall, Leave, TypeOK, RestOK
  <2>. QED BY <1>4, <2>1 DEF Stall, Leave
<1>5. ASSUME Report PROVE TypeOK'
  BY <1>5, BatchMembers, BroadcastTypes DEF Report
<1>6. ASSUME StopServer \/ StopListening \/ Stopped PROVE TypeOK'
  <2>1. RestOK'
    BY <1>6 DEF StopServer, StopListening, Stopped, TypeOK, RestOK
  <2>. QED BY <1>6, <2>1 DEF StopServer, StopListening, Stopped
<1>7. ASSUME UNCHANGED vars PROVE TypeOK'
  BY <1>7 DEF vars, task, queues, rest
<1>. QED BY <1>1, <1>2, <1>3, <1>4, <1>5, <1>6, <1>7, AskTypes, StepTypes DEF Next

\* A request keeps in hand what it works on until it is done with it.
LEMMA InHandStep == TypeOK /\ InHand /\ [Next]_vars => InHand'
<1> SUFFICES ASSUME TypeOK, InHand, [Next]_vars PROVE InHand'
  OBVIOUS
<1>0. work \in [Conn -> Work] /\ pc \in [Conn -> Steps]
  BY DEF TypeOK
<1>1. ASSUME NEW c \in Conn, NEW step, NEW w,
             pc' = [pc EXCEPT ![c] = step], work' = [work EXCEPT ![c] = w],
             step \in {"switched", "display", "detach", "wait"} => w.target \in Conn,
             step = "closed" => w.session \in Session
      PROVE  InHand'
  BY <1>0, <1>1 DEF InHand
<1>2. ASSUME UNCHANGED <<pc, work>> PROVE InHand'
  BY <1>2 DEF InHand
<1>3. ASSUME NEW c \in Conn, NEW step, pc' = [pc EXCEPT ![c] = step], UNCHANGED work,
             step \notin {"switched", "display", "detach", "wait", "closed"}
      PROVE  InHand'
  BY <1>0, <1>3 DEF InHand
<1>4. ASSUME NEW c \in Conn, Ask(c) PROVE InHand'
  <2>1. ASSUME NEW i \in Session \cup {All}, AskSubscribe(c, i) PROVE InHand'
    BY <1>1, <2>1 DEF AskSubscribe, Take
  <2>2. ASSUME AskUnsubscribe(c) PROVE InHand'
    BY <1>1, <2>2 DEF AskUnsubscribe, Take
  <2>3. ASSUME NEW s \in Session, AskChange(c, s) PROVE InHand'
    BY <1>1, <2>3 DEF AskChange, Take
  <2>4. ASSUME NEW s \in Session, AskClose(c, s) PROVE InHand'
    <3> DEFINE w == [Idle EXCEPT !.session = s, !.conns = {d \in Conn : ShowsSession(d, s)}]
    <3>1. w.session = s
      BY DEF Idle
    <3>2. CASE pc' = [pc EXCEPT ![c] = "closed"] /\ work' = [work EXCEPT ![c] = w]
      <4> HIDE DEF w
      <4>. QED BY <1>1, <3>1, <3>2
    <3>3. CASE pc' = [pc EXCEPT ![c] = "reply"] /\ work' = [work EXCEPT ![c] = Idle]
      BY <1>1, <3>3
    <3>. QED BY <2>4, <3>2, <3>3 DEF AskClose, Take
  <2>5. ASSUME NEW t \in Conn, NEW s \in Session, AskSwitch(c, t, s) PROVE InHand'
    <3> DEFINE w == [Idle EXCEPT !.target = t, !.session = clients[t].session]
    <3>1. w.target = t
      BY DEF Idle
    <3>2. \/ pc' = [pc EXCEPT ![c] = "switched"] /\ work' = [work EXCEPT ![c] = w]
          \/ pc' = [pc EXCEPT ![c] = "reply"] /\ work' = [work EXCEPT ![c] = Idle]
      BY <2>5 DEF AskSwitch, Take
    <3> HIDE DEF w
    <3>. QED BY <1>1, <3>1, <3>2
  <2>6. ASSUME NEW t \in Conn, AskDisplay(c, t) \/ AskDetach(c, t) PROVE InHand'
    <3> DEFINE w == [Idle EXCEPT !.target = t]
    <3>1. w.target = t
      BY DEF Idle
    <3>2. \/ /\ pc' \in {[pc EXCEPT ![c] = "display"], [pc EXCEPT ![c] = "detach"]}
             /\ work' = [work EXCEPT ![c] = w]
          \/ pc' = [pc EXCEPT ![c] = "reply"] /\ work' = [work EXCEPT ![c] = Idle]
      BY <2>6 DEF AskDisplay, AskDetach, Take
    <3> HIDE DEF w
    <3>. QED BY <1>1, <3>1, <3>2
  <2>7. ASSUME NEW on \in BOOLEAN, AskGraphics(c, on) PROVE InHand'
    BY <1>1, <2>7 DEF AskGraphics, Take
  <2>8. ASSUME NEW b \in Buffer, AskWatch(c, b) \/ AskUnwatch(c, b) PROVE InHand'
    BY <1>1, <2>8 DEF AskWatch, AskUnwatch, Take
  <2>9. ASSUME AskKill(c) PROVE InHand'
    BY <1>1, <2>9 DEF AskKill, Take
  <2>. QED BY <1>4, <2>1, <2>2, <2>3, <2>4, <2>5, <2>6, <2>7, <2>8, <2>9 DEF Ask
<1>5. ASSUME NEW c \in Conn, Step(c) PROVE InHand'
  <2>1. ASSUME ClientChangedEvents(c) \/ SwitchedEvent(c) \/ SendToClient(c)
               \/ NoteWatching(c) \/ Detached(c) \/ WatchRead(c)
        PROVE InHand'
    BY <1>1, <2>1 DEF ClientChangedEvents, SwitchedEvent, SendToClient, NoteWatching,
                      Detached, WatchRead, Goto
  <2>2. ASSUME DetachSubscription(c) PROVE InHand'
    BY <1>1, <2>2 DEF DetachSubscription, Goto, InHand
  <2>3. ASSUME SyncTell(c) PROVE InHand'
    BY <1>1, <2>3 DEF SyncTell, Goto, AfterSync
  <2>4. ASSUME WatchWrite(c) PROVE InHand'
    <3>1. PICK step : /\ pc' = [pc EXCEPT ![c] = step] /\ work' = [work EXCEPT ![c] = Idle]
                      /\ step \in {"reply", "lastFlush", "done"}
      BY <2>4 DEF WatchWrite, Goto
    <3>. QED BY <1>1, <3>1
  <2>5. ASSUME ReplyFails(c) \/ AbortWriter(c) \/ Flushed(c) \/ Cleanup(c)
               \/ CleanupSubscription(c) \/ LastFlush(c)
        PROVE InHand'
    BY <1>1, <2>5 DEF ReplyFails, AbortWriter, Flushed, Cleanup, CleanupSubscription,
                      LastFlush, Goto
  <2>6. ASSUME Finish(c) PROVE InHand'
    BY <1>1, <2>6 DEF Finish
  <2>7. ASSUME EndOnStop(c) \/ EndOnDetach(c) \/ EndOnLeave(c) PROVE InHand'
    BY <1>3, <2>7 DEF EndOnStop, EndOnDetach, EndOnLeave, Leaves
  <2>. QED BY <1>5, <2>1, <2>2, <2>3, <2>4, <2>5, <2>6, <2>7 DEF Step
<1>6. ASSUME NEW c \in Conn, Accept(c) PROVE InHand'
  BY <1>3, <1>6 DEF Accept
<1>7. ASSUME NEW c \in Conn, Reply(c) \/ SyncRead(c) PROVE InHand'
  BY <1>1, <1>7 DEF Reply, SyncRead, Goto
<1>8. ASSUME NEW c \in Conn, Write(c) \/ WriterEnds(c) \/ Stall(c) \/ Leave(c) PROVE InHand'
  BY <1>2, <1>8 DEF Write, WriterEnds, Stall, Leave, task
<1>9. ASSUME Report \/ StopServer \/ StopListening \/ Stopped \/ UNCHANGED vars PROVE InHand'
  BY <1>2, <1>9 DEF Report, StopServer, StopListening, Stopped, task, vars
<1>. QED BY <1>4, <1>5, <1>6, <1>7, <1>8, <1>9 DEF Next
------------------------------------------------------------------------------
(* How far a connection has come, and what its cleanup took away *)

\* The types those proofs need, without the events in the queues.
Shape ==
    /\ pc \in [Conn -> Steps]
    /\ exit \in [Conn -> {"none", "closed", "self", "stopped"}]
    /\ DOMAIN work = Conn
    /\ clients \in [Conn -> Client \cup {None}]
    /\ subs \in [Conn -> Session \cup {All, None}]
    /\ DOMAIN out = Conn
    /\ writer \in [Conn -> {"none", "running", "ended"}]

\* They follow from the type invariant.
LEMMA ShapeType == TypeOK => Shape
  BY DEF TypeOK, Shape

\* A broadcast leaves the queue of a connection without a writer alone, ends
\* subscriptions and starts none.
LEMMA BroadcastEffect ==
    ASSUME TypeOK, NEW es \in Batches, NEW retired, Broadcast(es, retired)
    PROVE  /\ UNCHANGED writer
           /\ \A c \in Conn : subs'[c] \in {subs[c], None}
           /\ \A c \in Conn : writer[c] # "running" => out'[c] = out[c]
<1>1. es \in Seq(Event)
  BY BatchTypes
<1>2. ASSUME NEW c \in Conn, writer[c] # "running" PROVE out'[c] = out[c]
  <2>1. out'[c] = out[c] \o SubSeq(Feed!Wanted(subs[c], es), 1, 0)
    BY <1>2 DEF Broadcast, Fits
  <2>2. out[c] \in Seq(Event) /\ Feed!Wanted(subs[c], es) \in Seq(Event)
    BY <1>1, WantedType DEF TypeOK
  <2> DEFINE w == Feed!Wanted(subs[c], es)
  <2> HIDE DEF w, Event
  <2>3. SubSeq(w, 1, 0) = <<>>
    BY <2>2 DEF w
  <2>4. out[c] \o <<>> = out[c]
    BY <2>2
  <2>. QED BY <2>1, <2>3, <2>4 DEF w
<1>3. UNCHANGED writer /\ \A c \in Conn : subs'[c] \in {subs[c], None}
  BY DEF Broadcast
<1>. QED BY <1>2, <1>3

\* The phases of the connections and the cleanup hold together.
LEMMA PhaseStep ==
    TypeOK /\ InHand /\ Phases /\ CleanedUp /\ [Next]_vars => Phases' /\ CleanedUp'
<1> SUFFICES ASSUME TypeOK, InHand, Phases, CleanedUp, [Next]_vars
             PROVE  Phases' /\ CleanedUp'
  OBVIOUS
<1>0. Shape
  BY ShapeType
<1> USE DEF Ending, Shared
<1>1. ASSUME NEW c \in Conn, Ask(c) PROVE Phases' /\ CleanedUp'
  <2>1. ASSUME NEW i \in Session \cup {All}, AskSubscribe(c, i) PROVE Phases' /\ CleanedUp'
    BY <1>0, <2>1 DEF AskSubscribe, Take, Phases, CleanedUp, rest, Shape
  <2>2. ASSUME AskUnsubscribe(c) PROVE Phases' /\ CleanedUp'
    BY <1>0, <2>2 DEF AskUnsubscribe, Take, Phases, CleanedUp, rest, Shape
  <2>3. ASSUME NEW s \in Session, AskChange(c, s) PROVE Phases' /\ CleanedUp'
    BY <1>0, <2>3 DEF AskChange, Take, Phases, CleanedUp, rest, queues, Shape
  <2>4. ASSUME NEW s \in Session, AskClose(c, s) PROVE Phases' /\ CleanedUp'
    <3>1. \A d \in Conn : clients[d] = None => clients'[d] = None
      BY <2>4 DEF AskClose, ClearClientSession, ShowsSession
    <3>2. /\ pc[c] = "idle" /\ UNCHANGED <<exit, queues>>
          /\ pc' \in {[pc EXCEPT ![c] = "closed"], [pc EXCEPT ![c] = "reply"]}
      BY <2>4 DEF AskClose, Take
    <3>. QED BY <1>0, <3>1, <3>2 DEF Phases, CleanedUp, queues, Shape
  <2>5. ASSUME NEW t \in Conn, NEW s \in Session, AskSwitch(c, t, s) PROVE Phases' /\ CleanedUp'
    <3>1. \A d \in Conn : clients[d] = None => clients'[d] = None
      BY <1>0, <2>5 DEF AskSwitch, Shape
    <3>2. /\ pc[c] = "idle" /\ UNCHANGED <<exit, queues>>
          /\ pc' \in {[pc EXCEPT ![c] = "switched"], [pc EXCEPT ![c] = "reply"]}
      BY <2>5 DEF AskSwitch, Take
    <3>. QED BY <1>0, <3>1, <3>2 DEF Phases, CleanedUp, queues, Shape
  <2>6. ASSUME NEW t \in Conn, AskDisplay(c, t) PROVE Phases' /\ CleanedUp'
    BY <1>0, <2>6 DEF AskDisplay, Take, Phases, CleanedUp, rest, queues, Shape
  <2>7. ASSUME NEW t \in Conn, AskDetach(c, t) PROVE Phases' /\ CleanedUp'
    BY <1>0, <2>7 DEF AskDetach, Take, Phases, CleanedUp, queues, Shape
  <2>8. ASSUME NEW on \in BOOLEAN, AskGraphics(c, on) PROVE Phases' /\ CleanedUp'
    BY <1>0, <2>8 DEF AskGraphics, Take, Phases, CleanedUp, queues, Shape
  <2>9. ASSUME NEW b \in Buffer, AskWatch(c, b) \/ AskUnwatch(c, b) PROVE Phases' /\ CleanedUp'
    BY <1>0, <2>9 DEF AskWatch, AskUnwatch, Take, Phases, CleanedUp, queues, Shape
  <2>10. ASSUME AskKill(c) PROVE Phases' /\ CleanedUp'
    BY <1>0, <2>10 DEF AskKill, Take, Phases, CleanedUp, queues, rest, Shape
  <2>. QED BY <1>1, <2>1, <2>2, <2>3, <2>4, <2>5, <2>6, <2>7, <2>8, <2>9, <2>10 DEF Ask
<1>2. ASSUME NEW c \in Conn, Step(c) \/ Reply(c) \/ SyncRead(c) PROVE Phases' /\ CleanedUp'
  <2>1. ASSUME ClientChangedEvents(c) \/ SwitchedEvent(c) \/ Detached(c) \/ WatchRead(c)
        PROVE Phases' /\ CleanedUp'
    BY <1>0, <2>1 DEF ClientChangedEvents, SwitchedEvent, Detached, WatchRead, Goto,
                      Phases, CleanedUp, queues, rest, Shape
  <2>2. ASSUME SendToClient(c) PROVE Phases' /\ CleanedUp'
    <3>1. \A d \in Conn : writer[d] # "running" => out'[d] = out[d]
      BY <1>0, <2>2 DEF SendToClient, TrySend, queues, Shape
    <3>2. UNCHANGED <<subs, writer>>
      BY <2>2 DEF SendToClient, TrySend, queues
    <3>. QED BY <1>0, <2>2, <3>1, <3>2 DEF SendToClient, Goto, Phases, CleanedUp, rest, Shape
  <2>3. ASSUME NoteWatching(c) PROVE Phases' /\ CleanedUp'
    BY <1>0, <2>3 DEF NoteWatching, Goto, Phases, CleanedUp, queues, Shape
  <2>4. ASSUME DetachSubscription(c) PROVE Phases' /\ CleanedUp'
    BY <1>0, <2>4 DEF DetachSubscription, Goto, Phases, CleanedUp, InHand, Shape
  <2>5. ASSUME SyncRead(c) PROVE Phases' /\ CleanedUp'
    BY <1>0, <2>5 DEF SyncRead, Goto, Phases, CleanedUp, queues, Shape
  <2>6. ASSUME SyncTell(c) PROVE Phases' /\ CleanedUp'
    BY <1>0, <2>6 DEF SyncTell, AfterSync, Goto, Phases, CleanedUp, queues, Shape
  <2>7. ASSUME WatchWrite(c) PROVE Phases' /\ CleanedUp'
    BY <1>0, <2>7 DEF WatchWrite, Goto, Phases, CleanedUp, queues, Shape
  <2>8. ASSUME Reply(c) PROVE Phases' /\ CleanedUp'
    BY <1>0, <2>8 DEF Reply, Goto, Phases, CleanedUp, rest, Shape
  <2>9. ASSUME ReplyFails(c) PROVE Phases' /\ CleanedUp'
    BY <1>0, <2>9 DEF ReplyFails, Phases, CleanedUp, queues, rest, Shape
  <2>10. ASSUME Finish(c) PROVE Phases' /\ CleanedUp'
    <3>1. work[c].events \in Batches
      BY DEF TypeOK, Work
    <3>2. /\ UNCHANGED writer
          /\ \A d \in Conn : subs'[d] \in {subs[d], None}
          /\ \A d \in Conn : writer[d] # "running" => out'[d] = out[d]
      BY <2>10, <3>1, BroadcastEffect DEF Finish
    <3>3. /\ pc[c] = "broadcast" /\ UNCHANGED clients
          /\ \/ pc' = [pc EXCEPT ![c] = "flush"] /\ exit' = [exit EXCEPT ![c] = "self"]
             \/ pc' = [pc EXCEPT ![c] = "idle"] /\ exit' = exit
      BY <1>0, <2>10 DEF Finish, Shape
    <3>. QED BY <1>0, <3>2, <3>3 DEF Phases, CleanedUp, Shape
  <2>11. ASSUME EndOnStop(c) PROVE Phases' /\ CleanedUp'
    <3>1. \A d \in Conn : writer[d] # "running" => out'[d] = out[d]
      BY <1>0, <2>11 DEF EndOnStop, TrySend, Shape
    <3>. QED BY <1>0, <2>11, <3>1 DEF EndOnStop, TrySend, Leaves, Phases, CleanedUp, rest, Shape
  <2>12. ASSUME EndOnDetach(c) \/ EndOnLeave(c) PROVE Phases' /\ CleanedUp'
    BY <1>0, <2>12 DEF EndOnDetach, EndOnLeave, Leaves, Phases, CleanedUp, queues, rest, Shape
  <2>13. ASSUME AbortWriter(c) \/ LastFlush(c) PROVE Phases' /\ CleanedUp'
    BY <1>0, <2>13 DEF AbortWriter, LastFlush, Goto, Phases, CleanedUp, rest, Shape
  <2>14. ASSUME Flushed(c) PROVE Phases' /\ CleanedUp'
    BY <1>0, <2>14 DEF Flushed, Goto, Phases, CleanedUp, queues, rest, Shape
  <2>15. ASSUME Cleanup(c) PROVE Phases' /\ CleanedUp'
    BY <1>0, <2>15 DEF Cleanup, Goto, Phases, CleanedUp, queues, Shape
  <2>16. ASSUME CleanupSubscription(c) PROVE Phases' /\ CleanedUp'
    BY <1>0, <2>16 DEF CleanupSubscription, Goto, Phases, CleanedUp, rest, Shape
  <2>. QED BY <1>2, <2>1, <2>2, <2>3, <2>4, <2>5, <2>6, <2>7, <2>8, <2>9, <2>10, <2>11,
              <2>12, <2>13, <2>14, <2>15, <2>16 DEF Step
<1>3. ASSUME NEW c \in Conn, Accept(c) PROVE Phases' /\ CleanedUp'
  BY <1>0, <1>3 DEF Accept, Phases, CleanedUp, Shape
<1>4. ASSUME NEW c \in Conn, Write(c) PROVE Phases' /\ CleanedUp'
  BY <1>0, <1>4 DEF Write, Phases, CleanedUp, task, rest, Shape
<1>5. ASSUME NEW c \in Conn, WriterEnds(c) PROVE Phases' /\ CleanedUp'
  BY <1>0, <1>5 DEF WriterEnds, Phases, CleanedUp, task, rest, Shape
<1>6. ASSUME NEW c \in Conn, Stall(c) \/ Leave(c) PROVE Phases' /\ CleanedUp'
  BY <1>0, <1>6 DEF Stall, Leave, Phases, CleanedUp, task, queues, Shape
<1>7. ASSUME Report PROVE Phases' /\ CleanedUp'
  <2>1. /\ UNCHANGED <<writer, task, rest>>
        /\ \A d \in Conn : subs'[d] \in {subs[d], None}
        /\ \A d \in Conn : writer[d] # "running" => out'[d] = out[d]
    BY <1>7, BatchMembers, BroadcastEffect DEF Report
  <2>. QED BY <1>0, <2>1 DEF Phases, CleanedUp, task, rest, Shape
<1>8. ASSUME StopServer \/ StopListening \/ Stopped PROVE Phases' /\ CleanedUp'
  BY <1>8 DEF StopServer, StopListening, Stopped, Phases, CleanedUp, task, queues
<1>9. ASSUME UNCHANGED vars PROVE Phases' /\ CleanedUp'
  BY <1>9 DEF vars, Phases, CleanedUp
<1>. QED BY <1>1, <1>2, <1>3, <1>4, <1>5, <1>6, <1>7, <1>8, <1>9 DEF Next
------------------------------------------------------------------------------
(* The sessions that clients show *)

\* Nobody shows a session that is gone.
LEMMA ShownStep == TypeOK /\ InHand /\ ShownSessionExists /\ [Next]_vars => ShownSessionExists'
<1> SUFFICES ASSUME TypeOK, InHand, ShownSessionExists, [Next]_vars PROVE ShownSessionExists'
  OBVIOUS
<1>0. clients \in [Conn -> Client \cup {None}] /\ sessions \subseteq Session
  BY DEF TypeOK
<1>1. ASSUME UNCHANGED sessions,
             \A c \in Conn : clients'[c] # None =>
                /\ clients[c] # None
                /\ clients'[c].session = clients[c].session
      PROVE  ShownSessionExists'
  BY <1>1 DEF ShownSessionExists
<1>2. ASSUME NEW c \in Conn, Ask(c) PROVE ShownSessionExists'
  <2>1. ASSUME NEW s \in Session, AskClose(c, s) PROVE ShownSessionExists'
    <3>1. CASE s \notin sessions
      BY <2>1, <3>1 DEF AskClose, ShownSessionExists
    <3>2. CASE s \in sessions
      <4>1. ClearClientSession(s) /\ sessions' = sessions \ {s}
        BY <2>1, <3>2 DEF AskClose
      <4>2. ASSUME NEW d \in Conn, clients'[d] # None
            PROVE  clients'[d].session \in sessions' \cup {None}
        <5>1. CASE ShowsSession(d, s)
          <6>1. clients'[d] = [clients[d] EXCEPT !.session = None] /\ clients[d] \in Client
            BY <1>0, <4>1, <5>1 DEF ClearClientSession, ShowsSession
          <6>. QED BY <6>1 DEF Client
        <5>2. CASE ~ ShowsSession(d, s)
          BY <4>1, <4>2, <5>2 DEF ClearClientSession, ShowsSession, ShownSessionExists
        <5>. QED BY <5>1, <5>2
      <4>. QED BY <4>2 DEF ShownSessionExists
    <3>. QED BY <3>1, <3>2
  <2>2. ASSUME NEW t \in Conn, NEW s \in Session, AskSwitch(c, t, s) PROVE ShownSessionExists'
    <3>1. CASE s \in sessions /\ clients[t] # None
      <4>1. /\ clients' = [clients EXCEPT ![t] = [clients[t] EXCEPT !.session = s]]
            /\ clients[t] \in Client /\ UNCHANGED sessions
        BY <1>0, <2>2, <3>1 DEF AskSwitch
      <4>2. [clients[t] EXCEPT !.session = s].session = s
        BY <4>1 DEF Client
      <4>. QED BY <1>0, <3>1, <4>1, <4>2 DEF ShownSessionExists
    <3>2. CASE ~ (s \in sessions /\ clients[t] # None)
      BY <2>2, <3>2 DEF AskSwitch, ShownSessionExists
    <3>. QED BY <3>1, <3>2
  <2>3. ASSUME NEW on \in BOOLEAN, AskGraphics(c, on) PROVE ShownSessionExists'
    <3>1. clients[c] # None => [clients[c] EXCEPT !.graphics = on].session = clients[c].session
      BY <1>0 DEF Client
    <3>. QED BY <1>0, <1>1, <2>3, <3>1 DEF AskGraphics
  <2>4. ASSUME NEW b \in Buffer, AskWatch(c, b) \/ AskUnwatch(c, b) PROVE ShownSessionExists'
    <3>1. clients[c] # None => [clients[c] EXCEPT !.watched = @ \ {b}].session = clients[c].session
      BY <1>0 DEF Client
    <3>. QED BY <1>0, <1>1, <2>4, <3>1 DEF AskWatch, AskUnwatch
  <2>5. ASSUME NEW t \in Conn, AskDetach(c, t) PROVE ShownSessionExists'
    BY <1>0, <1>1, <2>5 DEF AskDetach
  <2>6. ASSUME \/ \E i \in Session \cup {All} : AskSubscribe(c, i)
               \/ AskUnsubscribe(c) \/ AskKill(c)
               \/ \E s \in Session : AskChange(c, s)
               \/ \E t \in Conn : AskDisplay(c, t)
        PROVE ShownSessionExists'
    <3>1. UNCHANGED rest
      BY <2>6 DEF AskSubscribe, AskUnsubscribe, AskKill, AskChange, AskDisplay
    <3>. QED BY <1>1, <3>1 DEF rest
  <2>. QED BY <1>2, <2>1, <2>2, <2>3, <2>4, <2>5, <2>6 DEF Ask
<1>3. ASSUME NEW c \in Conn, Step(c) \/ Reply(c) \/ SyncRead(c) PROVE ShownSessionExists'
  <2>1. ASSUME NoteWatching(c) PROVE ShownSessionExists'
    <3> DEFINE r == [clients[c] EXCEPT !.watched = @ \cup work[c].buffers]
    <3>1. clients[c] # None => r.session = clients[c].session
      BY <1>0 DEF Client
    <3>2. UNCHANGED sessions /\ clients' = IF clients[c] = None THEN clients
                                           ELSE [clients EXCEPT ![c] = r]
      BY <2>1 DEF NoteWatching
    <3> HIDE DEF r
    <3>. QED BY <1>0, <1>1, <3>1, <3>2
  <2>2. ASSUME Cleanup(c) PROVE ShownSessionExists'
    BY <1>0, <1>1, <2>2 DEF Cleanup
  <2>3. ASSUME UNCHANGED <<clients, sessions>> PROVE ShownSessionExists'
    BY <1>1, <2>3
  <2>. QED BY <1>3, <2>1, <2>2, <2>3
           DEF Step, Reply, SyncRead, ClientChangedEvents, SwitchedEvent, SendToClient,
               DetachSubscription, Detached, SyncTell, WatchRead, WatchWrite, ReplyFails,
               Finish, EndOnStop, EndOnDetach, EndOnLeave, AbortWriter, Flushed,
               CleanupSubscription, LastFlush, rest
<1>4. ASSUME NEW c \in Conn, Accept(c) PROVE ShownSessionExists'
  <2>1. NoClient.session = None
    BY DEF NoClient
  <2>. QED BY <1>0, <1>4, <2>1 DEF Accept, ShownSessionExists
<1>5. ASSUME UNCHANGED <<clients, sessions>> PROVE ShownSessionExists'
  BY <1>1, <1>5
<1>. QED BY <1>2, <1>3, <1>4, <1>5
         DEF Next, Write, WriterEnds, Stall, Leave, Report, StopServer, StopListening,
             Stopped, rest, vars
------------------------------------------------------------------------------
(* What the keepers are told about graphics *)

\* The lock, and what was told or is about to be told, hold together.
HeardInv == TellerHolds /\ ToldOrDue /\ ReadOrDue

\* A step keeps them if no client changes its answer, nobody who still has to
\* tell stops having to, and nobody starts or ends telling.
LEMMA QuietStep ==
    ASSUME HeardInv, UNCHANGED <<told, syncing>>,
           \A d \in Conn : (clients'[d] # None /\ clients'[d].graphics)
                             <=> (clients[d] # None /\ clients[d].graphics),
           \A d \in Conn : SyncDue(d) => SyncDue(d)',
           \A d \in Conn : pc'[d] = "tell" <=> pc[d] = "tell",
           \A d \in Conn : pc[d] = "tell" =>
              /\ work'[d].on = work[d].on
              /\ clients[d] = None /\ exit[d] = "none" => clients'[d] = None /\ exit'[d] = "none"
    PROVE  HeardInv'
<1>1. Answers' <=> Answers
  BY DEF Answers
<1>2. TellerHolds'
  BY DEF HeardInv, TellerHolds
<1>3. ToldOrDue'
  <2>1. CASE told = Answers
    <3>1. told' = Answers'
      BY <1>1, <2>1
    <3>. QED BY <3>1 DEF ToldOrDue
  <2>2. CASE \E c \in Conn : SyncDue(c)
    BY <2>2 DEF ToldOrDue
  <2>. QED BY <2>1, <2>2 DEF HeardInv, ToldOrDue
<1>4. ReadOrDue'
  <2> SUFFICES ASSUME NEW c \in Conn, pc'[c] = "tell", work'[c].on # Answers'
               PROVE  \/ \E d \in Conn \ {c} : SyncDue(d)'
                      \/ clients'[c] = None /\ exit'[c] = "none"
    BY DEF ReadOrDue
  <2>1. pc[c] = "tell" /\ work[c].on # Answers
    BY <1>1
  <2>2. (\E d \in Conn \ {c} : SyncDue(d)) \/ (clients[c] = None /\ exit[c] = "none")
    BY <2>1 DEF HeardInv, ReadOrDue
  <2>. QED BY <2>1, <2>2
<1>. QED BY <1>2, <1>3, <1>4 DEF HeardInv

\* A step may change the answers when someone who did not tell has to afterwards,
\* or the one who tells was detached.
LEMMA AnswerStep ==
    ASSUME HeardInv, UNCHANGED <<told, syncing>>, NEW e \in Conn, SyncDue(e)',
           \A d \in Conn : pc'[d] = "tell" <=> pc[d] = "tell",
           pc[e] = "tell" => clients'[e] = None /\ exit'[e] = "none"
    PROVE  HeardInv'
<1>1. TellerHolds'
  BY DEF HeardInv, TellerHolds
<1>2. ToldOrDue'
  BY DEF ToldOrDue
<1>3. ReadOrDue'
  <2> SUFFICES ASSUME NEW c \in Conn, pc'[c] = "tell"
               PROVE  \/ \E d \in Conn \ {c} : SyncDue(d)'
                      \/ clients'[c] = None /\ exit'[c] = "none"
    BY DEF ReadOrDue
  <2>. QED OBVIOUS
<1>. QED BY <1>1, <1>2, <1>3 DEF HeardInv

\* Such a step is one of a task that neither tells nor is about to, and goes on
\* to something that does not end its connection.
LEMMA QuietMove ==
    ASSUME HeardInv, Shape, NEW c \in Conn, NEW q,
           UNCHANGED <<told, syncing>>, pc' = [pc EXCEPT ![c] = q],
           pc[c] \notin {"sync", "tell"}, q \notin {"none", "done", "lastFlush", "tell"},
           q \in {"watchRead", "watchWrite"} =>
              exit'[c] = "none" \/ (exit[c] # "none" /\ pc[c] = "watchRead"),
           \A d \in Conn \ {c} : exit'[d] = exit[d] /\ work'[d] = work[d],
           \A d \in Conn : clients[d] = None => clients'[d] = None \/ pc[d] = "none",
           \A d \in Conn : clients'[d] = None => clients[d] = None,
           \A d \in Conn : clients'[d] # None =>
              IF clients[d] = None THEN ~ clients'[d].graphics
              ELSE clients'[d].graphics = clients[d].graphics
    PROVE  HeardInv'
<1>1. \A d \in Conn : (clients'[d] # None /\ clients'[d].graphics)
                        <=> (clients[d] # None /\ clients[d].graphics)
  OBVIOUS
<1>2. \A d \in Conn : SyncDue(d) => SyncDue(d)'
  BY DEF SyncDue, Shape
<1>3. \A d \in Conn : pc'[d] = "tell" <=> pc[d] = "tell"
  BY DEF Shape
<1>4. \A d \in Conn : pc[d] = "tell" =>
          /\ work'[d].on = work[d].on
          /\ clients[d] = None /\ exit[d] = "none" => clients'[d] = None /\ exit'[d] = "none"
  BY DEF Shape
<1>. QED BY <1>1, <1>2, <1>3, <1>4, QuietStep

\* The keepers hear of the clients' graphics.
LEMMA HeardStep ==
    TypeOK /\ InHand /\ Phases /\ CleanedUp /\ HeardInv /\ [Next]_vars => HeardInv'
<1> SUFFICES ASSUME TypeOK, InHand, Phases, CleanedUp, HeardInv, [Next]_vars PROVE HeardInv'
  OBVIOUS
<1>0. Shape /\ \A d \in Conn : work[d] \in Work
  BY ShapeType DEF TypeOK
<1>1. ASSUME NEW c \in Conn, Ask(c) PROVE HeardInv'
  <2>0. /\ pc[c] = "idle" /\ UNCHANGED <<told, syncing, exit>>
        /\ \A d \in Conn \ {c} : work'[d] = work[d]
    BY <1>0, <1>1 DEF Ask, AskSubscribe, AskUnsubscribe, AskChange, AskClose, AskSwitch,
         AskDisplay, AskDetach, AskGraphics, AskWatch, AskUnwatch, AskKill, Take, rest, Shape
  <2>1. ASSUME UNCHANGED clients,
               \E q \in {"reply", "display", "watching", "detach"} : pc' = [pc EXCEPT ![c] = q]
        PROVE HeardInv'
    BY <1>0, <2>0, <2>1, QuietMove
  <2>2. ASSUME \/ \E i \in Session \cup {All} : AskSubscribe(c, i)
               \/ AskUnsubscribe(c) \/ AskKill(c)
               \/ \E s \in Session : AskChange(c, s)
               \/ \E t \in Conn : AskDisplay(c, t)
               \/ \E b \in Buffer : AskWatch(c, b)
        PROVE HeardInv'
    BY <2>1, <2>2 DEF AskSubscribe, AskUnsubscribe, AskKill, AskChange, AskDisplay, AskWatch,
                      Take, rest
  <2>3. ASSUME NEW s \in Session, AskClose(c, s) PROVE HeardInv'
    <3>1. CASE UNCHANGED clients
      BY <1>0, <2>0, <2>3, <3>1, QuietMove DEF AskClose, Take
    <3>2. CASE ClearClientSession(s)
      <4>1. \A d \in Conn : ShowsSession(d, s) =>
                LET r == [clients[d] EXCEPT !.session = None]
                IN r \in Client /\ r # None /\ r.graphics = clients[d].graphics
        BY <1>0, NoneIsNoClient DEF Shape, Client, ShowsSession
      <4>2. \A d \in Conn : /\ clients'[d] = None <=> clients[d] = None
                            /\ clients[d] # None => clients'[d].graphics = clients[d].graphics
        BY <3>2, <4>1 DEF ClearClientSession, ShowsSession
      <4>3. \E q \in {"closed", "reply"} : pc' = [pc EXCEPT ![c] = q]
        BY <2>3 DEF AskClose, Take
      <4>. QED BY <1>0, <2>0, <4>2, <4>3, QuietMove
    <3>. QED BY <2>3, <3>1, <3>2 DEF AskClose
  <2>4. ASSUME NEW t \in Conn, NEW s \in Session, AskSwitch(c, t, s) PROVE HeardInv'
    <3>1. CASE UNCHANGED clients
      BY <1>0, <2>0, <2>4, <3>1, QuietMove DEF AskSwitch, Take
    <3>2. CASE clients[t] # None /\ clients' = [clients EXCEPT ![t].session = s]
      <4> DEFINE r == [clients[t] EXCEPT !.session = s]
      <4>1. r \in Client /\ r # None /\ r.graphics = clients[t].graphics
        BY <1>0, <3>2, NoneIsNoClient DEF Shape, Client
      <4>2. clients' = [clients EXCEPT ![t] = r]
        BY <3>2
      <4>3. \E q \in {"switched", "reply"} : pc' = [pc EXCEPT ![c] = q]
        BY <2>4 DEF AskSwitch, Take
      <4> HIDE DEF r
      <4>4. \A d \in Conn : /\ clients'[d] = None <=> clients[d] = None
                            /\ clients[d] # None => clients'[d].graphics = clients[d].graphics
        BY <1>0, <3>2, <4>1, <4>2 DEF Shape
      <4>. QED BY <1>0, <2>0, <4>3, <4>4, QuietMove
    <3>. QED BY <2>4, <3>1, <3>2 DEF AskSwitch
  <2>5. ASSUME NEW t \in Conn, AskDetach(c, t) PROVE HeardInv'
    <3>1. \E q \in {"detach", "reply"} : pc' = [pc EXCEPT ![c] = q]
      BY <2>5 DEF AskDetach, Take
    <3>2. clients' = [clients EXCEPT ![t] = None]
      BY <2>5 DEF AskDetach
    <3>3. CASE clients[t] = None
      <4>1. UNCHANGED clients
        BY <1>0, <3>2, <3>3 DEF Shape
      <4>. QED BY <2>1, <3>1, <4>1
    <3>4. CASE clients[t] # None
      <4>1. SyncDue(t)'
        BY <1>0, <2>0, <3>1, <3>2, <3>4 DEF SyncDue, Shape, Phases, CleanedUp, Ending, Shared
      <4>2. pc[t] = "tell" => exit[t] = "none" /\ clients'[t] = None
        BY <1>0, <3>2, <3>4 DEF CleanedUp, Shape
      <4>3. \A d \in Conn : pc'[d] = "tell" <=> pc[d] = "tell"
        BY <1>0, <2>0, <3>1 DEF Shape
      <4>. QED BY <2>0, <4>1, <4>2, <4>3, AnswerStep
    <3>. QED BY <3>3, <3>4
  <2>6. ASSUME NEW on \in BOOLEAN, AskGraphics(c, on) PROVE HeardInv'
    <3>1. pc' = [pc EXCEPT ![c] = "sync"]
      BY <2>6 DEF AskGraphics, Take
    <3>2. SyncDue(c)' /\ pc[c] # "tell" /\ \A d \in Conn : pc'[d] = "tell" <=> pc[d] = "tell"
      BY <1>0, <2>0, <3>1 DEF Shape, SyncDue
    <3>. QED BY <2>0, <3>2, AnswerStep
  <2>7. ASSUME NEW b \in Buffer, AskUnwatch(c, b) PROVE HeardInv'
    <3> DEFINE r == [clients[c] EXCEPT !.watched = @ \ {b}]
    <3>1. clients[c] # None => r \in Client /\ r # None /\ r.graphics = clients[c].graphics
      BY <1>0, NoneIsNoClient DEF Shape, Client
    <3>2. /\ clients' = IF clients[c] = None THEN clients ELSE [clients EXCEPT ![c] = r]
          /\ pc' = [pc EXCEPT ![c] = "watchRead"]
      BY <2>7 DEF AskUnwatch, Take
    <3> HIDE DEF r
    <3>3. \A d \in Conn : /\ clients'[d] = None <=> clients[d] = None
                          /\ clients[d] # None => clients'[d].graphics = clients[d].graphics
      BY <1>0, <3>1, <3>2 DEF Shape
    <3>4. exit'[c] = "none"
      BY <1>0, <2>0 DEF Phases, Ending, Shared, Shape
    <3>. QED BY <1>0, <2>0, <3>2, <3>3, <3>4, QuietMove
  <2>. QED BY <1>1, <2>2, <2>3, <2>4, <2>5, <2>6, <2>7 DEF Ask
<1>2. ASSUME NEW c \in Conn, SyncRead(c) PROVE HeardInv'
  <2>1. /\ pc[c] = "sync" /\ syncing = None /\ syncing' = c
        /\ pc' = [pc EXCEPT ![c] = "tell"] /\ UNCHANGED <<clients, told, exit>>
    BY <1>2 DEF SyncRead, Goto
  <2>2. work' = [work EXCEPT ![c] = [work[c] EXCEPT !.on = Answers]]
    BY <1>2 DEF SyncRead, Goto, Answers
  <2>3. TellerHolds'
    BY <1>0, <2>1, ConnectionConstants DEF TellerHolds, HeardInv, Shape
  <2>4. ToldOrDue'
    BY <1>0, <2>1 DEF ToldOrDue, SyncDue, Shape
  <2>5. ReadOrDue'
    <3> SUFFICES ASSUME NEW d \in Conn, pc'[d] = "tell" PROVE work'[d].on = Answers'
      BY DEF ReadOrDue
    <3>1. d = c
      BY <1>0, <2>1, ConnectionConstants DEF TellerHolds, HeardInv, Shape
    <3>2. [work[c] EXCEPT !.on = Answers].on = Answers
      BY <1>0 DEF Work
    <3>3. Answers' <=> Answers
      BY <2>1 DEF Answers
    <3> HIDE DEF Answers
    <3>4. work'[c].on = Answers
      BY <1>0, <2>2, <3>2 DEF Shape
    <3>. QED BY <3>1, <3>3, <3>4
  <2>. QED BY <2>3, <2>4, <2>5 DEF HeardInv
<1>3. ASSUME NEW c \in Conn, SyncTell(c) PROVE HeardInv'
  <2>1. /\ pc[c] = "tell" /\ told' = work[c].on /\ syncing' = None
        /\ pc' = [pc EXCEPT ![c] = AfterSync(c)] /\ UNCHANGED <<clients, exit>>
    BY <1>3 DEF SyncTell, Goto
  <2>2. AfterSync(c) # "tell"
    BY DEF AfterSync
  <2>3. \A d \in Conn : pc'[d] # "tell"
    BY <1>0, <2>1, <2>2, ConnectionConstants DEF TellerHolds, HeardInv, Shape
  <2>4. TellerHolds'
    BY <2>1, <2>3, ConnectionConstants DEF TellerHolds
  <2>5. ReadOrDue'
    BY <2>3 DEF ReadOrDue
  <2>6. Answers' <=> Answers
    BY <2>1 DEF Answers
  <2>7. ToldOrDue'
    <3>1. CASE work[c].on = Answers
      <4>1. told' = Answers'
        BY <2>1, <2>6, <3>1
      <4>. QED BY <4>1 DEF ToldOrDue
    <3>2. CASE \E d \in Conn \ {c} : SyncDue(d)
      BY <1>0, <2>1, <3>2 DEF ToldOrDue, SyncDue, Shape
    <3>3. CASE clients[c] = None /\ exit[c] = "none"
      BY <1>0, <2>1, <3>3 DEF ToldOrDue, SyncDue, AfterSync, Shape
    <3>. QED BY <2>1, <3>1, <3>2, <3>3 DEF HeardInv, ReadOrDue
  <2>. QED BY <2>4, <2>5, <2>7 DEF HeardInv
<1>4. ASSUME NEW c \in Conn, Step(c) \/ Reply(c), ~ SyncTell(c) PROVE HeardInv'
  <2>0. ASSUME UNCHANGED <<clients, exit, told, syncing>>, pc[c] \notin {"sync", "tell"},
               NEW q \in {"reply", "idle", "broadcast", "wait", "cleanup", "sync"},
               pc' = [pc EXCEPT ![c] = q], NEW w, work' = [work EXCEPT ![c] = w]
        PROVE HeardInv'
    <3>1. \A d \in Conn \ {c} : work'[d] = work[d]
      BY <1>0, <2>0 DEF Shape
    <3>. QED BY <1>0, <2>0, <3>1, QuietMove
  <2>1. ASSUME ClientChangedEvents(c) PROVE HeardInv'
    BY <2>0, <2>1 DEF ClientChangedEvents, Goto, rest
  <2>2. ASSUME SwitchedEvent(c) PROVE HeardInv'
    BY <2>0, <2>2 DEF SwitchedEvent, Goto, rest
  <2>3. ASSUME SendToClient(c) \/ Detached(c) PROVE HeardInv'
    BY <2>0, <2>3 DEF SendToClient, Detached, Goto, rest
  <2>4. ASSUME NoteWatching(c) PROVE HeardInv'
    <3> DEFINE r == [clients[c] EXCEPT !.watched = @ \cup work[c].buffers]
    <3>1. clients[c] # None => r \in Client /\ r # None /\ r.graphics = clients[c].graphics
      BY <1>0, NoneIsNoClient DEF Shape, Client, Work
    <3>2. /\ clients' = IF clients[c] = None THEN clients ELSE [clients EXCEPT ![c] = r]
          /\ pc[c] = "watching" /\ pc' = [pc EXCEPT ![c] = "reply"]
          /\ work' = [work EXCEPT ![c] = Idle] /\ UNCHANGED <<exit, told, syncing>>
      BY <2>4 DEF NoteWatching, Goto
    <3> HIDE DEF r
    <3>3. \A d \in Conn : /\ clients'[d] = None <=> clients[d] = None
                          /\ clients[d] # None => clients'[d].graphics = clients[d].graphics
      BY <1>0, <3>1, <3>2 DEF Shape
    <3>4. \A d \in Conn \ {c} : work'[d] = work[d]
      BY <1>0, <3>2 DEF Shape
    <3>. QED BY <1>0, <3>2, <3>3, <3>4, QuietMove
  <2>5. ASSUME DetachSubscription(c) PROVE HeardInv'
    BY <2>0, <2>5 DEF DetachSubscription, Goto
  <2>6. ASSUME WatchRead(c) PROVE HeardInv'
    <3>1. /\ pc[c] = "watchRead" /\ pc' = [pc EXCEPT ![c] = "watchWrite"]
          /\ UNCHANGED <<clients, exit, told, syncing>>
      BY <2>6 DEF WatchRead, Goto, rest
    <3>2. \A d \in Conn \ {c} : work'[d] = work[d]
      BY <1>0, <2>6 DEF WatchRead, Goto, Shape
    <3>3. exit'[c] = "none" \/ exit[c] # "none"
      BY <3>1
    <3>. QED BY <1>0, <3>1, <3>2, <3>3, QuietMove
  <2>7. ASSUME WatchWrite(c) PROVE HeardInv'
    <3>1. CASE exit[c] = "none"
      BY <2>0, <2>7, <3>1 DEF WatchWrite, Goto
    <3>2. CASE exit[c] # "none"
      <4>1. /\ pc[c] = "watchWrite" /\ UNCHANGED <<clients, exit, told, syncing>>
            /\ \E q \in {"lastFlush", "done"} : pc' = [pc EXCEPT ![c] = q]
        BY <2>7, <3>2 DEF WatchWrite, Goto
      <4>2. \A d \in Conn \ {c} : work'[d] = work[d]
        BY <1>0, <2>7 DEF WatchWrite, Goto, Shape
      <4>3. \A d \in Conn : SyncDue(d) => SyncDue(d)'
        BY <1>0, <3>2, <4>1 DEF SyncDue, Shape
      <4>4. \A d \in Conn : pc'[d] = "tell" <=> pc[d] = "tell"
        BY <1>0, <4>1 DEF Shape
      <4>. QED BY <4>1, <4>2, <4>3, <4>4, QuietStep
    <3>. QED BY <3>1, <3>2
  <2>8. ASSUME Reply(c) PROVE HeardInv'
    BY <2>0, <2>8 DEF Reply, Goto, rest
  <2>9. ASSUME ReplyFails(c) \/ Finish(c) \/ EndOnStop(c) \/ EndOnDetach(c) \/ EndOnLeave(c)
        PROVE HeardInv'
    <3>1. /\ pc[c] \in {"reply", "broadcast", "idle"} /\ UNCHANGED <<clients, told, syncing>>
          /\ \E q \in {"closing", "flush", "cleanup", "idle"} : pc' = [pc EXCEPT ![c] = q]
      BY <2>9 DEF ReplyFails, Finish, EndOnStop, EndOnDetach, EndOnLeave, Leaves, rest
    <3>2. \A d \in Conn \ {c} : exit'[d] = exit[d] /\ work'[d] = work[d]
      BY <1>0, <2>9
         DEF ReplyFails, Finish, EndOnStop, EndOnDetach, EndOnLeave, Leaves, Shape
    <3>. QED BY <1>0, <3>1, <3>2, QuietMove
  <2>10. ASSUME AbortWriter(c) \/ Flushed(c) \/ CleanupSubscription(c) PROVE HeardInv'
    BY <2>0, <2>10 DEF AbortWriter, Flushed, CleanupSubscription, Goto, rest
  <2>11. ASSUME Cleanup(c) PROVE HeardInv'
    <3>1. /\ pc[c] = "cleanup" /\ pc' = [pc EXCEPT ![c] = "unsubscribe"]
          /\ clients' = [clients EXCEPT ![c] = None] /\ UNCHANGED <<told, syncing>>
      BY <2>11 DEF Cleanup, Goto
    <3>2. SyncDue(c)' /\ pc[c] # "tell" /\ \A d \in Conn : pc'[d] = "tell" <=> pc[d] = "tell"
      BY <1>0, <3>1 DEF SyncDue, Shape
    <3>. QED BY <3>1, <3>2, AnswerStep
  <2>12. ASSUME LastFlush(c) PROVE HeardInv'
    <3>1. /\ pc[c] = "lastFlush" /\ pc' = [pc EXCEPT ![c] = "done"]
          /\ UNCHANGED <<clients, exit, told, syncing>>
      BY <2>12 DEF LastFlush, Goto, rest
    <3>2. \A d \in Conn \ {c} : work'[d] = work[d]
      BY <1>0, <2>12 DEF LastFlush, Goto, Shape
    <3>3. /\ \A d \in Conn : SyncDue(d) => SyncDue(d)'
          /\ \A d \in Conn : pc'[d] = "tell" <=> pc[d] = "tell"
      BY <1>0, <3>1 DEF SyncDue, Shape
    <3>. QED BY <3>1, <3>2, <3>3, QuietStep
  <2>. QED BY <1>4, <2>1, <2>2, <2>3, <2>4, <2>5, <2>6, <2>7, <2>8, <2>9, <2>10, <2>11,
              <2>12 DEF Step
<1>5. ASSUME NEW c \in Conn, Accept(c) PROVE HeardInv'
  <2>1. ~ NoClient.graphics /\ NoClient # None
    <3>1. NoClient.graphics = FALSE /\ NoClient \in Client
      BY DEF NoClient, Client
    <3>. QED BY <3>1, NoneIsNoClient
  <2>2. /\ pc[c] = "none" /\ pc' = [pc EXCEPT ![c] = "idle"]
        /\ clients' = [clients EXCEPT ![c] = NoClient]
        /\ UNCHANGED <<exit, work, told, syncing>>
    BY <1>5 DEF Accept
  <2>3. clients[c] = None
    BY <2>2 DEF Phases
  <2>4. \A d \in Conn : IF d = c THEN clients'[d] = NoClient ELSE clients'[d] = clients[d]
    BY <1>0, <2>2 DEF Shape
  <2>. QED BY <1>0, <2>1, <2>2, <2>3, <2>4, QuietMove
<1>6. ASSUME UNCHANGED <<pc, exit, work, clients, told, syncing>> PROVE HeardInv'
  <2>1. \A d \in Conn : SyncDue(d) => SyncDue(d)'
    BY <1>6 DEF SyncDue
  <2>. QED BY <1>6, <2>1, QuietStep
<1>. QED BY <1>1, <1>2, <1>3, <1>4, <1>5, <1>6
         DEF Next, Write, WriterEnds, Stall, Leave, Report, StopServer, StopListening,
             Stopped, task, rest, vars
------------------------------------------------------------------------------
(* The theorems *)

\* The invariant holds initially.
LEMMA InvInit == Init => ConnectionsInv
<1> SUFFICES ASSUME Init PROVE ConnectionsInv
  OBVIOUS
<1>1. TypeOK
  <2>1. <<>> \in Seq(Event) /\ Len(<<>>) = 0 /\ 0 <= Capacity /\ 0 \in 0 .. MaxRequests
    BY ConnectionConstants
  <2>2. out \in [Conn -> Seq(Event)] /\ \A c \in Conn : Len(out[c]) <= Capacity
    BY <2>1 DEF Init
  <2>3. work \in [Conn -> Work]
    BY IdleType DEF Init
  <2>. QED BY <2>1, <2>2, <2>3 DEF Init, TypeOK, Steps
<1>2. InHand
  BY DEF Init, InHand
<1>3. Phases /\ CleanedUp
  BY DEF Init, Phases, CleanedUp, Ending, Shared
<1>4. ShownSessionExists
  BY DEF Init, ShownSessionExists
<1>5. TellerHolds /\ ReadOrDue
  BY ConnectionConstants DEF Init, TellerHolds, ReadOrDue
<1>6. ToldOrDue
  <2>1. told = FALSE /\ ~ Answers
    BY DEF Init, Answers
  <2>. QED BY <2>1 DEF ToldOrDue, Answers
<1>. QED BY <1>1, <1>2, <1>3, <1>4, <1>5, <1>6 DEF ConnectionsInv

\* Every step keeps the invariant.
LEMMA InvStep == ConnectionsInv /\ [Next]_vars => ConnectionsInv'
  BY TypeStep, InHandStep, PhaseStep, ShownStep, HeardStep DEF ConnectionsInv, HeardInv

\* The inductive invariant of the connections.
THEOREM InvHolds == Spec => []ConnectionsInv
  BY InvInit, InvStep, PTL DEF Spec

\* The values of the server's connection state, and that no outbound queue ever
\* holds more than its capacity, whatever answers, notices and broadcasts meet in it.
THEOREM ConnectionTypes == Spec => []TypeOK
<1>1. ConnectionsInv => TypeOK
  BY DEF ConnectionsInv
<1>. QED BY <1>1, InvHolds, PTL

\* No client ever shows a session that was closed.
THEOREM ShownExists == Spec => []ShownSessionExists
<1>1. ConnectionsInv => ShownSessionExists
  BY DEF ConnectionsInv
<1>. QED BY <1>1, InvHolds, PTL

\* A connection that was cleaned up leaves no client, subscription or writer.
THEOREM CleanupIsComplete == Spec => []NothingLeft
<1>1. ConnectionsInv => NothingLeft
  BY DEF ConnectionsInv, NothingLeft, Phases, CleanedUp, Ending
<1>. QED BY <1>1, InvHolds, PTL

\* Once nobody has a change to tell, the keepers were told whether some client
\* answers graphics queries.
THEOREM KeepersHearGraphics == Spec => []GraphicsHeard
<1>1. ConnectionsInv => GraphicsHeard
  BY DEF ConnectionsInv, ToldOrDue, GraphicsHeard, Answers
<1>. QED BY <1>1, InvHolds, PTL
------------------------------------------------------------------------------
(* The connections implement the feed of events *)

\* The connections that can be sent something.
Open == [c \in Conn |-> writer[c] = "running"]

\* A broadcast is one of the feed.
LEMMA BroadcastFeeds ==
    ASSUME TypeOK, NEW es \in Batches, NEW retired \in SUBSET Session, Broadcast(es, retired)
    PROVE  Feed!FeedNext
<1> DEFINE n == [c \in Conn |-> Fits(c, es)]
<1>1. es \in Seq(Event)
  BY BatchTypes
<1>2. \A c \in Conn : /\ Fits(c, es) \in 0 .. Len(es)
                      /\ Fits(c, es) <= Len(Feed!Wanted(subs[c], es))
  BY <1>1, FitsType
<1>3. n \in [Conn -> 0 .. Len(es)]
  BY <1>2
<1>4. \A c \in Conn : n[c] <= Len(Feed!Wanted(subs[c], es))
  BY <1>2
<1>5. \A c \in Conn : ~ Open[c] => n[c] = 0
  BY DEF Open, Fits
<1>6. out' = [c \in Conn |-> out[c] \o SubSeq(Feed!Wanted(subs[c], es), 1, n[c])]
  BY DEF Broadcast
<1>7. subs' = [c \in Conn |->
                 IF n[c] = Len(Feed!Wanted(subs[c], es)) /\ subs[c] \notin retired
                 THEN subs[c] ELSE None]
  BY DEF Broadcast
<1>8. Open' = Open
  BY DEF Broadcast, Open
<1> HIDE DEF n
<1>9. Feed!Broadcast(es, retired)
  BY <1>3, <1>4, <1>5, <1>6, <1>7, <1>8 DEF Feed!Broadcast, Open
<1>. QED BY <1>9 DEF Feed!FeedNext

\* A writer that ends closes the connection's feed.
LEMMA EndFeeds ==
    ASSUME TypeOK, NEW c \in Conn, UNCHANGED subs,
           writer' = [writer EXCEPT ![c] = "ended"], out' = [out EXCEPT ![c] = <<>>]
    PROVE  Feed!FeedNext
<1>1. Open' = [Open EXCEPT ![c] = FALSE]
  BY DEF Open, TypeOK
<1>2. Feed!Close(c)
  BY <1>1 DEF Feed!Close, Open
<1>. QED BY <1>2 DEF Feed!FeedNext

\* A notice that is sent is one of the feed.
LEMMA NoticeFeeds ==
    ASSUME TypeOK, NEW c \in Conn, writer[c] = "running",
           out' = [out EXCEPT ![c] = Append(@, Feed!Notice)], UNCHANGED <<subs, writer>>
    PROVE  Feed!FeedNext
<1>1. Feed!Send(c)
  BY DEF Feed!Send
<1>. QED BY <1>1 DEF Feed!FeedNext

\* A subscription that ends.
LEMMA UnsubscribeFeeds ==
    ASSUME NEW c \in Conn, subs' = [subs EXCEPT ![c] = None], UNCHANGED <<out, writer>>
    PROVE  Feed!FeedNext
<1>1. Feed!Unsubscribe(c)
  BY DEF Feed!Unsubscribe
<1>. QED BY <1>1 DEF Feed!FeedNext

\* Every step of the connections is a step of the feed, or leaves it alone.
LEMMA FeedStep == TypeOK /\ InHand /\ Phases /\ [Next]_vars => [Feed!FeedNext]_(Feed!feedVars)
<1> SUFFICES ASSUME TypeOK, InHand, Phases, [Next]_vars PROVE [Feed!FeedNext]_(Feed!feedVars)
  OBVIOUS
<1>0. ASSUME UNCHANGED queues PROVE UNCHANGED Feed!feedVars
  BY <1>0 DEF queues, Feed!feedVars
<1>1. ASSUME NEW c \in Conn, Accept(c) PROVE Feed!FeedNext
  <2>1. out[c] = <<>> /\ out \in [Conn -> Seq(Event)]
    BY <1>1 DEF Accept, Phases, TypeOK
  <2>2. out' = [out EXCEPT ![c] = <<>>]
    BY <1>1, <2>1 DEF Accept
  <2>3. Open' = [Open EXCEPT ![c] = TRUE] /\ UNCHANGED subs
    BY <1>1 DEF Accept, Open, TypeOK
  <2>4. Feed!Open(c)
    BY <2>2, <2>3 DEF Feed!Open, Open
  <2>. QED BY <2>4 DEF Feed!FeedNext
<1>2. ASSUME NEW c \in Conn, Ask(c) PROVE Feed!FeedNext \/ UNCHANGED queues
  <2>1. ASSUME NEW i \in Session \cup {All}, AskSubscribe(c, i) PROVE Feed!FeedNext
    <3>1. Feed!Subscribe(c, i)
      BY <2>1 DEF AskSubscribe, Feed!Subscribe
    <3>. QED BY <3>1 DEF Feed!FeedNext
  <2>2. ASSUME AskUnsubscribe(c) PROVE Feed!FeedNext
    BY <2>2, UnsubscribeFeeds DEF AskUnsubscribe
  <2>. QED BY <1>2, <2>1, <2>2
           DEF Ask, AskChange, AskClose, AskSwitch, AskDisplay, AskDetach, AskGraphics,
               AskWatch, AskUnwatch, AskKill
<1>3. ASSUME NEW c \in Conn, TrySend(c) PROVE Feed!FeedNext \/ UNCHANGED queues
  BY <1>3, NoticeFeeds DEF TrySend, queues
<1>4. ASSUME NEW c \in Conn, Step(c) \/ Reply(c) \/ SyncRead(c)
      PROVE  Feed!FeedNext \/ UNCHANGED queues
  <2>1. ASSUME SendToClient(c) PROVE Feed!FeedNext \/ UNCHANGED queues
    BY <1>3, <2>1 DEF SendToClient, InHand
  <2>2. ASSUME DetachSubscription(c) PROVE Feed!FeedNext
    <3>1. work[c].target \in Conn
      BY <2>2 DEF DetachSubscription, InHand
    <3>. QED BY <2>2, <3>1, UnsubscribeFeeds DEF DetachSubscription
  <2>3. ASSUME CleanupSubscription(c) PROVE Feed!FeedNext
    BY <2>3, UnsubscribeFeeds DEF CleanupSubscription
  <2>4. ASSUME Reply(c) PROVE Feed!FeedNext
    BY <2>4, NoticeFeeds DEF Reply
  <2>5. ASSUME Finish(c) PROVE Feed!FeedNext
    <3>1. work[c].events \in Batches /\ work[c].retired \in SUBSET Session
      BY DEF TypeOK, Work
    <3>. QED BY <2>5, <3>1, BroadcastFeeds DEF Finish
  <2>6. ASSUME EndOnStop(c) PROVE Feed!FeedNext \/ UNCHANGED queues
    BY <1>3, <2>6 DEF EndOnStop
  <2>7. ASSUME AbortWriter(c) \/ LastFlush(c) PROVE Feed!FeedNext
    BY <2>7, EndFeeds DEF AbortWriter, LastFlush
  <2>. QED BY <1>4, <2>1, <2>2, <2>3, <2>4, <2>5, <2>6, <2>7
           DEF Step, SyncRead, ClientChangedEvents, SwitchedEvent, NoteWatching, Detached,
               SyncTell, WatchRead, WatchWrite, ReplyFails, EndOnDetach, EndOnLeave,
               Flushed, Cleanup
<1>5. ASSUME NEW c \in Conn, Write(c) PROVE Feed!FeedNext
  <2>1. Feed!Read(c)
    BY <1>5 DEF Write, Feed!Read
  <2>. QED BY <2>1 DEF Feed!FeedNext
<1>6. ASSUME NEW c \in Conn, WriterEnds(c) PROVE Feed!FeedNext
  BY <1>6, EndFeeds DEF WriterEnds
<1>7. ASSUME Report PROVE Feed!FeedNext
  BY <1>7, BatchMembers, BroadcastFeeds DEF Report
<1>8. ASSUME UNCHANGED vars PROVE UNCHANGED queues
  BY <1>8 DEF vars, queues
<1>. QED BY <1>0, <1>1, <1>2, <1>4, <1>5, <1>6, <1>7, <1>8
         DEF Next, Stall, Leave, StopServer, StopListening, Stopped

\* The initial state is one of the feed.
LEMMA FeedStart == Init => Feed!FeedInit
<1> SUFFICES ASSUME Init PROVE Feed!FeedInit
  OBVIOUS
<1>1. Open = [c \in Conn |-> FALSE]
  BY DEF Init, Open
<1>. QED BY <1>1 DEF Init, Open, Feed!FeedInit

\* Subscribers are sent what the feed promises: every event they want, in order and
\* with no gap, until they lose their subscription.
THEOREM FeedIsKept == Spec => FeedKept
<1>1. ConnectionsInv /\ [Next]_vars => [Feed!FeedNext]_(Feed!feedVars)
  BY FeedStep DEF ConnectionsInv
<1>. QED BY <1>1, FeedStart, InvHolds, PTL DEF Spec, FeedKept, Feed!FeedSpec
==============================================================================
