-------------------------- MODULE ReplyHoldProofs --------------------------
(***************************************************************************)
(* Proofs about ReplyHold, for any names, bounds and number of queries.    *)
(*                                                                         *)
(* What is held is bounded and watched by the hold thread (IInv): the      *)
(* methods of ReplyHold keep a hold sound (HoldMethods), and the threads   *)
(* only call them under the lock, so what is left is the wakeup of the     *)
(* hold thread.                                                            *)
(*                                                                         *)
(* No reply is lost or written twice, and none before the answer that let  *)
(* it go (OrderInv): the methods divide what they have between the hold    *)
(* and what they hand out (MethodsDivide), each thread then moves its part *)
(* to the queue or drops it (TrySendPlaces), and the numbers of new        *)
(* queries are new (ReadsAreFresh).                                        *)
(***************************************************************************)
EXTENDS ReplyHold, TLAPS

\* What a method of ReplyHold returns: the hold it leaves and what it hands out.
Result == [hold : Hold, out : Seq(Nat)]
Keeps(r) == r \in Result /\ Sound(r.hold)

\* release leaves a hold that is empty and waits for nothing.
LEMMA ReleasedEmpty ==
    ASSUME NEW h \in Hold
    PROVE  Released(h) \in Hold /\ Sound(Released(h)) /\ Released(h).pending = {}
<1>1. <<>> \in Seq(Nat) /\ Len(<<>>) <= MaxHeld
  BY BoundsAssumption
<1>. QED BY <1>1 DEF Hold, Released, Sound

\* Every method of ReplyHold keeps the hold sound and hands out whole replies:
\* in particular `replies` never holds more than the bound.
LEMMA HoldMethods ==
    ASSUME NEW h \in Hold, Sound(h)
    PROVE  /\ \A enabled \in BOOLEAN : Keeps(SetEnabled(h, enabled))
           /\ \A id \in Id \cup {None}, n \in Nat :
                 Forwarded(h, id, n) \in Hold /\ Sound(Forwarded(h, id, n))
           /\ \A replies \in Seq(Nat) : Keeps(Replies(h, replies))
           /\ \A ids \in SUBSET Id : Keeps(Input(h, ids))
           /\ Keeps(Expire(h))
<1> USE BoundsAssumption DEF Keeps, Result
<1>1. ASSUME NEW enabled \in BOOLEAN PROVE Keeps(SetEnabled(h, enabled))
  <2> DEFINE g == [h EXCEPT !.enabled = enabled]
  <2>1. g \in Hold /\ g.enabled = enabled /\ g.pending = h.pending /\ g.held = h.held
        /\ g.deadline = h.deadline
    BY DEF Hold
  <2>2. CASE enabled = TRUE
    <3>1. SetEnabled(h, enabled) = [hold |-> g, out |-> <<>>]
      BY <2>2 DEF SetEnabled
    <3>2. <<>> \in Seq(Nat)
      OBVIOUS
    <3>3. Sound(g)
      BY <2>1, <2>2 DEF Sound
    <3> HIDE DEF g
    <3>. QED BY <2>1, <3>1, <3>2, <3>3
  <2>3. CASE enabled = FALSE
    BY <2>1, <2>3, ReleasedEmpty DEF SetEnabled, Hold
  <2>. QED BY <2>2, <2>3
<1>2. ASSUME NEW id \in Id \cup {None}, NEW n \in Nat
      PROVE  Forwarded(h, id, n) \in Hold /\ Sound(Forwarded(h, id, n))
  <2>1. CASE ~h.enabled \/ id = None
    BY <2>1 DEF Forwarded
  <2>2. CASE h.enabled /\ id # None
    BY <2>2 DEF Forwarded, Sound, Hold
  <2>. QED BY <2>1, <2>2
<1>3. ASSUME NEW replies \in Seq(Nat) PROVE Keeps(Replies(h, replies))
  <2>1. h.held \o replies \in Seq(Nat)
    BY DEF Hold
  <2>2. CASE h.pending = {}
    BY <2>2 DEF Replies
  <2>3. CASE h.pending # {} /\ Len(h.held \o replies) > MaxHeld
    BY <2>1, <2>3, ReleasedEmpty DEF Replies
  <2>4. CASE h.pending # {} /\ ~(Len(h.held \o replies) > MaxHeld)
    <3> DEFINE held == h.held \o replies
               g == [h EXCEPT !.held = held]
    <3>1. held \in Seq(Nat) /\ Len(held) \in Nat /\ Len(held) <= MaxHeld
      BY <2>1, <2>4
    <3>2. Replies(h, replies) = [hold |-> g, out |-> <<>>]
      BY <2>4 DEF Replies
    <3> HIDE DEF held
    <3>3. g \in Hold /\ g.held = held /\ g.pending = h.pending /\ g.enabled = h.enabled
          /\ g.deadline = h.deadline
      BY <3>1 DEF Hold
    <3> HIDE DEF g
    <3>. QED BY <2>4, <3>1, <3>2, <3>3 DEF Sound
  <2>. QED BY <2>2, <2>3, <2>4
<1>4. ASSUME NEW ids \in SUBSET Id PROVE Keeps(Input(h, ids))
  BY ReleasedEmpty DEF Input, Answered, Sound, Hold
<1>5. Keeps(Expire(h))
  BY ReleasedEmpty DEF Expire, Sound, Hold
<1>. QED BY <1>1, <1>2, <1>3, <1>4, <1>5

-----------------------------------------------------------------------------
IInv == TypeOK /\ HeldIsWatched

\* The queue only ever gets messages, and what is dropped are replies.
LEMMA TrySendTypes ==
    ASSUME TypeOK, NEW replies \in Seq(Nat), TrySend(replies)
    PROVE  sent' \in Seq(Message) /\ dropped' \subseteq Nat
<1>1. Elements(replies) \subseteq Nat
  BY DEF Elements
<1>2. [answers |-> {}, replies |-> replies] \in Message
  BY DEF Message
<1>3. sent \in Seq(Message) /\ dropped \subseteq Nat
  BY DEF TypeOK
<1>4. sent' = sent \/ sent' = Append(sent, [answers |-> {}, replies |-> replies])
  BY DEF TrySend
<1>5. dropped' = dropped \/ dropped' = dropped \cup Elements(replies)
  BY DEF TrySend
<1> DEFINE m == [answers |-> {}, replies |-> replies]
<1> HIDE DEF m
<1>6. sent' = sent \/ sent' = Append(sent, m)
  BY <1>4 DEF m
<1>7. m \in Message
  BY <1>2 DEF m
<1>8. sent' \in Seq(Message)
  BY <1>3, <1>6, <1>7
<1>. QED BY <1>1, <1>3, <1>5, <1>8

\* A new keeper holds nothing.
LEMMA HoldInit == Init => IInv
BY BoundsAssumption DEF Init, IInv, TypeOK, HeldIsWatched, Sound, Hold, IdleHandler

\* The read loop leaves the hold sound, with the hold thread awake for it.
LEMMA ReadStep ==
    ASSUME IInv, NEW before \in Seq(Nat), NEW id \in Id \cup {None}, NEW after \in Seq(Nat),
           ReadOutput(before, id, after)
    PROVE  IInv'
<1> DEFINE base == queries + Len(before)
           first == Replies(hold, before)
           forwarded == Forwarded(first.hold, id, base + 1)
           second == Replies(forwarded, after)
<1>1. base \in Nat /\ queries' \in Nat
  BY DEF IInv, TypeOK, ReadOutput
<1>2. Keeps(first)
  BY HoldMethods DEF IInv, TypeOK, HeldIsWatched
<1>3. forwarded \in Hold /\ Sound(forwarded)
  <2>1. first.hold \in Hold /\ Sound(first.hold) /\ base + 1 \in Nat
    BY <1>1, <1>2 DEF Keeps, Result
  <2> HIDE DEF base, first
  <2>. QED BY <2>1, HoldMethods
<1>4. Keeps(second)
  BY <1>3, HoldMethods
<1>5. /\ hold' = second.hold /\ reader' = first.out \o second.out
      /\ sleeper' = Notified(second.hold)
      /\ asked' = asked \cup Elements(before) \cup Elements(after)
      /\ UNCHANGED <<handler, sent, written, inputs, dropped, behind>>
  BY DEF ReadOutput
<1>6. first.out \o second.out \in Seq(Nat)
  BY <1>2, <1>4 DEF Keeps, Result
<1>7. Elements(before) \subseteq Nat /\ Elements(after) \subseteq Nat
  BY DEF Elements
<1> HIDE DEF base, first, second
<1>8. TypeOK'
  BY <1>1, <1>4, <1>5, <1>6, <1>7 DEF IInv, TypeOK, Keeps, Result, Notified
<1>9. HeldIsWatched'
  BY <1>4, <1>5 DEF HeldIsWatched, Keeps, Sound, Notified
<1>. QED BY <1>8, <1>9 DEF IInv

\* Every step of a thread, a request or time keeps what is held watched.
LEMMA HoldStep == IInv /\ [Next]_vars => IInv'
<1> SUFFICES ASSUME IInv, [Next]_vars PROVE IInv'
  OBVIOUS
<1>0. /\ TypeOK /\ HeldIsWatched /\ hold \in Hold /\ Sound(hold)
      /\ reader \in Seq(Nat) /\ handler.released \in Seq(Nat)
  BY DEF IInv, TypeOK, HeldIsWatched
<1>1. ASSUME Reads PROVE IInv'
  <2>1. PICK b \in 0..1, a \in 0..1, id \in Id \cup {None} :
          ReadOutput([i \in 1..b |-> queries + i], id,
                     [i \in 1..a |-> queries + b + (IF id = None THEN 0 ELSE 1) + i])
    BY <1>1 DEF Reads
  <2>2. [i \in 1..b |-> queries + i] \in Seq(Nat)
    BY <1>0 DEF TypeOK
  <2>3. [i \in 1..a |-> queries + b + (IF id = None THEN 0 ELSE 1) + i] \in Seq(Nat)
    BY <1>0 DEF TypeOK
  <2>. QED BY <2>1, <2>2, <2>3, ReadStep
<1>2. ASSUME NEW ids \in SUBSET Id, WriteInput(ids) PROVE IInv'
  <2> DEFINE result == Input(hold, ids)
             answers == Answered(hold, ids)
  <2>1. Keeps(result)
    BY <1>0, HoldMethods
  <2>2. answers \subseteq hold.pending /\ answers \in SUBSET (Id \X Nat)
    BY <1>0 DEF Answered, Hold
  <2>3. result.hold.pending \subseteq hold.pending
    BY <1>0 DEF Input, Released, Hold
  <2>4. /\ hold' = result.hold /\ inputs' = inputs + 1
        /\ handler' = [stage |-> "send", answers |-> answers, released |-> result.out]
        /\ behind' = behind \cup (Elements(result.out) \X answers)
        /\ UNCHANGED <<reader, sent, written, sleeper, asked, queries, dropped>>
    BY <1>2 DEF WriteInput
  <2> HIDE DEF result, answers
  <2>5. Elements(result.out) \subseteq Nat
    BY <2>1 DEF Keeps, Result, Elements
  <2>6. TypeOK'
    BY <1>0, <2>1, <2>2, <2>4, <2>5 DEF TypeOK, Keeps, Result
  <2>7. HeldIsWatched'
    BY <1>0, <2>1, <2>3, <2>4 DEF HeldIsWatched, Keeps
  <2>. QED BY <2>6, <2>7 DEF IInv
<1>3. ASSUME NEW enabled \in BOOLEAN, SetHostGraphics(enabled) PROVE IInv'
  <2> DEFINE result == SetEnabled(hold, enabled)
  <2>1. Keeps(result)
    BY <1>0, HoldMethods
  <2>2. result.hold.pending \subseteq hold.pending
    BY <1>0 DEF SetEnabled, Released, Hold
  <2>3. /\ hold' = result.hold /\ inputs' = inputs + 1
        /\ handler' = [stage |-> "release", answers |-> {}, released |-> result.out]
        /\ UNCHANGED <<reader, sent, written, sleeper, asked, queries, dropped, behind>>
    BY <1>3 DEF SetHostGraphics
  <2> HIDE DEF result
  <2>4. TypeOK'
    BY <1>0, <2>1, <2>3 DEF TypeOK, Keeps, Result
  <2>5. HeldIsWatched'
    BY <1>0, <2>1, <2>2, <2>3 DEF HeldIsWatched, Keeps
  <2>. QED BY <2>4, <2>5 DEF IInv
<1>4. ASSUME ReaderSends PROVE IInv'
  BY <1>0, <1>4, TrySendTypes DEF ReaderSends, IInv, TypeOK, HeldIsWatched
<1>5. ASSUME HandlerSends PROVE IInv'
  <2>1. [answers |-> handler.answers, replies |-> <<>>] \in Message
    BY <1>0 DEF TypeOK, Message
  <2>2. sent' \in Seq(Message)
    BY <1>0, <1>5, <2>1 DEF HandlerSends, TypeOK
  <2>. QED BY <1>0, <1>5, <2>2 DEF HandlerSends, IInv, TypeOK, HeldIsWatched
<1>6. ASSUME HandlerReleases PROVE IInv'
  BY <1>0, <1>6, TrySendTypes DEF HandlerReleases, IdleHandler, IInv, TypeOK, HeldIsWatched
<1>7. ASSUME HoldLoop PROVE IInv'
  <2> DEFINE result == Expire(hold)
  <2>1. Keeps(result)
    BY <1>0, HoldMethods
  <2>2. /\ hold' = result.hold /\ TrySend(result.out)
        /\ sleeper' = IF result.hold.deadline = "none" THEN "forever" ELSE "timed"
        /\ UNCHANGED <<reader, handler, written, asked, queries, inputs, behind>>
    BY <1>7 DEF HoldLoop
  <2> HIDE DEF result
  <2>3. sent' \in Seq(Message) /\ dropped' \subseteq Nat
    BY <1>0, <2>1, <2>2, TrySendTypes DEF Keeps, Result
  <2>4. TypeOK'
    BY <1>0, <2>1, <2>2, <2>3 DEF TypeOK, Keeps, Result
  <2>5. HeldIsWatched'
    BY <2>1, <2>2 DEF HeldIsWatched, Keeps, Sound
  <2>. QED BY <2>4, <2>5 DEF IInv
<1>8. ASSUME Timeout PROVE IInv'
  <2>1. /\ hold' \in Hold /\ hold'.pending = hold.pending /\ hold'.held = hold.held
        /\ hold'.enabled = hold.enabled /\ hold'.deadline = "passed"
    BY <1>0, <1>8 DEF Timeout, Hold
  <2>. QED BY <1>0, <1>8, <2>1 DEF Timeout, IInv, TypeOK, HeldIsWatched, Sound
<1>9. ASSUME WriterWrites PROVE IInv'
  BY <1>0, <1>9 DEF WriterWrites, IInv, TypeOK, HeldIsWatched
<1>10. CASE UNCHANGED vars
  BY <1>0, <1>10 DEF vars, IInv, TypeOK, HeldIsWatched
<1>. QED
  BY <1>1, <1>2, <1>3, <1>4, <1>5, <1>6, <1>7, <1>8, <1>9, <1>10 DEF Next, Requests

\* Whatever the program sends and the server answers, held replies are bounded,
\* wait for a query, and have a hold thread that will wake for them.
THEOREM HeldRepliesWatched == Spec => [](TypeOK /\ HeldIsWatched)
BY HoldInit, HoldStep, PTL DEF Spec, IInv

-----------------------------------------------------------------------------
(* Where replies are.  A reply leaves the hold under the lock and reaches the *)
(* queue after it, so three threads can have some at the same time; each step *)
(* moves a set of replies from one place to another.                          *)

Queued == UNION {Elements(sent[i].replies) : i \in DOMAIN sent}

\* No reply is in two messages.
SentOnce ==
    \A i, j \in DOMAIN sent : i # j => Elements(sent[i].replies) \cap Elements(sent[j].replies) = {}

\* The five places have nothing in common.
Apart(H, R, L, D, S) ==
    /\ H \cap R = {} /\ H \cap L = {} /\ H \cap D = {} /\ H \cap S = {}
    /\ R \cap L = {} /\ R \cap D = {} /\ R \cap S = {}
    /\ L \cap D = {} /\ L \cap S = {} /\ D \cap S = {}

Everywhere(H, R, L, D, S) == H \cup R \cup L \cup D \cup S

\* Every reply is somewhere, once, and it answers a query that was sent.
Sorted(H, R, L, D, S) ==
    /\ Apart(H, R, L, D, S)
    /\ asked \subseteq Everywhere(H, R, L, D, S)
    /\ \A n \in Everywhere(H, R, L, D, S) : n <= queries

PlacedOnce ==
    /\ SentOnce
    /\ Sorted(Elements(hold.held), Elements(reader), Elements(handler.released), dropped, Queued)
    /\ handler.stage = "idle" => handler = IdleHandler

\* What was held behind an answer goes after it: the handler has both, or the
\* answer is queued and the reply is not queued before it.
StaysBehind ==
    /\ \A q \in hold.pending : q[2] <= queries
    /\ \A p \in behind :
          /\ p[2] \notin hold.pending /\ p[2][2] <= queries
          /\ p[2] \in handler.answers => p[1] \in Elements(handler.released)
          /\ \A i, j \in DOMAIN sent :
                p[1] \in Elements(sent[i].replies) /\ p[2] \in sent[j].answers => j < i

OrderInv == IInv /\ PlacedOnce /\ StaysBehind

\* No replies are in an empty run of them.
LEMMA ElementsEmpty == Elements(<<>>) = {}
BY DEF Elements

\* Appending one run of replies to another adds up what they hold.
LEMMA ElementsConcat ==
    ASSUME NEW s \in Seq(Nat), NEW t \in Seq(Nat)
    PROVE  Elements(s \o t) = Elements(s) \cup Elements(t)
<1>0. /\ s \o t \in Seq(Nat) /\ DOMAIN s = 1 .. Len(s) /\ DOMAIN t = 1 .. Len(t)
      /\ Len(s) \in Nat /\ Len(t) \in Nat
      /\ DOMAIN (s \o t) = 1 .. (Len(s) + Len(t))
  OBVIOUS
<1>1. \A i \in 1 .. (Len(s) + Len(t)) :
         (s \o t)[i] = IF i <= Len(s) THEN s[i] ELSE t[i - Len(s)]
  OBVIOUS
<1>2. ASSUME NEW i \in DOMAIN (s \o t) PROVE (s \o t)[i] \in Elements(s) \cup Elements(t)
  <2>1. CASE i <= Len(s)
    BY <1>0, <1>1, <2>1 DEF Elements
  <2>2. CASE ~(i <= Len(s))
    <3>1. i - Len(s) \in DOMAIN t /\ (s \o t)[i] = t[i - Len(s)]
      BY <1>0, <1>1, <2>2
    <3>. QED BY <3>1 DEF Elements
  <2>. QED BY <2>1, <2>2
<1>3. ASSUME NEW i \in DOMAIN s PROVE s[i] \in Elements(s \o t)
  <2>1. i \in DOMAIN (s \o t) /\ (s \o t)[i] = s[i]
    BY <1>0, <1>1
  <2>. QED BY <2>1 DEF Elements
<1>4. ASSUME NEW i \in DOMAIN t PROVE t[i] \in Elements(s \o t)
  <2>1. PICK k \in 1 .. (Len(s) + Len(t)) : k = Len(s) + i
    BY <1>0
  <2>2. ~(k <= Len(s)) /\ k - Len(s) = i
    BY <1>0, <2>1
  <2>3. k \in DOMAIN (s \o t) /\ (s \o t)[k] = t[i]
    BY <1>0, <1>1, <2>2
  <2>. QED BY <2>3 DEF Elements
<1>. QED BY <1>2, <1>3, <1>4 DEF Elements

\* What a method handed out and what it kept are all it had, without overlap.
Divides(r, E) ==
    /\ Elements(r.out) \cap Elements(r.hold.held) = {}
    /\ Elements(r.out) \cup Elements(r.hold.held) = E

\* The methods of ReplyHold lose no reply and hand none out that they keep; only
\* `forwarded` adds a pending query.
LEMMA MethodsDivide ==
    ASSUME NEW h \in Hold
    PROVE  /\ \A enabled \in BOOLEAN :
                 /\ Divides(SetEnabled(h, enabled), Elements(h.held))
                 /\ SetEnabled(h, enabled).hold.pending \subseteq h.pending
           /\ \A id \in Id \cup {None}, n \in Nat :
                 /\ Forwarded(h, id, n).held = h.held
                 /\ Forwarded(h, id, n).pending \subseteq h.pending \cup {<<id, n>>}
           /\ \A replies \in Seq(Nat) :
                 /\ Elements(h.held) \cap Elements(replies) = {}
                       => Divides(Replies(h, replies), Elements(h.held) \cup Elements(replies))
                 /\ Replies(h, replies).hold.pending \subseteq h.pending
           /\ \A ids \in SUBSET Id :
                 /\ Divides(Input(h, ids), Elements(h.held))
                 /\ Input(h, ids).hold.pending = h.pending \ Answered(h, ids)
           /\ Divides(Expire(h), Elements(h.held)) /\ Expire(h).hold.pending \subseteq h.pending
<1> USE ElementsEmpty
<1>0. /\ Released(h).held = <<>> /\ Released(h).pending = {}
      /\ h.held \in Seq(Nat)
  BY DEF Released, Hold
<1>1. ASSUME NEW enabled \in BOOLEAN
      PROVE  /\ Divides(SetEnabled(h, enabled), Elements(h.held))
             /\ SetEnabled(h, enabled).hold.pending \subseteq h.pending
  <2>1. CASE enabled
    <3> DEFINE g == [h EXCEPT !.enabled = TRUE]
    <3>1. g.held = h.held /\ g.pending = h.pending
      BY DEF Hold
    <3>2. SetEnabled(h, enabled) = [hold |-> g, out |-> <<>>]
      BY <2>1 DEF SetEnabled
    <3> HIDE DEF g
    <3>. QED BY <3>1, <3>2 DEF Divides
  <2>2. CASE ~enabled
    <3>1. SetEnabled(h, enabled) = [hold |-> Released([h EXCEPT !.enabled = FALSE]), out |-> h.held]
      BY <2>2 DEF SetEnabled
    <3>. QED BY <3>1 DEF Divides, Released
  <2>. QED BY <2>1, <2>2
<1>2. ASSUME NEW id \in Id \cup {None}, NEW n \in Nat
      PROVE  /\ Forwarded(h, id, n).held = h.held
             /\ Forwarded(h, id, n).pending \subseteq h.pending \cup {<<id, n>>}
  BY DEF Forwarded
<1>3. ASSUME NEW replies \in Seq(Nat)
      PROVE  /\ Elements(h.held) \cap Elements(replies) = {}
                   => Divides(Replies(h, replies), Elements(h.held) \cup Elements(replies))
             /\ Replies(h, replies).hold.pending \subseteq h.pending
  <2> DEFINE held == h.held \o replies
             g == [h EXCEPT !.held = held]
  <2>1. Elements(held) = Elements(h.held) \cup Elements(replies)
    BY <1>0, ElementsConcat
  <2>2. \/ Replies(h, replies) = [hold |-> h, out |-> replies]
        \/ Replies(h, replies) = [hold |-> Released(h), out |-> held]
        \/ Replies(h, replies) = [hold |-> g, out |-> <<>>]
    BY DEF Replies
  <2>3. g.held = held /\ g.pending = h.pending
    BY DEF Hold
  <2> HIDE DEF held, g
  <2>. QED BY <1>0, <2>1, <2>2, <2>3 DEF Divides
<1>4. ASSUME NEW ids \in SUBSET Id
      PROVE  /\ Divides(Input(h, ids), Elements(h.held))
             /\ Input(h, ids).hold.pending = h.pending \ Answered(h, ids)
  <2> DEFINE rest == h.pending \ Answered(h, ids)
             g == [h EXCEPT !.pending = rest]
  <2>1. \/ rest = {} /\ Input(h, ids) = [hold |-> Released(h), out |-> h.held]
        \/ Input(h, ids) = [hold |-> g, out |-> <<>>]
    BY DEF Input
  <2>2. g.held = h.held /\ g.pending = rest
    BY DEF Hold
  <2> HIDE DEF g
  <2>. QED BY <1>0, <2>1, <2>2 DEF Divides
<1>5. Divides(Expire(h), Elements(h.held)) /\ Expire(h).hold.pending \subseteq h.pending
  BY <1>0 DEF Expire, Divides
<1>. QED BY <1>1, <1>2, <1>3, <1>4, <1>5

\* Queueing a message adds its replies to what was queued, in no message twice if
\* they were nowhere in the queue.
LEMMA AppendQueues ==
    ASSUME TypeOK, NEW m \in Message, sent' = Append(sent, m)
    PROVE  /\ Queued' = Queued \cup Elements(m.replies)
           /\ SentOnce /\ Elements(m.replies) \cap Queued = {} => SentOnce'
           /\ DOMAIN sent' = 1 .. (Len(sent) + 1) /\ DOMAIN sent = 1 .. Len(sent)
           /\ Len(sent) \in Nat
           /\ \A i \in DOMAIN sent : sent'[i] = sent[i]
           /\ sent'[Len(sent) + 1] = m
<1>1. /\ sent \in Seq(Message) /\ Len(sent) \in Nat /\ DOMAIN sent = 1 .. Len(sent)
      /\ DOMAIN sent' = 1 .. (Len(sent) + 1)
      /\ \A i \in DOMAIN sent : sent'[i] = sent[i]
      /\ sent'[Len(sent) + 1] = m
  BY DEF TypeOK
<1>2. \A i \in DOMAIN sent' : i \in DOMAIN sent \/ i = Len(sent) + 1
  BY <1>1
<1>3. DOMAIN sent \subseteq DOMAIN sent' /\ Len(sent) + 1 \in DOMAIN sent'
  BY <1>1
<1>4. Queued' = Queued \cup Elements(m.replies)
  BY <1>1, <1>2, <1>3 DEF Queued
<1>5. ASSUME SentOnce, Elements(m.replies) \cap Queued = {} PROVE SentOnce'
  <2>1. \A i \in DOMAIN sent : Elements(sent[i].replies) \cap Elements(m.replies) = {}
    BY <1>5 DEF Queued
  <2>2. ASSUME NEW i \in DOMAIN sent', NEW j \in DOMAIN sent', i # j
        PROVE  Elements(sent'[i].replies) \cap Elements(sent'[j].replies) = {}
    <3>1. CASE i \in DOMAIN sent /\ j \in DOMAIN sent
      BY <1>1, <1>5, <2>2, <3>1 DEF SentOnce
    <3>2. CASE i \in DOMAIN sent /\ j = Len(sent) + 1
      BY <1>1, <2>1, <3>2
    <3>3. CASE i = Len(sent) + 1 /\ j \in DOMAIN sent
      BY <1>1, <2>1, <3>3
    <3>. QED BY <1>2, <2>2, <3>1, <3>2, <3>3
  <2>. QED BY <2>2 DEF SentOnce
<1>. QED BY <1>1, <1>4, <1>5

\* What stays behind an answer does so whatever is queued later without one.
LEMMA AppendBehind ==
    ASSUME TypeOK, StaysBehind, NEW m \in Message, sent' = Append(sent, m), m.answers = {},
           NEW p \in behind, NEW i \in DOMAIN sent', NEW j \in DOMAIN sent',
           p[1] \in Elements(sent'[i].replies), p[2] \in sent'[j].answers
    PROVE  j < i
<1>1. j \in DOMAIN sent /\ j \in 1 .. Len(sent) /\ p[2] \in sent[j].answers
  BY AppendQueues
<1>2. CASE i = Len(sent) + 1
  BY <1>1, <1>2, AppendQueues
<1>3. CASE i # Len(sent) + 1
  <2>1. i \in DOMAIN sent /\ p[1] \in Elements(sent[i].replies)
    BY <1>3, AppendQueues
  <2>. QED BY <1>1, <2>1 DEF StaysBehind
<1>. QED BY <1>2, <1>3

\* try_send moves replies to the queue or drops them, all of them.
LEMMA TrySendPlaces ==
    ASSUME TypeOK, NEW replies \in Seq(Nat), TrySend(replies)
    PROVE  /\ \/ Queued' = Queued /\ dropped' = dropped \cup Elements(replies)
              \/ Queued' = Queued \cup Elements(replies) /\ dropped' = dropped
           /\ SentOnce /\ Elements(replies) \cap Queued = {} => SentOnce'
           /\ \/ sent' = sent
              \/ \E m \in Message : m.answers = {} /\ sent' = Append(sent, m)
<1> DEFINE m == [answers |-> {}, replies |-> replies]
<1>1. m \in Message /\ m.answers = {} /\ m.replies = replies
  BY DEF Message
<1>2. \/ sent' = sent /\ dropped' = dropped \cup Elements(replies)
      \/ sent' = sent /\ dropped' = dropped /\ replies = <<>>
      \/ sent' = Append(sent, m) /\ dropped' = dropped
  BY DEF TrySend
<1> HIDE DEF m
<1>3. CASE sent' = sent
  <2>1. Queued' = Queued /\ (SentOnce => SentOnce')
    BY <1>3 DEF Queued, SentOnce
  <2>2. sent' = Append(sent, m) => FALSE
    <3>1. sent \in Seq(Message)
      BY DEF TypeOK
    <3>2. Len(Append(sent, m)) = Len(sent) + 1 /\ Len(sent) \in Nat
      BY <1>1, <3>1
    <3>. QED BY <1>3, <3>2
  <2>3. dropped' = dropped \cup Elements(replies)
    BY <1>2, <2>2, ElementsEmpty
  <2>. QED BY <1>3, <2>1, <2>3
<1>4. CASE sent' = Append(sent, m) /\ dropped' = dropped
  <2>1. Queued' = Queued \cup Elements(replies)
        /\ (SentOnce /\ Elements(replies) \cap Queued = {} => SentOnce')
    BY <1>1, <1>4, AppendQueues
  <2>. QED BY <1>1, <1>4, <2>1
<1>. QED BY <1>2, <1>3, <1>4

\* Replies are known by the number of their query.
LEMMA PlacesAreNumbers ==
    ASSUME TypeOK
    PROVE  /\ Elements(hold.held) \subseteq Nat /\ Elements(reader) \subseteq Nat
           /\ Elements(handler.released) \subseteq Nat /\ dropped \subseteq Nat
           /\ Queued \subseteq Nat
<1>1. /\ hold.held \in Seq(Nat) /\ reader \in Seq(Nat) /\ handler.released \in Seq(Nat)
      /\ dropped \subseteq Nat
  BY DEF TypeOK, Hold
<1>2. \A i \in DOMAIN sent : sent[i].replies \in Seq(Nat)
  <2>1. \A i \in DOMAIN sent : sent[i] \in Message
    BY DEF TypeOK
  <2>. QED BY <2>1 DEF Message
<1>3. \A s \in Seq(Nat) : Elements(s) \subseteq Nat
  BY DEF Elements
<1>. QED BY <1>1, <1>2, <1>3 DEF Queued

\* A new keeper has no replies.
LEMMA OrderInit == Init => OrderInv
<1> SUFFICES ASSUME Init PROVE OrderInv
  OBVIOUS
<1>1. /\ hold.held = <<>> /\ reader = <<>> /\ handler = IdleHandler /\ dropped = {}
      /\ sent = <<>> /\ asked = {} /\ behind = {} /\ hold.pending = {}
      /\ handler.released = <<>>
  BY DEF Init, IdleHandler
<1>2. Queued = {} /\ SentOnce
  BY <1>1 DEF Queued, SentOnce
<1>3. PlacedOnce
  BY <1>1, <1>2, ElementsEmpty DEF PlacedOnce, Sorted, Apart, Everywhere
<1>4. StaysBehind
  BY <1>1 DEF StaysBehind
<1>. QED BY <1>3, <1>4, HoldInit DEF OrderInv

\* The numbers of the queries in a read are new ones, each for one query.
Fresh(before, id, after) ==
    LET next == queries + Len(before) + Len(after) + (IF id = None THEN 0 ELSE 1) IN
    /\ Elements(before) \cap Elements(after) = {}
    /\ \A n \in Elements(before) \cup Elements(after) : ~(n <= queries) /\ n <= next

\* The read loop divides what is held and what is new between the hold and itself,
\* and its graphics query has a new number.
LEMMA ReadPlaces ==
    ASSUME OrderInv, NEW before \in Seq(Nat), NEW id \in Id \cup {None}, NEW after \in Seq(Nat),
           Fresh(before, id, after), ReadOutput(before, id, after)
    PROVE  OrderInv'
<1> DEFINE base == queries + Len(before)
           first == Replies(hold, before)
           forwarded == Forwarded(first.hold, id, base + 1)
           second == Replies(forwarded, after)
           H == Elements(hold.held)
           L == Elements(handler.released)
           N == Elements(before) \cup Elements(after)
<1>0. /\ IInv /\ TypeOK /\ hold \in Hold /\ Sound(hold) /\ queries \in Nat /\ base \in Nat
      /\ PlacedOnce /\ StaysBehind
  BY DEF OrderInv, IInv, TypeOK, HeldIsWatched
<1>1. /\ hold' = second.hold /\ reader = <<>> /\ reader' = first.out \o second.out
      /\ asked' = asked \cup Elements(before) \cup Elements(after)
      /\ queries' = base + Len(after) + (IF id = None THEN 0 ELSE 1)
      /\ UNCHANGED <<handler, sent, dropped, behind>>
  BY DEF ReadOutput
<1>2. first.hold \in Hold /\ first.out \in Seq(Nat) /\ Sound(first.hold)
  BY <1>0, HoldMethods DEF Keeps, Result
<1>3. forwarded \in Hold /\ Sound(forwarded)
  <2> HIDE DEF base, first
  <2>. QED BY <1>0, <1>2, HoldMethods
<1>4. second.hold \in Hold /\ second.out \in Seq(Nat)
  <2> HIDE DEF forwarded
  <2>. QED BY <1>3, HoldMethods DEF Keeps, Result
<1>5. /\ forwarded.held = first.hold.held
      /\ forwarded.pending \subseteq first.hold.pending \cup {<<id, base + 1>>}
      /\ id = None => forwarded.pending = first.hold.pending
  <2>1. base + 1 \in Nat
    BY <1>0
  <2>2. id = None => forwarded = first.hold
    BY DEF Forwarded
  <2> HIDE DEF base, first
  <2>. QED BY <1>2, <2>1, <2>2, MethodsDivide
<1>6. /\ \A n \in H : n <= queries
      /\ Sorted(H, {}, L, dropped, Queued)
  BY <1>0, <1>1, ElementsEmpty DEF PlacedOnce, Sorted, Everywhere
<1>7. /\ Elements(before) \cap Elements(after) = {}
      /\ \A n \in N : ~(n <= queries) /\ n <= queries'
  BY <1>1 DEF Fresh
<1>8. Divides(first, H \cup Elements(before)) /\ first.hold.pending \subseteq hold.pending
  <2>1. H \cap Elements(before) = {}
    BY <1>6, <1>7
  <2>. QED BY <1>0, <2>1, MethodsDivide
<1> DEFINE F == Elements(first.hold.held)
           O == Elements(first.out)
<1>9. O \cap F = {} /\ O \cup F = H \cup Elements(before)
  BY <1>8 DEF Divides
<1>10. Divides(second, F \cup Elements(after)) /\ second.hold.pending \subseteq forwarded.pending
  <2>1. Elements(forwarded.held) = F
    BY <1>5
  <2>2. F \cap Elements(after) = {}
    BY <1>6, <1>7, <1>9
  <2> HIDE DEF F, forwarded
  <2>. QED BY <1>3, <2>1, <2>2, MethodsDivide
<1> DEFINE H1 == Elements(second.hold.held)
           O1 == Elements(second.out)
<1>11. O1 \cap H1 = {} /\ O1 \cup H1 = F \cup Elements(after)
  BY <1>10 DEF Divides
<1>12. Elements(reader') = O \cup O1
  BY <1>1, <1>2, <1>4, ElementsConcat
<1>13. H1 \cap (O \cup O1) = {} /\ H1 \cup (O \cup O1) = H \cup N
  <2>1. O \cap Elements(after) = {}
    BY <1>6, <1>7, <1>9
  <2> HIDE DEF H, F, O, H1, O1
  <2>. QED BY <1>9, <1>11, <2>1
<1>14. /\ IInv' /\ TypeOK'
  BY <1>0, ReadStep DEF IInv
<1>15. /\ queries \in Nat /\ queries' \in Nat /\ queries <= queries' /\ base <= queries'
       /\ id # None => base + 1 <= queries' /\ ~(base + 1 <= queries)
  <2>1. id = None \/ id # None
    OBVIOUS
  <2>. QED BY <1>0, <1>1, <2>1
<1>16. Queued' = Queued /\ (SentOnce => SentOnce')
  BY <1>1 DEF Queued, SentOnce
<1>17. /\ H \subseteq Nat /\ L \subseteq Nat /\ dropped \subseteq Nat /\ Queued \subseteq Nat
       /\ N \subseteq Nat
  <2>1. N \subseteq Nat
    BY DEF Elements
  <2>. QED BY <1>0, <2>1, PlacesAreNumbers
<1>18. PlacedOnce'
  <2>1. /\ hold'.held = second.hold.held /\ handler' = handler /\ dropped' = dropped
        /\ Elements(hold'.held) = H1 /\ Elements(handler'.released) = L
        /\ asked' = asked \cup N
    BY <1>1
  <2> HIDE DEF H, L, N, F, O, H1, O1, first, second, forwarded, base
  <2>2. \A n \in H \cup L \cup dropped \cup Queued : n <= queries /\ n \in Nat
    BY <1>6, <1>17 DEF Sorted, Everywhere
  <2>3. N \cap (H \cup L \cup dropped \cup Queued) = {}
    BY <1>7, <2>2
  <2>4. Apart(H1, O \cup O1, L, dropped, Queued)
    BY <1>6, <1>13, <2>3 DEF Sorted, Apart
  <2>5. asked \cup N \subseteq Everywhere(H1, O \cup O1, L, dropped, Queued)
    BY <1>6, <1>13 DEF Sorted, Everywhere
  <2>6. \A n \in H \cup L \cup dropped \cup Queued : n <= queries'
    BY <1>15, <2>2
  <2>7. \A n \in Everywhere(H1, O \cup O1, L, dropped, Queued) : n <= queries'
    BY <1>7, <1>13, <2>6 DEF Everywhere
  <2>. QED BY <1>0, <1>12, <1>16, <2>1, <2>4, <2>5, <2>7 DEF PlacedOnce, Sorted
<1>19. StaysBehind'
  <2>1. hold'.pending \subseteq hold.pending \cup {q \in {<<id, base + 1>>} : id # None}
    BY <1>1, <1>5, <1>8, <1>10
  <2>2. \A q \in hold.pending : q[2] \in Nat /\ q[2] <= queries
    BY <1>0 DEF StaysBehind, Hold
  <2>3. \A p \in behind : p[2][2] \in Nat /\ p[2][2] <= queries /\ p[2] \notin hold.pending
    BY <1>0 DEF StaysBehind, TypeOK
  <2> HIDE DEF first, second, forwarded, base
  <2>4. \A q \in hold'.pending : q[2] <= queries'
    BY <1>15, <2>1, <2>2
  <2>5. \A p \in behind : p[2] \notin hold'.pending /\ p[2][2] <= queries'
    BY <1>15, <2>1, <2>3
  <2>. QED BY <1>0, <1>1, <2>4, <2>5 DEF StaysBehind
<1>. QED BY <1>14, <1>18, <1>19 DEF OrderInv

\* A request takes replies out of the hold, for an answer among the pending queries
\* (none, where the request is no input).
LEMMA RequestPlaces ==
    ASSUME OrderInv, IInv', NEW result \in Result, NEW answers \in SUBSET hold.pending,
           Divides(result, Elements(hold.held)),
           result.hold.pending \subseteq hold.pending \ answers,
           handler.stage = "idle", hold' = result.hold,
           handler'.stage # "idle", handler'.answers = answers,
           handler'.released = result.out,
           behind' = behind \cup (Elements(result.out) \X answers),
           UNCHANGED <<reader, sent, asked, queries, dropped>>
    PROVE  OrderInv'
<1> DEFINE H == Elements(hold.held)
           O == Elements(result.out)
           K == Elements(result.hold.held)
           R == Elements(reader)
<1>0. TypeOK /\ PlacedOnce /\ StaysBehind
  BY DEF OrderInv, IInv
<1>1. handler = IdleHandler /\ Elements(handler.released) = {} /\ handler.answers = {}
  BY <1>0, ElementsEmpty DEF PlacedOnce, IdleHandler
<1>2. O \cap K = {} /\ O \cup K = H
  BY DEF Divides
<1>3. Queued' = Queued /\ (SentOnce => SentOnce')
  BY DEF Queued, SentOnce
<1>4. SentOnce /\ Sorted(H, R, {}, dropped, Queued)
  BY <1>0, <1>1 DEF PlacedOnce
<1>5. /\ Elements(hold'.held) = K /\ Elements(reader') = R /\ Elements(handler'.released) = O
  OBVIOUS
<1>6. PlacedOnce'
  <2> HIDE DEF H, O, K, R
  <2>1. Apart(K, R, O, dropped, Queued)
    BY <1>2, <1>4 DEF Sorted, Apart
  <2>2. Everywhere(K, R, O, dropped, Queued) = Everywhere(H, R, {}, dropped, Queued)
    BY <1>2 DEF Everywhere
  <2>. QED BY <1>3, <1>4, <1>5, <2>1, <2>2 DEF PlacedOnce, Sorted
<1>7. \A q \in hold'.pending : q \in hold.pending /\ q \notin answers
  OBVIOUS
<1>8. ASSUME NEW p \in behind'
      PROVE  /\ p[2] \notin hold'.pending /\ p[2][2] <= queries
             /\ p[2] \in answers => p[1] \in O
             /\ \A i, j \in DOMAIN sent :
                   p[1] \in Elements(sent[i].replies) /\ p[2] \in sent[j].answers => j < i
  <2>1. CASE p \in behind
    <3>1. /\ p[2] \notin hold.pending /\ p[2][2] <= queries
          /\ \A i, j \in DOMAIN sent :
                p[1] \in Elements(sent[i].replies) /\ p[2] \in sent[j].answers => j < i
      BY <1>0, <2>1 DEF StaysBehind
    <3>. QED BY <1>7, <3>1
  <2>2. CASE p \in O \X answers
    <3>1. p[1] \in O /\ p[2] \in answers
      BY <2>2
    <3>2. p[2][2] <= queries
      BY <1>0, <3>1 DEF StaysBehind
    <3>3. p[1] \notin Queued
      BY <1>2, <1>4, <3>1 DEF Sorted, Apart
    <3>4. \A i \in DOMAIN sent : p[1] \notin Elements(sent[i].replies)
      BY <3>3 DEF Queued
    <3>. QED BY <1>7, <3>1, <3>2, <3>4
  <2>. QED BY <2>1, <2>2
<1>9. StaysBehind'
  <2>1. \A q \in hold'.pending : q[2] <= queries
    BY <1>0, <1>7 DEF StaysBehind
  <2>. QED BY <1>5, <1>8, <2>1 DEF StaysBehind
<1>. QED BY <1>6, <1>9 DEF OrderInv

\* A thread that puts replies into the queue takes them from one place, and what is
\* behind an answer is still behind it.
LEMMA SendBehind ==
    ASSUME TypeOK, StaysBehind, NEW replies \in Seq(Nat), TrySend(replies),
           hold'.pending \subseteq hold.pending,
           handler'.answers = {} \/ handler' = handler,
           UNCHANGED <<queries, behind>>
    PROVE  StaysBehind'
<1>1. ASSUME NEW p \in behind, NEW i \in DOMAIN sent', NEW j \in DOMAIN sent',
             p[1] \in Elements(sent'[i].replies), p[2] \in sent'[j].answers
      PROVE  j < i
  <2>1. CASE sent' = sent
    BY <1>1, <2>1 DEF StaysBehind
  <2>2. CASE \E m \in Message : m.answers = {} /\ sent' = Append(sent, m)
    BY <1>1, <2>2, AppendBehind
  <2>. QED BY <2>1, <2>2, TrySendPlaces
<1>2. \A q \in hold'.pending : q[2] <= queries
  BY DEF StaysBehind
<1>3. \A p \in behind : /\ p[2] \notin hold'.pending /\ p[2][2] <= queries
                        /\ p[2] \in handler'.answers => p[1] \in Elements(handler'.released)
  BY DEF StaysBehind
<1>. QED BY <1>1, <1>2, <1>3 DEF StaysBehind

\* The read loop queues what it took out.
LEMMA ReaderPlaces == ASSUME OrderInv, IInv', ReaderSends PROVE OrderInv'
<1> DEFINE H == Elements(hold.held)
           R == Elements(reader)
           L == Elements(handler.released)
<1>0. TypeOK /\ PlacedOnce /\ StaysBehind /\ reader \in Seq(Nat)
  BY DEF OrderInv, IInv, TypeOK
<1>1. TrySend(reader) /\ reader' = <<>> /\ UNCHANGED <<hold, handler, asked, queries, behind>>
  BY DEF ReaderSends
<1>2. SentOnce /\ Sorted(H, R, L, dropped, Queued)
  BY <1>0 DEF PlacedOnce
<1>3. /\ Elements(hold'.held) = H /\ Elements(reader') = {} /\ Elements(handler'.released) = L
  BY <1>1, ElementsEmpty
<1>4. R \cap Queued = {}
  BY <1>2 DEF Sorted, Apart
<1>5. /\ \/ Queued' = Queued /\ dropped' = dropped \cup R
         \/ Queued' = Queued \cup R /\ dropped' = dropped
      /\ SentOnce'
  BY <1>0, <1>1, <1>2, <1>4, TrySendPlaces
<1>6. PlacedOnce'
  <2> HIDE DEF H, R, L
  <2>1. Apart(H, {}, L, dropped', Queued')
    BY <1>2, <1>5 DEF Sorted, Apart
  <2>2. Everywhere(H, {}, L, dropped', Queued') = Everywhere(H, R, L, dropped, Queued)
    BY <1>5 DEF Everywhere
  <2>. QED BY <1>0, <1>1, <1>2, <1>3, <1>5, <2>1, <2>2 DEF PlacedOnce, Sorted
<1>7. StaysBehind'
  BY <1>0, <1>1, SendBehind
<1>. QED BY <1>6, <1>7 DEF OrderInv

\* The handler queues what the request before took out.
LEMMA ReleasePlaces == ASSUME OrderInv, IInv', HandlerReleases PROVE OrderInv'
<1> DEFINE H == Elements(hold.held)
           R == Elements(reader)
           L == Elements(handler.released)
<1>0. TypeOK /\ PlacedOnce /\ StaysBehind /\ handler.released \in Seq(Nat)
  BY DEF OrderInv, IInv, TypeOK
<1>1. /\ TrySend(handler.released) /\ handler' = IdleHandler
      /\ UNCHANGED <<hold, reader, asked, queries, behind>>
  BY DEF HandlerReleases
<1>2. SentOnce /\ Sorted(H, R, L, dropped, Queued)
  BY <1>0 DEF PlacedOnce
<1>3. /\ Elements(hold'.held) = H /\ Elements(reader') = R /\ Elements(handler'.released) = {}
      /\ handler'.answers = {}
  BY <1>1, ElementsEmpty DEF IdleHandler
<1>4. L \cap Queued = {}
  BY <1>2 DEF Sorted, Apart
<1>5. /\ \/ Queued' = Queued /\ dropped' = dropped \cup L
         \/ Queued' = Queued \cup L /\ dropped' = dropped
      /\ SentOnce'
  BY <1>0, <1>1, <1>2, <1>4, TrySendPlaces
<1>6. PlacedOnce'
  <2> HIDE DEF H, R, L
  <2>1. Apart(H, R, {}, dropped', Queued')
    BY <1>2, <1>5 DEF Sorted, Apart
  <2>2. Everywhere(H, R, {}, dropped', Queued') = Everywhere(H, R, L, dropped, Queued)
    BY <1>5 DEF Everywhere
  <2>3. handler' = IdleHandler
    BY <1>1
  <2>4. IdleHandler' = IdleHandler
    BY DEF IdleHandler
  <2>. QED BY <1>1, <1>2, <1>3, <1>5, <2>1, <2>2, <2>3, <2>4 DEF PlacedOnce, Sorted
<1>7. StaysBehind'
  BY <1>0, <1>1, <1>3, SendBehind
<1>. QED BY <1>6, <1>7 DEF OrderInv

\* The hold thread queues what expired, under the lock.
LEMMA ExpiryPlaces == ASSUME OrderInv, IInv', HoldLoop PROVE OrderInv'
<1> DEFINE result == Expire(hold)
           H == Elements(hold.held)
           R == Elements(reader)
           L == Elements(handler.released)
           O == Elements(result.out)
           K == Elements(result.hold.held)
<1>0. TypeOK /\ PlacedOnce /\ StaysBehind /\ hold \in Hold /\ Sound(hold)
  BY DEF OrderInv, IInv, TypeOK, HeldIsWatched
<1>1. /\ hold' = result.hold /\ TrySend(result.out)
      /\ UNCHANGED <<reader, handler, asked, queries, behind>>
  BY DEF HoldLoop
<1>2. SentOnce /\ Sorted(H, R, L, dropped, Queued)
  BY <1>0 DEF PlacedOnce
<1>3. result.out \in Seq(Nat)
  BY <1>0, HoldMethods DEF Keeps, Result
<1>4. Divides(result, H) /\ result.hold.pending \subseteq hold.pending
  BY <1>0, MethodsDivide
<1> HIDE DEF result
<1>5. O \cap K = {} /\ O \cup K = H
  BY <1>4 DEF Divides
<1>6. /\ Elements(hold'.held) = K /\ Elements(reader') = R /\ Elements(handler'.released) = L
  BY <1>1
<1>7. O \cap Queued = {}
  BY <1>2, <1>5 DEF Sorted, Apart
<1>8. /\ \/ Queued' = Queued /\ dropped' = dropped \cup O
         \/ Queued' = Queued \cup O /\ dropped' = dropped
      /\ SentOnce'
  BY <1>0, <1>1, <1>2, <1>3, <1>7, TrySendPlaces
<1>9. PlacedOnce'
  <2> HIDE DEF H, R, L, O, K
  <2>1. Apart(K, R, L, dropped', Queued')
    BY <1>2, <1>5, <1>8 DEF Sorted, Apart
  <2>2. Everywhere(K, R, L, dropped', Queued') = Everywhere(H, R, L, dropped, Queued)
    BY <1>5, <1>8 DEF Everywhere
  <2>. QED BY <1>0, <1>1, <1>2, <1>6, <1>8, <2>1, <2>2 DEF PlacedOnce, Sorted
<1>10. StaysBehind'
  BY <1>0, <1>1, <1>3, <1>4, SendBehind
<1>. QED BY <1>9, <1>10 DEF OrderInv

\* The handler queues the input with the answer, before the replies behind it.
LEMMA AnswerPlaces == ASSUME OrderInv, IInv', HandlerSends PROVE OrderInv'
<1> DEFINE m == [answers |-> handler.answers, replies |-> <<>>]
           last == Len(sent) + 1
<1>0. TypeOK /\ PlacedOnce /\ StaysBehind
  BY DEF OrderInv, IInv
<1>1. /\ sent' = Append(sent, m) /\ handler.stage = "send"
      /\ handler' = [stage |-> "release", answers |-> {}, released |-> handler.released]
      /\ UNCHANGED <<hold, reader, asked, queries, dropped, behind>>
  BY DEF HandlerSends
<1>2. m \in Message /\ Elements(m.replies) = {} /\ m.answers = handler.answers
  BY <1>0, ElementsEmpty DEF Message, TypeOK
<1>3. handler'.released = handler.released /\ handler'.stage # "idle" /\ handler'.answers = {}
  BY <1>1
<1> HIDE DEF m
<1>4. /\ Queued' = Queued /\ (SentOnce => SentOnce')
      /\ DOMAIN sent' = 1 .. last /\ DOMAIN sent = 1 .. Len(sent) /\ Len(sent) \in Nat
      /\ \A i \in DOMAIN sent : sent'[i] = sent[i]
      /\ sent'[last] = m
  BY <1>0, <1>1, <1>2, AppendQueues
<1>5. PlacedOnce'
  BY <1>0, <1>1, <1>3, <1>4 DEF PlacedOnce, Sorted
<1>6. ASSUME NEW p \in behind, NEW i \in DOMAIN sent', NEW j \in DOMAIN sent',
             p[1] \in Elements(sent'[i].replies), p[2] \in sent'[j].answers
      PROVE  j < i
  <2>1. i \in DOMAIN sent /\ p[1] \in Elements(sent[i].replies)
    BY <1>2, <1>4, <1>6
  <2>2. CASE j \in DOMAIN sent
    BY <1>0, <1>4, <1>6, <2>1, <2>2 DEF StaysBehind
  <2>3. CASE j \notin DOMAIN sent
    <3>1. p[2] \in handler.answers
      BY <1>2, <1>4, <1>6, <2>3
    <3>2. p[1] \in Elements(handler.released)
      BY <1>0, <3>1 DEF StaysBehind
    <3>3. p[1] \in Queued
      BY <2>1 DEF Queued
    <3>. QED BY <1>0, <3>2, <3>3 DEF PlacedOnce, Sorted, Apart
  <2>. QED BY <2>2, <2>3
<1>7. StaysBehind'
  <2>1. \A q \in hold'.pending : q[2] <= queries
    BY <1>0, <1>1 DEF StaysBehind
  <2>2. \A p \in behind : /\ p[2] \notin hold'.pending /\ p[2][2] <= queries
                          /\ p[2] \notin handler'.answers
    BY <1>0, <1>1, <1>3 DEF StaysBehind
  <2>. QED BY <1>1, <1>6, <2>1, <2>2 DEF StaysBehind
<1>. QED BY <1>5, <1>7 DEF OrderInv

\* The numbers of a read that the program can cause are fresh.
LEMMA ReadsAreFresh ==
    ASSUME TypeOK, NEW b \in 0..1, NEW a \in 0..1, NEW id \in Id \cup {None}, NEW graphics,
           graphics = IF id = None THEN 0 ELSE 1
    PROVE  LET before == [i \in 1..b |-> queries + i]
               after == [i \in 1..a |-> queries + b + graphics + i]
           IN  before \in Seq(Nat) /\ after \in Seq(Nat) /\ Fresh(before, id, after)
<1> DEFINE before == [i \in 1..b |-> queries + i]
           after == [i \in 1..a |-> queries + b + graphics + i]
<1>0. queries \in Nat /\ graphics \in Nat
  BY DEF TypeOK
<1>1. before \in Seq(Nat) /\ after \in Seq(Nat) /\ Len(before) = b /\ Len(after) = a
  BY <1>0
<1>2. \A n \in Elements(before) : \E i \in 1..b : n = queries + i
  BY DEF Elements
<1>3. \A n \in Elements(after) : \E i \in 1..a : n = queries + b + graphics + i
  BY DEF Elements
<1> HIDE DEF before, after
<1>4. Elements(before) \cap Elements(after) = {}
  BY <1>0, <1>2, <1>3
<1>5. \A n \in Elements(before) \cup Elements(after) :
        ~(n <= queries) /\ n <= queries + Len(before) + Len(after) + graphics
  BY <1>0, <1>1, <1>2, <1>3
<1>6. Fresh(before, id, after)
  BY <1>4, <1>5 DEF Fresh
<1>. QED BY <1>1, <1>6 DEF before, after

\* Every step leaves every reply in one place, and behind its answer.
LEMMA OrderStep == OrderInv /\ [Next]_vars => OrderInv'
<1> SUFFICES ASSUME OrderInv, [Next]_vars PROVE OrderInv'
  OBVIOUS
<1>0. /\ IInv /\ TypeOK /\ hold \in Hold /\ Sound(hold) /\ PlacedOnce /\ StaysBehind
      /\ IInv'
  BY HoldStep DEF OrderInv, IInv, TypeOK, HeldIsWatched
<1>1. ASSUME Reads PROVE OrderInv'
  <2>1. PICK b \in 0..1, a \in 0..1, id \in Id \cup {None} :
          ReadOutput([i \in 1..b |-> queries + i], id,
                     [i \in 1..a |-> queries + b + (IF id = None THEN 0 ELSE 1) + i])
    BY <1>1 DEF Reads
  <2> DEFINE graphics == IF id = None THEN 0 ELSE 1
             before == [i \in 1..b |-> queries + i]
             after == [i \in 1..a |-> queries + b + graphics + i]
  <2>2. ReadOutput(before, id, after)
    BY <2>1
  <2>3. before \in Seq(Nat) /\ after \in Seq(Nat) /\ Fresh(before, id, after)
    BY <1>0, ReadsAreFresh
  <2> HIDE DEF before, after
  <2>. QED BY <2>2, <2>3, ReadPlaces
<1>2. ASSUME NEW ids \in SUBSET Id, WriteInput(ids) PROVE OrderInv'
  <2> DEFINE result == Input(hold, ids)
             answers == Answered(hold, ids)
  <2>1. result \in Result
    BY <1>0, HoldMethods DEF Keeps
  <2>2. answers \in SUBSET hold.pending
    BY DEF Answered
  <2>3. Divides(result, Elements(hold.held)) /\ result.hold.pending = hold.pending \ answers
    BY <1>0, MethodsDivide
  <2>4. /\ handler.stage = "idle" /\ hold' = result.hold
        /\ handler' = [stage |-> "send", answers |-> answers, released |-> result.out]
        /\ behind' = behind \cup (Elements(result.out) \X answers)
        /\ UNCHANGED <<reader, sent, asked, queries, dropped>>
    BY <1>2 DEF WriteInput
  <2> HIDE DEF result, answers
  <2>5. handler'.stage # "idle" /\ handler'.answers = answers /\ handler'.released = result.out
    BY <2>4
  <2>. QED BY <1>0, <2>1, <2>2, <2>3, <2>4, <2>5, RequestPlaces
<1>3. ASSUME NEW enabled \in BOOLEAN, SetHostGraphics(enabled) PROVE OrderInv'
  <2> DEFINE result == SetEnabled(hold, enabled)
  <2>1. result \in Result
    BY <1>0, HoldMethods DEF Keeps
  <2>2. Divides(result, Elements(hold.held)) /\ result.hold.pending \subseteq hold.pending
    BY <1>0, MethodsDivide
  <2>3. /\ handler.stage = "idle" /\ hold' = result.hold
        /\ handler' = [stage |-> "release", answers |-> {}, released |-> result.out]
        /\ UNCHANGED <<reader, sent, asked, queries, dropped, behind>>
    BY <1>3 DEF SetHostGraphics
  <2> HIDE DEF result
  <2>4. handler'.stage # "idle" /\ handler'.answers = {} /\ handler'.released = result.out
    BY <2>3
  <2>5. behind' = behind \cup (Elements(result.out) \X {}) /\ {} \in SUBSET hold.pending
        /\ result.hold.pending \subseteq hold.pending \ {}
    BY <2>2, <2>3
  <2>. QED BY <1>0, <2>1, <2>2, <2>3, <2>4, <2>5, RequestPlaces
<1>4. ASSUME HoldLoop PROVE OrderInv'
  BY <1>0, <1>4, ExpiryPlaces
<1>5. ASSUME Timeout PROVE OrderInv'
  <2>1. /\ hold'.held = hold.held /\ hold'.pending = hold.pending
        /\ UNCHANGED <<reader, handler, sent, asked, queries, dropped, behind>>
    BY <1>0, <1>5 DEF Timeout, Hold
  <2>. QED BY <1>0, <2>1 DEF OrderInv, PlacedOnce, Sorted, SentOnce, Queued, StaysBehind
<1>6. CASE WriterWrites \/ UNCHANGED vars
  <2>1. UNCHANGED <<hold, reader, handler, sent, asked, queries, dropped, behind>>
    BY <1>6 DEF WriterWrites, vars
  <2>. QED BY <1>0, <2>1 DEF OrderInv, PlacedOnce, Sorted, SentOnce, Queued, StaysBehind
<1>. QED
  BY <1>0, <1>1, <1>2, <1>3, <1>4, <1>5, <1>6, ReaderPlaces, ReleasePlaces, AnswerPlaces
     DEF Next, Requests

\* A reply that is in one of the five places, and in no two of them, has one place.
LEMMA OnePlace == ASSUME TypeOK, PlacedOnce, NEW n \in asked
                  PROVE  \E place \in Places(n) : Places(n) = {place}
<1> DEFINE H == Elements(hold.held)
           R == Elements(reader)
           L == Elements(handler.released)
           Named == {place \in {"held", "reader", "handler", "dropped"} :
                       n \in CASE place = "held" -> H [] place = "reader" -> R
                               [] place = "handler" -> L [] place = "dropped" -> dropped}
           Numbers == {i \in 1..Len(sent) : n \in Elements(sent[i].replies)}
<1>1. Places(n) = Named \cup Numbers
  BY DEF Places
<1>2. /\ Sorted(H, R, L, dropped, Queued) /\ SentOnce
      /\ DOMAIN sent = 1 .. Len(sent)
  BY DEF PlacedOnce, TypeOK
<1>3. /\ "held" \in Named <=> n \in H
      /\ "reader" \in Named <=> n \in R
      /\ "handler" \in Named <=> n \in L
      /\ "dropped" \in Named <=> n \in dropped
      /\ Named \subseteq {"held", "reader", "handler", "dropped"}
  OBVIOUS
<1>4. n \in Queued <=> Numbers # {}
  BY <1>2 DEF Queued
<1>5. \A i, j \in Numbers : i = j
  BY <1>2 DEF SentOnce
<1> HIDE DEF H, R, L, Named, Numbers
<1>6. n \in H \/ n \in R \/ n \in L \/ n \in dropped \/ n \in Queued
  BY <1>2 DEF Sorted, Everywhere
<1>7. Apart(H, R, L, dropped, Queued)
  BY <1>2 DEF Sorted
<1>8. CASE n \in Queued
  <2>1. n \notin H /\ n \notin R /\ n \notin L /\ n \notin dropped
    BY <1>7, <1>8 DEF Apart
  <2>2. Named = {}
    BY <1>3, <2>1
  <2>3. PICK i \in Numbers : TRUE
    BY <1>4, <1>8
  <2>4. Numbers = {i}
    BY <1>5, <2>3
  <2>. QED BY <1>1, <2>2, <2>4
<1>9. CASE n \notin Queued
  <2>1. Numbers = {}
    BY <1>4, <1>9
  <2>2. CASE n \in H
    <3>1. n \notin R /\ n \notin L /\ n \notin dropped
      BY <1>7, <2>2 DEF Apart
    <3>2. Named = {"held"}
      BY <1>3, <2>2, <3>1
    <3>. QED BY <1>1, <2>1, <3>2
  <2>3. CASE n \in R
    <3>1. n \notin H /\ n \notin L /\ n \notin dropped
      BY <1>7, <2>3 DEF Apart
    <3>2. Named = {"reader"}
      BY <1>3, <2>3, <3>1
    <3>. QED BY <1>1, <2>1, <3>2
  <2>4. CASE n \in L
    <3>1. n \notin H /\ n \notin R /\ n \notin dropped
      BY <1>7, <2>4 DEF Apart
    <3>2. Named = {"handler"}
      BY <1>3, <2>4, <3>1
    <3>. QED BY <1>1, <2>1, <3>2
  <2>5. CASE n \in dropped
    <3>1. n \notin H /\ n \notin R /\ n \notin L
      BY <1>7, <2>5 DEF Apart
    <3>2. Named = {"dropped"}
      BY <1>3, <2>5, <3>1
    <3>. QED BY <1>1, <2>1, <3>2
  <2>. QED BY <1>6, <1>9, <2>2, <2>3, <2>4, <2>5
<1>. QED BY <1>8, <1>9

\* What is behind its answer is not written before it.
LEMMA BehindIsAfter == TypeOK /\ StaysBehind => HeldBehindAnswer
<1>1. TypeOK => DOMAIN sent = 1 .. Len(sent)
  BY DEF TypeOK
<1>. QED BY <1>1 DEF StaysBehind, HeldBehindAnswer

\* For any number of queries, requests and threads' steps: the reader, the handler
\* and the hold thread neither lose a reply nor queue one twice, though each takes
\* replies out of the hold under the lock and queues them after giving it up.
THEOREM RepliesOnce == Spec => []RepliedOnce
<1>1. OrderInv => RepliedOnce
  BY OnePlace DEF OrderInv, IInv, RepliedOnce
<1>. QED BY <1>1, OrderInit, OrderStep, PTL DEF Spec

\* A reply that an answer let go is written after the answer, whichever thread
\* queues in between.
THEOREM AnswersFirst == Spec => []HeldBehindAnswer
<1>1. OrderInv => HeldBehindAnswer
  BY BehindIsAfter DEF OrderInv, IInv
<1>. QED BY <1>1, OrderInit, OrderStep, PTL DEF Spec
=============================================================================
