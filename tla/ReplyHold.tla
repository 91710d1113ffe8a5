----------------------------- MODULE ReplyHold -----------------------------
(***************************************************************************)
(* How a keeper puts what it writes to its program in order (embers-server: *)
(* reply_hold.rs and the threads of buffer_runtime.rs that use it).         *)
(*                                                                         *)
(* A program asks its terminal things.  The emulator in the keeper answers *)
(* most queries at once; a kitty graphics query goes to the host terminal, *)
(* whose answer comes back as input.  The program takes the emulator's     *)
(* answer to a later query as a sign that no graphics answer is coming, so *)
(* the keeper holds its replies while graphics queries are pending.        *)
(*                                                                         *)
(* Four threads share the hold, under the lock of the keeper's surface:    *)
(* the reader of the program's output, the handler of the server's         *)
(* requests, the hold thread with its timeout, and the writer, which takes *)
(* messages from a bounded queue.  Reader and handler give up the lock     *)
(* before they put into that queue what they took out of the hold.         *)
(***************************************************************************)
EXTENDS Naturals, Sequences

CONSTANTS
    Id,         \* names of images in graphics queries
    None,       \* no graphics query
    MaxHeld,    \* MAX_HELD_REPLY_BYTES, in replies
    QueueCap,   \* KEEPER_WRITE_QUEUE_CAPACITY
    MaxQueries, \* bound on the queries the program sends
    MaxInputs   \* bound on requests of the server

ASSUME IdAssumption == None \notin Id
ASSUME BoundsAssumption == {MaxHeld, QueueCap, MaxQueries, MaxInputs} \subseteq Nat

VARIABLES
    hold,       \* KeeperSurface::reply_hold
    reader,     \* replies the read loop took out and has still to queue
    handler,    \* KeeperRuntime::write and set_host_graphics, once they gave up the lock
    sent,       \* all messages ever queued for the program
    written,    \* how many of them the writer thread has taken
    sleeper,    \* the hold thread: "awake", or waiting "timed" or "forever"
    asked,      \* the queries for the emulator sent so far, numbered together with
    queries,    \* ... how many queries were sent in all
    inputs,     \* how many requests came
    dropped,    \* replies dropped because the queue was full
    behind      \* history: <<n, q>> when the answer to query q let reply n go

vars == <<hold, reader, handler, sent, written, sleeper, asked, queries, inputs, dropped, behind>>

-----------------------------------------------------------------------------
(* ReplyHold.  A pending query is its name and its number; deadline is "none", *)
(* "waiting" or "passed".                                                     *)

Elements(s) == {s[i] : i \in DOMAIN s}

\* Mutant: the held replies stay.
Released_Keeps(h) == [h EXCEPT !.pending = {}, !.deadline = "none"]

\* release: forget the pending queries and hand out what is held.
Released(h) == [enabled |-> h.enabled, pending |-> {}, deadline |-> "none", held |-> <<>>]

\* set_enabled: what it leaves, and what it hands out.
SetEnabled(h, enabled) ==
    IF enabled THEN [hold |-> [h EXCEPT !.enabled = TRUE], out |-> <<>>]
    ELSE [hold |-> Released([h EXCEPT !.enabled = FALSE]), out |-> h.held]

\* forwarded: a graphics query left for the host.
Forwarded(h, id, n) ==
    IF ~h.enabled \/ id = None THEN h
    ELSE [enabled |-> TRUE, pending |-> h.pending \cup {<<id, n>>}, deadline |-> "waiting",
          held |-> h.held]

\* replies: held behind pending queries, unless that is too much.
Replies(h, replies) ==
    LET held == h.held \o replies IN
    IF h.pending = {} THEN [hold |-> h, out |-> replies]
    ELSE IF Len(held) > MaxHeld THEN [hold |-> Released(h), out |-> held]
    ELSE [hold |-> [h EXCEPT !.held = held], out |-> <<>>]

\* The pending queries that answers to ids are for: the first with each name.
Answered(h, ids) ==
    {q \in h.pending : q[1] \in ids /\ \A p \in h.pending : p[1] = q[1] => q[2] <= p[2]}

\* input: answers let the held replies go once none is pending any more.
Input(h, ids) ==
    LET rest == h.pending \ Answered(h, ids) IN
    IF h.pending # {} /\ rest = {} THEN [hold |-> Released(h), out |-> h.held]
    ELSE [hold |-> [h EXCEPT !.pending = rest], out |-> <<>>]

\* Mutant: a deadline that passed is set again, with nothing let go.
Expire_Rearms(h) ==
    [hold |-> IF h.deadline = "passed" THEN [h EXCEPT !.deadline = "waiting"] ELSE h, out |-> <<>>]

\* expire.
Expire(h) ==
    IF h.deadline = "passed" THEN [hold |-> Released(h), out |-> h.held]
    ELSE [hold |-> h, out |-> <<>>]

-----------------------------------------------------------------------------
(* The queue to the writer thread *)

Message == [answers : SUBSET (Id \X Nat), replies : Seq(Nat)]
Full == Len(sent) - written >= QueueCap

\* try_send of replies: dropped when the queue is full.
TrySend(replies) ==
    /\ sent' = IF replies = <<>> \/ Full THEN sent
               ELSE Append(sent, [answers |-> {}, replies |-> replies])
    /\ dropped' = IF Full THEN dropped \cup Elements(replies) ELSE dropped

-----------------------------------------------------------------------------
IdleHandler == [stage |-> "idle", answers |-> {}, released |-> <<>>]

Init ==
    /\ hold = [enabled |-> FALSE, pending |-> {}, deadline |-> "none", held |-> <<>>]
    /\ reader = <<>>
    /\ handler = IdleHandler
    /\ sent = <<>>
    /\ written = 0
    /\ sleeper = "awake"
    /\ asked = {}
    /\ queries = 0
    /\ inputs = 0
    /\ dropped = {}
    /\ behind = {}

\* Mutant: the read loop does not signal the hold thread.
Notified_Not(h) == sleeper

\* The hold thread is woken when the hold waits.
Notified(h) == IF h.deadline # "none" THEN "awake" ELSE sleeper

\* keeper_read_loop: route_output of a read that holds queries for the emulator,
\* at most one graphics query, and more queries for the emulator after it.
ReadOutput(before, id, after) ==
    LET base == queries + Len(before)
        first == Replies(hold, before)
        second == Replies(Forwarded(first.hold, id, base + 1), after)
    IN
    /\ reader = <<>>
    /\ hold' = second.hold
    /\ reader' = first.out \o second.out
    /\ sleeper' = Notified(second.hold)
    /\ asked' = asked \cup Elements(before) \cup Elements(after)
    /\ queries' = base + Len(after) + (IF id = None THEN 0 ELSE 1)
    /\ UNCHANGED <<handler, sent, written, inputs, dropped, behind>>

\* ... which queues the replies once it gave up the lock.
ReaderSends ==
    /\ reader # <<>>
    /\ TrySend(reader)
    /\ reader' = <<>>
    /\ UNCHANGED <<hold, handler, written, sleeper, asked, queries, inputs, behind>>

\* KeeperRuntime::write of input that answers graphics queries named ids.
WriteInput(ids) ==
    LET answers == Answered(hold, ids)
        result == Input(hold, ids)
    IN
    /\ handler.stage = "idle" /\ inputs < MaxInputs
    /\ inputs' = inputs + 1
    /\ hold' = result.hold
    /\ handler' = [stage |-> "send", answers |-> answers, released |-> result.out]
    /\ behind' = behind \cup (Elements(result.out) \X answers)
    /\ UNCHANGED <<reader, sent, written, sleeper, asked, queries, dropped>>

\* Mutant: the released replies are queued before the input.
HandlerSends_Late ==
    /\ handler.stage = "send" /\ ~Full
    /\ sent' = (IF handler.released = <<>> THEN sent
                ELSE Append(sent, [answers |-> {}, replies |-> handler.released]))
               \o <<[answers |-> handler.answers, replies |-> <<>>]>>
    /\ handler' = IdleHandler
    /\ UNCHANGED <<hold, reader, written, sleeper, asked, queries, inputs, dropped, behind>>

\* ... which waits for room in the queue ...
HandlerSends ==
    /\ handler.stage = "send" /\ ~Full
    /\ sent' = Append(sent, [answers |-> handler.answers, replies |-> <<>>])
    /\ handler' = [stage |-> "release", answers |-> {}, released |-> handler.released]
    /\ UNCHANGED <<hold, reader, written, sleeper, asked, queries, inputs, dropped, behind>>

\* ... and hands the released replies to write_replies.
HandlerReleases ==
    /\ handler.stage = "release"
    /\ TrySend(handler.released)
    /\ handler' = IdleHandler
    /\ UNCHANGED <<hold, reader, written, sleeper, asked, queries, inputs, behind>>

\* KeeperRuntime::set_host_graphics, of a request or when the server goes away.
SetHostGraphics(enabled) ==
    LET result == SetEnabled(hold, enabled) IN
    /\ handler.stage = "idle" /\ inputs < MaxInputs
    /\ inputs' = inputs + 1
    /\ hold' = result.hold
    /\ handler' = [stage |-> "release", answers |-> {}, released |-> result.out]
    /\ UNCHANGED <<reader, sent, written, sleeper, asked, queries, dropped, behind>>

\* keeper_reply_hold_loop, woken by a signal or its timeout: it keeps the lock
\* while it queues what expired, and sleeps until the deadline, if there is one.
HoldLoop ==
    LET result == Expire(hold) IN
    /\ sleeper # "forever"
    /\ hold' = result.hold
    /\ TrySend(result.out)
    /\ sleeper' = IF result.hold.deadline = "none" THEN "forever" ELSE "timed"
    /\ UNCHANGED <<reader, handler, written, asked, queries, inputs, behind>>

\* REPLY_HOLD_TIMEOUT passes.
Timeout ==
    /\ hold.deadline = "waiting"
    /\ hold' = [hold EXCEPT !.deadline = "passed"]
    /\ UNCHANGED <<reader, handler, sent, written, sleeper, asked, queries, inputs, dropped, behind>>

\* keeper_writer_loop, at the pace at which the program reads.
WriterWrites ==
    /\ written < Len(sent)
    /\ written' = written + 1
    /\ UNCHANGED <<hold, reader, handler, sent, sleeper, asked, queries, inputs, dropped, behind>>

-----------------------------------------------------------------------------
\* The reads the program can cause: up to one query for the emulator before and
\* after a graphics query.
Reads == \E b \in 0..1, a \in 0..1, id \in Id \cup {None} :
    LET graphics == IF id = None THEN 0 ELSE 1 IN
    /\ b + a + graphics > 0
    /\ queries + b + a + graphics <= MaxQueries
    /\ ReadOutput([i \in 1..b |-> queries + i], id,
                  [i \in 1..a |-> queries + b + graphics + i])

Requests ==
    \/ \E ids \in SUBSET Id : WriteInput(ids)
    \/ \E enabled \in BOOLEAN : SetHostGraphics(enabled)

Next ==
    \/ Reads \/ Requests
    \/ ReaderSends \/ HandlerSends \/ HandlerReleases
    \/ HoldLoop \/ Timeout \/ WriterWrites

Spec == Init /\ [][Next]_vars

\* Threads run and time passes; the program may stop reading what the writer writes.
FairSpec ==
    /\ Spec
    /\ WF_vars(HoldLoop) /\ WF_vars(Timeout)
    /\ WF_vars(ReaderSends) /\ WF_vars(HandlerReleases)

-----------------------------------------------------------------------------
(* Properties *)

Hold == [enabled : BOOLEAN, pending : SUBSET (Id \X Nat),
         deadline : {"none", "waiting", "passed"}, held : Seq(Nat)]

\* The hold, the threads and the queue have their types.
TypeOK ==
    /\ hold \in Hold
    /\ reader \in Seq(Nat)
    /\ handler \in [stage : {"idle", "send", "release"}, answers : SUBSET (Id \X Nat),
                    released : Seq(Nat)]
    /\ sent \in Seq(Message)
    /\ written \in Nat
    /\ sleeper \in {"awake", "timed", "forever"}
    /\ asked \subseteq Nat
    /\ queries \in Nat
    /\ inputs \in Nat
    /\ dropped \subseteq Nat
    /\ behind \subseteq Nat \X (Id \X Nat)

\* Between the calls of its methods, a hold keeps replies only behind a pending
\* query of a host that answers, with a deadline, and no more than the bound.
Sound(h) ==
    /\ h.held # <<>> => h.pending # {}
    /\ h.pending # {} => h.enabled /\ h.deadline # "none"
    /\ Len(h.held) <= MaxHeld

\* Replies are held only behind a pending query of a host that answers, no more
\* of them than MAX_HELD_REPLY_BYTES, and with a deadline for which the hold
\* thread is awake or will wake: no wakeup is lost between the read loop, the
\* requests and the hold thread, whichever of them empties the hold meanwhile.
HeldIsWatched == Sound(hold) /\ (hold.pending # {} => sleeper # "forever")

\* Where the reply to n is.
Places(n) ==
    {place \in {"held", "reader", "handler", "dropped"} :
        n \in CASE place = "held" -> Elements(hold.held)
                [] place = "reader" -> Elements(reader)
                [] place = "handler" -> Elements(handler.released)
                [] place = "dropped" -> dropped}
    \cup {i \in 1..Len(sent) : n \in Elements(sent[i].replies)}

\* No reply is lost or written twice, though three threads take replies out of
\* the hold: each is held, on its way, queued or dropped, and in one place.
RepliedOnce == \A n \in asked : \E place \in Places(n) : Places(n) = {place}

\* A reply that an answer let go, the last of the pending queries being answered,
\* is not written before that answer, whatever other threads queue meanwhile. It
\* says nothing of the replies that stay held because another query is pending:
\* one of them may time out, and be queued, before the handler queues the answer.
HeldBehindAnswer ==
    \A p \in behind : \A i, j \in 1..Len(sent) :
        p[1] \in Elements(sent[i].replies) /\ p[2] \in sent[j].answers => j < i

\* "keeps the emulator's replies that follow a forwarded graphics query and lets
\* them go, in order, right after the host's answer has been written to the
\* pane": no reply to a query after an answered one is written before its answer.
AnswerFirst ==
    \A i, j \in 1..Len(sent) :
        \A n \in Elements(sent[i].replies), q \in sent[j].answers : i < j => n < q[2]

\* Held replies go out in the end, whether or not an answer comes, once the program
\* stops sending graphics queries (each of which moves the deadline).
HeldReleased == hold.held # <<>> ~> hold.held = <<>>
=============================================================================
