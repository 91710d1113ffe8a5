----------------------------- MODULE ClientCopy -----------------------------
(***************************************************************************)
(* The copy of the layout that an attached client keeps, against the       *)
(* server's. The client subscribes to every session and then reads them    *)
(* all; from then on it handles the server's events one after the other,   *)
(* most of them by reading again what the event is about (client.rs,       *)
(* state.rs of embers-client). The server changes the layout in one step   *)
(* and broadcasts the events of that change in a later one, so events of   *)
(* two tasks may be broadcast in the other order than their changes. When  *)
(* the connection that asked for the change is gone by then, they are not  *)
(* broadcast at all.                                                       *)
(*                                                                         *)
(* What reaches the client is what EventFeed promises; Connections shows   *)
(* that the server keeps that promise.                                     *)
(***************************************************************************)
EXTENDS EventFeed, FiniteSets, SequencesExt

CONSTANTS
    Me,          \* the connection of the client
    Buffer,      \* buffer ids
    Node,        \* ids of panes: 1..n
    Tasks,       \* the server's tasks: connections and exit monitors
    MaxChanges,  \* how many changes each task makes at most
    MaxBatch,    \* MAX_EVENT_BATCH
    Nowhere,     \* no such node; where a detached buffer is shown
    Unknown      \* a buffer the copy has no record of

ASSUME CopyConstants ==
    /\ Conn = {Me} /\ 1 \in Session \cap Node \cap Buffer /\ Session \subseteq Nat /\ Node \subseteq Nat
    /\ Nowhere \notin Node /\ Unknown \notin Node \cup {Nowhere}
    /\ MaxChanges \in [Tasks -> Nat] /\ MaxBatch \in Nat \ {0}
    /\ All # None /\ IsFiniteSet(Session)

VARIABLES
    live,      \* the server's sessions
    pane,      \* node -> what it shows: [s, b], or Nowhere
    buf,       \* buffer -> "absent", "here" or "gone"
    ever,      \* the buffers that were attached some time
    exited,    \* the buffers whose command exited
    task,      \* task -> [step, had, events]
    nextNode,  \* the next node id
    nextSession,
    changes,   \* task -> the changes it made so far
    sessions,  \* the copy: its sessions,
    nodes,     \*   its nodes,
    buffers,   \*   and its buffers: the node a record names, or Unknown
    phase,     \* the client: "new" or "subscribed"
    batch,     \* the events taken from the feed and not yet handled
    taking,    \* whether it still adds to the batch
    todo,      \* what it still has to read before the next event
    unheard    \* history: the sessions whose change was never broadcast and
               \*   that the client has not read since

given == <<nextNode, nextSession>>
server == <<live, pane, buf, ever, exited, task, given, changes>>
copy == <<sessions, nodes, buffers>>
client == <<phase, batch, taking, todo, unheard>>
vars == <<server, copy, client, feedVars>>

----------------------------------------------------------------------------
(* The server.                                                             *)

Event(kind, id) ==
    [kind |-> kind, id |-> id,
     about |-> IF kind \in {"created", "closed", "changed"} THEN {id} ELSE {}]

\* Numbers in ascending order, as the ordered maps of the code give them.
InOrder(chosen) ==
    CHOOSE order \in [1..Cardinality(chosen) -> chosen] :
        \A i, j \in 1..Cardinality(chosen) : i < j => order[i] < order[j]

Say(kind, chosen) == LET order == InOrder(chosen)
                     IN  [i \in DOMAIN order |-> Event(kind, order[i])]

\* The events of a sequence at the chosen places.
Only(es, kept) == LET order == InOrder(kept)
                  IN  [k \in DOMAIN order |-> es[order[k]]]

Idle == [step |-> "idle", had |-> {}, events |-> <<>>]

Init ==
    /\ live = {1} /\ nextSession = 2 /\ nextNode = 2
    /\ pane = [n \in Node |-> IF n = 1 THEN [s |-> 1, b |-> 1] ELSE Nowhere]
    /\ buf = [b \in Buffer |-> IF b = 1 THEN "here" ELSE "absent"]
    /\ ever = {1} /\ exited = {} /\ changes = [t \in Tasks |-> 0]
    /\ task = [t \in Tasks |-> Idle]
    /\ sessions = {}
    /\ nodes = [n \in Node |-> Nowhere]
    /\ buffers = [b \in Buffer |-> Unknown]
    /\ phase = "new" /\ batch = <<>> /\ taking = TRUE /\ todo = <<>>
    /\ unheard = {}
    /\ FeedInit

Shows(p, n, s) == p[n] # Nowhere /\ p[n].s = s
Panes(p, s) == {n \in Node : Shows(p, n, s)}
At(b) == {n \in Node : pane[n] # Nowhere /\ pane[n].b = b}
Attachment(b) == IF At(b) = {} THEN Nowhere ELSE CHOOSE n \in At(b) : TRUE
SessionsWithPanes == {s \in live : Panes(pane, s) # {}}

Begin(t, step, had, events) ==
    /\ task[t].step = "idle" /\ changes[t] < MaxChanges[t]
    /\ changes' = [changes EXCEPT ![t] = @ + 1]
    /\ task' = [task EXCEPT ![t] = [step |-> step, had |-> had, events |-> events]]
    /\ UNCHANGED <<copy, client, feedVars>>

Change(t, had, events) == Begin(t, "dispose", had, events)

SessionCreate(t) ==
    /\ nextSession \in Session
    /\ Change(t, {}, <<Event("created", nextSession)>>)
    /\ live' = live \cup {nextSession}
    /\ nextSession' = nextSession + 1
    /\ UNCHANGED <<pane, buf, ever, exited, nextNode>>

\* Closing a session detaches its buffers.
SessionClose(t) == \E s \in live :
    /\ Change(t, {}, <<Event("closed", s)>>)
    /\ live' = live \ {s}
    /\ pane' = [n \in Node |-> IF Shows(pane, n, s) THEN Nowhere ELSE pane[n]]
    /\ UNCHANGED <<buf, ever, exited, given>>

BufferCreate(t) == \E b \in Buffer :
    /\ buf[b] = "absent"
    /\ Begin(t, "spawn", {b}, <<>>)
    /\ buf' = [buf EXCEPT ![b] = "here"]
    /\ UNCHANGED <<live, pane, ever, exited, given>>

Made(b) == [kind |-> "made", id |-> b, about |-> {}, att |-> Attachment(b)]

\* Once its command runs the record is read again for the event; by then other
\* tasks may have attached it, or removed it.
Spawned(t) ==
    /\ task[t].step = "spawn"
    /\ task' = [task EXCEPT ![t] =
                  [step |-> "dispose", had |-> {},
                   events |-> LET b == CHOOSE b \in @.had : TRUE
                              IN  IF buf[b] = "here" THEN <<Made(b)>> ELSE <<>>]]
    /\ UNCHANGED <<live, pane, buf, ever, exited, given, changes, copy, client, feedVars>>

\* Its command cannot be started: it is removed again, unless another task
\* attached it meanwhile.
SpawnFails(t) ==
    /\ task[t].step = "spawn"
    /\ buf' = [b \in Buffer |-> IF b \in task[t].had /\ buf[b] = "here" /\ At(b) = {}
                               THEN "gone" ELSE buf[b]]
    /\ task' = [task EXCEPT ![t] = [step |-> "dispose", had |-> {}, events |-> <<>>]]
    /\ UNCHANGED <<live, pane, ever, exited, given, changes, copy, client, feedVars>>

\* A window or split that shows a detached buffer is opened.
Attach(t) == \E b \in Buffer, s \in live :
    /\ buf[b] = "here" /\ At(b) = {} /\ nextNode \in Node
    /\ Change(t, {}, <<Event("changed", s)>>)
    /\ pane' = [pane EXCEPT ![nextNode] = [s |-> s, b |-> b]]
    /\ nextNode' = nextNode + 1
    /\ ever' = ever \cup {b}
    /\ UNCHANGED <<live, buf, exited, nextSession>>

\* A request to close a pane first notes which sessions have any.
AskToClose(t) ==
    /\ Begin(t, "asked", SessionsWithPanes, <<>>)
    /\ UNCHANGED <<live, pane, buf, ever, exited, given>>

\* The pane is closed, which detaches its buffer; if it is gone by now, nothing is.
NodeClose(t) == \E closed \in SUBSET {n \in Node : pane[n] # Nowhere} :
    /\ task[t].step = "asked" /\ Cardinality(closed) <= 1
    /\ pane' = [n \in Node |-> IF n \in closed THEN Nowhere ELSE pane[n]]
    /\ task' = [task EXCEPT ![t] = [step |-> "dispose", had |-> @.had,
                                    events |-> Say("changed", {pane[n].s : n \in closed})]]
    /\ UNCHANGED <<live, buf, ever, exited, given, changes, copy, client, feedVars>>

\* A buffer is moved to a pane of its session, whose buffer is detached.
NodeMoveBuffer(t) == \E n \in Node, b \in Buffer :
    /\ pane[n] # Nowhere /\ n \notin At(b) /\ buf[b] = "here"
    /\ \A m \in At(b) : pane[m].s = pane[n].s
    /\ Change(t, {}, <<Event("changed", pane[n].s)>>)
    /\ pane' = [m \in Node |-> IF m = n THEN [pane[n] EXCEPT !.b = b]
                               ELSE IF m \in At(b) THEN Nowhere ELSE pane[m]]
    /\ ever' = ever \cup {b}
    /\ UNCHANGED <<live, buf, exited, given>>

BufferDetach(t) == \E b \in Buffer :
    /\ buf[b] = "here"
    /\ Change(t, {}, <<Event("detached", b)>> \o Say("changed", {pane[n].s : n \in At(b)}))
    /\ pane' = [n \in Node |-> IF n \in At(b) THEN Nowhere ELSE pane[n]]
    /\ UNCHANGED <<live, buf, ever, exited, given>>

\* A command exits and its monitor records it.
Exit(t) == \E b \in Buffer :
    /\ buf[b] = "here" /\ b \notin exited
    /\ Change(t, {}, <<Event("invalidated", b)>>)
    /\ exited' = exited \cup {b}
    /\ UNCHANGED <<live, pane, buf, ever, given>>

\* After its change a task removes the exited buffers that were shown once.
Dispose(t) ==
    LET removed == {b \in ever \cap exited : buf[b] = "here"}
        closed == {n \in Node : pane[n] # Nowhere /\ pane[n].b \in removed}
        changed == {pane[n].s : n \in closed}
    IN  /\ task[t].step = "dispose"
        /\ buf' = [b \in Buffer |-> IF b \in removed THEN "gone" ELSE buf[b]]
        /\ pane' = [n \in Node |-> IF n \in closed THEN Nowhere ELSE pane[n]]
        /\ task' = [task EXCEPT ![t] =
                      [step |-> IF changed \cup @.had = {} THEN "broadcast" ELSE "destroy",
                       had |-> @.had \cup changed,
                       events |-> @.events \o Say("changed", changed)]]
        /\ UNCHANGED <<live, ever, exited, given, changes, copy, client, feedVars>>

\* What is left to tell about sessions that are gone: not how they changed.
WithoutChanges(es, gone) ==
    Only(es, {i \in DOMAIN es : es[i].kind = "changed" => es[i].id \notin gone})

\* The sessions its change left without panes are destroyed.
Destroy(t) ==
    LET empty == (task[t].had \cap live) \ SessionsWithPanes
    IN  /\ task[t].step = "destroy"
        /\ live' = live \ empty
        /\ task' = [task EXCEPT ![t] = [step |-> "broadcast", had |-> {},
                                        events |-> WithoutChanges(@.events, empty) \o Say("closed", empty)]]
        /\ UNCHANGED <<pane, buf, ever, exited, given, changes, copy, client, feedVars>>

\* Only then are the events of the change broadcast.
Tell(t) ==
    /\ task[t].step = "broadcast"
    /\ task' = [task EXCEPT ![t] = Idle]
    /\ Broadcast(task[t].events,
                 {e.id : e \in {d \in ToSet(task[t].events) : d.kind = "closed"}})
    /\ UNCHANGED <<live, pane, buf, ever, exited, given, changes, copy, client>>

\* The response to the request cannot be queued, its connection is gone: the
\* handler returns and the events of the change are dropped with it; that
\* connection asks for nothing more. A monitor answers no one.
TellNobody(t) ==
    /\ task[t].step = "broadcast"
    /\ \A e \in ToSet(task[t].events) : e.kind # "invalidated"
    /\ task' = [task EXCEPT ![t] = Idle]
    /\ unheard' = unheard \cup UNION {e.about : e \in ToSet(task[t].events)}
    /\ changes' = [changes EXCEPT ![t] = MaxChanges[t]]
    /\ UNCHANGED <<live, pane, buf, ever, exited, given, copy,
                   phase, batch, taking, todo, feedVars>>

Serve(t) ==
    \/ SessionCreate(t) \/ SessionClose(t) \/ BufferCreate(t) \/ Attach(t)
    \/ AskToClose(t) \/ NodeMoveBuffer(t) \/ BufferDetach(t) \/ Exit(t)

Finish(t) ==
    \/ Spawned(t) \/ SpawnFails(t) \/ NodeClose(t) \/ Dispose(t) \/ Destroy(t)
    \/ Tell(t) \/ TellNobody(t)

----------------------------------------------------------------------------
(* The copy.                                                               *)

\* apply_session_snapshot: the session as the server has it now; a buffer whose
\* record names a node the session no longer shows it in is detached.
ApplySnapshot(s) ==
    LET before == Panes(nodes, s)
        shown == {pane[n].b : n \in Panes(pane, s)}
    IN  /\ sessions' = sessions \cup {s}
        /\ nodes' = [n \in Node |-> IF n \in before \cup Panes(pane, s)
                                    THEN IF Shows(pane, n, s) THEN pane[n] ELSE Nowhere
                                    ELSE nodes[n]]
        /\ buffers' = [b \in Buffer |-> IF b \in shown THEN Attachment(b)
                                        ELSE IF buffers[b] \in before THEN Nowhere
                                        ELSE buffers[b]]

RemoveSession(s) ==
    /\ sessions' = sessions \ {s}
    /\ nodes' = [n \in Node |-> IF Shows(nodes, n, s) THEN Nowhere ELSE nodes[n]]
    /\ buffers' = [b \in Buffer |-> IF buffers[b] \in Panes(nodes, s) THEN Nowhere ELSE buffers[b]]

\* A session the server no longer has is dropped.
ResyncSession(s) == IF s \in live THEN ApplySnapshot(s) ELSE RemoveSession(s)

\* The records of detached buffers become the server's.
ApplyDetached ==
    /\ buffers' = [b \in Buffer |->
                     IF buf[b] = "here" /\ At(b) = {} THEN Nowhere
                     ELSE IF buffers[b] = Nowhere THEN Unknown ELSE buffers[b]]
    /\ UNCHANGED <<sessions, nodes>>

SetRecord(b, value) ==
    /\ buffers' = [buffers EXCEPT ![b] = value]
    /\ UNCHANGED <<sessions, nodes>>

\* What an event changes at once.
ApplyEvent(e) ==
    CASE e.kind = "created" -> /\ sessions' = sessions \cup {e.id}
                               /\ UNCHANGED <<nodes, buffers>>
      [] e.kind = "closed" -> RemoveSession(e.id)
      [] e.kind = "made" -> SetRecord(e.id, e.att)
      [] e.kind = "detached" /\ buffers[e.id] # Unknown -> SetRecord(e.id, Nowhere)
      [] OTHER -> UNCHANGED copy

Fetch(what, id) == [what |-> what, id |-> id]
Sessions(chosen) == LET order == InOrder(chosen)
                 IN  [i \in DOMAIN order |-> Fetch("session", order[i])]

\* Mutant: a session is taken to be as it was created.
ResyncFor_TrustsCreated(e) ==
    CASE e.kind = "changed" -> <<Fetch("session", e.id), Fetch("detached", 0)>>
      [] e.kind = "closed" -> <<Fetch("detached", 0)>>
      [] e.kind = "invalidated" -> <<Fetch("record", e.id), Fetch("snapshot", e.id)>>
      [] OTHER -> <<>>

\* What an event makes the client read.
ResyncFor(e) ==
    CASE e.kind = "created" -> <<Fetch("session", e.id)>>
      [] e.kind = "changed" -> <<Fetch("session", e.id), Fetch("detached", 0)>>
      [] e.kind = "closed" -> <<Fetch("detached", 0)>>
      [] e.kind = "invalidated" -> <<Fetch("record", e.id), Fetch("snapshot", e.id)>>
      [] OTHER -> <<>>

----------------------------------------------------------------------------
(* The client.                                                             *)

Connect ==
    /\ phase = "new" /\ ~open[Me]
    /\ Open(Me)
    /\ UNCHANGED <<server, copy, client>>

SubscribeAll ==
    /\ phase = "new" /\ open[Me]
    /\ Subscribe(Me, All)
    /\ phase' = "subscribed"
    /\ todo' = <<Fetch("sessions", 0)>>
    /\ UNCHANGED <<server, copy, batch, taking, unheard>>

\* resync_all_sessions, which also ends every command of the user's: sessions
\* the server does not list are dropped, the others and the detached buffers read.
ListSessions ==
    LET dropped == UNION {Panes(nodes, s) : s \in sessions \ live}
    IN  /\ todo # <<>> /\ Head(todo).what = "sessions"
        /\ sessions' = sessions \cap live
        /\ nodes' = [n \in Node |-> IF n \in dropped THEN Nowhere ELSE nodes[n]]
        /\ buffers' = [b \in Buffer |-> IF buffers[b] \in dropped THEN Nowhere ELSE buffers[b]]
        /\ todo' = Sessions(live) \o <<Fetch("detached", 0)>> \o Tail(todo)
        /\ unheard' = unheard \cap live
        /\ UNCHANGED <<server, phase, batch, taking, feedVars>>

\* forget_buffer: the sessions whose views show it are read first.
Showing(b) == {nodes[n].s : n \in {m \in Node : nodes[m] # Nowhere /\ nodes[m].b = b}}
Forget(b) == Sessions(Showing(b)) \o <<Fetch("forget", b)>>

FetchNext ==
    LET f == Head(todo)
    IN  /\ todo # <<>> /\ f.what # "sessions"
        /\ CASE f.what = "session" -> ResyncSession(f.id)
             [] f.what = "detached" -> ApplyDetached
             [] f.what = "record" /\ buf[f.id] = "here" -> SetRecord(f.id, Attachment(f.id))
             [] f.what = "forget" -> SetRecord(f.id, Unknown)
             [] OTHER -> UNCHANGED copy
        /\ todo' = (IF f.what \in {"record", "snapshot"} /\ buf[f.id] # "here"
                    THEN Forget(f.id) ELSE <<>>) \o Tail(todo)
        /\ unheard' = IF f.what = "session" THEN unheard \ {f.id} ELSE unheard
        /\ UNCHANGED <<server, phase, batch, taking, feedVars>>

Ready == phase = "subscribed" /\ todo = <<>>

\* A command of the user's ends by reading everything again.
ResyncAll ==
    /\ Ready /\ batch = <<>>
    /\ todo' = <<Fetch("sessions", 0)>>
    /\ UNCHANGED <<server, copy, phase, batch, taking, unheard, feedVars>>

\* The events that have arrived are taken together.
Take ==
    /\ Ready /\ taking /\ Len(batch) < MaxBatch
    /\ Read(Me)
    /\ batch' = Append(batch, Head(feed[Me]))
    /\ UNCHANGED <<server, copy, phase, taking, todo, unheard>>

\* Of the events that a buffer's screen changed only the last is handled.
Coalesced(es) ==
    Only(es, {i \in DOMAIN es : es[i].kind = "invalidated" =>
                                  \A j \in DOMAIN es : j > i => es[j] # es[i]})

Handle_FillsBatch ==
    LET es == IF taking THEN Coalesced(batch) ELSE batch
    IN  /\ Ready /\ batch # <<>> /\ (taking => Len(batch) = MaxBatch)
        /\ ApplyEvent(Head(es))
        /\ todo' = ResyncFor(Head(es))
        /\ batch' = Tail(es)
        /\ taking' = (Tail(es) = <<>>)
        /\ UNCHANGED <<server, phase, unheard, feedVars>>

Handle ==
    LET es == IF taking THEN Coalesced(batch) ELSE batch
    IN  /\ Ready /\ batch # <<>>
        /\ ApplyEvent(Head(es))
        /\ todo' = ResyncFor(Head(es))
        /\ batch' = Tail(es)
        /\ taking' = (Tail(es) = <<>>)
        /\ UNCHANGED <<server, phase, unheard, feedVars>>

Step == SubscribeAll \/ ListSessions \/ FetchNext \/ Take \/ Handle

Next == (\E t \in Tasks : Serve(t) \/ Finish(t)) \/ Connect \/ ResyncAll \/ Step

Spec == Init /\ [][Next]_vars

\* The tasks finish what they began and the client goes on handling events.
Fairness == WF_vars(Connect \/ Step) /\ WF_vars(\E t \in Tasks : Finish(t))
FairSpec == Spec /\ Fairness

----------------------------------------------------------------------------
(* Properties.                                                             *)

CopyOf(s) == [known |-> s \in sessions,
              nodes |-> [n \in Panes(nodes, s) |-> nodes[n].b]]
Truth(s) == [known |-> s \in live,
             nodes |-> [n \in Panes(pane, s) |-> pane[n].b]]

Following == phase # "new" /\ interest[Me] = All

Events == ToSet(feed[Me]) \cup ToSet(batch) \cup UNION {ToSet(task[t].events) : t \in Tasks}

\* While the client is subscribed, a session it has wrong (one it does not know
\* or should not, a pane it lacks or shows in vain) is one it is still going to
\* read again: an event about it is on its way, whichever order events were
\* broadcast in, or the client has begun to read it. The exception are the
\* sessions whose change was never broadcast because its requester had hung up:
\* those stay wrong until the client reads them for another reason.
StaleIsNotified ==
    Following => \A s \in Session : CopyOf(s) # Truth(s) =>
        \/ \E e \in Events : e.about = {s}
        \/ \E i \in DOMAIN todo : todo[i] \in {Fetch("session", s), Fetch("sessions", 0)}
        \/ s \in unheard

\* When the server stops changing, the client ends with the server's sessions
\* and panes, unless it was too slow and lost its subscription, and but for the
\* sessions whose last change was never broadcast.
Settles ==
    <>[](interest[Me] = None \/ \A s \in Session : s \in unheard \/ CopyOf(s) = Truth(s))

\* Without that exception it does not hold: every request that changes the
\* workspace would have to tell the clients (the comment in handle_connection).
EveryChangeTold ==
    Following => \A s \in Session : CopyOf(s) # Truth(s) =>
        \/ \E e \in Events : e.about = {s}
        \/ \E i \in DOMAIN todo : todo[i] \in {Fetch("session", s), Fetch("sessions", 0)}

Quiet == Following /\ Ready /\ Events = {} /\ \A t \in Tasks : task[t] = Idle

\* Once no event is left no view shows a buffer the client does not know, what
\* forget_buffer reads sessions again for. It does not hold.
ViewsKnown == Quiet => \A n \in Node : nodes[n] # Nowhere => buffers[nodes[n].b] # Unknown
=============================================================================
