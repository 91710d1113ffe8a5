----------------------------- MODULE Connections -----------------------------
(***************************************************************************)
(* The server's connections: the task that handles a connection's requests *)
(* one after another and then cleans up after it, the task that writes its *)
(* outbound queue, the table of clients, the subscriptions, and the stop   *)
(* of the server, which waits for them all.                                *)
(*                                                                         *)
(* pc[c] is where the task of connection c is.  A step is what the code    *)
(* does under one lock, or up to the next point where it waits.            *)
(***************************************************************************)
EXTENDS Naturals, Sequences, FiniteSets

CONSTANTS
  Conn,         \* connections, each accepted at most once
  Session,      \* sessions, all open at the start
  Buffer,       \* buffers that can be watched
  All, None,
  Capacity,     \* of an outbound queue (OUTBOUND_CHANNEL_CAPACITY)
  MaxRequests,  \* requests of one connection
  Asks,         \* the kinds of requests the clients make
  Detachers,    \* <<c, t>> when c may ask to detach t
  Stallers      \* connections whose client may stop reading

ASSUME ConnectionConstants ==
  /\ IsFiniteSet(Conn)
  /\ Capacity \in Nat \ {0}
  /\ MaxRequests \in Nat
  /\ Detachers \subseteq Conn \X Conn
  /\ Stallers \subseteq Conn
  /\ None \notin Conn \cup Session
  /\ All \notin Session
  /\ All # None

VARIABLES
  pc,         \* where the task of each connection is
  exit,       \* how it left handle_connection
  work,       \* what a request in progress has in hand
  requests,   \* how many requests it has taken
  clients,    \* Runtime::clients: the registered clients
  subs,       \* Runtime::subscriptions: what each connection subscribed to
  out,        \* the outbound queue of each connection
  writer,     \* its write_loop
  asked,      \* whether its shutdown channel was signalled
  peer,       \* the client at the other end
  sessions,   \* the sessions there are
  told,       \* whether keepers were told that a client answers graphics
  syncing,    \* who holds host_graphics_sync
  flag,       \* Buffer::watched
  server      \* "running", "stopping", "closed" to new clients, "stopped"

vars == <<pc, exit, work, requests, clients, subs, out, writer, asked, peer,
          sessions, told, syncing, flag, server>>

task == <<pc, exit, work, requests>>
queues == <<subs, out, writer>>
rest == <<clients, asked, peer, sessions, told, syncing, flag, server>>

Client == [session : Session \cup {None}, graphics : BOOLEAN,
           watched : SUBSET Buffer]

ASSUME NoneIsNoClient == None \notin Client

NoClient == [session |-> None, graphics |-> FALSE, watched |-> {}]

Changed(s) == [about |-> {s}, kind |-> "changed"]
Closed(s) == [about |-> {s}, kind |-> "closed"]
ClientChanged(S) == [about |-> S, kind |-> "client"]
Output == [about |-> {}, kind |-> "output"]

(***************************************************************************)
(* What a closed session's clients are told: that it closed, then the      *)
(* change of each of the n clients that showed it.                         *)
(***************************************************************************)
ClosedEvents(s, n) == <<Closed(s)>> \o [i \in 1 .. n |-> ClientChanged({s})]

Batches ==
  {<<>>, <<Output>>}
    \cup {<<Changed(s)>> : s \in Session}
    \cup {<<ClientChanged(S)>> : S \in SUBSET Session}
    \cup {ClosedEvents(s, n) : s \in Session, n \in 0 .. Cardinality(Conn)}

Feed == INSTANCE EventFeed
          WITH interest <- subs, feed <- out, Batch <- Batches,
               open <- [c \in Conn |-> writer[c] = "running"]

Idle == [events |-> <<>>, retired |-> {}, target |-> None, session |-> None,
         conns |-> {}, buffers |-> {}, seen |-> {}, on |-> FALSE, kill |-> FALSE]

Work == [events : Batches, retired : SUBSET Session, target : Conn \cup {None},
         session : Session \cup {None}, conns : SUBSET Conn, buffers : SUBSET Buffer,
         seen : SUBSET Buffer, on : BOOLEAN, kill : BOOLEAN]

Init ==
  /\ pc = [c \in Conn |-> "none"]
  /\ exit = [c \in Conn |-> "none"]
  /\ work = [c \in Conn |-> Idle]
  /\ requests = [c \in Conn |-> 0]
  /\ clients = [c \in Conn |-> None]
  /\ subs = [c \in Conn |-> None]
  /\ out = [c \in Conn |-> <<>>]
  /\ writer = [c \in Conn |-> "none"]
  /\ asked = [c \in Conn |-> FALSE]
  /\ peer = [c \in Conn |-> "reading"]
  /\ sessions = Session
  /\ told = FALSE
  /\ syncing = None
  /\ flag = [b \in Buffer |-> FALSE]
  /\ server = "running"

------------------------------------------------------------------------------
(* Queues *)

Room(c) == Capacity - Len(out[c])

(***************************************************************************)
(* broadcast: try_send to every subscription.  A client whose queue is     *)
(* full or closed loses its subscription; a retired session's subscribers  *)
(* lose theirs after they were told.                                       *)
(***************************************************************************)
Fits(c, es) ==
  LET wanted == Feed!Wanted(subs[c], es)
  IN IF writer[c] # "running" THEN 0
     ELSE IF Len(wanted) <= Room(c) THEN Len(wanted) ELSE Room(c)

Broadcast_KeepsFull(es, retired) ==
  /\ out' = [c \in Conn |->
               out[c] \o SubSeq(Feed!Wanted(subs[c], es), 1, Fits(c, es))]
  /\ subs' = [c \in Conn |-> IF writer[c] = "running" /\ subs[c] \notin retired
                              THEN subs[c] ELSE None]
  /\ UNCHANGED writer

Broadcast(es, retired) ==
  /\ out' = [c \in Conn |->
               out[c] \o SubSeq(Feed!Wanted(subs[c], es), 1, Fits(c, es))]
  /\ subs' = [c \in Conn |->
                IF /\ Fits(c, es) = Len(Feed!Wanted(subs[c], es))
                   /\ subs[c] \notin retired
                THEN subs[c] ELSE None]
  /\ UNCHANGED writer

TrySend_Unbounded(c) ==
  /\ out' = IF writer[c] = "running"
            THEN [out EXCEPT ![c] = Append(@, Feed!Notice)] ELSE out
  /\ UNCHANGED <<subs, writer>>

TrySend(c) ==
  /\ out' = IF writer[c] = "running" /\ Room(c) > 0
            THEN [out EXCEPT ![c] = Append(@, Feed!Notice)] ELSE out
  /\ UNCHANGED <<subs, writer>>

(***************************************************************************)
(* write_loop: it ends when a write fails because the client is gone, or   *)
(* when nothing can be sent any more, the connection's task and its        *)
(* subscription being gone.                                                *)
(***************************************************************************)
HandlerEnded(c) ==
  pc[c] \in {"closing", "flush", "cleanup", "unsubscribe", "sync", "tell",
             "watchRead", "watchWrite", "lastFlush", "done"} /\ exit[c] # "none"

Write(c) ==
  /\ writer[c] = "running"
  /\ peer[c] = "reading"
  /\ out[c] # <<>>
  /\ out' = [out EXCEPT ![c] = Tail(@)]
  /\ UNCHANGED <<subs, writer, task, rest>>

WriterEnds(c) ==
  /\ writer[c] = "running"
  /\ \/ peer[c] = "gone" /\ out[c] # <<>>
     \/ out[c] = <<>> /\ HandlerEnded(c) /\ subs[c] = None
  /\ writer' = [writer EXCEPT ![c] = "ended"]
  /\ out' = [out EXCEPT ![c] = <<>>]
  /\ UNCHANGED <<subs, task, rest>>
------------------------------------------------------------------------------
(* The client at the other end *)

Stall(c) ==
  /\ c \in Stallers
  /\ peer[c] = "reading"
  /\ peer' = [peer EXCEPT ![c] = "stalled"]
  /\ UNCHANGED <<task, queues, clients, asked, sessions, told, syncing, flag, server>>

Leave(c) ==
  /\ pc[c] # "none"
  /\ peer' = [peer EXCEPT ![c] = "gone"]
  /\ UNCHANGED <<task, queues, clients, asked, sessions, told, syncing, flag, server>>

(***************************************************************************)
(* A buffer's runtime reports output, or another change all clients hear.  *)
(***************************************************************************)
Report ==
  /\ "output" \in Asks
  /\ server # "stopped"
  /\ Broadcast(<<Output>>, {})
  /\ UNCHANGED <<task, rest>>
------------------------------------------------------------------------------
(* Requests *)

Accept(c) ==
  /\ server \in {"running", "stopping"}
  /\ pc[c] = "none"
  /\ pc' = [pc EXCEPT ![c] = "idle"]
  /\ clients' = [clients EXCEPT ![c] = NoClient]
  /\ writer' = [writer EXCEPT ![c] = "running"]
  /\ UNCHANGED <<exit, work, requests, subs, out, asked, peer, sessions, told,
                 syncing, flag, server>>

Goto(c, step, w) ==
  /\ pc' = [pc EXCEPT ![c] = step]
  /\ work' = [work EXCEPT ![c] = w]
  /\ UNCHANGED <<exit, requests>>

(***************************************************************************)
(* handle_connection reads a frame and dispatches it: the first step of    *)
(* the request leads to step, with w in hand.                              *)
(***************************************************************************)
Take(c, ask, step, w) ==
  /\ ask \in Asks
  /\ pc[c] = "idle"
  /\ peer[c] = "reading"
  /\ requests[c] < MaxRequests
  /\ requests' = [requests EXCEPT ![c] = @ + 1]
  /\ pc' = [pc EXCEPT ![c] = step]
  /\ work' = [work EXCEPT ![c] = w]
  /\ UNCHANGED exit

AskSubscribe(c, i) ==
  /\ subs[c] = None
  /\ Take(c, "subscribe", "reply", Idle)
  /\ subs' = [subs EXCEPT ![c] = i]
  /\ UNCHANGED <<out, writer, rest>>

AskUnsubscribe(c) ==
  /\ Take(c, "subscribe", "reply", Idle)
  /\ subs' = [subs EXCEPT ![c] = None]
  /\ UNCHANGED <<out, writer, rest>>

(***************************************************************************)
(* Any request that changes session s, as its events tell.                 *)
(***************************************************************************)
AskChange(c, s) ==
  /\ Take(c, "change", "reply",
          IF s \in sessions THEN [Idle EXCEPT !.events = <<Changed(s)>>] ELSE Idle)
  /\ UNCHANGED <<queues, rest>>

(***************************************************************************)
(* Closing a session takes it from its clients under both locks.  What to  *)
(* tell about each of those clients is read from its record afterwards.    *)
(***************************************************************************)
ShowsSession(c, s) == clients[c] # None /\ clients[c].session = s

ClearClientSession(s) ==
  clients' = [c \in Conn |->
                IF ShowsSession(c, s) THEN [clients[c] EXCEPT !.session = None]
                                      ELSE clients[c]]

AskClose(c, s) ==
  /\ \/ /\ s \in sessions
        /\ Take(c, "close", "closed",
                [Idle EXCEPT !.session = s,
                             !.conns = {d \in Conn : ShowsSession(d, s)}])
        /\ ClearClientSession(s)
     \/ /\ s \notin sessions
        /\ Take(c, "close", "reply", Idle)
        /\ UNCHANGED clients
  /\ sessions' = sessions \ {s}
  /\ UNCHANGED <<queues, asked, peer, told, syncing, flag, server>>

ClientChangedEvents(c) ==
  /\ pc[c] = "closed"
  /\ LET known == {d \in work[c].conns : clients[d] # None}
     IN Goto(c, "reply", [Idle EXCEPT
               !.events = ClosedEvents(work[c].session, Cardinality(known)),
               !.retired = {work[c].session}])
  /\ UNCHANGED <<queues, rest>>

(***************************************************************************)
(* set_client_session: the session and the client are looked up under both *)
(* locks.                                                                  *)
(***************************************************************************)
AskSwitch_Unchecked(c, t, s) ==
  /\ clients[t] # None
  /\ Take(c, "switch", "switched",
          [Idle EXCEPT !.target = t, !.session = clients[t].session])
  /\ clients' = [clients EXCEPT ![t].session = s]
  /\ UNCHANGED <<queues, asked, peer, sessions, told, syncing, flag, server>>

AskSwitch(c, t, s) ==
  /\ \/ /\ s \in sessions /\ clients[t] # None
        /\ Take(c, "switch", "switched",
                [Idle EXCEPT !.target = t, !.session = clients[t].session])
        /\ clients' = [clients EXCEPT ![t].session = s]
     \/ /\ s \notin sessions \/ clients[t] = None
        /\ Take(c, "switch", "reply", Idle)
        /\ UNCHANGED clients
  /\ UNCHANGED <<queues, asked, peer, sessions, told, syncing, flag, server>>

SwitchedEvent(c) ==
  /\ pc[c] = "switched"
  /\ LET t == work[c].target
     IN Goto(c, "reply", IF clients[t] = None THEN Idle
             ELSE [Idle EXCEPT !.events =
                     <<ClientChanged({work[c].session, clients[t].session} \ {None})>>])
  /\ UNCHANGED <<queues, rest>>

AskDisplay(c, t) ==
  /\ IF clients[t] = None
     THEN Take(c, "display", "reply", Idle)
     ELSE Take(c, "display", "display", [Idle EXCEPT !.target = t])
  /\ UNCHANGED <<queues, rest>>

SendToClient(c) ==
  /\ pc[c] = "display"
  /\ IF subs[work[c].target] = None THEN UNCHANGED queues
                                    ELSE TrySend(work[c].target)
  /\ Goto(c, "reply", Idle)
  /\ UNCHANGED rest

AskGraphics(c, on) ==
  /\ Take(c, "graphics", "sync", Idle)
  /\ clients' = IF clients[c] = None THEN clients
                ELSE [clients EXCEPT ![c].graphics = on]
  /\ UNCHANGED <<queues, asked, peer, sessions, told, syncing, flag, server>>

AskWatch(c, b) ==
  /\ Take(c, "watch", "watching", [Idle EXCEPT !.buffers = {b}])
  /\ flag' = [flag EXCEPT ![b] = TRUE]
  /\ UNCHANGED <<queues, clients, asked, peer, sessions, told, syncing, server>>

NoteWatching(c) ==
  /\ pc[c] = "watching"
  /\ clients' = IF clients[c] = None THEN clients
                ELSE [clients EXCEPT ![c].watched = @ \cup work[c].buffers]
  /\ Goto(c, "reply", Idle)
  /\ UNCHANGED <<queues, asked, peer, sessions, told, syncing, flag, server>>

AskUnwatch(c, b) ==
  /\ Take(c, "watch", "watchRead", [Idle EXCEPT !.buffers = {b}])
  /\ clients' = IF clients[c] = None THEN clients
                ELSE [clients EXCEPT ![c].watched = @ \ {b}]
  /\ UNCHANGED <<queues, asked, peer, sessions, told, syncing, flag, server>>

AskKill(c) ==
  /\ Take(c, "kill", "reply", [Idle EXCEPT !.kill = TRUE])
  /\ UNCHANGED <<queues, rest>>

(***************************************************************************)
(* detach_client takes the client out of the table, then its subscription; *)
(* another client's connection is told to shut down and waited for.        *)
(***************************************************************************)
AskDetach(c, t) ==
  /\ <<c, t>> \in Detachers
  /\ IF clients[t] = None
     THEN Take(c, "detach", "reply", Idle)
     ELSE Take(c, "detach", "detach", [Idle EXCEPT !.target = t])
  /\ clients' = [clients EXCEPT ![t] = None]
  /\ UNCHANGED <<queues, asked, peer, sessions, told, syncing, flag, server>>

DetachSubscription_NoSignal(c) ==
  /\ pc[c] = "detach"
  /\ LET t == work[c].target
     IN /\ subs' = [subs EXCEPT ![t] = None]
        /\ Goto(c, IF t = c THEN "reply" ELSE "wait", work[c])
  /\ UNCHANGED <<out, writer, rest>>

DetachSubscription(c) ==
  /\ pc[c] = "detach"
  /\ LET t == work[c].target
     IN /\ subs' = [subs EXCEPT ![t] = None]
        /\ asked' = IF t = c THEN asked ELSE [asked EXCEPT ![t] = TRUE]
        /\ Goto(c, IF t = c THEN "reply" ELSE "wait", work[c])
  /\ UNCHANGED <<out, writer, clients, peer, sessions, told, syncing, flag, server>>

Detached(c) ==
  /\ pc[c] = "wait"
  /\ HandlerEnded(work[c].target)
  /\ Goto(c, "reply", Idle)
  /\ UNCHANGED <<queues, rest>>
------------------------------------------------------------------------------
(* sync_host_graphics and sync_watched_buffers, for a request and for the  *)
(* cleanup of a connection                                                 *)

AfterSync(c) ==
  IF exit[c] = "none" THEN "reply"
  ELSE IF work[c].buffers # {} THEN "watchRead"
  ELSE IF exit[c] = "stopped" THEN "lastFlush" ELSE "done"

SyncRead_NoLock(c) ==
  /\ pc[c] = "sync"
  /\ Goto(c, "tell", [work[c] EXCEPT !.on =
                        \E d \in Conn : clients[d] # None /\ clients[d].graphics])
  /\ UNCHANGED <<queues, rest>>

SyncRead(c) ==
  /\ pc[c] = "sync"
  /\ syncing = None
  /\ syncing' = c
  /\ Goto(c, "tell", [work[c] EXCEPT !.on =
                        \E d \in Conn : clients[d] # None /\ clients[d].graphics])
  /\ UNCHANGED <<queues, clients, asked, peer, sessions, told, flag, server>>

SyncTell(c) ==
  /\ pc[c] = "tell"
  /\ told' = work[c].on
  /\ syncing' = None
  /\ Goto(c, AfterSync(c), [work[c] EXCEPT !.on = FALSE])
  /\ UNCHANGED <<queues, clients, asked, peer, sessions, flag, server>>

WatchRead(c) ==
  /\ pc[c] = "watchRead"
  /\ Goto(c, "watchWrite", [work[c] EXCEPT !.seen =
            UNION {clients[d].watched : d \in {e \in Conn : clients[e] # None}}])
  /\ UNCHANGED <<queues, rest>>

WatchWrite(c) ==
  /\ pc[c] = "watchWrite"
  /\ flag' = [b \in Buffer |-> IF b \in work[c].buffers
                               THEN b \in work[c].seen ELSE flag[b]]
  /\ Goto(c, CASE exit[c] = "none" -> "reply"
               [] exit[c] = "stopped" -> "lastFlush"
               [] OTHER -> "done", Idle)
  /\ UNCHANGED <<queues, clients, asked, peer, sessions, told, syncing, server>>
------------------------------------------------------------------------------
(* The end of a request *)

(***************************************************************************)
(* The response waits for room in the queue; it fails once the writer has  *)
(* ended.                                                                  *)
(***************************************************************************)
Reply(c) ==
  /\ pc[c] = "reply"
  /\ writer[c] = "running"
  /\ Room(c) > 0
  /\ out' = [out EXCEPT ![c] = Append(@, Feed!Notice)]
  /\ Goto(c, "broadcast", work[c])
  /\ UNCHANGED <<subs, writer, rest>>

ReplyFails(c) ==
  /\ pc[c] = "reply"
  /\ writer[c] = "ended"
  /\ pc' = [pc EXCEPT ![c] = "closing"]
  /\ exit' = [exit EXCEPT ![c] = "closed"]
  /\ work' = [work EXCEPT ![c] = Idle]
  /\ UNCHANGED <<requests, queues, rest>>

(***************************************************************************)
(* A client that detached itself and one that asked to kill the server     *)
(* leave after their answer is queued.                                     *)
(***************************************************************************)
Finish(c) ==
  /\ pc[c] = "broadcast"
  /\ Broadcast(work[c].events, work[c].retired)
  /\ LET leaves == work[c].target = c \/ work[c].kill
     IN /\ pc' = [pc EXCEPT ![c] = IF leaves THEN "flush" ELSE "idle"]
        /\ exit' = [exit EXCEPT ![c] = IF leaves THEN "self" ELSE @]
  /\ server' = IF work[c].kill /\ server = "running" THEN "stopping" ELSE server
  /\ work' = [work EXCEPT ![c] = Idle]
  /\ UNCHANGED <<requests, clients, asked, peer, sessions, told, syncing, flag>>
------------------------------------------------------------------------------
(* The end of a connection *)

Leaves(c, how, step) ==
  /\ pc' = [pc EXCEPT ![c] = step]
  /\ exit' = [exit EXCEPT ![c] = how]
  /\ UNCHANGED <<work, requests>>

EndOnStop_Edge(c) ==
  /\ pc[c] = "idle"
  /\ server = "stopping"
  /\ TrySend(c)
  /\ Leaves(c, "stopped", "cleanup")
  /\ UNCHANGED rest

EndOnStop(c) ==
  /\ pc[c] = "idle"
  /\ server \in {"stopping", "closed"}
  /\ TrySend(c)
  /\ Leaves(c, "stopped", "cleanup")
  /\ UNCHANGED rest

EndOnDetach(c) ==
  /\ pc[c] = "idle"
  /\ asked[c]
  /\ Leaves(c, "closed", "closing")
  /\ UNCHANGED <<queues, rest>>

EndOnLeave(c) ==
  /\ pc[c] = "idle"
  /\ peer[c] = "gone"
  /\ Leaves(c, "closed", "closing")
  /\ UNCHANGED <<queues, rest>>

AbortWriter(c) ==
  /\ pc[c] = "closing"
  /\ writer' = [writer EXCEPT ![c] = "ended"]
  /\ out' = [out EXCEPT ![c] = <<>>]
  /\ Goto(c, "cleanup", Idle)
  /\ UNCHANGED <<subs, rest>>

Flushed(c) ==
  /\ pc[c] = "flush"
  /\ writer[c] = "ended"
  /\ Goto(c, "cleanup", Idle)
  /\ UNCHANGED <<queues, rest>>

Cleanup(c) ==
  /\ pc[c] = "cleanup"
  /\ Goto(c, "unsubscribe",
          [Idle EXCEPT !.buffers = IF clients[c] = None THEN {} ELSE clients[c].watched])
  /\ clients' = [clients EXCEPT ![c] = None]
  /\ UNCHANGED <<queues, asked, peer, sessions, told, syncing, flag, server>>

CleanupSubscription_Once(c) ==
  /\ pc[c] = "unsubscribe"
  /\ subs' = IF asked[c] THEN subs ELSE [subs EXCEPT ![c] = None]
  /\ Goto(c, "sync", work[c])
  /\ UNCHANGED <<out, writer, rest>>

CleanupSubscription(c) ==
  /\ pc[c] = "unsubscribe"
  /\ subs' = [subs EXCEPT ![c] = None]
  /\ Goto(c, "sync", work[c])
  /\ UNCHANGED <<out, writer, rest>>

(***************************************************************************)
(* The shutdown notice is flushed, or given up after a time.               *)
(***************************************************************************)
LastFlush(c) ==
  /\ pc[c] = "lastFlush"
  /\ writer' = [writer EXCEPT ![c] = "ended"]
  /\ out' = [out EXCEPT ![c] = <<>>]
  /\ Goto(c, "done", Idle)
  /\ UNCHANGED <<subs, rest>>
------------------------------------------------------------------------------
(* The server's stop *)

StopServer ==
  /\ "stop" \in Asks
  /\ server = "running"
  /\ server' = "stopping"
  /\ UNCHANGED <<task, queues, clients, asked, peer, sessions, told, syncing, flag>>

StopListening ==
  /\ server = "stopping"
  /\ server' = "closed"
  /\ UNCHANGED <<task, queues, clients, asked, peer, sessions, told, syncing, flag>>

(***************************************************************************)
(* quiesce_state_tasks: every connection's task has ended, and the notices *)
(* of the stop are flushed.                                                *)
(***************************************************************************)
Released(c) ==
  \/ pc[c] = "none"
  \/ HandlerEnded(c) /\ (exit[c] = "stopped" => pc[c] = "done")

Stopped ==
  /\ server = "closed"
  /\ \A c \in Conn : Released(c)
  /\ server' = "stopped"
  /\ UNCHANGED <<task, queues, clients, asked, peer, sessions, told, syncing, flag>>
------------------------------------------------------------------------------
Ask(c) ==
  \/ \E i \in Session \cup {All} : AskSubscribe(c, i)
  \/ AskUnsubscribe(c)
  \/ \E s \in Session : AskChange(c, s) \/ AskClose(c, s)
  \/ \E t \in Conn, s \in Session : AskSwitch(c, t, s)
  \/ \E t \in Conn : AskDisplay(c, t) \/ AskDetach(c, t)
  \/ \E on \in BOOLEAN : AskGraphics(c, on)
  \/ \E b \in Buffer : AskWatch(c, b) \/ AskUnwatch(c, b)
  \/ AskKill(c)

(***************************************************************************)
(* What the task of connection c does on its own.                          *)
(***************************************************************************)
Step(c) ==
  \/ ClientChangedEvents(c) \/ SwitchedEvent(c) \/ SendToClient(c)
  \/ NoteWatching(c) \/ DetachSubscription(c) \/ Detached(c)
  \/ SyncTell(c) \/ WatchRead(c) \/ WatchWrite(c)
  \/ ReplyFails(c) \/ Finish(c)
  \/ EndOnStop(c) \/ EndOnDetach(c) \/ EndOnLeave(c)
  \/ AbortWriter(c) \/ Flushed(c) \/ Cleanup(c) \/ CleanupSubscription(c)
  \/ LastFlush(c)

Next ==
  \/ \E c \in Conn : Accept(c) \/ Ask(c) \/ Step(c) \/ Reply(c) \/ SyncRead(c)
  \/ \E c \in Conn : Write(c) \/ WriterEnds(c) \/ Stall(c) \/ Leave(c)
  \/ Report \/ StopServer \/ StopListening \/ Stopped

(***************************************************************************)
(* Tasks that can run do.  Room in a queue and the lock on the graphics    *)
(* setting are given to those who wait for them in turn, so one that can   *)
(* have it again and again gets it.  Nothing is assumed of the clients     *)
(* beyond reading while they do not stall.                                 *)
(***************************************************************************)
Fairness ==
  /\ \A c \in Conn :
       /\ WF_vars(Step(c))
       /\ SF_vars(Reply(c))
       /\ SF_vars(SyncRead(c))
       /\ WF_vars(Write(c))
       /\ WF_vars(WriterEnds(c))
  /\ WF_vars(StopListening)
  /\ WF_vars(Stopped)

Spec == Init /\ [][Next]_vars /\ Fairness
------------------------------------------------------------------------------
Steps == {"none", "idle", "closed", "switched", "display", "watching", "detach",
          "wait", "sync", "tell", "watchRead", "watchWrite", "reply", "broadcast",
          "closing", "flush", "cleanup", "unsubscribe", "lastFlush", "done"}

Event == [about : SUBSET Session, kind : {"changed", "closed", "client", "output", "notice"}]

(***************************************************************************)
(* The values of the variables, and the bound on every outbound queue,     *)
(* which responses wait for and events never exceed.                       *)
(***************************************************************************)
TypeOK ==
  /\ pc \in [Conn -> Steps]
  /\ exit \in [Conn -> {"none", "closed", "self", "stopped"}]
  /\ work \in [Conn -> Work]
  /\ requests \in [Conn -> 0 .. MaxRequests]
  /\ clients \in [Conn -> Client \cup {None}]
  /\ subs \in [Conn -> Session \cup {All, None}]
  /\ out \in [Conn -> Seq(Event)]
  /\ \A c \in Conn : Len(out[c]) <= Capacity
  /\ writer \in [Conn -> {"none", "running", "ended"}]
  /\ asked \in [Conn -> BOOLEAN]
  /\ peer \in [Conn -> {"reading", "stalled", "gone"}]
  /\ sessions \subseteq Session
  /\ told \in BOOLEAN
  /\ syncing \in Conn \cup {None}
  /\ flag \in [Buffer -> BOOLEAN]
  /\ server \in {"running", "stopping", "closed", "stopped"}

(***************************************************************************)
(* A client never shows a session that is gone: closing a session takes it *)
(* from its clients, and a client switches only to a session there is,     *)
(* whatever other connections do meanwhile.                                *)
(***************************************************************************)
ShownSessionExists ==
  \A c \in Conn : clients[c] # None => clients[c].session \in sessions \cup {None}

(***************************************************************************)
(* Nothing of a connection is left once it was cleaned up, also when it    *)
(* subscribed, switched or was switched while it was being detached.       *)
(***************************************************************************)
NothingLeft ==
  \A c \in Conn : pc[c] = "done" =>
    clients[c] = None /\ subs[c] = None /\ writer[c] = "ended" /\ out[c] = <<>>

(***************************************************************************)
(* Whenever no connection has a change of it still to tell, the keepers    *)
(* hold replies exactly if some client answers graphics queries: an older  *)
(* reading of the clients never reaches them after a newer one.            *)
(***************************************************************************)
SyncDue(c) ==
  \/ pc[c] \in {"sync", "tell"}
  \/ clients[c] = None
     /\ pc[c] \notin {"none", "done", "lastFlush"}
     /\ ~(pc[c] \in {"watchRead", "watchWrite"} /\ exit[c] # "none")

GraphicsHeard ==
  (\A c \in Conn : ~SyncDue(c)) =>
    told = \E c \in Conn : clients[c] # None /\ clients[c].graphics

(***************************************************************************)
(* Subscribers are sent what EventFeed promises.                           *)
(***************************************************************************)
FeedKept == Feed!FeedSpec

(***************************************************************************)
(* Every request comes to an end, the wait for a detached connection       *)
(* included.                                                               *)
(***************************************************************************)
Busy(c) == exit[c] = "none" /\ pc[c] \notin {"none", "idle"}

RequestsEnd == \A c \in Conn : Busy(c) ~> ~Busy(c)

(***************************************************************************)
(* A server asked to stop stops.                                           *)
(***************************************************************************)
StopCompletes == server = "stopping" ~> server = "stopped"

(***************************************************************************)
(* Buffer::watched says whether some connection watches the buffer, unless *)
(* a request or a cleanup that may change it is under way.                 *)
(***************************************************************************)
WatchedIsWatched ==
  (\A c \in Conn : pc[c] \in {"none", "idle", "done"}) =>
    \A b \in Buffer :
      flag[b] = \E c \in Conn : clients[c] # None /\ b \in clients[c].watched
==============================================================================
