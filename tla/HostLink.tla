------------------------------ MODULE HostLink ------------------------------
(***************************************************************************)
(* The connection to another host's server (remote.rs, upstream.rs), which *)
(* Hosts takes as one step: how tasks that need the host share one         *)
(* connection, the task that owns it (serve_host) between bounded queues   *)
(* and pipes, and the pumps that follow buffers over it (pump_changes).    *)
(*                                                                         *)
(*   tasks --commands--> serve_host --out--> the host's connection         *)
(*   pumps <---reports-- serve_host <--inbound-- writer <--queue--         *)
(*                                                                         *)
(* One host; each task starts a runtime for a buffer of its own there.     *)
(***************************************************************************)
EXTENDS Integers, Sequences, FiniteSets

CONSTANTS
    Task,           \* tasks that start or take up a buffer on the host
    MaxInFlight,    \* MAX_REQUESTS_IN_FLIGHT
    CommandRoom,    \* commands a connection's channel holds
    OutRoom,        \* requests the pipe to the host holds
    QueueRoom,      \* envelopes the host queues for a connection
    InRoom,         \* envelopes the pipe from the host and the reader hold
    MaxLinks,       \* bound on connections made
    MaxChanges,     \* bound on changes of the buffers
    MaxUnsaid,      \* bound on changes that wait to be reported, per buffer
    MaxToggles,     \* bound on changes of host graphics
    MaxFaults       \* bound on failed and cancelled attempts

ASSUME RoomAssumption ==
    /\ IsFiniteSet(Task)
    /\ {MaxInFlight, CommandRoom, OutRoom, QueueRoom, InRoom} \subseteq Nat \ {0}
    /\ {MaxLinks, MaxChanges, MaxUnsaid, MaxToggles, MaxFaults} \subseteq Nat

VARIABLES
    task,       \* where a task is, the gate and the link it holds, what it read
    gate,       \* RemoteHosts::connecting: the host's gate, or 0
    open,       \* RemoteHosts::open: the host's connection, or 0; lost ones stay
    link,       \* the connections: serve_host and the host's side of each
    made,       \* connections made so far
    graphics,   \* RemoteHosts::host_graphics
    version,    \* the buffers on the host
    unsaid,     \* how many of a buffer's changes the host has still to report
    budget      \* changes, toggles and faults so far

vars == <<task, gate, open, link, made, graphics, version, unsaid, budget>>

Links == 1..MaxLinks
NoRequest == [kind |-> "none"]
Watcher(t) == [kind |-> "watcher", task |-> t]
Get(t) == [kind |-> "get", task |-> t]
WatchRequest(t) == [kind |-> "watch", task |-> t]
SetGraphics == [kind |-> "graphics", value |-> graphics, id |-> budget.toggles]
Event(t) == [kind |-> "event", task |-> t]

Closed == [up |-> FALSE, commands |-> <<>>, sending |-> NoRequest, inFlight |-> {},
           watchers |-> {}, told |-> FALSE, stale |-> FALSE,
           out |-> <<>>, busy |-> NoRequest, queue |-> <<>>, inbound |-> <<>>,
           subscribed |-> FALSE, hostGraphics |-> FALSE]

\* Mutant: a new connection does not look at the setting it starts with.
Fresh_NotMarked == [Closed EXCEPT !.up = TRUE, !.subscribed = TRUE]

\* A connection made: its subscription is answered, and the setting counts as
\* changed, so that the host is told.
Fresh == [Closed EXCEPT !.up = TRUE, !.subscribed = TRUE, !.stale = TRUE]

Init ==
    /\ task = [t \in Task |-> [stage |-> "start", gate |-> 0, link |-> 0, report |-> FALSE, read |-> 0]]
    /\ gate = 0 /\ open = 0 /\ made = 0
    /\ link = [e \in Links |-> Closed]
    /\ graphics = FALSE
    /\ version = [t \in Task |-> 0]
    /\ unsaid = [t \in Task |-> 0]
    /\ budget = [changes |-> 0, toggles |-> 0, faults |-> 0]

----------------------------------------------------------------------------
(* RemoteHosts::connect                                                    *)

IsOpen(e) == e # 0 /\ link[e].up
Holders(g) == {t \in Task : task[t].gate = g}
FreeGate == CHOOSE g \in 1..(Cardinality(Task) + 1) : g # gate /\ Holders(g) = {}

\* Not taken up by a host that is never reached: the bound on connections.
MayConnect == IsOpen(open) \/ made < MaxLinks

\* The open connection is used ...
Looks(t) ==
    /\ task[t].stage = "start" /\ MayConnect
    /\ task' = [task EXCEPT ![t].stage = IF IsOpen(open) THEN "watch" ELSE "clone",
                            ![t].link = IF IsOpen(open) THEN open ELSE 0]
    /\ UNCHANGED <<gate, open, link, made, graphics, version, unsaid, budget>>

\* ... or the host's gate is taken from the table, a new one if there is none.
Clones(t) ==
    /\ task[t].stage = "clone"
    /\ gate' = IF gate = 0 THEN FreeGate ELSE gate
    /\ task' = [task EXCEPT ![t].stage = "gate", ![t].gate = gate']
    /\ UNCHANGED <<open, link, made, graphics, version, unsaid, budget>>

\* Mutant: the gate goes although another attempt waits for it.
GateCleanup_Always(g) == 0

\* GateCleanup::drop: the gate goes from the table when only the table and this
\* attempt refer to it.
GateCleanup(g) ==
    IF Cardinality(Holders(g)) + (IF gate = g THEN 1 ELSE 0) = 2 THEN 0 ELSE gate

\* An attempt is over, with a link or without (0). What it holds is dropped in
\* this order: the gate's lock, the GateCleanup, the reference to the gate.
Leave(t, e) == task' = [task EXCEPT ![t].stage = "unlocked", ![t].link = e]

CleansUp(t) ==
    /\ task[t].stage = "unlocked"
    /\ gate' = GateCleanup(task[t].gate)
    /\ task' = [task EXCEPT ![t].stage = "leaving"]
    /\ UNCHANGED <<open, link, made, graphics, version, unsaid, budget>>

\* With the gate locked, whoever held it before may have made the connection.
Locks(t) ==
    /\ task[t].stage = "gate"
    /\ \A u \in Holders(task[t].gate) : task[u].stage # "making"
    /\ IF IsOpen(open) THEN Leave(t, open)
       ELSE task' = [task EXCEPT ![t].stage = "making"]
    /\ UNCHANGED <<gate, open, link, made, graphics, version, unsaid, budget>>

Makes(t) ==
    /\ task[t].stage = "making" /\ made < MaxLinks
    /\ made' = made + 1
    /\ link' = [link EXCEPT ![made'] = Fresh]
    /\ open' = made'
    /\ Leave(t, made')
    /\ UNCHANGED <<gate, graphics, version, unsaid, budget>>

\* The host is not reached, or the attempt is cancelled where it waits.
GivesUp(t) ==
    /\ task[t].stage \in {"gate", "making"}
    /\ budget.faults < MaxFaults
    /\ budget' = [budget EXCEPT !.faults = @ + 1]
    /\ Leave(t, 0)
    /\ UNCHANGED <<gate, open, link, made, graphics, version, unsaid>>

Leaves(t) ==
    /\ task[t].stage = "leaving"
    /\ task' = [task EXCEPT ![t].gate = 0,
                            ![t].stage = IF task[t].link = 0 THEN "start" ELSE "watch"]
    /\ UNCHANGED <<gate, open, link, made, graphics, version, unsaid, budget>>

----------------------------------------------------------------------------
(* HostConnection::watch and pump_changes                                  *)

\* A command is put into the connection's channel once there is room.
Sends(t, command, then) ==
    LET e == task[t].link
    IN  /\ IsOpen(e) /\ Len(link[e].commands) < CommandRoom
        /\ link' = [link EXCEPT ![e].commands = Append(@, command)]
        /\ task' = [task EXCEPT ![t].stage = then]
        /\ UNCHANGED <<gate, open, made, graphics, version, unsaid, budget>>

\* The watcher is registered, then the host is asked to send what it has.
Watches(t) ==
    \/ task[t].stage = "watch" /\ Sends(t, Watcher(t), "ask")
    \/ task[t].stage = "ask" /\ Sends(t, WatchRequest(t), "asked")

\* The buffer's record is read: first of all, then after each report.
Reads(t) == task[t].stage = "read" /\ Sends(t, Get(t), "reading")

\* One waiting report stands for any number of changes.
TakesReport(t) ==
    /\ task[t].stage = "wait" /\ task[t].report
    /\ task' = [task EXCEPT ![t].stage = "read", ![t].report = FALSE]
    /\ UNCHANGED <<gate, open, link, made, graphics, version, unsaid, budget>>

\* The connection is gone: what waits on it fails, and the buffer is taken up
\* again once its host is reached.
NoticesLoss(t) ==
    /\ \/ task[t].stage \in {"watch", "ask", "asked", "read", "reading"}
       \/ task[t].stage = "wait" /\ ~task[t].report
    /\ ~IsOpen(task[t].link)
    /\ task' = [task EXCEPT ![t].stage = "start", ![t].link = 0, ![t].report = FALSE]
    /\ UNCHANGED <<gate, open, link, made, graphics, version, unsaid, budget>>

\* RemoteHosts::set_host_graphics: every connection sees a change.
Toggles ==
    /\ budget.toggles < MaxToggles
    /\ budget' = [budget EXCEPT !.toggles = @ + 1]
    /\ graphics' = ~graphics
    /\ link' = [e \in Links |-> [link[e] EXCEPT !.stale = link[e].up]]
    /\ UNCHANGED <<task, gate, open, made, version, unsaid>>

----------------------------------------------------------------------------
(* serve_host                                                              *)

\* Mutant: requests go out as they come.
MaySend_Unbounded(e) == link[e].up /\ link[e].sending = NoRequest

\* At the bound the connection only receives. While it sends it does nothing
\* else.
MaySend(e) ==
    /\ link[e].up /\ link[e].sending = NoRequest
    /\ Cardinality(link[e].inFlight) < MaxInFlight

FollowsGraphics(e) ==
    /\ MaySend(e) /\ link[e].stale
    /\ link' = [link EXCEPT ![e].stale = FALSE,
                            ![e].sending = IF graphics = link[e].told THEN @
                                           ELSE SetGraphics]
    /\ UNCHANGED <<task, gate, open, made, graphics, version, unsaid, budget>>

TakesCommand(e) ==
    /\ MaySend(e) /\ link[e].commands # <<>>
    /\ LET command == Head(link[e].commands)
       IN  link' = [link EXCEPT
             ![e].commands = Tail(@),
             ![e].watchers = IF command.kind = "watcher" THEN @ \cup {command.task} ELSE @,
             ![e].sending = IF command.kind = "watcher" THEN @ ELSE command]
    /\ UNCHANGED <<task, gate, open, made, graphics, version, unsaid, budget>>

\* The send is done once the pipe has taken it.
Sent(e) ==
    /\ link[e].up /\ link[e].sending # NoRequest /\ Len(link[e].out) < OutRoom
    /\ link' = [link EXCEPT
          ![e].out = Append(@, link[e].sending),
          ![e].inFlight = @ \cup {link[e].sending},
          ![e].told = IF link[e].sending.kind = "graphics" THEN link[e].sending.value ELSE @,
          ![e].sending = NoRequest]
    /\ UNCHANGED <<task, gate, open, made, graphics, version, unsaid, budget>>

\* Mutant: the pump takes the record it started from as read.
Answered_NoFirstRead(t, response) ==
    [task[t] EXCEPT !.stage = "wait",
                    !.read = IF response.kind = "get" THEN response.version ELSE @]

\* A task whose request was answered, with the version the host had. That the
\* buffer is gone from the host or has exited, which ends its pump, is part of
\* Hosts: here the buffers go on.
Answered(t, response) ==
    [task[t] EXCEPT !.stage = IF response.kind = "watch" THEN "read" ELSE "wait",
                    !.read = IF response.kind = "get" THEN response.version ELSE @]

\* A response is passed to whoever waits for it, an event to the buffer's pump.
Receives(e) ==
    /\ link[e].up /\ link[e].sending = NoRequest /\ link[e].inbound # <<>>
    /\ LET envelope == Head(link[e].inbound)
           asked == {r \in link[e].inFlight : envelope.kind # "event" /\ r = envelope.request}
       IN  /\ link' = [link EXCEPT ![e].inbound = Tail(@), ![e].inFlight = @ \ asked]
           /\ task' = [t \in Task |->
                  IF envelope.kind = "event"
                  THEN [task[t] EXCEPT !.report = @ \/ (t = envelope.task /\ t \in link[e].watchers)]
                  ELSE IF envelope.kind # "graphics" /\ t = envelope.request.task
                  THEN Answered(t, envelope)
                  ELSE task[t]]
    /\ UNCHANGED <<gate, open, made, graphics, version, unsaid, budget>>

\* The connection fails or the host closes it: the task ends and drops the
\* replies in flight, the watchers and the channel.
Fails(e) ==
    /\ link[e].up
    /\ link' = [link EXCEPT ![e] = Closed]
    /\ UNCHANGED <<task, gate, open, made, graphics, version, unsaid, budget>>

----------------------------------------------------------------------------
(* The host: another server of the same program, whose handle_connection     *)
(* takes a connection's requests one at a time.                              *)

Response(r) ==
    IF r.kind = "get" THEN [kind |-> "get", request |-> r, version |-> version[r.task]]
    ELSE [kind |-> r.kind, request |-> r]

HostTakes(e) ==
    /\ link[e].out # <<>> /\ link[e].busy = NoRequest
    /\ LET r == Head(link[e].out)
       IN  link' = [link EXCEPT
             ![e].out = Tail(@),
             ![e].busy = Response(r),
             ![e].hostGraphics = IF r.kind = "graphics" THEN r.value ELSE @]
    /\ UNCHANGED <<task, gate, open, made, graphics, version, unsaid, budget>>

\* A response waits for room in the connection's queue.
HostAnswers(e) ==
    /\ link[e].busy # NoRequest /\ Len(link[e].queue) < QueueRoom
    /\ link' = [link EXCEPT ![e].queue = Append(@, link[e].busy), ![e].busy = NoRequest]
    /\ UNCHANGED <<task, gate, open, made, graphics, version, unsaid, budget>>

HostWrites(e) ==
    /\ link[e].queue # <<>> /\ Len(link[e].inbound) < InRoom
    /\ link' = [link EXCEPT ![e].inbound = Append(@, Head(link[e].queue)), ![e].queue = Tail(@)]
    /\ UNCHANGED <<task, gate, open, made, graphics, version, unsaid, budget>>

\* A buffer changes ...
HostChanges(t) ==
    /\ budget.changes < MaxChanges /\ \A u \in Task : unsaid[u] < MaxUnsaid
    /\ budget' = [budget EXCEPT !.changes = @ + 1]
    /\ version' = [version EXCEPT ![t] = @ + 1]
    /\ unsaid' = [unsaid EXCEPT ![t] = @ + 1]
    /\ UNCHANGED <<task, gate, open, link, made, graphics>>

\* ... which is reported to every subscriber once the state's lock is given up; a
\* subscriber whose queue is full is not subscribed any more.
HostReports(t) ==
    /\ unsaid[t] > 0
    /\ unsaid' = [unsaid EXCEPT ![t] = @ - 1]
    /\ link' = [e \in Links |->
          IF ~link[e].subscribed THEN link[e]
          ELSE IF Len(link[e].queue) < QueueRoom
               THEN [link[e] EXCEPT !.queue = Append(@, Event(t))]
               ELSE [link[e] EXCEPT !.subscribed = FALSE]]
    /\ UNCHANGED <<task, gate, open, made, graphics, version, budget>>

----------------------------------------------------------------------------
Connecting(t) == Looks(t) \/ Clones(t) \/ Locks(t) \/ Makes(t) \/ CleansUp(t) \/ Leaves(t)
Pumping(t) == Watches(t) \/ Reads(t) \/ TakesReport(t) \/ NoticesLoss(t)
Serving(e) == FollowsGraphics(e) \/ TakesCommand(e) \/ Sent(e)
Hosting(e) == HostTakes(e) \/ HostAnswers(e)

Next ==
    \/ \E t \in Task : Connecting(t) \/ GivesUp(t) \/ Pumping(t) \/ HostChanges(t) \/ HostReports(t)
    \/ \E e \in Links : Serving(e) \/ Receives(e) \/ Fails(e) \/ Hosting(e) \/ HostWrites(e)
    \/ Toggles

Spec == Init /\ [][Next]_vars

\* Tasks run on; select! picks among its ready branches at random, so none is
\* passed over for ever; a host that is up goes on serving its connection.
FairSpec ==
    /\ Spec
    /\ \A t \in Task : WF_vars(Connecting(t)) /\ WF_vars(Pumping(t))
    /\ \A e \in Links : /\ WF_vars(Serving(e)) /\ WF_vars(Receives(e))
                        /\ WF_vars(Hosting(e)) /\ WF_vars(HostWrites(e))

----------------------------------------------------------------------------
(* Properties.                                                             *)

\* Tasks that reach a host at once, some of them cancelled, share one
\* connection: none is replaced while it works.
OpenNotReplaced == [][open' # open => ~IsOpen(open)]_vars

OnTheWay(e, t) == Event(t) \in {link[e].queue[i] : i \in DOMAIN link[e].queue}
                             \cup {link[e].inbound[i] : i \in DOMAIN link[e].inbound}

\* A pump that waits for a report has read what its buffer last was, or the
\* report is there, on its way or about to be made, unless the host dropped the
\* subscription of a connection that did not keep up.
ChangeIsReported ==
    \A t \in Task : LET e == task[t].link
                    IN  task[t].stage = "wait" /\ IsOpen(e) /\ link[e].subscribed
                          /\ task[t].read # version[t]
                        => task[t].report \/ OnTheWay(e, t) \/ unsaid[t] > 0

\* What a connection has sent or is sending and the host has not taken, and where
\* settings of host graphics are in it.
Said(e) == Append(link[e].out, link[e].sending)
Settings(e) == {i \in DOMAIN Said(e) : Said(e)[i].kind = "graphics"}

\* The last a host hears of host graphics is what it is, however often and
\* whenever it changed, also on a connection made since.
HostHearsGraphics ==
    \A e \in Links : link[e].up /\ ~link[e].stale =>
        /\ Settings(e) = {} => link[e].hostGraphics = graphics
        /\ \A i \in Settings(e) :
              (\A j \in Settings(e) : j <= i) => Said(e)[i].value = graphics

\* At the bound on requests in flight the connection still reads what the host
\* answers: the two never both wait for the other to read.
NeverBothWait ==
    \A e \in Links : ~ /\ link[e].sending # NoRequest /\ Len(link[e].out) = OutRoom
                       /\ link[e].busy # NoRequest /\ Len(link[e].queue) = QueueRoom
                       /\ Len(link[e].inbound) = InRoom

\* What is asked of a host is answered, or fails with the connection: the
\* connection and the host do not both wait for the other to read.
AskedEnds ==
    \A t \in Task : task[t].stage \in {"watch", "ask", "asked", "read", "reading"}
                    ~> task[t].stage \in {"wait", "start"}
=============================================================================
