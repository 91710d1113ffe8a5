# Embers in TLA+

Embers is a terminal multiplexer: a headless server owns sessions, layouts and
buffers, clients connect over a Unix socket and draw them, and every local
program runs under a *keeper* process of its own that outlives the server.
This directory models the parts of it whose correctness depends on the order
in which several actors act, checks them with TLC on small instances, and
proves the most important results with TLAPS for every instance.

## The system

| Part | State | Operations | Interacts with |
|---|---|---|---|
| Buffer records (`state.rs`, `model.rs`) | one record per buffer: created, running, interrupted or exited; its placement (socket or host), its view | create, mark running / interrupted / exited, place, attach, detach, dispose, remove | every request handler, under one async lock |
| Layout (`state.rs`) | sessions, the tree of tabs, splits and views, popups, focus, zoom | create, split, tab, float, move, swap, break, join, close, replace, normalise | buffer records (a view attaches a buffer), persistence |
| Runtimes table (`runtimes.rs`) | running runtimes, keepers that wait for a save, early exits, runtimes being shut down, held ends, hosts being reached | start, restore, register, release, discard, saved, shut down, reach a host | records (through callbacks), keepers, hosts, the saver |
| Keepers (`buffer_runtime.rs`) | a child process, its terminal, a pipe, whether its exit was recorded | serve one server at a time, start / stop a pipe, kill, acknowledge, leave | the server over a socket, status pollers |
| Workspace saver (`server.rs`, `persist.rs`) | dirty notifications, the last state known to be saved, the file | copy under the lock, write, fsync, rename, release keepers | records, runtimes table |
| Server start and stop (`server.rs`, `restore.rs`) | the phases of a server's life | load, take up keepers, restart interrupted buffers, serve, stop, kill-server | all of the above |
| Connections (`server.rs`, `protocol.rs`) | per-connection queues, subscriptions, watched buffers | accept, dispatch, broadcast, clean up | records, host graphics |
| Other hosts (`remote.rs`, `upstream.rs`) | connections to other servers, their queues and requests in flight, buffers waiting for a host | reach, serve, watch, take up, lose, release | runtimes table, another server's protocol |
| Held replies (`reply_hold.rs`), idle compaction (`idle_compaction.rs`) | queues and timers of one keeper | hold, release, expire; note activity, compact | a keeper's threads |
| Wire protocol (`embers-protocol`) | frames, request ids | encode, decode, match replies | client and server |
| Client (`embers-client`), command line (`embers-cli`) | a copy of the server's state, modes, key sequences, scripts | apply events, resynchronise, render, send input | server, host terminal |

What is hard here: records change under a lock, but runtimes are started,
released and told things outside of it; status pollers report ends from
threads of their own, at any time after a keeper is attached and possibly
before the server has filed it; the workspace file is written from a copy made
earlier; keepers survive crashes, so that what a keeper was told and what the
file says must agree at every point where the server may die. `PROJECT.json`
lists these hazards at their lines ("hazards") with the properties aimed at
them.

What makes each part correct:

- *records, runtimes and keepers together*: a keeper goes only when the file no
  longer needs it; an exit that was saved stays; a record that says running has
  a runtime; a keeper whose record is gone is let go of;
- *layout*: what `validate()` demands after every operation, whatever the
  operation's error path; a refused request changes nothing; focus is one leaf
  that says so; clean-up after one request harms no other;
- *connections*: a subscriber is sent the events it subscribed to in order and
  without a gap, nothing of a connection outlives it, and a server asked to stop
  stops;
- *client*: whatever its copy has wrong it is still going to read again, so that
  the copy is the server's state once the server rests;
- *hosts*: a buffer that waits for a host is taken up when it is reached, unless
  it was released, at most one attempt per host runs, and no change of a buffer
  is lost on a working connection;
- *held replies*: nothing is lost or reordered, and no more than the bound held.

## Modules

`BufferLifecycle.tla` is the core: local PTY buffers from creation to removal
over any number of server lives. Its state is that of the code:

| Variables | Code |
|---|---|
| `kstate`, `kbuf`, `child`, `told`, `pipe`, `socket` | a keeper process, `KeeperRuntime` and the socket path of its buffer |
| `disk`, `diskUsed` | the workspace file: buffer records and `next_buffer_id` |
| `phase` | down, taking up keepers (`attach`), restarting panes (`restart`), `serving`; `shut_down` before and after it releases the runtimes it listed, with kill-server (`ending`, `killed`) or without (`closing`, `closed`); the last save (`final`) |
| `rec`, `used` | `ServerState::buffers` and its id allocator |
| `running`, `awaiting`, `early`, `dying` | `Inner::{running, awaiting_save, exited_early, shutting_down}` |
| `poller`, `ends` | the status poller thread of a handle, and `record_buffer_end` tasks it caused that have not run |
| `start` | `spawn_buffer_runtime_with`, between its two sections under the lock |
| `taking`, `todo`, `outcome` | `restore_buffer_runtimes` and `take_up_keeper` |
| `cleanup`, `releasing` | `dispose_exited_buffers`, and the runtimes it has still to release |
| `dirty`, `save`, `lastSaved`, `acks` | the saver: its notification, `persist_workspace`, `last_saved_workspace`, keepers `saved` has still to tell |
| `exitRead`, `toldEarly`, `stranded` | history, read by properties only |

Every section under the state lock, every call to a keeper and every write of
the file is an action; between two of them anything else may happen, a crash
included. A record keeps its state, whether it names a socket, whether a view
shows it and whether one ever did: titles, sizes, commands and environment
decide nothing here. Some sequences of the code are one action because no other
actor can tell the difference: the handle of a released runtime is taken out of
the table and stopped (`LetGo`); `shut_down` with kill terminates all keepers it
listed. A start looks whether the server stops (`StartCheck`) and is registered (`StartRegister`)
in two steps, as the two take different locks, so that `shut_down` may come in between; and
it may fail after its keeper is up, when the server cannot connect to it (`AttachFails`). An end a poller reports while its keeper is being taken up is held back
(`Inner::held`): the model lets the poller wait instead. A keeper that dies
between the status read of a take-up and its registration is the same as one
that dies just after, so a keeper found gone in `TakeUpFinish` is one whose status
could not be read. Which detached buffers clients watch is their choice, made
anew at each cleanup. `Faults` turns faults of the environment on: crash, clean
stop, kill-server, the death of a keeper, writes that fail before or after the
file is replaced, starts that fail before or after the keeper is up, pipes. The saver also
saves when only a title, a directory or a foreground command changed
(`workspace_metadata_dirty`), which are not modelled: so a save may begin at any time.

`BufferLifecycleInv.tla` states the inductive invariant, `BufferLifecycleProofs.tla`
proves it and what follows, and `MCBufferLifecycle.tla` instantiates the model
for TLC.

`ReplyHold.tla` models how a keeper orders what it writes to its program: the
hold of `reply_hold.rs` (`hold`), and the four threads that share it. `reader` is the
read loop between giving up the surface lock and queueing replies; `handler` the
same of `KeeperRuntime::write` and `set_host_graphics`; `sleeper` the hold thread with
its condition variable; `sent` and `written` the bounded queue and the writer.
Queries are numbered in the order the program sends them; a reply is the number of
its query and a graphics query its name and number. `dropped` and `behind` are
history. `ReplyHoldProofs.tla` has its proofs, `MCReplyHold.tla` instantiates it.

`Hosts.tla` models buffers whose programs run on another server, reached over one
connection per host (`remote.rs`, the host half of `runtimes.rs`, and the callbacks
in `server.rs`):

| Variables | Code |
|---|---|
| `conn` | `RemoteHosts::open`: connections are numbered, so that a handle of a lost one is told from one of its successor |
| `prog` | the buffer on its host: not there, running, exited, gone |
| `rec` | the state of the buffer's record |
| `running`, `waiting` | `Inner::running` (the connection of the registered handle) and `Inner::waiting_for_host` |
| `reach`, `rechecking` | `Inner::reaching` and the task of a host: where it is in `reach_until_taken_up` and `take_up_on_host`, and its last look after leaving |
| `pump`, `seen` | `pump_changes` of a buffer and the status its handle last read |
| `start` | `BufferRuntimes::start` and `spawn_buffer_runtime_with` of a new buffer |
| `calls`, `ends`, `taken` | reports between `Inner::ended` and the server's callback; `record_buffer_end` and `record_buffer_taken_up` tasks |
| `releasing`, `killing` | `release` between its two locks, `kill_buffer` between its look at the table and the state lock |
| `released`, `killed` | history |

What happens under one lock is one action. `Inner::ended` takes two locks one after
the other; what can happen between them can as well happen before or after, so
`PumpLost` is one action. A kill that goes to a runtime is a program that exits
(`HostActs`), which may happen at any time. `HostsProofs.tla` has the proofs, `MCHosts.tla`
instantiates the model with all buffers on one host.

`HostLink.tla` opens up what `Hosts` takes as one step, the connection to one host:

| Variables | Code |
|---|---|
| `gate`, `task[t].gate` | `RemoteHosts::connecting` and the references to a gate that attempts hold, which `GateCleanup` counts |
| `open`, `made` | `RemoteHosts::open`; connections are numbered |
| `link[e]` | `serve_host`: its command channel, the request it is sending, `in_flight`, `watchers`, `told_host_graphics`, whether the setting changed since it looked (`stale`); the pipes; and of the host, which is another server of the same program, the request in hand, the queue, the subscription |
| `task[t]` | `connect`, then `watch`, then `pump_changes` of one buffer; `report` is its channel of one change |
| `graphics`, `version`, `unsaid` | `RemoteHosts::host_graphics`; how often a buffer changed on its host, and how many of these changes the host has still to broadcast |

Each wait of the code (a lock, a channel, a pipe, a response) is a step boundary. A
refused watch and a failed read that leave the connection up are not told from
answered ones; that a pump ends with its buffer is part of `Hosts`. `HostLinkProofs.tla` has the proofs, `MCHostLink.tla` instantiates it; `MCHostLink_live.cfg` checks `AskedEnds`,
that what is asked of a host ends, under `FairSpec`.

`Connections.tla` models the connections of a server (`handle_connection`, `write_loop`,
`broadcast`, `Runtime::cleanup_connection` and the stop of the server in `server.rs`):

| Variables | Code |
|---|---|
| `pc`, `exit`, `work`, `requests` | the task of a connection: where it waits, how it ended, what its request has in hand |
| `clients`, `subs` | `Runtime::clients` and `Runtime::subscriptions` |
| `out`, `writer`, `peer` | the outbound queue, its write loop and the client at the other end |
| `asked` | the one-shot channel that detaches a client |
| `told`, `syncing` | what keepers were last told of host graphics, and `host_graphics_sync` |
| `sessions`, `flag` | the sessions there are, and `Buffer::watched` |
| `server` | running, stopping, no longer listening, stopped |

A step is what the code does under one lock or up to its next wait. A connection has one
subscription and takes `MaxRequests` requests; a request that changes the layout is one step
here, since `Layout` has its parts. `ConnectionsProofs.tla` has the proofs, `MCConnections.tla`
instantiates it.

`EventFeed.tla` is the abstract specification of what a subscriber gets: every event about
its session that is broadcast while it is subscribed, in order and without a gap; it may
lose its subscription in the middle of a broadcast, and is sent nothing more from then on.
It knows no queues, tasks or locks. `Connections` implements it (`FeedKept`, with the outbound
queue mapped to its events), and `ClientCopy` is built on it, so that what is shown of the
client rests on the promise and not on the server's code.

`ClientCopy.tla` composes that feed with a server that changes its layout in one step and
broadcasts in a later one (or never, when the connection that asked for the change is gone
before its response is queued: `TellNobody`, noted in `unheard`), and a client that keeps a copy (`MuxClient`, `ClientState` and the
event loop of `configured_client.rs` in `embers-client`): `sessions`, `nodes` and `buffers` are the
copy; `batch`, `taking` and `todo` are the events taken and what is still to be read for them.
Events of a batch that name the same session are coalesced as the code does. A session is
its panes and a pane shows a buffer; nothing else of the layout is in the copy modelled. `ClientCopyProofs.tla` has the proof,
`MCClientCopy.tla` instantiates it.

`TabOrder.tla`, `LayoutState.tla` and `Layout.tla` model the layout. `TabOrder` has the index
arithmetic of a tabs node (which tab is active after one is inserted, removed or moved).
`LayoutState` has the operations of `ServerState` as functions from a state to
`[s |-> the new state, ok |-> whether it succeeded]`: nodes (`nodes`), sessions with focus,
zoom and history, popups (`floats`) and buffers with their attachment; an operation that
fails returns the state its error path leaves, a rollback included (`PutBack`). A container
may list a child that is gone; a search that comes to it fails (`Gone`, `Severed`, `Blocked`), and
the operation with it, where it is by then. `nested` notes that a request put a tabs node with
one tab into a tree. `Layout` makes requests of them: `task[a].step`
is the next section under the state lock of `dispatch` (note which sessions have panes,
apply, dispose of exited buffers, destroy emptied sessions), so that two requests and an
exit interleave between those. Loops of the code that end because the tree is finite
(`normalize_upwards`, closing a session's popups, disposing of exited buffers) are functions
over a bounded number of rounds, as many as the loop can take. `LayoutLemmas.tla`
(the operations) and `LayoutProofs.tla` (the requests and the theorems) have the proofs,
`MCLayout.tla` instantiates it.

## Runs

The runs turn the deadlock check off: with every keeper, id, change or request of the
bound used up and every program idle, nothing has to happen.

| Run | Instance | Checks | Shows |
|---|---|---|---|
| `lifecycle_crash` | 1 buffer, 2 keepers; crash, keeper dies, both save failures | `ToldNotNeeded`, `SavedExitIsFinal` | what a keeper was told and what the file says agree through every crash |
| `lifecycle_takeup` | 1 buffer that remains on exit, 2 keepers; start fails, pipe, stop, kill-server | `TypeOK`, `RunningHasRuntime` | under the state lock of a serving server, a record marked running has its runtime in the table |
| `lifecycle_live` | 1 buffer, 1 keeper; start fails, keeper dies; fair | `RemovedKeeperTold` | the save that releases a keeper is always asked for, but for a keeper the server never connected to |
| `reply_hold` | 2 image names, hold of one entry, queue of two, 4 queries, 3 inputs; fair | `HeldIsWatched`, `RepliedOnce`, `HeldBehindAnswer`, `HeldReleased` | nothing lost, doubled or left behind; the timeout always gets held replies out |
| `hosts` | 1 buffer, 1 host, 1 loss, 1 failure; fair | `WaitingIsReached`, `PumpIsHeld`, `RemovedIsReleased`, `WaitingEnds` | nothing waits for ever, runs or stays registered unnoticed |
| `host_link` | 2 buffers, 2 connections, 1 failed or cancelled attempt, 2 changes, 2 toggles, one change unsaid; 2 requests in flight, queues and pipes of one | `ChangeIsReported`, `HostHearsGraphics`, `NeverBothWait`, `OpenNotReplaced` | attempts share a connection; it and the host never both wait to be read; no change and no setting is lost on it |
| `connections` | 2 connections, every kind of request, one that stalls; queue of two | `TypeOK`, `ShownSessionExists`, `NothingLeft`, `GraphicsHeard`, `FeedKept` | nothing of a connection outlives it, and subscribers get what `EventFeed` promises |
| `connections_live` | 2 connections, queue of one, clients that read; fair | `RequestsEnd`, `StopCompletes` | every request ends, and a server asked to stop stops |
| `client_copy` | 2 sessions, 2 panes, 2 buffers, 2 tasks, 2 changes of one and 1 of the other, batches of two; fair | `StaleIsNotified`, `Settles` | what the copy has wrong is still to be read, and it becomes the server's state, but for changes told to nobody |
| `layout` | 2 tasks, 2 sessions, 2 buffers of which one exits, 4 nodes, 1 popup | `LayoutSound`, `PanesEverywhere`, `FocusAgrees`, `RefusedChangesNothing`, `CleanupDetachesNothing` | trees, views, buffers and focus agree at every step of interleaved requests, until a lone tab is nested |
| `layout_trees` | 1 task, 3 buffers, 6 nodes | `LayoutSound`, `ReorderShowsTheSame` | nested containers collapse rightly, and reordering leaves the shown tab shown |
| `layout_valid` | 1 task, 2 buffers, 4 nodes | `Valid` is violated | finding 1 |

*Bounds.* `Keeper` bounds how many keepers are ever started. With two for one buffer,
a restarted pane gets a second keeper at the path of the first: the first one's
late reports, its socket cleanup and its release all meet the second. Two
buffers share only the saver, the id allocator and the cleanup; the runs have one
and the proofs cover any number. Keepers are
interchangeable, and safety runs use that symmetry; runs with fairness do not.
In `Hosts` one buffer on one host already meets itself in every task: a loss during
a take-up, a release during an attach, a kill during a registration. Buffers of one
host share only its task's list and its connection, and the proofs cover any number.
In `HostLink` two buffers share a connection whose queues and pipes hold one message
each, with two requests in flight, two connections, one failed attempt and one change
of the host at a time between being made and being reported (`MaxUnsaid`), so that a
loss meets a connection being made and every queue is full at some time. `NeverBothWait`
needs that the pipe to the host holds the requests the bound allows beside the one being
sent (`OutRoom >= MaxInFlight - 1`): a request larger than the pipe is outside of it.
In `Connections` two connections with one request each already have every kind of
request meet every other, and every way a connection ends; a queue of two fills in the
middle of a broadcast. In `ClientCopy` two sessions, two panes and two buffers let a
buffer move between sessions, and three changes, two by one task and one by the other, let
their events cross, or be told to nobody; a
batch of two coalesces. In `Layout` four nodes hold two windows or a split, with two
tasks, two sessions and a popup; `layout_trees` goes to six nodes and three panes with
one task, where containers nest and collapse; its splits have two children of equal weight,
so that weights are carried along is shown by `ReorderingShowsTheSame`. `AfterNesting` is
`FALSE` in these runs: requests end with the first that puts a tabs node with one tab into a
tree, after which their properties promise nothing (finding 10). Ids are not used again, so the bounds on
ids bound how much is made in a behaviour.

*Fairness.* Tokio tasks, the pollers and the keepers' loops always run on, so
every step they can take is taken: weak fairness of each. A killed program
ends, since the keeper escalates to SIGKILL. Nothing is assumed of clients, of
programs left alone, or of faults. That a save can fail for ever is excluded
from the fair runs by leaving `save_fails` out of `Faults`. In `ReplyHold` the hold
thread, the read loop's and the handler's sends and the clock are fair; the writer is
not, as a program may stop reading. `MaxQueries` bounds the queries: a program that
sends graphics queries for ever moves the deadline for ever, so `HeldReleased` is about
programs that stop asking. In `Hosts` the tasks, pumps and callbacks are fair, and
`MaxLosses` and `MaxFailures` bound how often a connection is lost and an attempt fails:
`WaitingEnds` is about hosts that answer in the end. Nothing is assumed of clients,
programs or losses. In `Connections` a connection's task, its writer, the listener and
the stop are weakly fair; waiting for room in a queue (`Reply`) and for the lock of
`sync_host_graphics` (`SyncRead`) strongly, since Tokio's semaphores and mutexes serve
those who wait in order. Clients read unless they are among `Stallers`: `connections_live`
has none of those, and of two clients only one may detach the other, so that the two ways a
stop is held up for ever (finding 8, and two clients that detach each other) are outside of it. In `ClientCopy` the
client's loop and the end of each server task are weakly fair; changes are not. In
`HostLink` tasks, the task that owns the connection and the host's side are weakly fair:
`select!` picks among its ready branches at random, so none is passed over for ever.

## Findings

One disagreement is a run of its own:

1. `layout_valid`: a zoomed pane stays its session's zoomed node when another window is
   opened or chosen (`switch_tab`, `focus_leaf`, `add_tab_sibling_at_with_focus`), although
   it is no longer visible, which `validate()` rejects. The state is saved as it is, and a
   restarted server validates what it loads: it does not start.

The other counterexamples can be reproduced with configurations that are kept beside
the runs (`tlc -config X.cfg M`); each was followed through the code.

2. `MCBufferLifecycle_told.cfg`: `exits_recorded_in` releases a keeper whose record names no
   socket *yet*: its program exited before `spawn_buffer_runtime_with` recorded the
   placement. The comment there says a later state cannot undo the release; the
   placement recorded next does. `ToldNotNeeded` therefore excepts these keepers
   (`toldEarly`), and holds for all others.
3. `MCBufferLifecycle_pipe.cfg`: `take_up_keeper` treats a refused `stop_pipe` as a keeper that
   is gone, also when the pipe or the program just ended by itself.
4. `MCBufferLifecycle_rerun.cfg`: a crash while a record is saved without its placement runs
   the command of a program whose exit was already read again.
5. `MCReplyHold_order.cfg`: a keeper may write a reply before the host's answer to an earlier
   graphics query: `KeeperRuntime::write` takes the query out of the hold under the surface
   lock, but queues the answer after giving it up. Replies that this answer lets go are in
   order (`HeldBehindAnswer`); one computed in between, or one that stays held for another
   query and times out in between, may be queued first.
6. `MCHosts_stale.cfg`: a buffer on a host that runs again may stay recorded as interrupted:
   `record_buffer_end` looks for a runtime before it takes the lock.
7. `MCHosts_stranded.cfg`: a connection lost between the start of a pump and the registration
   of its runtime is never noticed again: the buffer looks running, and its host is not
   tried.
8. `MCConnections_stop.cfg`: a response waits for room in its connection's queue outside of
   the `select!` that hears the stop (`server.rs:4548`), so a client that stops reading keeps
   the server from stopping; the comment at `server.rs:4476` says such a client "sees the
   connection close".
9. `MCConnections_watch.cfg`: `Buffer::watched` stays set after the client that watched was
   detached by another, since the detach removes the client's record before its task
   looks for what it watched.
10. `MCLayout_nested.cfg`: a tabs node with a single tab can be put into a tree: a popup's root
    that has come down to one tab is broken out into the session or joined in a split, or
    any node is wrapped in tabs (`NodeRequest::WrapInTabs`). Nothing normalises it there. When its
    last pane goes, `normalize_tabs_node` (`state.rs:3093`) drops it without taking it out of its
    container's list, which then names a node that is gone. Where that happens `heal_focus`
    fails on the missing node (`state.rs:2367`, `2436`): the request that closed the pane is
    refused although the pane is gone, and the focused leaf names a removed node. So every
    property of the `layout` run is false from there: `LayoutSound`, `PanesEverywhere`, `FocusAgrees`,
    `RefusedChangesNothing`; and, with one pane more than in its bounds, `CleanupDetachesNothing`,
    since `session_has_panes` takes a session whose nodes cannot be listed to be without panes
    (`is_ok_and`, `state.rs:1517`), and the clean-up then destroys it with its live panes. The
    model has the requests and what follows them; the properties hold up to the first such
    request and say so (`nested`), and `NestedToo` is `LayoutSound` without the exception.
11. `MCClientCopy_unheard.cfg`: a change whose response cannot be queued, because the connection
    that asked for it is gone, is told to nobody: the handler returns (`server.rs:4548-4554`)
    before it broadcasts the events, and before it marks the workspace dirty, although the
    next comment says "Every request that changes the workspace tells clients so through an
    event". Other clients keep a stale copy until another event about the session.
    `StaleIsNotified` and `Settles` except such sessions (`unheard`).
12. `MCBufferLifecycle_left.cfg`: a keeper that was started and could not be connected to
    (`buffer_runtime.rs:655-657`) is neither killed nor told: `BufferRuntimes::start` returns before
    the lines that are there to "stop the keeper too rather than leave it running with nothing
    referring to it". `RemovedKeeperTold` excepts it (`stranded`).
13. `MCBufferLifecycle_kill.cfg`: a start that has seen the server not stopping registers its
    runtime after `shut_down` listed those to end (`runtimes.rs:703-707` against `367-371`), so its
    program survives kill-server. On a clean stop a start that is let go of may also leave a
    program with no record.

The models have some more behaviours a maintainer should know of, which no property
rules out: `buffer_runtime` may report a buffer "marked running without an active runtime",
since it looks in the table before it takes the state lock; a keeper whose record was removed may stay until another
change causes a save, since the save is asked for before the runtime is released; the
record of a buffer on a lost host may say running while the buffer waits, when the
take-up is recorded after the loss that followed it; a buffer may be registered
again just after its release, and is then released once more (`RemovedIsReleased`);
killing an interrupted buffer on a host leaves its program running there; a runtime registered
between `kill_buffer`'s look at the table and the removal of the record is not released (the
exception `killed` of `RemovedIsReleased`); two clients
that detach each other wait for each other for ever (`server.rs:1211`), and the server then
cannot stop; a full queue costs a connection its subscription only (`server.rs:4186`), so a
host whose queue for us was full once reports no changes while the connection stays up;
a host's gate stays in the table when two attempts end at once, as each still counts for
the other; a client whose copy heard a late `BufferDetached` forgets a buffer whose view it
shows until the next event about that session (`ViewsKnown` in `ClientCopy` does not hold);
and a refused request to add a tab or to join leaves its buffer marked as attached before.

## Proofs

`BufferLifecycleProofs` proves, for any sets `Buffer` and `Keeper`, any `RemainOnExit`
and any `Faults`, from the assumptions named in `BufferLifecycle` alone (`None` is not
a buffer or keeper, the other two are subsets):

- `Invariance`: `Spec => []IInv`;
- `TypeCorrect`: `Spec => []TypeOK`;
- `ToldKeepersNotNeeded`: `Spec => []ToldNotNeeded`, which excepts the keepers of finding 2;
- `RunningBuffersHaveRuntimes`: `Spec => []RunningHasRuntime`, which is about what the state lock
  protects: `buffer_runtime` looks in the table before it takes that lock (`server.rs:2901`,
  `2905`), so a start in between makes it report a buffer "marked running without an active
  runtime";
- `SavedExitsAreFinal`: `Spec => SavedExitIsFinal`.

None of these is inductive alone. That a told keeper is not needed by the file
depends on what may be written next: the records, a copy already made
(`SaveReleasesOver`), and the last save the server knows of, since an equal one is
skipped (`LastSavedOver`). That a record cannot come back after its exit was saved
depends on ids being handed out once, over restarts (`IdsUsed`), and on the order
in which records are copied and written (`SavedExitOver`). `Bound` ties every handle
to the keeper it was made for and `DownEmpty` makes a restart start from the file.
`RuntimeHeld` says a runtime leaves the table only after its record. The proof has
one lemma for each conjunct with a step for each action that can disturb it; below
them, `RecordEffects` says that every operation on a record takes it *forward*
(an exited record stays so), and `RecForward` lifts that to the actions.

`ReplyHoldProofs` proves `HeldRepliesWatched`, `Spec => [](TypeOK /\ HeldIsWatched)`, for any
names and bounds. The two are inductive together: `HoldMethods` shows of each method
of the hold that it takes a sound hold to a sound hold, and `HoldStep` lifts that to
the steps of the threads, where what remains is that a thread that leaves something
pending is one that signals. It also proves

- `RepliesOnce`: `Spec => []RepliedOnce`;
- `AnswersFirst`: `Spec => []HeldBehindAnswer`

from `OrderInv`, that is the above with `PlacedOnce` (what is held, what each thread has in
hand, what was dropped and each queued write share no reply, and together are what was
asked) and `StaysBehind` (of a reply let go by an answer: the handler has both, or the
answer is queued and the reply is not queued before it; the answered query is not pending
any more). `MethodsDivide` says that a method of the hold divides what it has between the
hold and what it hands out, `TrySendPlaces` what queueing does to a thread's part, and
`ReadsAreFresh` that new queries have new numbers.

`HostsProofs` proves for any buffers, hosts, placements and bounds:

- `WaitingBuffersReached`: `Spec => [](TypeOK /\ WaitingIsReached)`;
- `PumpsHeld`: `Spec => []PumpIsHeld`;
- `RemovedRuntimesReleased`: `Spec => []RemovedIsReleased`.

The first needs only that a host's task works on buffers of that host (`OwnHost`). The
other two rest on `HostsInv`: what waits or is being tried is not registered
(`TriedUnregistered`), is tried by one task once (`TriedOnce`), and has no pump but the one
it was attached with (`TriedPump`); a buffer is neither waited for nor followed before
its start made it (`Early`, `EarlyPump`). Without these a take-up could replace the
pump of a registered runtime. The proof has a lemma for each conjunct and a step for
each action. `RemovedIsReleased` excepts, through `killed`, the runtime registered between
`kill_buffer`'s look at the table and its removal of the record: nothing releases that
one.

`ConnectionsProofs` proves for any connections, sessions, buffers, capacity and requests:

- `InvHolds`: `Spec => []ConnectionsInv`, and from it `ConnectionTypes` (`TypeOK`),
  `ShownExists` (`ShownSessionExists`), `CleanupIsComplete` (`NothingLeft`) and
  `KeepersHearGraphics` (`GraphicsHeard`);
- `FeedIsKept`: `Spec => FeedKept`, that `Connections` implements `EventFeed`.

`NothingLeft` needs how far a connection's task is to agree with how it ended and with its
writer (`Phases`), and that each part of the cleanup stays done (`CleanedUp`).
`GraphicsHeard` needs two facts besides the lock (`TellerHolds`): when the keepers were told
something else than what is so, somebody has still to read the clients (`ToldOrDue`), and
when what somebody read is out of date before it is told, another reading comes after
(`ReadOrDue`). For the refinement `FeedStep` maps each step to a step of the feed or a
stutter; the broadcast is the hard one, where what a full queue took is shown to be a
beginning of what its subscriber wants. Assumed of the constants, besides their types: the
connections are finite (a broadcast of a closed session has an event for each client that
showed it) and `None` is not a client.

`HostLinkProofs` proves for any tasks, room and bounds (finitely many tasks):

- `InvHolds`: `Spec => []HostLinkInv`;
- `OpenIsKept`: `Spec => OpenNotReplaced`;
- `GraphicsReachHosts`: `Spec => []HostHearsGraphics`;
- `ChangesAreReported`: `Spec => []ChangeIsReported`;
- `NoMutualWait`: if `MaxInFlight <= OutRoom + 1`, `Spec => []NeverBothWait`.

`MakerInv`: who waits for, holds or just left the gate has the one in the table, so that the
maker is alone. `SettingInv`: the last setting on its way to the host is the last one sent,
and that is the current one unless a change is still to be looked at. `FlightInv` accounts
for requests: each in flight is in exactly one place (pipe, host, queue, answer), was asked
by a task that waits for it, and one being sent is new and within the bound. `ReportInv`: a
watcher is registered before its request to watch is taken, and a pump that read an older
version, or is about to be told one, has a report coming or one that the host is about to make. `NoMutualWait` counts: were both
waiting, the full pipe, the request the host has in hand and the one being sent would be
`OutRoom + 2` requests, while at most `MaxInFlight` are in flight or being sent. The
hypothesis is what the bound is there for (`MAX_REQUESTS_IN_FLIGHT`, 32 small requests
against a socket's buffer); TLC's instance meets it with 2 and 1, and with no bound (the mutant
`MaySend_Unbounded`) both wait.

`ClientCopyProofs` proves `StaleIsRead`, `Spec => []StaleIsNotified`, for any sessions (finitely
many), panes, buffers and tasks, `All` not being `None`. A change of a session puts an event
about it into its task in the same step; a change whose events are dropped is noted (`unheard`),
and the sessions it was about are excepted. The event moves to the feed, the batch and, as
a reading, to `todo` (`WillAgree`); what is read is the server's state at that moment. Only
the event that a session was closed is handled without reading, so it must never be about a
session that lives (`ClosedIsGone`: ids are given once), and reading one session must not
disturb another (`SameSession`, and `Unused` for ids not given yet). `BroadcastFeeds` and
`WantedOfBatch` say that the feed loses nothing for a client that wants all.

`LayoutProofs`, from the lemmas of `LayoutLemmas`, proves for any tasks, buffers (finitely many), weights and bounds:

- `LayoutStaysSound`: `Spec => []LayoutSound`;
- `PanesStayEverywhere`: `Spec => []PanesEverywhere`;
- `RefusalsChangeNothing`: `Spec => RefusedChangesNothing`;
- `CleanupNeverDetaches`: `Spec => CleanupDetachesNothing`;
- `ReorderingShowsTheSame`: `Spec => []ReorderShowsTheSame`.

All five speak of behaviours up to the first request that puts a tabs node with a single tab
into a tree (`nested`). The code accepts such requests, and from there on none of the first
four holds (finding 10), so the exception is part of each statement. It counts a little more
than does harm: wrapping a session's root in tabs is always among them. The inductive invariant
`LayoutInv` says that, while nothing is nested, the state is
`Sound`, that is `Forest(s, {}, None)` and `Attached(s, {})`. `Forest` has what `Trees` says and what
keeps it so: the ids in use were given out (`IsState`), every node without a parent is the root
of one session or popup (`Rooted`), containers have the children their kind needs, a popup's
root one and other tabs two (`Shaped`), the last focused pane a container remembers is a view
for as long as it exists (`Remembered`) and the popup a session points at its own (`Owned`), and some rank rises from child to parent (`Ranked`): there is no cycle, and
the walks of the model, recursive functions on the nodes, are well defined
(`UpExists`, `UnderExists` and their like, by a node of least or greatest rank). In the middle of a request the state is not sound: `Forest(s, free, e)` allows the
roots in `free` to have no owner and the container `e` to be a child short, and
`Attached(s, V)` the views in `V` to lack their buffer. Each operation has a lemma that says what it
needs and what it leaves, composed as the code composes the operations: taking a child out
leaves a free root and a container to repair, `NormalizeUpwards` repairs it with its first
round and keeps the rest in every later one, removing a subtree frees its buffers.
Every request ends `Done`: sound, or refused with nothing changed but ids given out.
Closing sessions needs that a session without panes has no view and so no attached buffer.
What is shown is found by walks that read only parents, sets of children and the active tab of
each container (`SameWalks`), and a swap or a move of siblings is a rearrangement: a map from the
new places onto the old ones under which children, weights and the active tab move together
(`SwapRearranges`, `MoveRearranges`), so that it shows the same (`RearrangedShows`).

Claims about every length are proved without the induction theorems: a set of numbers that is
not empty has a least member (`NatMin`), so a least counterexample cannot exist. The same way
`FilterType` says what a filter of a sequence keeps, which is how `EventFeed!Wanted` is reasoned
about. All inductive invariants were checked by
TLC before they were proved; `MCBufferLifecycle_inv.cfg` does so for `IInv`, with crashes, stops,
failed saves and failed starts.
Liveness is model-checked only, since the proof system handles neither
fairness nor ENABLED: `RemovedKeeperTold`, `HeldReleased`, `WaitingEnds`, `RequestsEnd`,
`StopCompletes`, `Settles`, `AskedEnds`. So is `FocusAgrees`, whose
proof would have to follow the focus marks through every operation of the layout. Every other invariant, action
property and refinement of a passing run is proved. The findings are TLC counterexamples.

## Not modelled

`PROJECT.json` gives a reason for each part ("components"). Within the modelled parts:
what programs print, captures, clipboard and passthrough of a keeper; the contents
of a pipe; for hosts, shutting down, the handshake, unwatching, and what passes through
to the terminal; the delays of the saver (a save may happen at
any time after it is asked for) and its test hook `hold_saves_while`; helper
buffers, which have no runtime; the limit on the number of buffers. Of the layout:
the requests `CreateSplit`, `CreateTabs`, `ReplaceNode`, `WrapInSplit` and `AddTab` of an existing node,
which no client sends; titles, geometry, split directions, synchronised panes, hidden popups;
helper buffers and their disposal with their pane. Of connections: more than one subscription of a
connection, and requests that touch no connection state (input, captures, options,
pipes, reveal). Of the client: focus, popups, view states, the contents of snapshots, key
bindings and rendering.

Most of the repository's lines are outside of what a state machine says anything about:
generated FlatBuffers code and its codec, foreign bindings, cell and escape-sequence
conversion, the script interpreter's bindings, rendering, argument parsing and tests.
The modules cover the server's state, tasks and processes, and the client's copy of it.

## Plan

1. *Buffer lifecycle* (done): model, inductive invariant, proofs.
2. *Connections* (done): model, the feed they promise, its refinement, and proofs of the
   invariants and the refinement.
3. *Hosts* (done but for shutting down), and the connection itself (`HostLink`, done). Both
   are proved. Left: the composition with the keepers of `BufferLifecycle` through the
   saver.
4. *Layout* (done but for the requests nobody sends): left are the exception of finding 10,
   once the code settles what it should do, and a proof of `FocusAgrees`.
5. *Client's copy* (done, `StaleIsNotified` proved): left are focus, popups and the sizes clients ask for
   (`pty_sizes.rs`): two clients of one buffer should not resize it for ever.
6. *Keeper threads*: held replies (done, safety proved),
   idle compaction.
7. *An abstract specification* of a buffer's life (created, running, ended once,
   removed; started again only after an interruption) that `BufferLifecycle`
   implements where the findings do not apply, by refinement in TLC and then
   by proof.
