-------------------------- MODULE BufferLifecycle --------------------------
(***************************************************************************)
(* The life of local PTY buffers: the server's buffer records, the keeper  *)
(* processes that own the programs, the workspace file that outlives the   *)
(* server, and the runtimes table in between (embers-server: server.rs,    *)
(* runtimes.rs, state.rs, buffer_runtime.rs, persist.rs).                   *)
(*                                                                         *)
(* A keeper outlives the server, so that a restarted server takes it up    *)
(* again through its socket.  A keeper whose program exited therefore has  *)
(* to stay until a saved workspace no longer needs it: otherwise a crash   *)
(* between reading the exit and saving it makes the next server take the   *)
(* pane for interrupted and run its command again.                         *)
(*                                                                         *)
(* Every section of code under the state lock, every message to a keeper   *)
(* and every write of the file is a step of its own; the server may crash  *)
(* between any two of them.                                                *)
(***************************************************************************)


CONSTANTS
    Buffer,         \* buffer ids; a keeper's socket path is a function of the id
    Keeper,         \* keeper processes that can ever be started (a bound)
    None,           \* no keeper
    RemainOnExit,   \* the buffers whose remain-on-exit setting keeps them
    Faults          \* the faults of the environment that happen: a subset of FaultKinds

FaultKinds == {"crash", "stop", "kill_server", "keeper_dies", "save_fails", "sync_fails",
               "start_fails", "pipe"}

ASSUME NoneAssumption == None \notin Keeper /\ None \notin Buffer
ASSUME RemainAssumption == RemainOnExit \subseteq Buffer
ASSUME FaultsAssumption == Faults \subseteq FaultKinds

VARIABLES
    \* keeper processes and their sockets
    kstate,     \* "unborn", "up" or "gone"
    kbuf,       \* the buffer a keeper was started for
    child,      \* its program: "running", "killed" (told to end) or "exited"
    told,       \* KeeperRuntime::exit_recorded
    pipe,       \* whether its pipe command runs
    socket,     \* the keeper that last bound the socket path of a buffer
    \* the workspace file
    disk,       \* the buffer records saved
    diskUsed,   \* the ids below the saved next_buffer_id
    \* the server
    phase,      \* what the server process is doing
    rec,        \* ServerState::buffers
    used,       \* the ids its allocator has handed out
    running,    \* Inner::running
    awaiting,   \* Inner::awaiting_save
    early,      \* Inner::exited_early
    dying,      \* Inner::shutting_down
    poller,     \* the status poller of each keeper's handle
    ends,       \* record_buffer_end tasks not run yet
    start,      \* spawn_buffer_runtime_with, by buffer
    taking,     \* restore_keeper: the keeper being taken up
    todo,       \* the placed buffers restore has still to deal with
    outcome,    \* what restore found, until it is applied
    cleanup,    \* a dispose_exited_buffers call is due
    releasing,  \* the buffers it removed, whose runtimes it has still to release
    dirty,      \* Runtime::workspace_dirty
    save,       \* persist_workspace
    lastSaved,  \* Runtime::last_saved_workspace
    acks,       \* keepers `saved` took out of awaiting and has still to tell
    \* history
    exitRead,   \* the buffers whose program's exit a status poller has read
    toldEarly,  \* the keepers released because their record named no socket yet
    stranded    \* the keepers started that the server then could not connect to

kvars == <<kstate, kbuf, child, told, pipe, socket>>
dvars == <<disk, diskUsed>>
svars == <<phase, rec, used, running, awaiting, early, dying, poller, ends,
           start, taking, todo, outcome, cleanup, releasing, dirty, save, lastSaved, acks>>
hvars == <<exitRead, toldEarly, stranded>>
vars == <<kvars, dvars, svars, hvars>>

-----------------------------------------------------------------------------
(* Records *)

States == {"none", "Created", "Running", "Interrupted", "Exited"}
Record == [state : States, placed : BOOLEAN, attached : BOOLEAN, ever : BOOLEAN]

NoRecord == [state |-> "none", placed |-> FALSE, attached |-> FALSE, ever |-> FALSE]
NewRecord == [NoRecord EXCEPT !.state = "Created"]

Known(b) == b \in Buffer /\ rec[b].state # "none"

\* mark_buffer_running: an exited buffer never runs again.
MarkRunning(r) == IF r.state \in {"none", "Exited"} THEN r ELSE [r EXCEPT !.state = "Running"]
\* Mutant: the check for an exited buffer is missing.
MarkInterrupted_NoCheck(r) == IF r.state = "none" THEN r ELSE [r EXCEPT !.state = "Interrupted"]

\* mark_buffer_interrupted: nothing to do for an exited buffer.
MarkInterrupted(r) == IF r.state \in {"none", "Exited"} THEN r ELSE [r EXCEPT !.state = "Interrupted"]
\* mark_buffer_exited: unconditional for a known buffer.
MarkExited(r) == IF r.state = "none" THEN r ELSE [r EXCEPT !.state = "Exited"]
\* The state part of apply_runtime_status.
ApplyStatus(r, isRunning) == IF isRunning THEN MarkRunning(r) ELSE MarkExited(r)
SetAttached(r, a) == [r EXCEPT !.attached = a, !.ever = r.ever \/ a]
SetPlaced(r, p) == IF r.state = "none" THEN r ELSE [r EXCEPT !.placed = p]

\* restored_buffer: a saved running buffer is interrupted until its keeper is
\* taken up; and every restored buffer counts as shown before.  The first loop
\* of restore_buffer_runtimes interrupts what no keeper can be found for.
Restored(r) ==
    IF r.state = "none" THEN r
    ELSE [r EXCEPT !.ever = TRUE,
                   !.state = CASE r.state = "Running" -> "Interrupted"
                               [] r.state = "Created" /\ ~r.placed -> "Interrupted"
                               [] OTHER -> r.state]

\* What to_persisted keeps of a record: not whether it was ever attached.
Persisted(r) == [r EXCEPT !.ever = FALSE]

-----------------------------------------------------------------------------
(* Tasks *)

KeeperOrNone == Keeper \cup {None}
StartTask == [stage : {"idle", "spawn", "attached", "checked", "registered", "failed"},
              keeper : KeeperOrNone, running : BOOLEAN]
TakeUpTask == [buf : Buffer \cup {None}, keeper : KeeperOrNone, running : BOOLEAN, pipe : BOOLEAN]
SaveTask == [stage : {"idle", "snapshot", "written", "telling"}, recs : [Buffer -> Record],
             used : SUBSET Buffer, released : SUBSET Buffer, early : SUBSET Buffer]
Saved == [known : BOOLEAN, recs : [Buffer -> Record], used : SUBSET Buffer]
EndReport == Keeper \X {"watching", "seen"} \X {"Exited", "Interrupted"}

Idle == [stage |-> "idle", keeper |-> None, running |-> FALSE]
Spawning == [stage |-> "spawn", keeper |-> None, running |-> FALSE]
FailedStart == [stage |-> "failed", keeper |-> None, running |-> FALSE]
NoTaking == [buf |-> None, keeper |-> None, running |-> FALSE, pipe |-> FALSE]
AtStage(stage) == [stage |-> stage, recs |-> [b \in Buffer |-> NoRecord], used |-> {},
                   released |-> {}, early |-> {}]
NoSave == AtStage("idle")
NotSaved == [known |-> FALSE, recs |-> [b \in Buffer |-> NoRecord], used |-> {}]

\* Some handle of the server keeps its connection to the keeper open.
Connected(k) ==
    \/ \E b \in Buffer : k \in {running[b], awaiting[b], start[b].keeper}
    \/ k \in acks
    \/ k = taking.keeper
    \/ poller[k] # "off"

Up == phase # "down"

-----------------------------------------------------------------------------
Init ==
    /\ kstate = [k \in Keeper |-> "unborn"]
    /\ kbuf = [k \in Keeper |-> None]
    /\ child = [k \in Keeper |-> "running"]
    /\ told = [k \in Keeper |-> FALSE]
    /\ pipe = [k \in Keeper |-> FALSE]
    /\ socket = [b \in Buffer |-> None]
    /\ disk = [b \in Buffer |-> NoRecord]
    /\ diskUsed = {}
    /\ phase = "down"
    /\ rec = [b \in Buffer |-> NoRecord]
    /\ used = {}
    /\ running = [b \in Buffer |-> None]
    /\ awaiting = [b \in Buffer |-> None]
    /\ early = {}
    /\ dying = {}
    /\ poller = [k \in Keeper |-> "off"]
    /\ ends = {}
    /\ start = [b \in Buffer |-> Idle]
    /\ taking = NoTaking
    /\ todo = {}
    /\ outcome = [b \in Buffer |-> "none"]
    /\ cleanup = FALSE
    /\ releasing = {}
    /\ dirty = FALSE
    /\ save = NoSave
    /\ lastSaved = NotSaved
    /\ acks = {}
    /\ exitRead = {}
    /\ toldEarly = {}
    /\ stranded = {}

\* The server process is gone, with all it held in memory.
ServerGone ==
    /\ phase' = "down"
    /\ rec' = [b \in Buffer |-> NoRecord]
    /\ used' = {}
    /\ running' = [b \in Buffer |-> None]
    /\ awaiting' = [b \in Buffer |-> None]
    /\ early' = {}
    /\ dying' = {}
    /\ poller' = [k \in Keeper |-> "off"]
    /\ ends' = {}
    /\ start' = [b \in Buffer |-> Idle]
    /\ taking' = NoTaking
    /\ todo' = {}
    /\ outcome' = [b \in Buffer |-> "none"]
    /\ cleanup' = FALSE
    /\ releasing' = {}
    /\ dirty' = FALSE
    /\ save' = NoSave
    /\ lastSaved' = NotSaved
    /\ acks' = {}

-----------------------------------------------------------------------------
(* Keeper processes *)

\* keeper_wait_loop: the program ends, by itself or because it was killed
\* (escalate_kill: SIGHUP, then SIGKILL).
ChildExits(k) ==
    /\ kstate[k] = "up"
    /\ child[k] # "exited"
    /\ child' = [child EXCEPT ![k] = "exited"]
    /\ UNCHANGED <<kstate, kbuf, told, pipe, socket, dvars, svars, hvars>>

\* A client starts a pipe on a running buffer (KeeperRuntime::start_pipe).
StartPipe(k) ==
    /\ "pipe" \in Faults
    /\ phase = "serving"
    /\ kbuf[k] \in Buffer /\ running[kbuf[k]] = k
    /\ kstate[k] = "up" /\ child[k] # "exited" /\ ~pipe[k]
    /\ pipe' = [pipe EXCEPT ![k] = TRUE]
    /\ UNCHANGED <<kstate, kbuf, child, told, socket, dvars, svars, hvars>>

\* The pipe command ends by itself, or the wait loop stops it, which it does
\* only after it has published the program's exit.
PipeEnds(k) ==
    /\ kstate[k] = "up" /\ pipe[k]
    /\ pipe' = [pipe EXCEPT ![k] = FALSE]
    /\ UNCHANGED <<kstate, kbuf, child, told, socket, dvars, svars, hvars>>

\* The keeper process ends and SocketCleanup removes its socket, unless
\* another keeper has bound the path since.
LeaveSocket(k) == [b \in Buffer |-> IF socket[b] = k THEN None ELSE socket[b]]

\* serve_runtime_keeper with no server attached: the exit was saved.
KeeperLeaves(k) ==
    /\ kstate[k] = "up" /\ ~Connected(k)
    /\ told[k] /\ child[k] = "exited"
    /\ kstate' = [kstate EXCEPT ![k] = "gone"]
    /\ socket' = LeaveSocket(k)
    /\ UNCHANGED <<kbuf, child, told, pipe, dvars, svars, hvars>>

\* serve_runtime_keeper with no server attached: another keeper bound its
\* socket path, so it stops its program and ends.
KeeperUnreachable(k) ==
    /\ kstate[k] = "up" /\ ~Connected(k)
    /\ kbuf[k] \in Buffer /\ socket[kbuf[k]] # k
    /\ kstate' = [kstate EXCEPT ![k] = "gone"]
    /\ child' = [child EXCEPT ![k] = "exited"]
    /\ UNCHANGED <<kbuf, told, pipe, socket, dvars, svars, hvars>>

\* A keeper is killed from outside, and its program with its terminal.  Its
\* socket file stays behind, with nothing to answer on it.
KeeperDies(k) ==
    /\ "keeper_dies" \in Faults
    /\ kstate[k] = "up"
    /\ kstate' = [kstate EXCEPT ![k] = "gone"]
    /\ child' = [child EXCEPT ![k] = "exited"]
    /\ UNCHANGED <<kbuf, told, pipe, socket, dvars, svars, hvars>>

-----------------------------------------------------------------------------
(* What a status poller reports *)

\* Mutant: an exit unregisters the runtime at once, as an interrupt does.
Ended_Unregisters(k) ==
    LET b == kbuf[k] IN
    /\ ends' = ends \cup {<<k, poller[k], "Exited">>}
    /\ awaiting' = IF running[b] = None THEN awaiting ELSE [awaiting EXCEPT ![b] = running[b]]
    /\ running' = [running EXCEPT ![b] = None]
    /\ UNCHANGED <<early, dying>>

\* Inner::ended for an end of k's program: an interrupt while the server shuts
\* its runtime down, and otherwise an exit, for which the registered keeper is
\* held for a save, or noted when none is registered yet.
Ended(k) ==
    LET b == kbuf[k] IN
    IF b \in dying
    THEN /\ dying' = dying \ {b}
         /\ running' = [running EXCEPT ![b] = None]
         /\ ends' = ends \cup {<<k, poller[k], "Interrupted">>}
         /\ UNCHANGED <<awaiting, early>>
    ELSE /\ ends' = ends \cup {<<k, poller[k], "Exited">>}
         /\ IF running[b] # None
            THEN awaiting' = [awaiting EXCEPT ![b] = running[b]] /\ UNCHANGED early
            ELSE early' = early \cup {b} /\ UNCHANGED awaiting
         /\ UNCHANGED <<dying, running>>

\* While a keeper is taken up, an end it reports is held back; it is reported
\* once the keeper is registered (Inner::held).
Held(k) == taking.keeper = k

\* The poller sees that the program exited.
PollExit(k) ==
    /\ poller[k] = "watching" /\ ~Held(k)
    /\ kstate[k] = "up" /\ child[k] = "exited"
    /\ poller' = [poller EXCEPT ![k] = "seen"]
    /\ exitRead' = exitRead \cup {kbuf[k]}
    /\ Ended(k)
    /\ UNCHANGED <<kvars, dvars, phase, rec, used, start, taking, todo, outcome,
                   cleanup, releasing, dirty, save, lastSaved, acks, toldEarly, stranded>>

\* Mutant: a poller goes on after it was stopped.
PollBroken_Unstopped(k) ==
    /\ kbuf[k] \in Buffer /\ ~Held(k)
    /\ kstate[k] = "gone"
    /\ poller' = [poller EXCEPT ![k] = "off"]
    /\ Ended(k)
    /\ UNCHANGED <<kvars, dvars, hvars, phase, rec, used, start, taking, todo, outcome,
                   cleanup, releasing, dirty, save, lastSaved, acks>>

\* The poll fails, as the keeper is gone: taken for an exit, whether or not
\* one was reported before, and the last the poller does.
PollBroken(k) ==
    /\ poller[k] # "off" /\ ~Held(k)
    /\ kstate[k] = "gone"
    /\ poller' = [poller EXCEPT ![k] = "off"]
    /\ Ended(k)
    /\ UNCHANGED <<kvars, dvars, hvars, phase, rec, used, start, taking, todo, outcome,
                   cleanup, releasing, dirty, save, lastSaved, acks>>

\* record_buffer_end, a task of its own for each report.  An interrupt of a
\* buffer that is registered again is dropped.
RecordEnd(end) ==
    LET b == kbuf[end[1]] IN
    /\ end \in ends
    /\ ends' = ends \ {end}
    /\ IF end[3] = "Exited"
       THEN /\ rec' = [rec EXCEPT ![b] = MarkExited(@)]
            /\ dirty' = TRUE
            /\ cleanup' = (cleanup \/ Known(b))
       ELSE /\ rec' = IF running[b] = None THEN [rec EXCEPT ![b] = MarkInterrupted(@)] ELSE rec
            /\ dirty' = (dirty \/ (running[b] = None /\ Known(b)))
            /\ UNCHANGED cleanup
    /\ UNCHANGED <<kvars, dvars, hvars, phase, used, running, awaiting, early, dying,
                   poller, start, taking, todo, outcome, releasing, save, lastSaved, acks>>

-----------------------------------------------------------------------------
(* Cleaning up exited buffers *)

\* ServerState::dispose_exited_buffers: the exited buffers it removes, given
\* the ones a client watches.
Disposable(r, watched) ==
    {b \in Buffer :
        /\ r[b].state = "Exited"
        /\ IF r[b].attached THEN b \notin RemainOnExit
                            ELSE r[b].ever /\ b \notin watched}

Without(r, bs) == [b \in Buffer |-> IF b \in bs THEN NoRecord ELSE r[b]]

\* dispose_exited_buffers after an exit, and after every request of a client
\* (any request may come, so while the server serves it may happen at any
\* time).  Which buffers clients watch is their choice.
DisposeExited ==
    /\ cleanup \/ phase = "serving"
    /\ cleanup' = FALSE
    /\ \E watched \in SUBSET Buffer :
          LET removed == Disposable(rec, watched) IN
          /\ cleanup \/ removed # {}
          /\ rec' = Without(rec, removed)
          /\ releasing' = releasing \cup removed
          /\ dirty' = (dirty \/ removed # {})
    /\ UNCHANGED <<kvars, dvars, hvars, phase, used, running, awaiting, early, dying,
                   poller, ends, start, taking, todo, outcome, save, acks, lastSaved>>

\* Take b's runtime out of the table, stop following it, and hold its keeper
\* for a save (BufferRuntimes::release, and the second half of discard).
LetGo(b) ==
    /\ running' = [running EXCEPT ![b] = None]
    /\ poller' = [k \in Keeper |-> IF running[b] = k THEN "off" ELSE poller[k]]
    /\ awaiting' = IF running[b] = None THEN awaiting
                   ELSE [awaiting EXCEPT ![b] = running[b]]

Release(b) ==
    /\ b \in releasing
    /\ releasing' = releasing \ {b}
    /\ LetGo(b)
    /\ UNCHANGED <<kvars, dvars, hvars, phase, rec, used, early, dying, ends, start,
                   taking, todo, outcome, cleanup, dirty, save, acks, lastSaved>>

-----------------------------------------------------------------------------
(* Starting a runtime *)

\* BufferRequest::Create: a new record under a fresh id, not shown yet, whose
\* runtime is started next.
CreateBuffer(b) ==
    /\ phase = "serving"
    /\ b \notin used
    /\ used' = used \cup {b}
    /\ rec' = [rec EXCEPT ![b] = NewRecord]
    /\ start' = [start EXCEPT ![b] = Spawning]
    /\ exitRead' = exitRead \ {b}
    /\ UNCHANGED <<kvars, dvars, phase, running, awaiting, early, dying, poller, ends,
                   taking, todo, outcome, cleanup, releasing, dirty, save, lastSaved, acks, toldEarly, stranded>>

\* spawn_blocking and attach_blocking: remove the socket at the buffer's path,
\* start a keeper that binds it anew, connect and start the status poller.
SpawnKeeper(b, k) ==
    /\ start[b].stage = "spawn"
    /\ kstate[k] = "unborn"
    /\ kstate' = [kstate EXCEPT ![k] = "up"]
    /\ kbuf' = [kbuf EXCEPT ![k] = b]
    /\ socket' = [socket EXCEPT ![b] = k]
    /\ start' = [start EXCEPT ![b] = [stage |-> "attached", keeper |-> k, running |-> TRUE]]
    /\ \E exited \in BOOLEAN :
          /\ child' = [child EXCEPT ![k] = IF exited THEN "exited" ELSE "running"]
          /\ poller' = [poller EXCEPT ![k] = IF exited THEN "seen" ELSE "watching"]
    /\ UNCHANGED <<told, pipe, dvars, hvars, phase, rec, used, running, awaiting, early,
                   dying, ends, taking, todo, outcome, cleanup, releasing, dirty, save, lastSaved, acks>>

\* The keeper is started, but the server cannot connect to it: nothing of the
\* server knows of the keeper, which stays up with its program.
AttachFails(b, k) ==
    /\ "start_fails" \in Faults
    /\ start[b].stage = "spawn"
    /\ kstate[k] = "unborn"
    /\ kstate' = [kstate EXCEPT ![k] = "up"]
    /\ kbuf' = [kbuf EXCEPT ![k] = b]
    /\ socket' = [socket EXCEPT ![b] = k]
    /\ stranded' = stranded \cup {k}
    /\ start' = [start EXCEPT ![b] = FailedStart]
    /\ dirty' = TRUE
    /\ UNCHANGED <<child, told, pipe, dvars, exitRead, toldEarly, phase, rec, used, running,
                   awaiting, early, dying, poller, ends, taking, todo, outcome, cleanup,
                   releasing, save, lastSaved, acks>>

\* shut_down has set `stopping`.
Stopping == phase \in {"ending", "killed", "closing", "closed"}

\* Inner::register after its check: the runtime is in the table, and held for
\* a save at once when its program has already exited.
Registered(b, k, isRunning) ==
    /\ running' = [running EXCEPT ![b] = k]
    /\ awaiting' = IF b \in early \/ ~isRunning
                   THEN [awaiting EXCEPT ![b] = k] ELSE awaiting
    /\ early' = early \ {b}

\* Inner::stop_unregistered.
LetGoUnregistered(b, k) ==
    /\ poller' = [poller EXCEPT ![k] = "off"]
    /\ awaiting' = [awaiting EXCEPT ![b] = k]
    /\ early' = early \ {b}

\* BufferRuntimes::start: the keeper's status is read, and Inner::register
\* checks that the server does not shut down; once it does, the runtime is let
\* go of instead.
StartCheck(b) ==
    LET k == start[b].keeper IN
    /\ start[b].stage = "attached"
    /\ kstate[k] = "up"
    /\ IF Stopping
       THEN /\ LetGoUnregistered(b, k)
            /\ start' = [start EXCEPT ![b] = FailedStart]
       ELSE /\ start' = [start EXCEPT ![b] = [stage |-> "checked", keeper |-> k,
                                              running |-> child[k] # "exited"]]
            /\ UNCHANGED <<poller, awaiting, early>>
    /\ dirty' = (dirty \/ Stopping)
    /\ UNCHANGED <<kvars, dvars, hvars, phase, rec, used, running, dying, ends, taking, todo,
                   outcome, cleanup, releasing, save, lastSaved, acks>>

\* The insert, under another lock than the check: shut_down may have run, in
\* part or to its end, in between.
StartRegister(b) ==
    /\ start[b].stage = "checked"
    /\ Registered(b, start[b].keeper, start[b].running)
    /\ start' = [start EXCEPT ![b].stage = "registered"]
    /\ UNCHANGED <<kvars, dvars, hvars, phase, rec, used, dying, poller, ends, taking, todo,
                   outcome, cleanup, releasing, dirty, save, lastSaved, acks>>

\* The keeper could not be started at all.
SpawnFails(b) ==
    /\ "start_fails" \in Faults
    /\ start[b].stage = "spawn"
    /\ start' = [start EXCEPT ![b] = FailedStart]
    /\ dirty' = TRUE
    /\ UNCHANGED <<kvars, dvars, hvars, phase, rec, used, running, awaiting, early, dying,
                   poller, ends, taking, todo, outcome, cleanup, releasing, save, lastSaved, acks>>

\* Its status could not be read (it is gone): stop_unregistered.
StatusFails(b) ==
    LET k == start[b].keeper IN
    /\ start[b].stage = "attached"
    /\ kstate[k] = "gone"
    /\ LetGoUnregistered(b, k)
    /\ start' = [start EXCEPT ![b] = FailedStart]
    /\ dirty' = TRUE
    /\ UNCHANGED <<kvars, dvars, hvars, phase, rec, used, running, dying, ends, taking,
                   todo, outcome, cleanup, releasing, save, lastSaved, acks>>

\* The last part of spawn_buffer_runtime_with, under the state lock: the
\* record takes the placement and the status read before.  The request that
\* created the buffer asks for a save once its response is queued, so it does
\* not when its client is gone; a restart asks for one itself.
StartFinish(b) ==
    /\ start[b].stage = "registered" /\ Known(b)
    /\ rec' = [rec EXCEPT ![b] = ApplyStatus(SetPlaced(MarkRunning(@), TRUE), start[b].running)]
    /\ start' = [start EXCEPT ![b] = Idle]
    /\ dirty' \in {dirty, TRUE}
    /\ cleanup' = (cleanup \/ phase # "restart")
    /\ UNCHANGED <<kvars, dvars, hvars, phase, used, running, awaiting, early, dying,
                   poller, ends, taking, todo, outcome, releasing, save, lastSaved, acks>>

\* Mutant: no save is asked for after the discard.
StartDiscard_NoSave(b) ==
    LET k == running[b] IN
    /\ start[b].stage = "registered" /\ ~Known(b)
    /\ child' = IF k # None /\ child[k] = "running"
                THEN [child EXCEPT ![k] = "killed"] ELSE child
    /\ LetGo(b)
    /\ early' = IF k = None THEN early ELSE early \ {b}
    /\ start' = [start EXCEPT ![b] = FailedStart]
    /\ UNCHANGED <<kstate, kbuf, told, pipe, socket, dvars, hvars, phase, rec, used, dying,
                   ends, taking, todo, outcome, cleanup, releasing, dirty, save, lastSaved, acks>>

\* The record went away meanwhile: BufferRuntimes::discard kills the program
\* and holds the keeper for a save.
StartDiscard(b) ==
    LET k == running[b] IN
    /\ start[b].stage = "registered" /\ ~Known(b)
    /\ child' = IF k # None /\ child[k] = "running"
                THEN [child EXCEPT ![k] = "killed"] ELSE child
    /\ LetGo(b)
    /\ early' = IF k = None THEN early ELSE early \ {b}
    /\ start' = [start EXCEPT ![b] = FailedStart]
    /\ dirty' = TRUE
    /\ UNCHANGED <<kstate, kbuf, told, pipe, socket, dvars, hvars, phase, rec, used, dying,
                   ends, taking, todo, outcome, cleanup, releasing, save, lastSaved, acks>>

\* A create request whose start failed drops the record, if it is detached; a
\* restart leaves it.
StartFailed(b) ==
    /\ start[b].stage = "failed"
    /\ start' = [start EXCEPT ![b] = Idle]
    /\ rec' = IF phase # "restart" /\ ~rec[b].attached
              THEN [rec EXCEPT ![b] = NoRecord] ELSE rec
    /\ cleanup' = (cleanup \/ phase # "restart")
    /\ UNCHANGED <<kvars, dvars, hvars, phase, used, running, awaiting, early, dying,
                   poller, ends, taking, todo, outcome, releasing, dirty, save, acks, lastSaved>>

-----------------------------------------------------------------------------
(* Requests of clients *)

\* attach_buffer: a view shows the buffer.  The save is asked for once the
\* response is queued (handle_client_request), here and for a detach.
AttachBuffer(b) ==
    /\ phase = "serving"
    /\ Known(b) /\ ~rec[b].attached
    /\ rec' = [rec EXCEPT ![b] = SetAttached(@, TRUE)]
    /\ dirty' \in {dirty, TRUE}
    /\ cleanup' = TRUE
    /\ UNCHANGED <<kvars, dvars, hvars, phase, used, running, awaiting, early, dying,
                   poller, ends, start, taking, todo, outcome, releasing, save, lastSaved, acks>>

\* detach_buffer, or its view closes.
DetachBuffer(b) ==
    /\ phase = "serving"
    /\ Known(b) /\ rec[b].attached
    /\ rec' = [rec EXCEPT ![b] = SetAttached(@, FALSE)]
    /\ dirty' \in {dirty, TRUE}
    /\ cleanup' = TRUE
    /\ UNCHANGED <<kvars, dvars, hvars, phase, used, running, awaiting, early, dying,
                   poller, ends, start, taking, todo, outcome, releasing, save, lastSaved, acks>>

\* kill_buffer of a buffer with a runtime: its program is told to end.
KillProgram(b) ==
    LET k == running[b] IN
    /\ phase = "serving"
    /\ k # None
    /\ kstate[k] = "up" /\ child[k] = "running"
    /\ child' = [child EXCEPT ![k] = "killed"]
    /\ UNCHANGED <<kstate, kbuf, told, pipe, socket, dvars, svars, hvars>>

\* kill_buffer of an interrupted buffer, which has no program to end.
KillInterrupted(b) ==
    /\ phase = "serving"
    /\ running[b] = None
    /\ rec[b].state = "Interrupted"
    /\ rec' = [rec EXCEPT ![b] = IF @.attached THEN MarkExited(@) ELSE NoRecord]
    /\ dirty' = TRUE
    /\ cleanup' = TRUE
    /\ UNCHANGED <<kvars, dvars, hvars, phase, used, running, awaiting, early, dying,
                   poller, ends, start, taking, todo, outcome, releasing, save, lastSaved, acks>>

-----------------------------------------------------------------------------
(* Saving the workspace: persist_workspace *)

\* Mutant: a save releases every keeper that waits for one.
Unneeded_AnyRecord(r) == TRUE

\* exits_recorded_in: the buffers whose held keepers the state about to be
\* saved no longer needs.
Unneeded(r) == r.state \in {"none", "Exited"} \/ ~r.placed

\* The saver saves when the workspace is dirty; and whenever a title, directory
\* or foreground command, which is not modelled, has changed.
SaveAllowed == phase \in {"serving", "final"}

\* Under the state lock: copy the records and note which keepers they release.
SaveSnapshot ==
    /\ SaveAllowed
    /\ save.stage = "idle"
    /\ LET released == {b \in Buffer : awaiting[b] # None /\ Unneeded(rec[b])} IN
       save' = [stage |-> "snapshot",
                recs |-> [b \in Buffer |-> Persisted(rec[b])],
                used |-> used,
                released |-> released,
                early |-> {b \in released : rec[b].state \notin {"none", "Exited"} /\ ~rec[b].placed}]
    /\ dirty' = FALSE
    /\ UNCHANGED <<kvars, dvars, hvars, phase, rec, used, running, awaiting, early, dying,
                   poller, ends, start, taking, todo, outcome, cleanup, releasing, acks, lastSaved>>

\* Outside it: write_workspace replaces the file as a whole, unless the last
\* save is known to have written the same (same_saved_state).
SaveWrite ==
    LET copy == [known |-> TRUE, recs |-> save.recs, used |-> save.used] IN
    /\ save.stage = "snapshot"
    /\ IF lastSaved = copy THEN UNCHANGED <<disk, diskUsed, lastSaved>>
       ELSE /\ disk' = save.recs
            /\ diskUsed' = save.used
            /\ lastSaved' = copy
    /\ save' = [save EXCEPT !.stage = "written"]
    /\ UNCHANGED <<kvars, hvars, phase, rec, used, running, awaiting, early, dying, poller,
                   ends, start, taking, todo, outcome, cleanup, releasing, dirty, acks>>

\* persist_workspace returns: to the saver, or to the end of the server.
EndSave ==
    /\ IF phase = "final" THEN ServerGone
       ELSE /\ save' = NoSave
            /\ UNCHANGED <<phase, rec, used, running, awaiting, early, dying, poller, ends,
                           start, taking, todo, outcome, cleanup, releasing, dirty, lastSaved, acks>>
    /\ UNCHANGED <<kvars, hvars>>

\* The write fails, before the file is replaced: nothing is released, and
\* nothing is saved until the workspace changes again.
SaveFails ==
    /\ "save_fails" \in Faults
    /\ save.stage = "snapshot"
    /\ EndSave
    /\ UNCHANGED dvars

\* It fails after that, when only the directory cannot be synced: the file is the new
\* one, but the server does not know.
SyncFails ==
    /\ "sync_fails" \in Faults
    /\ save.stage = "snapshot"
    /\ disk' = save.recs
    /\ diskUsed' = save.used
    /\ EndSave

\* BufferRuntimes::saved takes the released keepers out of the table ...
SaveRelease ==
    /\ save.stage = "written"
    /\ LET let_go == {awaiting[b] : b \in save.released} \ {None} IN
       /\ acks' = acks \cup let_go
       /\ toldEarly' = toldEarly \cup ({awaiting[b] : b \in save.early} \ {None})
    /\ awaiting' = [b \in Buffer |-> IF b \in save.released THEN None ELSE awaiting[b]]
    /\ save' = AtStage("telling")
    /\ UNCHANGED <<kvars, dvars, exitRead, stranded, phase, rec, used, running, early, dying, poller,
                   ends, start, taking, todo, outcome, cleanup, releasing, dirty, lastSaved>>

\* ... and tells them one by one.
TellKeeper(k) ==
    /\ k \in acks
    /\ acks' = acks \ {k}
    /\ told' = [told EXCEPT ![k] = (kstate[k] = "up") \/ @]
    /\ UNCHANGED <<kstate, kbuf, child, pipe, socket, dvars, hvars, phase, rec, used, running,
                   awaiting, early, dying, poller, ends, start, taking, todo, outcome,
                   cleanup, releasing, dirty, save, lastSaved>>

SaveDone ==
    /\ save.stage = "telling"
    /\ acks = {}
    /\ EndSave
    /\ UNCHANGED dvars

-----------------------------------------------------------------------------
(* Starting the server: restore_buffer_runtimes *)

\* Mutant: the ids handed out before are not restored.
LoadWorkspace_ForgetsIds ==
    /\ phase = "down"
    /\ phase' = "attach"
    /\ rec' = [b \in Buffer |-> Restored(disk[b])]
    /\ used' = {}
    /\ todo' = {b \in Buffer : disk[b].state # "none" /\ disk[b].placed}
    /\ UNCHANGED <<kvars, dvars, hvars, running, awaiting, early, dying, poller, ends, start,
                   taking, outcome, cleanup, releasing, dirty, save, lastSaved, acks>>

\* load_workspace, and the loop that sorts the buffers by placement.
LoadWorkspace ==
    /\ phase = "down"
    /\ phase' = "attach"
    /\ rec' = [b \in Buffer |-> Restored(disk[b])]
    /\ used' = diskUsed
    /\ todo' = {b \in Buffer : disk[b].state # "none" /\ disk[b].placed}
    /\ UNCHANGED <<kvars, dvars, hvars, running, awaiting, early, dying, poller, ends, start,
                   taking, outcome, cleanup, releasing, dirty, save, lastSaved, acks>>

\* A keeper answers on the buffer's socket.
Answers(b) == \E k \in Keeper : socket[b] = k /\ kstate[k] = "up"

\* take_up_keeper finds no socket, or nothing that answers on it.
KeeperMissing(b) ==
    /\ phase = "attach" /\ taking = NoTaking
    /\ b \in todo /\ outcome[b] = "none"
    /\ ~Answers(b)
    /\ outcome' = [outcome EXCEPT ![b] = "gone"]
    /\ UNCHANGED <<kvars, dvars, hvars, phase, rec, used, running, awaiting, early, dying,
                   poller, ends, start, taking, todo, cleanup, releasing, dirty, save, lastSaved, acks>>

\* take_up_keeper connects, the poller starts, and the status is read.
TakeUpAttach(b) ==
    LET k == socket[b] IN
    /\ phase = "attach" /\ taking = NoTaking
    /\ b \in todo /\ outcome[b] = "none"
    /\ Answers(b)
    /\ poller' = [poller EXCEPT ![k] = IF child[k] = "exited" THEN "seen" ELSE "watching"]
    /\ taking' = [buf |-> b, keeper |-> k, running |-> child[k] # "exited", pipe |-> pipe[k]]
    /\ UNCHANGED <<kvars, dvars, hvars, phase, rec, used, running, awaiting, early, dying,
                   ends, start, todo, outcome, cleanup, releasing, dirty, save, lastSaved, acks>>

\* What is left of it: a pipe the status showed running is stopped, which the
\* keeper refuses once the program exited or the pipe no longer runs; then the
\* keeper is registered.  A keeper that breaks off or refuses is killed, let go
\* of unregistered, and its buffer taken for gone.
PipeRefused(k) == taking.pipe /\ (child[k] = "exited" \/ ~pipe[k])

TakeUpFinish ==
    LET b == taking.buf
        k == taking.keeper
        ok == kstate[k] = "up" /\ ~PipeRefused(k)
    IN
    /\ k # None
    /\ taking' = NoTaking
    /\ IF ok
       THEN /\ pipe' = [pipe EXCEPT ![k] = FALSE]
            /\ Registered(b, k, taking.running)
            /\ outcome' = [outcome EXCEPT ![b] = IF taking.running THEN "running" ELSE "exited"]
            /\ UNCHANGED <<child, poller>>
       ELSE /\ child' = IF child[k] = "running" THEN [child EXCEPT ![k] = "killed"] ELSE child
            /\ LetGoUnregistered(b, k)
            /\ outcome' = [outcome EXCEPT ![b] = "gone"]
            /\ UNCHANGED <<pipe, running>>
    /\ UNCHANGED <<kstate, kbuf, told, socket, dvars, hvars, phase, rec, used, dying, ends,
                   start, todo, cleanup, releasing, dirty, save, lastSaved, acks>>

\* What restore found is recorded, buffer by buffer, once it is known for all.
ApplyRestored(b) ==
    /\ phase = "attach" /\ taking = NoTaking
    /\ b \in todo
    /\ \A c \in todo : outcome[c] # "none"
    /\ todo' = todo \ {b}
    /\ outcome' = [outcome EXCEPT ![b] = "none"]
    /\ rec' = [rec EXCEPT ![b] =
           IF outcome[b] = "gone" THEN MarkInterrupted(SetPlaced(@, FALSE))
           ELSE ApplyStatus(@, outcome[b] = "running")]
    /\ UNCHANGED <<kvars, dvars, hvars, phase, used, running, awaiting, early, dying, poller,
                   ends, start, taking, cleanup, releasing, dirty, save, lastSaved, acks>>

\* restart_interrupted_buffers: an interrupted buffer that is shown is started
\* anew, one that is not is dropped.  With restore turned off they are left.
RestartInterrupted ==
    /\ phase = "attach" /\ todo = {} /\ taking = NoTaking
    /\ phase' = "restart"
    /\ \/ /\ rec' = [b \in Buffer |-> IF rec[b].state = "Interrupted" /\ ~rec[b].attached
                                      THEN NoRecord ELSE rec[b]]
          /\ start' = [b \in Buffer |-> IF rec[b].state = "Interrupted" /\ rec[b].attached
                                        THEN Spawning ELSE start[b]]
       \/ UNCHANGED <<rec, start>>
    /\ UNCHANGED <<kvars, dvars, hvars, used, running, awaiting, early, dying, poller, ends,
                   taking, todo, outcome, cleanup, releasing, dirty, save, lastSaved, acks>>

\* Every restart is done: clean up what exited meanwhile, ask for a save, and
\* accept clients.
FinishRestore ==
    /\ phase = "restart"
    /\ \A b \in Buffer : start[b].stage = "idle"
    /\ phase' = "serving"
    /\ dirty' = TRUE
    /\ cleanup' = TRUE
    /\ UNCHANGED <<kvars, dvars, hvars, rec, used, running, awaiting, early, dying, poller,
                   ends, start, taking, todo, outcome, releasing, save, lastSaved, acks>>

-----------------------------------------------------------------------------
(* The end of the server *)

\* A crash or SIGKILL, at any time.
ServerCrashes ==
    /\ "crash" \in Faults
    /\ Up
    /\ ServerGone
    /\ UNCHANGED <<kvars, dvars, hvars>>

\* A clean stop, or kill-server: the saver finishes the save it is in and
\* stops; then shut_down has every registered runtime's end count as an
\* interrupt, and with kill-server terminates every keeper in the tables.
BeginShutDown(kill) ==
    /\ IF kill THEN "kill_server" \in Faults ELSE "stop" \in Faults
    /\ phase = "serving"
    /\ save.stage = "idle"
    /\ phase' = IF kill THEN "ending" ELSE "closing"
    /\ dying' = {b \in Buffer : running[b] # None}
    /\ LET ended == IF kill THEN {k \in Keeper :
                        \E b \in Buffer : k = IF running[b] # None THEN running[b] ELSE awaiting[b]}
                    ELSE {}
           stopped == {k \in ended : kstate[k] = "up"}
       IN /\ kstate' = [k \in Keeper |-> IF k \in stopped THEN "gone" ELSE kstate[k]]
          /\ child' = [k \in Keeper |-> IF k \in stopped THEN "exited" ELSE child[k]]
          /\ socket' = [b \in Buffer |-> IF socket[b] \in stopped THEN None ELSE socket[b]]
    /\ awaiting' = IF kill THEN [b \in Buffer |-> None] ELSE awaiting
    /\ UNCHANGED <<kbuf, told, pipe, dvars, hvars, rec, used, running, early, poller, ends,
                   start, taking, todo, outcome, cleanup, releasing, dirty, save, lastSaved, acks>>

\* The runtimes that were registered when the shutdown began are released, so
\* their pollers report no more, and the table is emptied.  A runtime whose
\* start got in between the check and the insert is not released.
Unreleased(k) ==
    \E b \in Buffer :
        \/ running[b] = k /\ b \notin dying
        \/ start[b].keeper = k /\ start[b].stage \in {"attached", "checked"}

ShutDownRelease ==
    /\ phase \in {"ending", "closing"}
    /\ phase' = IF phase = "ending" THEN "killed" ELSE "closed"
    /\ poller' = [k \in Keeper |-> IF Unreleased(k) THEN poller[k] ELSE "off"]
    /\ running' = [b \in Buffer |-> None]
    /\ UNCHANGED <<kvars, dvars, hvars, rec, used, awaiting, early, dying, ends, start,
                   taking, todo, outcome, cleanup, releasing, dirty, save, lastSaved, acks>>

\* quiesce_state_tasks: requests and records of ends run to their end.
Quiet ==
    /\ \A b \in Buffer : start[b].stage = "idle"
    /\ ends = {} /\ ~cleanup /\ releasing = {}

\* kill-server deletes the workspace file; a clean stop saves it once more.
FinishKill ==
    /\ phase = "killed" /\ Quiet
    /\ disk' = [b \in Buffer |-> NoRecord]
    /\ diskUsed' = {}
    /\ ServerGone
    /\ UNCHANGED <<kvars, hvars>>

FinishStop ==
    /\ phase = "closed" /\ Quiet
    /\ phase' = "final"
    /\ UNCHANGED <<kvars, dvars, hvars, rec, used, running, awaiting, early, dying, poller, ends,
                   start, taking, todo, outcome, cleanup, releasing, dirty, save, lastSaved, acks>>

-----------------------------------------------------------------------------
KeeperNext ==
    \E k \in Keeper :
        \/ ChildExits(k) \/ StartPipe(k) \/ PipeEnds(k)
        \/ KeeperLeaves(k) \/ KeeperUnreachable(k) \/ KeeperDies(k)

StartNext ==
    \E b \in Buffer :
        \/ \E k \in Keeper : SpawnKeeper(b, k) \/ AttachFails(b, k)
        \/ StartCheck(b) \/ StartRegister(b) \/ SpawnFails(b) \/ StatusFails(b)
        \/ StartFinish(b) \/ StartDiscard(b) \/ StartFailed(b)

RequestNext ==
    \E b \in Buffer :
        \/ CreateBuffer(b) \/ AttachBuffer(b) \/ DetachBuffer(b)
        \/ KillProgram(b) \/ KillInterrupted(b)

EndNext ==
    \/ \E k \in Keeper : PollExit(k) \/ PollBroken(k)
    \/ \E end \in ends : RecordEnd(end)
    \/ DisposeExited
    \/ \E b \in Buffer : Release(b)

SaveNext ==
    \/ SaveSnapshot \/ SaveWrite \/ SaveFails \/ SyncFails \/ SaveRelease \/ SaveDone
    \/ \E k \in Keeper : TellKeeper(k)

RestoreNext ==
    \/ LoadWorkspace
    \/ \E b \in Buffer : KeeperMissing(b) \/ TakeUpAttach(b) \/ ApplyRestored(b)
    \/ TakeUpFinish
    \/ RestartInterrupted
    \/ FinishRestore

ShutDownNext ==
    \/ ServerCrashes
    \/ \E kill \in BOOLEAN : BeginShutDown(kill)
    \/ ShutDownRelease \/ FinishKill \/ FinishStop

Next == KeeperNext \/ StartNext \/ RequestNext \/ EndNext \/ SaveNext \/ RestoreNext \/ ShutDownNext

Spec == Init /\ [][Next]_vars

\* The server's tasks and threads and the keepers' loops keep running: every
\* step they can take is taken in the end.  Nothing is assumed of clients, of
\* programs that were not killed, or of faults.
Fairness ==
    /\ \A k \in Keeper :
          /\ WF_vars(child[k] = "killed" /\ ChildExits(k))
          /\ WF_vars(KeeperLeaves(k))
          /\ WF_vars(KeeperUnreachable(k))
          /\ WF_vars(PollExit(k))
          /\ WF_vars(PollBroken(k))
          /\ WF_vars(TellKeeper(k))
    /\ WF_vars(\E end \in ends : RecordEnd(end))
    /\ WF_vars(cleanup /\ DisposeExited)
    /\ \A b \in Buffer : WF_vars(Release(b))
    /\ WF_vars(StartNext)
    /\ WF_vars(((dirty \/ phase = "final") /\ SaveSnapshot) \/ SaveWrite \/ SaveRelease \/ SaveDone)
    /\ WF_vars(RestoreNext)

FairSpec == Spec /\ Fairness

-----------------------------------------------------------------------------
(* Properties *)

\* Type correctness: every table of the server and of the keepers holds what
\* its Rust type says, with the spawn, take-up and save tasks in a known stage.
TypeOK ==
    /\ kstate \in [Keeper -> {"unborn", "up", "gone"}]
    /\ kbuf \in [Keeper -> Buffer \cup {None}]
    /\ child \in [Keeper -> {"running", "killed", "exited"}]
    /\ told \in [Keeper -> BOOLEAN]
    /\ pipe \in [Keeper -> BOOLEAN]
    /\ socket \in [Buffer -> KeeperOrNone]
    /\ disk \in [Buffer -> Record]
    /\ diskUsed \in SUBSET Buffer
    /\ phase \in {"down", "attach", "restart", "serving", "ending", "killed", "closing", "closed", "final"}
    /\ rec \in [Buffer -> Record]
    /\ used \in SUBSET Buffer
    /\ running \in [Buffer -> KeeperOrNone]
    /\ awaiting \in [Buffer -> KeeperOrNone]
    /\ early \in SUBSET Buffer
    /\ dying \in SUBSET Buffer
    /\ poller \in [Keeper -> {"off", "watching", "seen"}]
    /\ ends \in SUBSET EndReport
    /\ start \in [Buffer -> StartTask]
    /\ taking \in TakeUpTask
    /\ todo \in SUBSET Buffer
    /\ outcome \in [Buffer -> {"none", "running", "exited", "gone"}]
    /\ cleanup \in BOOLEAN
    /\ releasing \in SUBSET Buffer
    /\ dirty \in BOOLEAN
    /\ save \in SaveTask
    /\ lastSaved \in Saved
    /\ acks \in SUBSET Keeper
    /\ exitRead \in SUBSET Buffer
    /\ toldEarly \in SUBSET Keeper
    /\ stranded \in SUBSET Keeper

\* The saved record says that the program may still run behind the socket.
NeedsKeeper(r) == r.state \notin {"none", "Exited"} /\ r.placed

\* The keeper a restarted server would find for b.
Reachable(k) == kbuf[k] \in Buffer /\ socket[kbuf[k]] = k

\* A keeper told that its exit was saved is not one the workspace file still
\* needs: whatever was changed, saved, crashed and restored since, a server
\* that loads the file does not look for this keeper and take its absence for
\* an interruption.  Keepers released because their record named no socket
\* yet are the exception (see ToldNeverNeeded).
ToldNotNeeded ==
    \A k \in Keeper \ toldEarly :
        told[k] /\ Reachable(k) => ~NeedsKeeper(disk[kbuf[k]])

\* The same with no exception, as exits_recorded_in has it: "Exited buffers
\* never run again, so a later state cannot undo this."
ToldNeverNeeded ==
    \A k \in Keeper : told[k] /\ Reachable(k) => ~NeedsKeeper(disk[kbuf[k]])

\* "Exited buffers are never restarted": once the file says a buffer exited,
\* no later save, by this server or one that restored it, says otherwise; the
\* record only goes away.
SavedExitIsFinal ==
    [][\A b \in Buffer : disk[b].state = "Exited" => disk'[b].state \in {"Exited", "none"}]_vars

\* Under the state lock of a serving server, a record marked running has its
\* runtime in the table, whatever the order of starts, exits, cleanups, saves
\* and restores before: a request that finds the record running and looks for
\* the runtime while it holds the lock finds it.  (buffer_runtime looks first
\* and takes the lock then, so a start in between can still make it report a
\* buffer "marked running without an active runtime".)
RunningHasRuntime ==
    phase = "serving" =>
        \A b \in Buffer : rec[b].state = "Running" => running[b] # None

\* "On startup the server reattaches every buffer whose keeper is still
\* alive": only a keeper that is gone is taken for gone.
LiveKeeperTakenUp ==
    \A b \in Buffer : outcome[b] = "gone" => ~Answers(b)

\* A keeper whose program exited "waits for the next server, which reattaches
\* and records the buffer as `Exited` instead of taking it for interrupted and
\* running its command again": no restart of a buffer whose exit was read.
ExitReadNotRerun ==
    phase = "restart" =>
        \A b \in Buffer : start[b].stage = "spawn" => b \notin exitRead

\* A keeper whose buffer's record went away is told once its program has
\* exited, whoever let go of it and in whatever order its exit was read, its
\* runtime released and the workspace saved: the save that says so is always
\* asked for.  A keeper the server never came to be connected to is the exception.
RemovedKeeperTold ==
    \A k \in Keeper :
        (Up /\ kstate[k] = "up" /\ child[k] = "exited" /\ ~Known(kbuf[k]) /\ k \notin stranded)
            ~> (told[k] \/ kstate[k] = "gone")

\* The same with no exception, as BufferRuntimes::start has it: "stop the
\* keeper too rather than leave it running with nothing referring to it".
NoKeeperLeftBehind ==
    \A k \in Keeper :
        (Up /\ kstate[k] = "up" /\ child[k] = "exited" /\ ~Known(kbuf[k]))
            ~> (told[k] \/ kstate[k] = "gone")

\* "With `kill` (kill-server) every program is ended too": no program runs once
\* the server has nothing left to do but delete the workspace file.
KillEndsAll ==
    phase = "killed" /\ Quiet => \A k \in Keeper : kstate[k] = "up" => child[k] # "running"
=============================================================================
