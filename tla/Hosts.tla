------------------------------- MODULE Hosts -------------------------------
(***************************************************************************)
(* Buffers whose programs run on other hosts (embers-server: runtimes.rs,  *)
(* remote.rs and the callbacks of server.rs).                              *)
(*                                                                         *)
(* A host is reached over one connection, shared by the runtimes of its    *)
(* buffers; each runtime has a pump that follows the buffer there.  When   *)
(* the connection is lost the pumps report it, the buffers wait for the    *)
(* host, and one task per host tries to reach it and takes them up again.  *)
(* Meanwhile their records are killed, disposed of and released.  The      *)
(* server is multi-threaded: what is not under one lock is a step of its   *)
(* own.                                                                    *)
(***************************************************************************)
EXTENDS Naturals

CONSTANTS
    Buffer, Host,
    None,        \* no buffer
    HostOf,      \* the host each buffer is placed on
    MaxLosses,   \* bound on lost connections
    MaxFailures  \* bound on hosts that do not answer, or answer with an error

ASSUME HostAssumption == HostOf \in [Buffer -> Host] /\ None \notin Buffer
ASSUME LossAssumption == {MaxLosses, MaxFailures} \subseteq Nat

VARIABLES
    conn,       \* RemoteHosts::open: the number of the host's connection, and whether it is open
    prog,       \* the buffer on its host
    rec,        \* state of the buffer's record
    running,    \* Inner::running: the connection of the registered runtime, or 0
    waiting,    \* Inner::waiting_for_host
    reach,      \* Inner::reaching, and where the task of a host is
    rechecking, \* hosts whose task has left reaching and looks a last time
    pump,       \* pump_changes: the connection the pump of a buffer follows, or 0
    seen,       \* RemoteInner::status of the latest handle of a buffer
    start,      \* BufferRuntimes::start and spawn_buffer_runtime_with
    calls,      \* ends recorded by Inner::ended and not yet passed on
    ends,       \* record_buffer_end tasks
    taken,      \* record_buffer_taken_up tasks
    releasing,  \* BufferRuntimes::release in progress, numbered by who called it
    killing,    \* kill_buffer, between looking for a runtime and taking the lock
    faults,     \* losses and failures so far
    killed      \* history: whether an interrupted buffer was killed, and what the kill then found

vars == <<conn, prog, rec, running, waiting, reach, rechecking, pump, seen, start,
          calls, ends, taken, releasing, killing, faults, killed>>

-----------------------------------------------------------------------------
(* Records: mark_buffer_running, mark_buffer_interrupted, mark_buffer_exited *)

Known(b) == rec[b] \notin {"none", "removed"}

MarkRunning(b) == IF Known(b) /\ rec[b] # "exited" THEN [rec EXCEPT ![b] = "running"] ELSE rec
MarkInterrupted(b) ==
    IF Known(b) /\ rec[b] # "exited" THEN [rec EXCEPT ![b] = "interrupted"] ELSE rec
MarkExited(b) == IF Known(b) THEN [rec EXCEPT ![b] = "exited"] ELSE rec

\* apply_runtime_status.
ApplyStatus(b, status) == IF status = "running" THEN MarkRunning(b) ELSE MarkExited(b)

-----------------------------------------------------------------------------
(* Connections *)

\* HostConnection::is_open of connection e.
Alive(h, e) == conn[h].open /\ conn[h].epoch = e

\* RemoteHosts::connect: the open connection, or a new one.
Connected(h) == IF conn[h].open THEN conn[h] ELSE [epoch |-> conn[h].epoch + 1, open |-> TRUE]

WaitsFor(h) == \E b \in waiting : HostOf[b] = h

-----------------------------------------------------------------------------
(* The task that reaches a host *)

Task(stage) == [stage |-> stage, todo |-> {}, done |-> TRUE, epoch |-> 0, buf |-> None,
                found |-> "no"]

\* reach_host: one task per host.
ReachHost(h) == IF reach[h].stage = "idle" THEN [reach EXCEPT ![h] = Task("sleep")] ELSE reach

\* A server that starts: buffers saved on hosts wait for them, interrupted (restore).
Init ==
    \E saved \in SUBSET Buffer :
    /\ conn = [h \in Host |-> [epoch |-> 0, open |-> FALSE]]
    /\ prog \in [Buffer -> {"none", "running", "exited", "gone"}]
    /\ \A b \in Buffer : b \in saved <=> prog[b] # "none"
    /\ rec = [b \in Buffer |-> IF b \in saved THEN "interrupted" ELSE "none"]
    /\ running = [b \in Buffer |-> 0]
    /\ waiting = saved
    /\ reach = [h \in Host |-> Task(IF WaitsFor(h) THEN "sleep" ELSE "idle")]
    /\ rechecking = {}
    /\ pump = [b \in Buffer |-> 0]
    /\ seen = [b \in Buffer |-> "running"]
    /\ start = [b \in Buffer |-> [stage |-> "idle", epoch |-> 0, status |-> "running"]]
    /\ calls = {} /\ ends = {} /\ taken = {} /\ releasing = {} /\ killing = {}
    /\ faults = [losses |-> 0, failures |-> 0]
    /\ killed = [b \in Buffer |-> "no"]

\* reach_until_taken_up, when its sleep is over.
Wakes(h) ==
    /\ reach[h].stage = "sleep"
    /\ reach' = [reach EXCEPT ![h] = Task(IF WaitsFor(h) THEN "connect" ELSE "leave")]
    /\ UNCHANGED <<conn, prog, rec, running, waiting, rechecking, pump, seen, start, calls, ends,
                   taken, releasing, killing, faults, killed>>

\* ... the host answers: take_up_on_host lists what waits for it ...
Reaches(h) ==
    /\ reach[h].stage = "connect"
    /\ conn' = [conn EXCEPT ![h] = Connected(h)]
    /\ reach' = [reach EXCEPT ![h] = [Task("take") EXCEPT
                    !.todo = {b \in waiting : HostOf[b] = h}, !.epoch = Connected(h).epoch]]
    /\ UNCHANGED <<prog, rec, running, waiting, rechecking, pump, seen, start, calls, ends,
                   taken, releasing, killing, faults, killed>>

\* ... or it does not.
ReachFails(h) ==
    /\ reach[h].stage = "connect" /\ ~conn[h].open
    /\ faults.failures < MaxFailures
    /\ faults' = [faults EXCEPT !.failures = @ + 1]
    /\ reach' = [reach EXCEPT ![h] = Task("sleep")]
    /\ UNCHANGED <<conn, prog, rec, running, waiting, rechecking, pump, seen, start, calls, ends,
                   taken, releasing, killing, killed>>

\* The task of host h, once it tried to attach b.
Attached(h, b, found) ==
    [stage |-> "attached", todo |-> reach[h].todo \ {b}, done |-> reach[h].done,
     epoch |-> reach[h].epoch, buf |-> b, found |-> found]

\* attach_remote of the next buffer: its record is read and its pump started.
Attaches(h, b) ==
    /\ reach[h].stage = "take" /\ b \in reach[h].todo
    /\ Alive(h, reach[h].epoch)
    /\ reach' = [reach EXCEPT ![h] =
                    Attached(h, b, IF prog[b] \in {"running", "exited"} THEN "ok" ELSE "not_found")]
    /\ IF prog[b] \in {"running", "exited"}
       THEN /\ pump' = [pump EXCEPT ![b] = reach[h].epoch]
            /\ seen' = [seen EXCEPT ![b] = prog[b]]
       ELSE UNCHANGED <<pump, seen>>
    /\ UNCHANGED <<conn, prog, rec, running, waiting, rechecking, start, calls, ends, taken,
                   releasing, killing, faults, killed>>

\* ... or fails, the connection lost or the host answering with some other error.
AttachFails(h, b) ==
    /\ reach[h].stage = "take" /\ b \in reach[h].todo
    /\ \/ ~Alive(h, reach[h].epoch) /\ UNCHANGED faults
       \/ /\ Alive(h, reach[h].epoch) /\ faults.failures < MaxFailures
          /\ faults' = [faults EXCEPT !.failures = @ + 1]
    /\ reach' = [reach EXCEPT ![h] = Attached(h, b, "error")]
    /\ UNCHANGED <<conn, prog, rec, running, waiting, rechecking, pump, seen, start, calls, ends,
                   taken, releasing, killing, killed>>

\* Mutant: a handle nobody waits for any more is dropped without releasing it.
Checks_KeepsPump(h) ==
    LET b == reach[h].buf
        was == b \in waiting
        found == reach[h].found
    IN
    /\ reach[h].stage = "attached"
    /\ waiting' = waiting \ {b}
    /\ reach' = [reach EXCEPT ![h].stage = IF was /\ found = "ok" THEN "register"
                                           ELSE IF was /\ found = "error" THEN "put_back"
                                           ELSE "take"]
    /\ ends' = IF was /\ found = "not_found"
               THEN ends \cup {[buf |-> b, epoch |-> reach[h].epoch, end |-> "exited", stage |-> "mark"]}
               ELSE ends
    /\ UNCHANGED <<conn, prog, rec, running, rechecking, pump, seen, start, calls, taken,
                   releasing, killing, faults, killed>>

\* Whether the buffer still waits decides what becomes of the attempt: a released
\* one is let go of, one the host no longer has exited.
Checks(h) ==
    LET b == reach[h].buf
        was == b \in waiting
        found == reach[h].found
    IN
    /\ reach[h].stage = "attached"
    /\ waiting' = waiting \ {b}
    /\ reach' = [reach EXCEPT ![h].stage = IF was /\ found = "ok" THEN "register"
                                           ELSE IF was /\ found = "error" THEN "put_back"
                                           ELSE "take"]
    /\ pump' = IF ~was /\ found = "ok" THEN [pump EXCEPT ![b] = 0] ELSE pump
    /\ ends' = IF was /\ found = "not_found"
               THEN ends \cup {[buf |-> b, epoch |-> reach[h].epoch, end |-> "exited", stage |-> "mark"]}
               ELSE ends
    /\ UNCHANGED <<conn, prog, rec, running, rechecking, seen, start, calls, taken,
                   releasing, killing, faults, killed>>

\* Inner::register of a runtime that was taken up ...
Registers(h) ==
    /\ reach[h].stage = "register"
    /\ running' = [running EXCEPT ![reach[h].buf] = reach[h].epoch]
    /\ reach' = [reach EXCEPT ![h].stage = "tell", ![h].found = seen[reach[h].buf]]
    /\ UNCHANGED <<conn, prog, rec, waiting, rechecking, pump, seen, start, calls, ends,
                   taken, releasing, killing, faults, killed>>

\* ... and the taken_up callback, with the status read before.
Tells(h) ==
    /\ reach[h].stage = "tell"
    /\ taken' = taken \cup {[buf |-> reach[h].buf, epoch |-> reach[h].epoch,
                             status |-> reach[h].found]}
    /\ reach' = [reach EXCEPT ![h].stage = "take"]
    /\ UNCHANGED <<conn, prog, rec, running, waiting, rechecking, pump, seen, start, calls, ends,
                   releasing, killing, faults, killed>>

\* A buffer that could not be taken up waits again.
PutsBack(h) ==
    /\ reach[h].stage = "put_back"
    /\ waiting' = waiting \cup {reach[h].buf}
    /\ reach' = [reach EXCEPT ![h].stage = "take", ![h].done = FALSE]
    /\ UNCHANGED <<conn, prog, rec, running, rechecking, pump, seen, start, calls, ends, taken,
                   releasing, killing, faults, killed>>

\* Mutant: what is left is tried again on the same connection.
TriedAll_SameConnection(h) ==
    /\ reach[h].stage = "take" /\ reach[h].todo = {}
    /\ reach' = [reach EXCEPT ![h] =
                    IF reach[h].done THEN Task("leave")
                    ELSE [Task("take") EXCEPT !.todo = {b \in waiting : HostOf[b] = h},
                                              !.epoch = reach[h].epoch]]
    /\ UNCHANGED <<conn, prog, rec, running, waiting, rechecking, pump, seen, start, calls, ends,
                   taken, releasing, killing, faults, killed>>

\* All that were listed were tried: again, unless none is left to try.
TriedAll(h) ==
    /\ reach[h].stage = "take" /\ reach[h].todo = {}
    /\ reach' = [reach EXCEPT ![h] = Task(IF reach[h].done THEN "leave" ELSE "sleep")]
    /\ UNCHANGED <<conn, prog, rec, running, waiting, rechecking, pump, seen, start, calls, ends,
                   taken, releasing, killing, faults, killed>>

\* Mutant: the task does not look again after it left.
Leaves_Blind(h) ==
    /\ reach[h].stage = "leave"
    /\ reach' = [reach EXCEPT ![h] = Task("idle")]
    /\ UNCHANGED <<conn, prog, rec, running, waiting, rechecking, pump, seen, start, calls, ends,
                   taken, releasing, killing, faults, killed>>

\* The task leaves reaching ...
Leaves(h) ==
    /\ reach[h].stage = "leave"
    /\ reach' = [reach EXCEPT ![h] = Task("idle")]
    /\ rechecking' = rechecking \cup {h}
    /\ UNCHANGED <<conn, prog, rec, running, waiting, pump, seen, start, calls, ends,
                   taken, releasing, killing, faults, killed>>

\* ... and starts another if a buffer was lost meanwhile.
Rechecks(h) ==
    /\ h \in rechecking
    /\ rechecking' = rechecking \ {h}
    /\ reach' = IF WaitsFor(h) THEN ReachHost(h) ELSE reach
    /\ UNCHANGED <<conn, prog, rec, running, waiting, pump, seen, start, calls, ends,
                   taken, releasing, killing, faults, killed>>

-----------------------------------------------------------------------------
(* Pumps and the ends they report *)

\* pump_changes reads that the program exited, or that the host no longer has it:
\* Inner::ended leaves the runtime registered.
PumpExited(b) ==
    /\ pump[b] # 0 /\ Alive(HostOf[b], pump[b]) /\ prog[b] \in {"exited", "gone"}
    /\ pump' = [pump EXCEPT ![b] = 0]
    /\ seen' = IF prog[b] = "exited" THEN [seen EXCEPT ![b] = "exited"] ELSE seen
    /\ calls' = calls \cup {[buf |-> b, epoch |-> pump[b], end |-> "exited", lost |-> FALSE]}
    /\ UNCHANGED <<conn, prog, rec, running, waiting, reach, rechecking, start, ends, taken,
                   releasing, killing, faults, killed>>

\* The connection is lost: Inner::ended takes the runtime out of the table, if it
\* is there, and lets the buffer wait for its host.
PumpLost(b) ==
    /\ pump[b] # 0 /\ ~Alive(HostOf[b], pump[b])
    /\ pump' = [pump EXCEPT ![b] = 0]
    /\ running' = [running EXCEPT ![b] = 0]
    /\ waiting' = IF running[b] # 0 THEN waiting \cup {b} ELSE waiting
    /\ calls' = calls \cup {[buf |-> b, epoch |-> pump[b], end |-> "interrupted",
                             lost |-> running[b] # 0]}
    /\ UNCHANGED <<conn, prog, rec, reach, rechecking, seen, start, ends, taken, releasing,
                   killing, faults, killed>>

\* The rest of the report: the server's callback, then reach_host.
Reports(c) ==
    /\ c \in calls
    /\ calls' = calls \ {c}
    /\ ends' = ends \cup {[buf |-> c.buf, epoch |-> c.epoch, end |-> c.end,
                           stage |-> IF c.end = "exited" THEN "mark" ELSE "check"]}
    /\ reach' = IF c.lost THEN ReachHost(HostOf[c.buf]) ELSE reach
    /\ UNCHANGED <<conn, prog, rec, running, waiting, rechecking, pump, seen, start, taken,
                   releasing, killing, faults, killed>>

\* record_buffer_end of an interrupt: nothing to do if a runtime is registered.
EndChecks(t) ==
    /\ t \in ends /\ t.stage = "check"
    /\ ends' = (ends \ {t}) \cup (IF running[t.buf] = 0 THEN {[t EXCEPT !.stage = "mark"]} ELSE {})
    /\ UNCHANGED <<conn, prog, rec, running, waiting, reach, rechecking, pump, seen, start,
                   calls, taken, releasing, killing, faults, killed>>

\* ... and once it has the lock.
EndMarks(t) ==
    /\ t \in ends /\ t.stage = "mark"
    /\ ends' = ends \ {t}
    /\ rec' = IF t.end = "exited" THEN MarkExited(t.buf) ELSE MarkInterrupted(t.buf)
    /\ UNCHANGED <<conn, prog, running, waiting, reach, rechecking, pump, seen, start,
                   calls, taken, releasing, killing, faults, killed>>

\* Mutant: a buffer removed meanwhile is not released.
TakenUp_NoRelease(t) ==
    /\ t \in taken
    /\ taken' = taken \ {t}
    /\ rec' = ApplyStatus(t.buf, t.status)
    /\ UNCHANGED <<conn, prog, running, waiting, reach, rechecking, pump, seen, start, calls,
                   ends, releasing, killing, faults, killed>>

\* record_buffer_taken_up: a buffer removed meanwhile is released.
TakenUp(t) ==
    /\ t \in taken
    /\ taken' = taken \ {t}
    /\ rec' = ApplyStatus(t.buf, t.status)
    /\ releasing' = IF Known(t.buf) THEN releasing
                    ELSE releasing \cup {[buf |-> t.buf, by |-> t.epoch, stage |-> "waiting"]}
    /\ UNCHANGED <<conn, prog, running, waiting, reach, rechecking, pump, seen, start, calls,
                   ends, killing, faults, killed>>

-----------------------------------------------------------------------------
(* Starting, killing, disposing and releasing *)

\* A buffer is created on a host, and its runtime started.
Create(b) ==
    /\ rec[b] = "none"
    /\ rec' = [rec EXCEPT ![b] = "created"]
    /\ start' = [start EXCEPT ![b].stage = "connect"]
    /\ UNCHANGED <<conn, prog, running, waiting, reach, rechecking, pump, seen, calls, ends,
                   taken, releasing, killing, faults, killed>>

StartConnects(b) ==
    /\ start[b].stage = "connect"
    /\ conn' = [conn EXCEPT ![HostOf[b]] = Connected(HostOf[b])]
    /\ start' = [start EXCEPT ![b].stage = "spawn", ![b].epoch = Connected(HostOf[b]).epoch]
    /\ UNCHANGED <<prog, rec, running, waiting, reach, rechecking, pump, seen, calls, ends,
                   taken, releasing, killing, faults, killed>>

\* RemoteRuntimeHandle::spawn: the host creates the buffer, and the pump starts.
StartSpawns(b) ==
    /\ start[b].stage = "spawn" /\ Alive(HostOf[b], start[b].epoch)
    /\ prog' = [prog EXCEPT ![b] = "running"]
    /\ pump' = [pump EXCEPT ![b] = start[b].epoch]
    /\ seen' = [seen EXCEPT ![b] = "running"]
    /\ start' = [start EXCEPT ![b].stage = "register"]
    /\ UNCHANGED <<conn, rec, running, waiting, reach, rechecking, calls, ends, taken,
                   releasing, killing, faults, killed>>

\* The host is not reached, refuses, or is lost, perhaps after it created the buffer:
\* the caller drops the record.
StartFails(b) ==
    /\ \/ /\ \/ start[b].stage = "connect" /\ ~conn[HostOf[b]].open
             \/ start[b].stage = "spawn" /\ Alive(HostOf[b], start[b].epoch)
          /\ faults.failures < MaxFailures
          /\ faults' = [faults EXCEPT !.failures = @ + 1]
          /\ UNCHANGED prog
       \/ /\ start[b].stage = "spawn" /\ ~Alive(HostOf[b], start[b].epoch)
          /\ \E there \in {"none", "running"} : prog' = [prog EXCEPT ![b] = there]
          /\ UNCHANGED faults
    /\ rec' = [rec EXCEPT ![b] = "removed"]
    /\ start' = [start EXCEPT ![b].stage = "idle"]
    /\ UNCHANGED <<conn, running, waiting, reach, rechecking, pump, seen, calls, ends, taken,
                   releasing, killing, killed>>

\* Inner::register of a started runtime.
StartRegisters(b) ==
    /\ start[b].stage = "register"
    /\ running' = [running EXCEPT ![b] = start[b].epoch]
    /\ start' = [start EXCEPT ![b].stage = "place", ![b].status = seen[b]]
    /\ UNCHANGED <<conn, prog, rec, waiting, reach, rechecking, pump, seen, calls, ends,
                   taken, releasing, killing, faults, killed>>

\* spawn_buffer_runtime_with, with the lock again: the record runs, or it is gone
\* and the runtime is discarded, its program killed if the host hears it.
StartPlaces(b) ==
    /\ start[b].stage = "place"
    /\ start' = [start EXCEPT ![b].stage = "idle"]
    /\ IF Known(b)
       THEN rec' = ApplyStatus(b, start[b].status) /\ UNCHANGED <<prog, running, pump>>
       ELSE /\ running' = [running EXCEPT ![b] = 0]
            /\ pump' = IF running[b] # 0 THEN [pump EXCEPT ![b] = 0] ELSE pump
            /\ prog' = IF prog[b] = "running" /\ Alive(HostOf[b], running[b])
                       THEN [prog EXCEPT ![b] = "exited"] ELSE prog
            /\ UNCHANGED rec
    /\ UNCHANGED <<conn, waiting, reach, rechecking, seen, calls, ends, taken, releasing,
                   killing, faults, killed>>

\* kill_buffer finds no runtime to pass the kill to ...
KillLooks(b) ==
    /\ Known(b) /\ running[b] = 0
    /\ killing' = killing \cup {b}
    /\ UNCHANGED <<conn, prog, rec, running, waiting, reach, rechecking, pump, seen, start,
                   calls, ends, taken, releasing, faults, killed>>

\* ... and ends an interrupted record itself: one without a view goes, one with a
\* view has exited.  Anything else goes to the runtime or is refused.
Kills(b) ==
    /\ b \in killing
    /\ killing' = killing \ {b}
    /\ IF rec[b] = "interrupted"
       THEN /\ \E end \in {"removed", "exited"} : rec' = [rec EXCEPT ![b] = end]
            /\ killed' = [killed EXCEPT ![b] = IF running[b] = 0 THEN "lost" ELSE "registered"]
       ELSE UNCHANGED <<rec, killed>>
    /\ UNCHANGED <<conn, prog, running, waiting, reach, rechecking, pump, seen, start,
                   calls, ends, taken, releasing, faults>>

\* dispose_exited_buffers removes an exited record and releases its runtime.
Disposes(b) ==
    /\ rec[b] = "exited"
    /\ rec' = [rec EXCEPT ![b] = "removed"]
    /\ releasing' = releasing \cup {[buf |-> b, by |-> 0, stage |-> "waiting"]}
    /\ UNCHANGED <<conn, prog, running, waiting, reach, rechecking, pump, seen, start,
                   calls, ends, taken, killing, faults, killed>>

\* release: the buffer no longer waits for a host ...
ReleaseWaiting(r) ==
    /\ r \in releasing /\ r.stage = "waiting"
    /\ waiting' = waiting \ {r.buf}
    /\ releasing' = (releasing \ {r}) \cup {[r EXCEPT !.stage = "running"]}
    /\ UNCHANGED <<conn, prog, rec, running, reach, rechecking, pump, seen, start,
                   calls, ends, taken, killing, faults, killed>>

\* ... and its runtime, if it is registered, goes with its pump.
ReleaseRunning(r) ==
    /\ r \in releasing /\ r.stage = "running"
    /\ running' = [running EXCEPT ![r.buf] = 0]
    /\ pump' = IF running[r.buf] # 0 THEN [pump EXCEPT ![r.buf] = 0] ELSE pump
    /\ releasing' = releasing \ {r}
    /\ UNCHANGED <<conn, prog, rec, waiting, reach, rechecking, seen, start,
                   calls, ends, taken, killing, faults, killed>>

-----------------------------------------------------------------------------
(* The other side *)

\* serve_host ends: a connection is lost.
Lost(h) ==
    /\ conn[h].open /\ faults.losses < MaxLosses
    /\ conn' = [conn EXCEPT ![h] = [epoch |-> conn[h].epoch, open |-> FALSE]]
    /\ faults' = [faults EXCEPT !.losses = @ + 1]
    /\ UNCHANGED <<prog, rec, running, waiting, reach, rechecking, pump, seen, start,
                   calls, ends, taken, releasing, killing, killed>>

\* A program exits, killed or by itself, and its host forgets it later.
HostActs(b) ==
    /\ \/ prog[b] = "running" /\ prog' = [prog EXCEPT ![b] = "exited"]
       \/ prog[b] = "exited" /\ prog' = [prog EXCEPT ![b] = "gone"]
    /\ UNCHANGED <<conn, rec, running, waiting, reach, rechecking, pump, seen, start,
                   calls, ends, taken, releasing, killing, faults, killed>>

-----------------------------------------------------------------------------
Reaching(h) ==
    \/ Wakes(h) \/ Reaches(h) \/ Checks(h) \/ Registers(h) \/ Tells(h) \/ PutsBack(h)
    \/ TriedAll(h) \/ Leaves(h) \/ Rechecks(h)
    \/ \E b \in Buffer : Attaches(h, b) \/ AttachFails(h, b)

Following(b) == PumpExited(b) \/ PumpLost(b)

Tasks ==
    \/ \E c \in calls : Reports(c)
    \/ \E t \in ends : EndChecks(t) \/ EndMarks(t)
    \/ \E t \in taken : TakenUp(t)
    \/ \E r \in releasing : ReleaseWaiting(r) \/ ReleaseRunning(r)

Starting(b) == StartConnects(b) \/ StartSpawns(b) \/ StartFails(b) \/ StartRegisters(b)
               \/ StartPlaces(b)

Requests(b) == Create(b) \/ KillLooks(b) \/ Disposes(b)

Next ==
    \/ \E h \in Host : Reaching(h) \/ ReachFails(h) \/ Lost(h)
    \/ \E b \in Buffer : Following(b) \/ Starting(b) \/ Requests(b) \/ Kills(b) \/ HostActs(b)
    \/ Tasks

Spec == Init /\ [][Next]_vars

\* Tasks run on, and a host answers in the end.
FairSpec ==
    /\ Spec
    /\ \A h \in Host : WF_vars(Reaching(h))
    /\ \A b \in Buffer : WF_vars(Following(b)) /\ WF_vars(Starting(b)) /\ WF_vars(Kills(b))
    /\ WF_vars(Tasks)

-----------------------------------------------------------------------------
(* Properties *)

Stages == {"idle", "sleep", "connect", "take", "attached", "register", "tell", "put_back", "leave"}

\* The task of a host: the buffer it works on, once it has attached one.
ReachTask ==
    {t \in [stage : Stages, todo : SUBSET Buffer, done : BOOLEAN, epoch : Nat,
            buf : Buffer \cup {None},
            found : {"no", "ok", "not_found", "error", "running", "exited"}] :
        /\ t.stage \in {"attached", "register", "tell", "put_back"} => t.buf # None
        /\ t.stage = "tell" => t.found \in {"running", "exited"}}
StartTask == [stage : {"idle", "connect", "spawn", "register", "place"}, epoch : Nat,
              status : {"running", "exited"}]
EndCall == [buf : Buffer, epoch : Nat, end : {"exited", "interrupted"}, lost : BOOLEAN]
EndTask == [buf : Buffer, epoch : Nat, end : {"exited", "interrupted"}, stage : {"check", "mark"}]
TakenTask == [buf : Buffer, epoch : Nat, status : {"running", "exited"}]
Release == [buf : Buffer, by : Nat, stage : {"waiting", "running"}]
RecordState == {"none", "created", "running", "interrupted", "exited", "removed"}

\* The tables, the tasks and the connections have their types.
TypeOK ==
    /\ conn \in [Host -> [epoch : Nat, open : BOOLEAN]]
    /\ prog \in [Buffer -> {"none", "running", "exited", "gone"}]
    /\ rec \in [Buffer -> RecordState]
    /\ running \in [Buffer -> Nat]
    /\ waiting \subseteq Buffer
    /\ reach \in [Host -> ReachTask]
    /\ rechecking \subseteq Host
    /\ pump \in [Buffer -> Nat]
    /\ seen \in [Buffer -> {"running", "exited"}]
    /\ start \in [Buffer -> StartTask]
    /\ calls \subseteq EndCall
    /\ ends \subseteq EndTask
    /\ taken \subseteq TakenTask
    /\ releasing \subseteq Release
    /\ killing \subseteq Buffer
    /\ faults \in [losses : Nat, failures : Nat]
    /\ killed \in [Buffer -> {"no", "lost", "registered"}]

\* Somebody is going to reach host h: its task, one that looks a last time, or a
\* report on its way.
Cared(h) ==
    \/ reach[h].stage # "idle"
    \/ h \in rechecking
    \/ \E c \in calls : c.lost /\ HostOf[c.buf] = h

\* No buffer waits for a host that nobody will reach: a buffer lost while the task
\* of its host is on its way out is not left behind.
WaitingIsReached == \A b \in waiting : Cared(HostOf[b])

\* Whoever holds the handle of buffer b's pump besides the table.
Holds(b) ==
    \/ \E h \in Host : reach[h].buf = b /\ reach[h].found = "ok"
                       /\ reach[h].stage \in {"attached", "register"}
    \/ start[b].stage = "register"

\* A pump that follows a buffer belongs to its registered runtime, or to a start or
\* take-up that is about to register or release it: none goes on unnoticed.
PumpIsHeld == \A b \in Buffer : pump[b] # 0 => running[b] = pump[b] \/ Holds(b)

\* Something will still look at the registered runtime of a removed buffer b.
ReleaseDue(b) ==
    \/ \E r \in releasing : r.buf = b
    \/ \E t \in taken : t.buf = b
    \/ \E h \in Host : reach[h].stage = "tell" /\ reach[h].buf = b
    \/ start[b].stage = "place"

\* A runtime whose record was removed, disposed of or killed at whatever moment, is
\* going to be released; except that kill_buffer, which releases nothing, may have
\* removed the record of a runtime registered since it looked.
RemovedIsReleased ==
    \A b \in Buffer :
        running[b] # 0 /\ rec[b] = "removed" => ReleaseDue(b) \/ killed[b] = "registered"

\* A buffer that waits is taken up, exits or is released in the end: it is not only
\* taken out to be tried and put back.
WaitingEnds ==
    \A b \in Buffer :
        b \in waiting ~> /\ b \notin waiting
                        /\ \A h \in Host : reach[h].stage = "put_back" => reach[h].buf # b

\* The tasks that concern b have run.
Quiet(b) ==
    /\ \A t \in calls \cup ends \cup taken \cup releasing : t.buf # b
    /\ start[b].stage = "idle"
    /\ \A h \in Host : reach[h].buf # b

\* "An interrupted runtime is no longer registered: one that is was taken up again
\* since, and runs": no registered, running runtime is recorded as interrupted.
RunsNotInterrupted ==
    \A b \in Buffer : Quiet(b) /\ running[b] # 0 /\ pump[b] # 0 => rec[b] # "interrupted"

\* A registered runtime whose connection is lost.
Stranded(b) == running[b] # 0 /\ ~Alive(HostOf[b], running[b])

\* "The server tries to reach the host again": a runtime whose connection was lost
\* does not stay registered as if it ran, unless its program's exit was read before.
StrandedIsReached ==
    \A b \in Buffer : Stranded(b) /\ rec[b] = "running" ~> ~Stranded(b) \/ rec[b] # "running"
=============================================================================
