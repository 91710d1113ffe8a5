---------------------------- MODULE HostsProofs ----------------------------
(***************************************************************************)
(* What holds of buffers on other hosts for any buffers, hosts and bounds. *)
(***************************************************************************)
EXTENDS Hosts, TLAPS

-----------------------------------------------------------------------------
(* The inductive invariant *)

\* The task of a host works on buffers of that host.
OwnHost ==
    \A h \in Host :
        /\ \A b \in reach[h].todo : HostOf[b] = h
        /\ reach[h].stage \in {"attached", "register", "tell", "put_back"} => HostOf[reach[h].buf] = h

\* The buffers that the task of host h has listed, or has attached and not yet
\* registered or put back.
Tried(h) == reach[h].todo \cup
            (IF reach[h].stage \in {"attached", "register", "put_back"} THEN {reach[h].buf} ELSE {})

\* What waits or is being tried is not registered.
TriedUnregistered ==
    /\ \A b \in waiting : running[b] = 0
    /\ \A h \in Host : \A b \in Tried(h) : running[b] = 0

\* A buffer is not listed while it is attached, and does not wait while it is
\* being registered.
TriedOnce ==
    \A h \in Host :
        /\ reach[h].stage \in {"attached", "register", "put_back"} => reach[h].buf \notin reach[h].todo
        /\ reach[h].stage = "register" => reach[h].buf \notin waiting

\* Nobody waits for a buffer, or tries it, before its start has registered it.
Early ==
    \A b \in Buffer :
        rec[b] = "none" \/ start[b].stage \in {"connect", "spawn", "register"}
        => b \notin waiting /\ running[b] = 0 /\ \A h \in Host : b \notin Tried(h)

\* ... and it has no pump before the host created it.
EarlyPump ==
    \A b \in Buffer :
        /\ rec[b] = "none" => start[b].stage = "idle"
        /\ rec[b] = "none" \/ start[b].stage \in {"connect", "spawn"} => pump[b] = 0
        /\ start[b].stage = "register" => pump[b] \in {0, start[b].epoch}

\* Host h's task holds the handle of b.
TaskHolds(h, b) ==
    reach[h].buf = b /\ reach[h].found = "ok" /\ reach[h].stage \in {"attached", "register"}

\* Only an attached buffer has a pump while it is tried or waits, and the one of
\* the connection it was attached on.
TriedPump ==
    /\ \A h \in Host : reach[h].stage = "register" => reach[h].found = "ok"
    /\ \A b \in waiting : pump[b] = 0 \/ \E h \in Host : TaskHolds(h, b)
    /\ \A h \in Host : \A b \in Tried(h) :
          pump[b] = 0 \/ (TaskHolds(h, b) /\ pump[b] = reach[h].epoch)

HostsInv ==
    /\ TypeOK /\ OwnHost /\ TriedUnregistered /\ TriedOnce /\ Early /\ EarlyPump /\ TriedPump
    /\ PumpIsHeld /\ RemovedIsReleased
-----------------------------------------------------------------------------
\* A new task of a host has its type.
LEMMA TaskTypes == \A s \in {"idle", "sleep", "connect", "take", "leave"} : Task(s) \in ReachTask
  BY DEF Task, ReachTask, Stages

\* What the type of a host's task says of the buffer it works on.
LEMMA TaskFields ==
    \A t \in ReachTask :
        /\ t.todo \subseteq Buffer /\ t.epoch \in Nat
        /\ t.stage \in {"attached", "register", "tell", "put_back"} => t.buf \in Buffer
        /\ t.stage = "tell" => t.found \in {"running", "exited"}
  BY DEF ReachTask

\* Attaching a listed buffer keeps the type.
LEMMA AttachedTypes ==
    TypeOK => \A h \in Host, b \in Buffer : \A found \in {"ok", "not_found", "error"} :
                  Attached(h, b, found) \in ReachTask
<1> SUFFICES ASSUME TypeOK, NEW h \in Host, NEW b \in Buffer,
                    NEW found \in {"ok", "not_found", "error"}
             PROVE Attached(h, b, found) \in ReachTask
  OBVIOUS
<1>1. reach[h] \in ReachTask
  BY DEF TypeOK
<1> QED
  BY <1>1, HostAssumption DEF Attached, ReachTask, Stages

\* The types hold initially.
LEMMA InitTypes == Init => TypeOK
<1> SUFFICES ASSUME Init PROVE TypeOK
  OBVIOUS
<1>1. reach \in [Host -> ReachTask]
  BY TaskTypes DEF Init
<1> QED
  BY <1>1, HostAssumption DEF Init, TypeOK, StartTask, RecordState

\* Every step keeps the types.
LEMMA TypeStep == TypeOK /\ [Next]_vars => TypeOK'
<1> SUFFICES ASSUME TypeOK, [Next]_vars PROVE TypeOK'
  OBVIOUS
<1> USE HostAssumption
<1>1. ASSUME NEW h \in Host, Wakes(h) PROVE TypeOK'
  BY <1>1, TaskTypes DEF Wakes, TypeOK
<1>2. ASSUME NEW h \in Host, Reaches(h) PROVE TypeOK'
  <2> DEFINE t == [Task("take") EXCEPT !.todo = {b \in waiting : HostOf[b] = h},
                                       !.epoch = Connected(h).epoch]
  <2>1. Connected(h) \in [epoch : Nat, open : BOOLEAN]
    BY DEF Connected, TypeOK
  <2>2. t \in ReachTask
    BY <2>1 DEF TypeOK, ReachTask, Task, Stages
  <2>3. reach' \in [Host -> ReachTask]
    BY <1>2, <2>2 DEF Reaches, TypeOK
  <2> QED
    BY <1>2, <2>1, <2>3 DEF Reaches, TypeOK
<1>3. ASSUME NEW h \in Host, ReachFails(h) PROVE TypeOK'
  BY <1>3, TaskTypes DEF ReachFails, TypeOK
<1>4. ASSUME NEW h \in Host, Checks(h) PROVE TypeOK'
  <2> DEFINE t == [reach[h] EXCEPT !.stage =
                    IF reach[h].buf \in waiting /\ reach[h].found = "ok" THEN "register"
                    ELSE IF reach[h].buf \in waiting /\ reach[h].found = "error" THEN "put_back"
                    ELSE "take"]
  <2>1. reach[h] \in ReachTask
    BY DEF TypeOK
  <2>2. t \in ReachTask
    BY <1>4, <2>1 DEF Checks, TypeOK, ReachTask, Stages
  <2>3. reach' = [reach EXCEPT ![h] = t]
    BY <1>4, <2>1 DEF Checks, TypeOK
  <2>4. reach' \in [Host -> ReachTask]
    BY <2>2, <2>3 DEF TypeOK
  <2>5. [buf |-> reach[h].buf, epoch |-> reach[h].epoch, end |-> "exited", stage |-> "mark"] \in EndTask
    BY <1>4, <2>1, TaskFields DEF Checks, EndTask
  <2> QED
    BY <1>4, <2>4, <2>5, TaskFields DEF Checks, TypeOK
<1>5. ASSUME NEW h \in Host, Registers(h) PROVE TypeOK'
  <2> DEFINE t == [reach[h] EXCEPT !.stage = "tell", !.found = seen[reach[h].buf]]
  <2>1. reach[h] \in ReachTask
    BY DEF TypeOK
  <2>2. t \in ReachTask
    BY <1>5, <2>1 DEF Registers, TypeOK, ReachTask, Stages
  <2>3. reach' = [reach EXCEPT ![h] = t]
    BY <1>5, <2>1 DEF Registers, TypeOK
  <2>4. reach' \in [Host -> ReachTask]
    BY <2>2, <2>3 DEF TypeOK
  <2> QED
    BY <1>5, <2>4, TaskFields DEF Registers, TypeOK
<1>6. ASSUME NEW h \in Host, Tells(h) PROVE TypeOK'
  <2> DEFINE t == [reach[h] EXCEPT !.stage = "take"]
  <2>1. reach[h] \in ReachTask
    BY DEF TypeOK
  <2>2. t \in ReachTask
    BY <1>6, <2>1 DEF Tells, TypeOK, ReachTask, Stages
  <2>3. reach' = [reach EXCEPT ![h] = t]
    BY <1>6, <2>1 DEF Tells, TypeOK
  <2>4. reach' \in [Host -> ReachTask]
    BY <2>2, <2>3 DEF TypeOK
  <2>5. [buf |-> reach[h].buf, epoch |-> reach[h].epoch, status |-> reach[h].found] \in TakenTask
    BY <1>6, <2>1, TaskFields DEF Tells, TakenTask
  <2> QED
    BY <1>6, <2>4, <2>5, TaskFields DEF Tells, TypeOK
<1>7. ASSUME NEW h \in Host, PutsBack(h) PROVE TypeOK'
  <2> DEFINE t == [reach[h] EXCEPT !.stage = "take", !.done = FALSE]
  <2>1. reach[h] \in ReachTask
    BY DEF TypeOK
  <2>2. t \in ReachTask
    BY <1>7, <2>1 DEF PutsBack, TypeOK, ReachTask, Stages
  <2>3. reach' = [reach EXCEPT ![h] = t]
    BY <1>7, <2>1 DEF PutsBack, TypeOK
  <2>4. reach' \in [Host -> ReachTask]
    BY <2>2, <2>3 DEF TypeOK
  <2> QED
    BY <1>7, <2>4, TaskFields DEF PutsBack, TypeOK
<1>8. ASSUME NEW h \in Host, TriedAll(h) PROVE TypeOK'
  BY <1>8, TaskTypes DEF TriedAll, TypeOK
<1>9. ASSUME NEW h \in Host, Leaves(h) PROVE TypeOK'
  BY <1>9, TaskTypes DEF Leaves, TypeOK
<1>10. ASSUME NEW h \in Host, Rechecks(h) PROVE TypeOK'
  BY <1>10, TaskTypes DEF Rechecks, TypeOK, ReachHost
<1>11. ASSUME NEW h \in Host, Lost(h) PROVE TypeOK'
  <2>1. conn' = [conn EXCEPT ![h] = [epoch |-> conn[h].epoch, open |-> FALSE]]
    BY <1>11 DEF Lost, TypeOK
  <2>2. conn' \in [Host -> [epoch : Nat, open : BOOLEAN]]
    BY <2>1 DEF TypeOK
  <2>3. faults' \in [losses : Nat, failures : Nat]
    BY <1>11 DEF Lost, TypeOK
  <2> QED
    BY <1>11, <2>2, <2>3 DEF Lost, TypeOK
<1>12. ASSUME NEW h \in Host, NEW b \in Buffer, Attaches(h, b) PROVE TypeOK'
  <2> DEFINE found == IF prog[b] \in {"running", "exited"} THEN "ok" ELSE "not_found"
  <2>1. found \in {"ok", "not_found"}
    OBVIOUS
  <2>2. reach' = [reach EXCEPT ![h] = Attached(h, b, found)]
    BY <1>12 DEF Attaches
  <2> HIDE DEF found
  <2>3. reach' \in [Host -> ReachTask]
    BY <2>1, <2>2, AttachedTypes DEF TypeOK
  <2>4. reach[h].epoch \in Nat
    BY TaskFields DEF TypeOK
  <2>5. pump' \in [Buffer -> Nat] /\ seen' \in [Buffer -> {"running", "exited"}]
    BY <1>12, <2>4 DEF Attaches, TypeOK
  <2> QED
    BY <1>12, <2>3, <2>5 DEF Attaches, TypeOK
<1>13. ASSUME NEW h \in Host, NEW b \in Buffer, AttachFails(h, b) PROVE TypeOK'
  <2>1. reach' \in [Host -> ReachTask]
    BY <1>13, AttachedTypes DEF AttachFails, TypeOK
  <2>2. faults' \in [losses : Nat, failures : Nat]
    BY <1>13 DEF AttachFails, TypeOK
  <2> QED
    BY <1>13, <2>1, <2>2 DEF AttachFails, TypeOK
<1>14. ASSUME NEW b \in Buffer, PumpExited(b) PROVE TypeOK'
  <2>1. [buf |-> b, epoch |-> pump[b], end |-> "exited", lost |-> FALSE] \in EndCall
    BY DEF TypeOK, EndCall
  <2>2. calls' \subseteq EndCall
    BY <1>14, <2>1 DEF PumpExited, TypeOK
  <2> QED
    BY <1>14, <2>2 DEF PumpExited, TypeOK
<1>15. ASSUME NEW b \in Buffer, PumpLost(b) PROVE TypeOK'
  <2> DEFINE l == running[b] # 0
  <2>1. calls' = calls \cup {[buf |-> b, epoch |-> pump[b], end |-> "interrupted", lost |-> l]}
    BY <1>15 DEF PumpLost
  <2>2. l \in BOOLEAN
    OBVIOUS
  <2> HIDE DEF l
  <2>3. calls' \subseteq EndCall
    BY <2>1, <2>2 DEF TypeOK, EndCall
  <2> QED
    BY <1>15, <2>3 DEF PumpLost, TypeOK
<1>16. ASSUME NEW b \in Buffer, Create(b) PROVE TypeOK'
  <2>1. start' = [start EXCEPT ![b].stage = "connect"] /\ start \in [Buffer -> StartTask]
    BY <1>16 DEF Create, TypeOK
  <2>2. start' \in [Buffer -> StartTask]
    BY <2>1 DEF StartTask
  <2>3. rec' \in [Buffer -> RecordState]
    BY <1>16 DEF Create, TypeOK, RecordState
  <2> QED
    BY <1>16, <2>2, <2>3 DEF Create, TypeOK
<1>17. ASSUME NEW b \in Buffer, StartConnects(b) PROVE TypeOK'
  <2>1. Connected(HostOf[b]) \in [epoch : Nat, open : BOOLEAN]
    BY DEF Connected, TypeOK
  <2>2. start[b] \in StartTask
    BY DEF TypeOK
  <2>3. start' = [start EXCEPT ![b] = [start[b] EXCEPT !.stage = "spawn",
                                                      !.epoch = Connected(HostOf[b]).epoch]]
    BY <1>17, <2>2 DEF StartConnects, TypeOK
  <2>4. [start[b] EXCEPT !.stage = "spawn", !.epoch = Connected(HostOf[b]).epoch] \in StartTask
    BY <2>1, <2>2 DEF StartTask
  <2> QED
    BY <1>17, <2>1, <2>3, <2>4 DEF StartConnects, TypeOK
<1>18. ASSUME NEW b \in Buffer, StartSpawns(b) PROVE TypeOK'
  <2>1. start[b] \in StartTask
    BY DEF TypeOK
  <2>2. start' = [start EXCEPT ![b] = [start[b] EXCEPT !.stage = "register"]]
    BY <1>18 DEF StartSpawns, TypeOK
  <2>3. start' \in [Buffer -> StartTask]
    BY <2>1, <2>2 DEF TypeOK, StartTask
  <2>4. start[b].epoch \in Nat
    BY <2>1 DEF StartTask
  <2> QED
    BY <1>18, <2>3, <2>4 DEF StartSpawns, TypeOK
<1>19. ASSUME NEW b \in Buffer, StartFails(b) PROVE TypeOK'
  <2>1. start' \in [Buffer -> StartTask]
    <3>1. start' = [start EXCEPT ![b].stage = "idle"] /\ start \in [Buffer -> StartTask]
      BY <1>19 DEF StartFails, TypeOK
    <3> QED
      BY <3>1 DEF StartTask
  <2>2. prog' \in [Buffer -> {"none", "running", "exited", "gone"}]
    BY <1>19 DEF StartFails, TypeOK
  <2>3. faults' \in [losses : Nat, failures : Nat]
    BY <1>19 DEF StartFails, TypeOK
  <2> QED
    BY <1>19, <2>1, <2>2, <2>3 DEF StartFails, TypeOK, RecordState
<1>20. ASSUME NEW b \in Buffer, StartRegisters(b) PROVE TypeOK'
  <2>1. start[b] \in StartTask
    BY DEF TypeOK
  <2>2. start' = [start EXCEPT ![b] = [start[b] EXCEPT !.stage = "place", !.status = seen[b]]]
    BY <1>20, <2>1 DEF StartRegisters, TypeOK
  <2>3. [start[b] EXCEPT !.stage = "place", !.status = seen[b]] \in StartTask
    BY <2>1 DEF TypeOK, StartTask
  <2>4. start[b].epoch \in Nat
    BY <2>1 DEF StartTask
  <2> QED
    BY <1>20, <2>2, <2>3, <2>4 DEF StartRegisters, TypeOK
<1>21. ASSUME NEW b \in Buffer, StartPlaces(b) PROVE TypeOK'
  <2>1. start' \in [Buffer -> StartTask]
    <3>1. start' = [start EXCEPT ![b].stage = "idle"] /\ start \in [Buffer -> StartTask]
      BY <1>21 DEF StartPlaces, TypeOK
    <3> QED
      BY <3>1 DEF StartTask
  <2>2. rec' \in [Buffer -> RecordState]
    BY <1>21 DEF StartPlaces, TypeOK, RecordState, ApplyStatus, MarkRunning, MarkExited
  <2>3. prog' \in [Buffer -> {"none", "running", "exited", "gone"}]
    BY <1>21 DEF StartPlaces, TypeOK
  <2>4. running' \in [Buffer -> Nat] /\ pump' \in [Buffer -> Nat]
    <3>1. /\ running' \in {running, [running EXCEPT ![b] = 0]}
          /\ pump' \in {pump, [pump EXCEPT ![b] = 0]}
      BY <1>21 DEF StartPlaces
    <3>2. running \in [Buffer -> Nat] /\ pump \in [Buffer -> Nat]
      BY DEF TypeOK
    <3> QED
      BY <3>1, <3>2
  <2> QED
    BY <1>21, <2>1, <2>2, <2>3, <2>4 DEF StartPlaces, TypeOK
<1>22. ASSUME NEW b \in Buffer, KillLooks(b) PROVE TypeOK'
  BY <1>22 DEF KillLooks, TypeOK
<1>23. ASSUME NEW b \in Buffer, Kills(b) PROVE TypeOK'
  <2>1. rec' = rec \/ \E end \in {"removed", "exited"} : rec' = [rec EXCEPT ![b] = end]
    BY <1>23 DEF Kills
  <2>2. rec' \in [Buffer -> RecordState]
    BY <2>1 DEF TypeOK, RecordState
  <2>3. killed' \in [Buffer -> {"no", "lost", "registered"}]
    BY <1>23 DEF Kills, TypeOK
  <2> QED
    BY <1>23, <2>2, <2>3 DEF Kills, TypeOK
<1>24. ASSUME NEW b \in Buffer, Disposes(b) PROVE TypeOK'
  <2>1. releasing' \subseteq Release
    BY <1>24 DEF Disposes, TypeOK, Release
  <2> QED
    BY <1>24, <2>1 DEF Disposes, TypeOK, RecordState
<1>25. ASSUME NEW b \in Buffer, HostActs(b) PROVE TypeOK'
  BY <1>25 DEF HostActs, TypeOK
<1>26. ASSUME NEW c \in calls, Reports(c) PROVE TypeOK'
  <2>1. c \in EndCall
    BY DEF TypeOK
  <2>2. ends' \subseteq EndTask
    BY <1>26, <2>1 DEF Reports, TypeOK, EndTask, EndCall
  <2>3. reach' \in [Host -> ReachTask]
    BY <1>26, <2>1, TaskTypes DEF Reports, TypeOK, ReachHost, EndCall
  <2> QED
    BY <1>26, <2>2, <2>3 DEF Reports, TypeOK
<1>27. ASSUME NEW t \in ends, EndChecks(t) PROVE TypeOK'
  <2>1. ends' \subseteq EndTask
    BY <1>27 DEF EndChecks, TypeOK, EndTask
  <2> QED
    BY <1>27, <2>1 DEF EndChecks, TypeOK
<1>28. ASSUME NEW t \in ends, EndMarks(t) PROVE TypeOK'
  <2>1. rec' \in [Buffer -> RecordState]
    BY <1>28 DEF EndMarks, TypeOK, MarkExited, MarkInterrupted, RecordState
  <2> QED
    BY <1>28, <2>1 DEF EndMarks, TypeOK
<1>29. ASSUME NEW t \in taken, TakenUp(t) PROVE TypeOK'
  <2>1. rec' \in [Buffer -> RecordState]
    BY <1>29 DEF TakenUp, TypeOK, ApplyStatus, MarkRunning, MarkExited, RecordState
  <2>2. releasing' \subseteq Release
    BY <1>29 DEF TakenUp, TypeOK, TakenTask, Release
  <2> QED
    BY <1>29, <2>1, <2>2 DEF TakenUp, TypeOK
<1>30. ASSUME NEW r \in releasing, ReleaseWaiting(r) PROVE TypeOK'
  <2>1. releasing' \subseteq Release
    BY <1>30 DEF ReleaseWaiting, TypeOK, Release
  <2> QED
    BY <1>30, <2>1 DEF ReleaseWaiting, TypeOK
<1>31. ASSUME NEW r \in releasing, ReleaseRunning(r) PROVE TypeOK'
  <2>1. r.buf \in Buffer
    BY DEF TypeOK, Release
  <2> QED
    BY <1>31, <2>1 DEF ReleaseRunning, TypeOK
<1>32. CASE UNCHANGED vars
  BY <1>32 DEF vars, TypeOK
<1>33. QED
  BY <1>1, <1>2, <1>3, <1>4, <1>5, <1>6, <1>7, <1>8, <1>9, <1>10, <1>11, <1>12, <1>13, <1>14, <1>15, <1>16, <1>17, <1>18, <1>19, <1>20, <1>21, <1>22, <1>23, <1>24, <1>25, <1>26, <1>27, <1>28, <1>29, <1>30, <1>31, <1>32
     DEF Next, Reaching, Following, Tasks, Starting, Requests

\* Steps of a host's task concern buffers of that host.
LEMMA OwnHostStep == TypeOK /\ OwnHost /\ [Next]_vars => OwnHost'
<1> SUFFICES ASSUME TypeOK, OwnHost, [Next]_vars PROVE OwnHost'
  OBVIOUS
<1> USE HostAssumption
<1>1. ASSUME NEW h \in Host, Wakes(h) PROVE OwnHost'
  BY <1>1 DEF Wakes, TypeOK, OwnHost, Task
<1>2. ASSUME NEW h \in Host, Reaches(h) PROVE OwnHost'
  BY <1>2 DEF Reaches, TypeOK, OwnHost, Task
<1>3. ASSUME NEW h \in Host, ReachFails(h) PROVE OwnHost'
  BY <1>3 DEF ReachFails, TypeOK, OwnHost, Task
<1>4. ASSUME NEW h \in Host, Checks(h) PROVE OwnHost'
  BY <1>4 DEF Checks, TypeOK, OwnHost
<1>5. ASSUME NEW h \in Host, Registers(h) PROVE OwnHost'
  BY <1>5 DEF Registers, TypeOK, OwnHost
<1>6. ASSUME NEW h \in Host, Tells(h) PROVE OwnHost'
  BY <1>6 DEF Tells, TypeOK, OwnHost
<1>7. ASSUME NEW h \in Host, PutsBack(h) PROVE OwnHost'
  BY <1>7 DEF PutsBack, TypeOK, OwnHost
<1>8. ASSUME NEW h \in Host, TriedAll(h) PROVE OwnHost'
  BY <1>8 DEF TriedAll, TypeOK, OwnHost, Task
<1>9. ASSUME NEW h \in Host, Leaves(h) PROVE OwnHost'
  BY <1>9 DEF Leaves, TypeOK, OwnHost, Task
<1>10. ASSUME NEW h \in Host, Rechecks(h) PROVE OwnHost'
  BY <1>10 DEF Rechecks, TypeOK, OwnHost, Task, ReachHost
<1>11. ASSUME NEW h \in Host, Lost(h) PROVE OwnHost'
  BY <1>11 DEF Lost, TypeOK, OwnHost
<1>12. ASSUME NEW h \in Host, NEW b \in Buffer, Attaches(h, b) PROVE OwnHost'
  BY <1>12 DEF Attaches, TypeOK, OwnHost, Attached
<1>13. ASSUME NEW h \in Host, NEW b \in Buffer, AttachFails(h, b) PROVE OwnHost'
  BY <1>13 DEF AttachFails, TypeOK, OwnHost, Attached
<1>14. ASSUME NEW b \in Buffer, PumpExited(b) PROVE OwnHost'
  BY <1>14 DEF PumpExited, TypeOK, OwnHost
<1>15. ASSUME NEW b \in Buffer, PumpLost(b) PROVE OwnHost'
  BY <1>15 DEF PumpLost, TypeOK, OwnHost
<1>16. ASSUME NEW b \in Buffer, Create(b) PROVE OwnHost'
  BY <1>16 DEF Create, TypeOK, OwnHost
<1>17. ASSUME NEW b \in Buffer, StartConnects(b) PROVE OwnHost'
  BY <1>17 DEF StartConnects, TypeOK, OwnHost
<1>18. ASSUME NEW b \in Buffer, StartSpawns(b) PROVE OwnHost'
  BY <1>18 DEF StartSpawns, TypeOK, OwnHost
<1>19. ASSUME NEW b \in Buffer, StartFails(b) PROVE OwnHost'
  BY <1>19 DEF StartFails, TypeOK, OwnHost
<1>20. ASSUME NEW b \in Buffer, StartRegisters(b) PROVE OwnHost'
  BY <1>20 DEF StartRegisters, TypeOK, OwnHost
<1>21. ASSUME NEW b \in Buffer, StartPlaces(b) PROVE OwnHost'
  BY <1>21 DEF StartPlaces, TypeOK, OwnHost
<1>22. ASSUME NEW b \in Buffer, KillLooks(b) PROVE OwnHost'
  BY <1>22 DEF KillLooks, TypeOK, OwnHost
<1>23. ASSUME NEW b \in Buffer, Kills(b) PROVE OwnHost'
  BY <1>23 DEF Kills, TypeOK, OwnHost
<1>24. ASSUME NEW b \in Buffer, Disposes(b) PROVE OwnHost'
  BY <1>24 DEF Disposes, TypeOK, OwnHost
<1>25. ASSUME NEW b \in Buffer, HostActs(b) PROVE OwnHost'
  BY <1>25 DEF HostActs, TypeOK, OwnHost
<1>26. ASSUME NEW c \in calls, Reports(c) PROVE OwnHost'
  <2>1. reach' = reach \/ reach' = ReachHost(HostOf[c.buf])
    BY <1>26 DEF Reports
  <2>2. \A h \in Host : reach'[h] = reach[h] \/ reach'[h] = Task("sleep")
    BY <2>1 DEF ReachHost, TypeOK
  <2>3. Task("sleep").todo = {} /\ Task("sleep").stage = "sleep"
    BY DEF Task
  <2> QED
    BY <2>2, <2>3 DEF OwnHost
<1>27. ASSUME NEW t \in ends, EndChecks(t) PROVE OwnHost'
  BY <1>27 DEF EndChecks, TypeOK, OwnHost
<1>28. ASSUME NEW t \in ends, EndMarks(t) PROVE OwnHost'
  BY <1>28 DEF EndMarks, TypeOK, OwnHost
<1>29. ASSUME NEW t \in taken, TakenUp(t) PROVE OwnHost'
  BY <1>29 DEF TakenUp, TypeOK, OwnHost
<1>30. ASSUME NEW r \in releasing, ReleaseWaiting(r) PROVE OwnHost'
  BY <1>30 DEF ReleaseWaiting, TypeOK, OwnHost
<1>31. ASSUME NEW r \in releasing, ReleaseRunning(r) PROVE OwnHost'
  BY <1>31 DEF ReleaseRunning, TypeOK, OwnHost
<1>32. CASE UNCHANGED vars
  BY <1>32 DEF vars, OwnHost
<1>33. QED
  BY <1>1, <1>2, <1>3, <1>4, <1>5, <1>6, <1>7, <1>8, <1>9, <1>10, <1>11, <1>12, <1>13, <1>14, <1>15, <1>16, <1>17, <1>18, <1>19, <1>20, <1>21, <1>22, <1>23, <1>24, <1>25, <1>26, <1>27, <1>28, <1>29, <1>30, <1>31, <1>32
     DEF Next, Reaching, Following, Tasks, Starting, Requests

\* A step leaves no waiting buffer to a host nobody will reach.
LEMMA CareStep == TypeOK /\ OwnHost /\ WaitingIsReached /\ [Next]_vars => WaitingIsReached'
<1> SUFFICES ASSUME TypeOK, OwnHost, WaitingIsReached, [Next]_vars PROVE WaitingIsReached'
  OBVIOUS
<1> USE HostAssumption
<1>1. ASSUME NEW h \in Host, Wakes(h) PROVE WaitingIsReached'
  BY <1>1 DEF Wakes, TypeOK, WaitingIsReached, Cared, Task
<1>2. ASSUME NEW h \in Host, Reaches(h) PROVE WaitingIsReached'
  BY <1>2 DEF Reaches, TypeOK, WaitingIsReached, Cared, Task
<1>3. ASSUME NEW h \in Host, ReachFails(h) PROVE WaitingIsReached'
  BY <1>3 DEF ReachFails, TypeOK, WaitingIsReached, Cared, Task
<1>4. ASSUME NEW h \in Host, Checks(h) PROVE WaitingIsReached'
  BY <1>4, TaskFields DEF Checks, TypeOK, WaitingIsReached, Cared
<1>5. ASSUME NEW h \in Host, Registers(h) PROVE WaitingIsReached'
  BY <1>5, TaskFields DEF Registers, TypeOK, WaitingIsReached, Cared
<1>6. ASSUME NEW h \in Host, Tells(h) PROVE WaitingIsReached'
  BY <1>6, TaskFields DEF Tells, TypeOK, WaitingIsReached, Cared
<1>7. ASSUME NEW h \in Host, PutsBack(h) PROVE WaitingIsReached'
  BY <1>7 DEF PutsBack, TypeOK, WaitingIsReached, Cared, OwnHost
<1>8. ASSUME NEW h \in Host, TriedAll(h) PROVE WaitingIsReached'
  BY <1>8 DEF TriedAll, TypeOK, WaitingIsReached, Cared, Task
<1>9. ASSUME NEW h \in Host, Leaves(h) PROVE WaitingIsReached'
  BY <1>9 DEF Leaves, TypeOK, WaitingIsReached, Cared, Task
<1>10. ASSUME NEW h \in Host, Rechecks(h) PROVE WaitingIsReached'
  BY <1>10 DEF Rechecks, TypeOK, WaitingIsReached, Cared, Task, ReachHost, WaitsFor
<1>11. ASSUME NEW h \in Host, Lost(h) PROVE WaitingIsReached'
  BY <1>11 DEF Lost, TypeOK, WaitingIsReached, Cared
<1>12. ASSUME NEW h \in Host, NEW b \in Buffer, Attaches(h, b) PROVE WaitingIsReached'
  BY <1>12 DEF Attaches, TypeOK, WaitingIsReached, Cared, Attached
<1>13. ASSUME NEW h \in Host, NEW b \in Buffer, AttachFails(h, b) PROVE WaitingIsReached'
  BY <1>13 DEF AttachFails, TypeOK, WaitingIsReached, Cared, Attached
<1>14. ASSUME NEW b \in Buffer, PumpExited(b) PROVE WaitingIsReached'
  BY <1>14 DEF PumpExited, TypeOK, WaitingIsReached, Cared
<1>15. ASSUME NEW b \in Buffer, PumpLost(b) PROVE WaitingIsReached'
  <2>1. ASSUME running[b] # 0 PROVE \E c \in calls' : c.lost /\ HostOf[c.buf] = HostOf[b]
    <3> DEFINE l == running[b] # 0
               c == [buf |-> b, epoch |-> pump[b], end |-> "interrupted", lost |-> l]
    <3>1. l /\ c \in calls'
      BY <1>15, <2>1 DEF PumpLost
    <3>2. c.lost = l /\ c.buf = b
      OBVIOUS
    <3> HIDE DEF c, l
    <3> QED
      BY <3>1, <3>2
  <2>2. calls \subseteq calls' /\ reach' = reach /\ rechecking' = rechecking
    BY <1>15 DEF PumpLost
  <2> QED
    BY <1>15, <2>1, <2>2 DEF PumpLost, WaitingIsReached, Cared
<1>16. ASSUME NEW b \in Buffer, Create(b) PROVE WaitingIsReached'
  BY <1>16 DEF Create, TypeOK, WaitingIsReached, Cared
<1>17. ASSUME NEW b \in Buffer, StartConnects(b) PROVE WaitingIsReached'
  BY <1>17 DEF StartConnects, TypeOK, WaitingIsReached, Cared
<1>18. ASSUME NEW b \in Buffer, StartSpawns(b) PROVE WaitingIsReached'
  BY <1>18 DEF StartSpawns, TypeOK, WaitingIsReached, Cared
<1>19. ASSUME NEW b \in Buffer, StartFails(b) PROVE WaitingIsReached'
  BY <1>19 DEF StartFails, TypeOK, WaitingIsReached, Cared
<1>20. ASSUME NEW b \in Buffer, StartRegisters(b) PROVE WaitingIsReached'
  BY <1>20 DEF StartRegisters, TypeOK, WaitingIsReached, Cared
<1>21. ASSUME NEW b \in Buffer, StartPlaces(b) PROVE WaitingIsReached'
  BY <1>21 DEF StartPlaces, TypeOK, WaitingIsReached, Cared
<1>22. ASSUME NEW b \in Buffer, KillLooks(b) PROVE WaitingIsReached'
  BY <1>22 DEF KillLooks, TypeOK, WaitingIsReached, Cared
<1>23. ASSUME NEW b \in Buffer, Kills(b) PROVE WaitingIsReached'
  BY <1>23 DEF Kills, TypeOK, WaitingIsReached, Cared
<1>24. ASSUME NEW b \in Buffer, Disposes(b) PROVE WaitingIsReached'
  BY <1>24 DEF Disposes, TypeOK, WaitingIsReached, Cared
<1>25. ASSUME NEW b \in Buffer, HostActs(b) PROVE WaitingIsReached'
  BY <1>25 DEF HostActs, TypeOK, WaitingIsReached, Cared
<1>26. ASSUME NEW c \in calls, Reports(c) PROVE WaitingIsReached'
  <2>1. ASSUME NEW w \in waiting PROVE Cared(HostOf[w])'
    <3>1. CASE c.lost /\ HostOf[c.buf] = HostOf[w]
      BY <1>26, <2>1, <3>1 DEF Reports, ReachHost, Task, Cared, TypeOK
    <3>2. CASE ~(c.lost /\ HostOf[c.buf] = HostOf[w])
      BY <1>26, <2>1, <3>2 DEF Reports, ReachHost, Task, Cared, WaitingIsReached, TypeOK
    <3> QED
      BY <3>1, <3>2
  <2> QED
    BY <1>26, <2>1 DEF Reports, WaitingIsReached
<1>27. ASSUME NEW t \in ends, EndChecks(t) PROVE WaitingIsReached'
  BY <1>27 DEF EndChecks, TypeOK, WaitingIsReached, Cared
<1>28. ASSUME NEW t \in ends, EndMarks(t) PROVE WaitingIsReached'
  BY <1>28 DEF EndMarks, TypeOK, WaitingIsReached, Cared
<1>29. ASSUME NEW t \in taken, TakenUp(t) PROVE WaitingIsReached'
  BY <1>29 DEF TakenUp, TypeOK, WaitingIsReached, Cared
<1>30. ASSUME NEW r \in releasing, ReleaseWaiting(r) PROVE WaitingIsReached'
  BY <1>30 DEF ReleaseWaiting, TypeOK, WaitingIsReached, Cared
<1>31. ASSUME NEW r \in releasing, ReleaseRunning(r) PROVE WaitingIsReached'
  BY <1>31 DEF ReleaseRunning, TypeOK, WaitingIsReached, Cared
<1>32. CASE UNCHANGED vars
  BY <1>32 DEF vars, WaitingIsReached, Cared
<1>33. QED
  BY <1>1, <1>2, <1>3, <1>4, <1>5, <1>6, <1>7, <1>8, <1>9, <1>10, <1>11, <1>12, <1>13, <1>14, <1>15, <1>16, <1>17, <1>18, <1>19, <1>20, <1>21, <1>22, <1>23, <1>24, <1>25, <1>26, <1>27, <1>28, <1>29, <1>30, <1>31, <1>32
     DEF Next, Reaching, Following, Tasks, Starting, Requests

\* For any buffers on any hosts, a buffer that waits for its host is never left to
\* itself: reach_host's one task per host loses no buffer between the end of an
\* attempt and a report that finds the task still there.
THEOREM WaitingBuffersReached == Spec => [](TypeOK /\ WaitingIsReached)
<1>1. Init => OwnHost /\ WaitingIsReached
  <2> SUFFICES ASSUME Init PROVE OwnHost /\ WaitingIsReached
    OBVIOUS
  <2>1. \A h \in Host : reach[h] = Task(IF WaitsFor(h) THEN "sleep" ELSE "idle")
    BY DEF Init
  <2>2. waiting \subseteq Buffer
    BY DEF Init
  <2>3. \A b \in waiting : HostOf[b] \in Host /\ WaitsFor(HostOf[b])
    BY <2>2, HostAssumption DEF WaitsFor
  <2>4. \A b \in waiting : reach[HostOf[b]] = Task("sleep")
    BY <2>1, <2>3
  <2>5. WaitingIsReached
    BY <2>4 DEF WaitingIsReached, Cared, Task
  <2>6. \A h \in Host : reach[h].todo = {} /\ reach[h].stage \in {"sleep", "idle"}
    <3>1. \A s : Task(s).todo = {} /\ Task(s).stage = s
      BY DEF Task
    <3>2. \A h \in Host : reach[h] = Task("sleep") \/ reach[h] = Task("idle")
      BY <2>1
    <3> QED
      BY <3>1, <3>2
  <2> QED
    BY <2>5, <2>6 DEF OwnHost
<1>2. TypeOK /\ OwnHost /\ WaitingIsReached /\ [Next]_vars => (TypeOK /\ OwnHost /\ WaitingIsReached)'
  BY TypeStep, OwnHostStep, CareStep
<1>3. QED
  BY InitTypes, <1>1, <1>2, PTL DEF Spec

-----------------------------------------------------------------------------
\* What a task tries are buffers.
LEMMA TriedBuffers == TypeOK => \A h \in Host : Tried(h) \subseteq Buffer
  BY TaskFields DEF Tried, TypeOK

\* What a task tries is registered by nobody else.
LEMMA TriedStep ==
    TypeOK /\ OwnHost /\ TriedUnregistered /\ TriedOnce /\ Early /\ [Next]_vars => TriedUnregistered'
<1> SUFFICES ASSUME TypeOK, OwnHost, TriedUnregistered, TriedOnce, Early, [Next]_vars PROVE TriedUnregistered'
  OBVIOUS
<1> USE HostAssumption
<1>1. ASSUME NEW h \in Host, Wakes(h) PROVE TriedUnregistered'
  BY <1>1 DEF Wakes, TypeOK, TriedUnregistered, TriedOnce, Tried, OwnHost, Early, Task
<1>2. ASSUME NEW h \in Host, Reaches(h) PROVE TriedUnregistered'
  BY <1>2 DEF Reaches, TypeOK, TriedUnregistered, TriedOnce, Tried, OwnHost, Early, Task
<1>3. ASSUME NEW h \in Host, ReachFails(h) PROVE TriedUnregistered'
  BY <1>3 DEF ReachFails, TypeOK, TriedUnregistered, TriedOnce, Tried, OwnHost, Early, Task
<1>4. ASSUME NEW h \in Host, Checks(h) PROVE TriedUnregistered'
  BY <1>4 DEF Checks, TypeOK, TriedUnregistered, TriedOnce, Tried, OwnHost, Early
<1>5. ASSUME NEW h \in Host, Registers(h) PROVE TriedUnregistered'
  BY <1>5 DEF Registers, TypeOK, TriedUnregistered, TriedOnce, Tried, OwnHost, Early
<1>6. ASSUME NEW h \in Host, Tells(h) PROVE TriedUnregistered'
  BY <1>6 DEF Tells, TypeOK, TriedUnregistered, TriedOnce, Tried, OwnHost, Early
<1>7. ASSUME NEW h \in Host, PutsBack(h) PROVE TriedUnregistered'
  BY <1>7 DEF PutsBack, TypeOK, TriedUnregistered, TriedOnce, Tried, OwnHost, Early
<1>8. ASSUME NEW h \in Host, TriedAll(h) PROVE TriedUnregistered'
  BY <1>8 DEF TriedAll, TypeOK, TriedUnregistered, TriedOnce, Tried, OwnHost, Early, Task
<1>9. ASSUME NEW h \in Host, Leaves(h) PROVE TriedUnregistered'
  BY <1>9 DEF Leaves, TypeOK, TriedUnregistered, TriedOnce, Tried, OwnHost, Early, Task
<1>10. ASSUME NEW h \in Host, Rechecks(h) PROVE TriedUnregistered'
  BY <1>10 DEF Rechecks, TypeOK, TriedUnregistered, TriedOnce, Tried, OwnHost, Early, Task, ReachHost
<1>11. ASSUME NEW h \in Host, Lost(h) PROVE TriedUnregistered'
  BY <1>11 DEF Lost, TypeOK, TriedUnregistered, TriedOnce, Tried, OwnHost, Early
<1>12. ASSUME NEW h \in Host, NEW b \in Buffer, Attaches(h, b) PROVE TriedUnregistered'
  BY <1>12 DEF Attaches, TypeOK, TriedUnregistered, TriedOnce, Tried, OwnHost, Early, Attached
<1>13. ASSUME NEW h \in Host, NEW b \in Buffer, AttachFails(h, b) PROVE TriedUnregistered'
  BY <1>13 DEF AttachFails, TypeOK, TriedUnregistered, TriedOnce, Tried, OwnHost, Early, Attached
<1>14. ASSUME NEW b \in Buffer, PumpExited(b) PROVE TriedUnregistered'
  BY <1>14 DEF PumpExited, TypeOK, TriedUnregistered, TriedOnce, Tried, OwnHost, Early
<1>15. ASSUME NEW b \in Buffer, PumpLost(b) PROVE TriedUnregistered'
  BY <1>15 DEF PumpLost, TypeOK, TriedUnregistered, TriedOnce, Tried, OwnHost, Early
<1>16. ASSUME NEW b \in Buffer, Create(b) PROVE TriedUnregistered'
  BY <1>16 DEF Create, TypeOK, TriedUnregistered, TriedOnce, Tried, OwnHost, Early
<1>17. ASSUME NEW b \in Buffer, StartConnects(b) PROVE TriedUnregistered'
  BY <1>17 DEF StartConnects, TypeOK, TriedUnregistered, TriedOnce, Tried, OwnHost, Early
<1>18. ASSUME NEW b \in Buffer, StartSpawns(b) PROVE TriedUnregistered'
  BY <1>18 DEF StartSpawns, TypeOK, TriedUnregistered, TriedOnce, Tried, OwnHost, Early
<1>19. ASSUME NEW b \in Buffer, StartFails(b) PROVE TriedUnregistered'
  BY <1>19 DEF StartFails, TypeOK, TriedUnregistered, TriedOnce, Tried, OwnHost, Early
<1>20. ASSUME NEW b \in Buffer, StartRegisters(b) PROVE TriedUnregistered'
  BY <1>20 DEF StartRegisters, TypeOK, TriedUnregistered, TriedOnce, Tried, OwnHost, Early
<1>21. ASSUME NEW b \in Buffer, StartPlaces(b) PROVE TriedUnregistered'
  <2>1. waiting' = waiting /\ reach' = reach /\ \A x \in Buffer : running'[x] \in {running[x], 0}
    BY <1>21 DEF StartPlaces, TypeOK
  <2>2. \A h \in Host : Tried(h)' = Tried(h) /\ Tried(h) \subseteq Buffer
    BY <2>1, TriedBuffers DEF Tried
  <2> QED
    BY <2>1, <2>2 DEF TriedUnregistered, TypeOK
<1>22. ASSUME NEW b \in Buffer, KillLooks(b) PROVE TriedUnregistered'
  BY <1>22 DEF KillLooks, TypeOK, TriedUnregistered, TriedOnce, Tried, OwnHost, Early
<1>23. ASSUME NEW b \in Buffer, Kills(b) PROVE TriedUnregistered'
  BY <1>23 DEF Kills, TypeOK, TriedUnregistered, TriedOnce, Tried, OwnHost, Early
<1>24. ASSUME NEW b \in Buffer, Disposes(b) PROVE TriedUnregistered'
  BY <1>24 DEF Disposes, TypeOK, TriedUnregistered, TriedOnce, Tried, OwnHost, Early
<1>25. ASSUME NEW b \in Buffer, HostActs(b) PROVE TriedUnregistered'
  BY <1>25 DEF HostActs, TypeOK, TriedUnregistered, TriedOnce, Tried, OwnHost, Early
<1>26. ASSUME NEW c \in calls, Reports(c) PROVE TriedUnregistered'
  BY <1>26 DEF Reports, TypeOK, TriedUnregistered, TriedOnce, Tried, OwnHost, Early, Task, ReachHost, EndCall
<1>27. ASSUME NEW t \in ends, EndChecks(t) PROVE TriedUnregistered'
  BY <1>27 DEF EndChecks, TypeOK, TriedUnregistered, TriedOnce, Tried, OwnHost, Early
<1>28. ASSUME NEW t \in ends, EndMarks(t) PROVE TriedUnregistered'
  BY <1>28 DEF EndMarks, TypeOK, TriedUnregistered, TriedOnce, Tried, OwnHost, Early, MarkExited, MarkInterrupted, Known
<1>29. ASSUME NEW t \in taken, TakenUp(t) PROVE TriedUnregistered'
  BY <1>29 DEF TakenUp, TypeOK, TriedUnregistered, TriedOnce, Tried, OwnHost, Early, ApplyStatus, MarkRunning, MarkExited, Known
<1>30. ASSUME NEW r \in releasing, ReleaseWaiting(r) PROVE TriedUnregistered'
  BY <1>30 DEF ReleaseWaiting, TypeOK, TriedUnregistered, TriedOnce, Tried, OwnHost, Early, Release
<1>31. ASSUME NEW r \in releasing, ReleaseRunning(r) PROVE TriedUnregistered'
  BY <1>31 DEF ReleaseRunning, TypeOK, TriedUnregistered, TriedOnce, Tried, OwnHost, Early, Release
<1>32. CASE UNCHANGED vars
  BY <1>32 DEF vars, TriedUnregistered, TriedOnce, Tried, OwnHost, Early
<1>33. QED
  BY <1>1, <1>2, <1>3, <1>4, <1>5, <1>6, <1>7, <1>8, <1>9, <1>10, <1>11, <1>12, <1>13, <1>14, <1>15, <1>16, <1>17, <1>18, <1>19, <1>20, <1>21, <1>22, <1>23, <1>24, <1>25, <1>26, <1>27, <1>28, <1>29, <1>30, <1>31, <1>32
     DEF Next, Reaching, Following, Tasks, Starting, Requests

\* A task does not list what it has attached.
LEMMA TriedOnceStep ==
    TypeOK /\ OwnHost /\ TriedUnregistered /\ TriedOnce /\ [Next]_vars => TriedOnce'
<1> SUFFICES ASSUME TypeOK, OwnHost, TriedUnregistered, TriedOnce, [Next]_vars PROVE TriedOnce'
  OBVIOUS
<1> USE HostAssumption
<1>1. ASSUME NEW h \in Host, Wakes(h) PROVE TriedOnce'
  BY <1>1 DEF Wakes, TypeOK, TriedUnregistered, TriedOnce, Tried, OwnHost, Task
<1>2. ASSUME NEW h \in Host, Reaches(h) PROVE TriedOnce'
  BY <1>2 DEF Reaches, TypeOK, TriedUnregistered, TriedOnce, Tried, OwnHost, Task
<1>3. ASSUME NEW h \in Host, ReachFails(h) PROVE TriedOnce'
  BY <1>3 DEF ReachFails, TypeOK, TriedUnregistered, TriedOnce, Tried, OwnHost, Task
<1>4. ASSUME NEW h \in Host, Checks(h) PROVE TriedOnce'
  BY <1>4 DEF Checks, TypeOK, TriedUnregistered, TriedOnce, Tried, OwnHost
<1>5. ASSUME NEW h \in Host, Registers(h) PROVE TriedOnce'
  BY <1>5 DEF Registers, TypeOK, TriedUnregistered, TriedOnce, Tried, OwnHost
<1>6. ASSUME NEW h \in Host, Tells(h) PROVE TriedOnce'
  BY <1>6 DEF Tells, TypeOK, TriedUnregistered, TriedOnce, Tried, OwnHost
<1>7. ASSUME NEW h \in Host, PutsBack(h) PROVE TriedOnce'
  BY <1>7 DEF PutsBack, TypeOK, TriedUnregistered, TriedOnce, Tried, OwnHost
<1>8. ASSUME NEW h \in Host, TriedAll(h) PROVE TriedOnce'
  BY <1>8 DEF TriedAll, TypeOK, TriedUnregistered, TriedOnce, Tried, OwnHost, Task
<1>9. ASSUME NEW h \in Host, Leaves(h) PROVE TriedOnce'
  BY <1>9 DEF Leaves, TypeOK, TriedUnregistered, TriedOnce, Tried, OwnHost, Task
<1>10. ASSUME NEW h \in Host, Rechecks(h) PROVE TriedOnce'
  BY <1>10 DEF Rechecks, TypeOK, TriedUnregistered, TriedOnce, Tried, OwnHost, Task, ReachHost
<1>11. ASSUME NEW h \in Host, Lost(h) PROVE TriedOnce'
  BY <1>11 DEF Lost, TypeOK, TriedUnregistered, TriedOnce, Tried, OwnHost
<1>12. ASSUME NEW h \in Host, NEW b \in Buffer, Attaches(h, b) PROVE TriedOnce'
  BY <1>12 DEF Attaches, TypeOK, TriedUnregistered, TriedOnce, Tried, OwnHost, Attached
<1>13. ASSUME NEW h \in Host, NEW b \in Buffer, AttachFails(h, b) PROVE TriedOnce'
  BY <1>13 DEF AttachFails, TypeOK, TriedUnregistered, TriedOnce, Tried, OwnHost, Attached
<1>14. ASSUME NEW b \in Buffer, PumpExited(b) PROVE TriedOnce'
  BY <1>14 DEF PumpExited, TypeOK, TriedUnregistered, TriedOnce, Tried, OwnHost
<1>15. ASSUME NEW b \in Buffer, PumpLost(b) PROVE TriedOnce'
  BY <1>15 DEF PumpLost, TypeOK, TriedUnregistered, TriedOnce, Tried, OwnHost
<1>16. ASSUME NEW b \in Buffer, Create(b) PROVE TriedOnce'
  BY <1>16 DEF Create, TypeOK, TriedUnregistered, TriedOnce, Tried, OwnHost
<1>17. ASSUME NEW b \in Buffer, StartConnects(b) PROVE TriedOnce'
  BY <1>17 DEF StartConnects, TypeOK, TriedUnregistered, TriedOnce, Tried, OwnHost
<1>18. ASSUME NEW b \in Buffer, StartSpawns(b) PROVE TriedOnce'
  BY <1>18 DEF StartSpawns, TypeOK, TriedUnregistered, TriedOnce, Tried, OwnHost
<1>19. ASSUME NEW b \in Buffer, StartFails(b) PROVE TriedOnce'
  BY <1>19 DEF StartFails, TypeOK, TriedUnregistered, TriedOnce, Tried, OwnHost
<1>20. ASSUME NEW b \in Buffer, StartRegisters(b) PROVE TriedOnce'
  BY <1>20 DEF StartRegisters, TypeOK, TriedUnregistered, TriedOnce, Tried, OwnHost
<1>21. ASSUME NEW b \in Buffer, StartPlaces(b) PROVE TriedOnce'
  BY <1>21 DEF StartPlaces, TypeOK, TriedUnregistered, TriedOnce, Tried, OwnHost, ApplyStatus, MarkRunning, MarkExited, Known
<1>22. ASSUME NEW b \in Buffer, KillLooks(b) PROVE TriedOnce'
  BY <1>22 DEF KillLooks, TypeOK, TriedUnregistered, TriedOnce, Tried, OwnHost
<1>23. ASSUME NEW b \in Buffer, Kills(b) PROVE TriedOnce'
  BY <1>23 DEF Kills, TypeOK, TriedUnregistered, TriedOnce, Tried, OwnHost
<1>24. ASSUME NEW b \in Buffer, Disposes(b) PROVE TriedOnce'
  BY <1>24 DEF Disposes, TypeOK, TriedUnregistered, TriedOnce, Tried, OwnHost
<1>25. ASSUME NEW b \in Buffer, HostActs(b) PROVE TriedOnce'
  BY <1>25 DEF HostActs, TypeOK, TriedUnregistered, TriedOnce, Tried, OwnHost
<1>26. ASSUME NEW c \in calls, Reports(c) PROVE TriedOnce'
  BY <1>26 DEF Reports, TypeOK, TriedUnregistered, TriedOnce, Tried, OwnHost, Task, ReachHost, EndCall
<1>27. ASSUME NEW t \in ends, EndChecks(t) PROVE TriedOnce'
  BY <1>27 DEF EndChecks, TypeOK, TriedUnregistered, TriedOnce, Tried, OwnHost
<1>28. ASSUME NEW t \in ends, EndMarks(t) PROVE TriedOnce'
  BY <1>28 DEF EndMarks, TypeOK, TriedUnregistered, TriedOnce, Tried, OwnHost, MarkExited, MarkInterrupted, Known
<1>29. ASSUME NEW t \in taken, TakenUp(t) PROVE TriedOnce'
  BY <1>29 DEF TakenUp, TypeOK, TriedUnregistered, TriedOnce, Tried, OwnHost, ApplyStatus, MarkRunning, MarkExited, Known
<1>30. ASSUME NEW r \in releasing, ReleaseWaiting(r) PROVE TriedOnce'
  BY <1>30 DEF ReleaseWaiting, TypeOK, TriedUnregistered, TriedOnce, Tried, OwnHost, Release
<1>31. ASSUME NEW r \in releasing, ReleaseRunning(r) PROVE TriedOnce'
  BY <1>31 DEF ReleaseRunning, TypeOK, TriedUnregistered, TriedOnce, Tried, OwnHost, Release
<1>32. CASE UNCHANGED vars
  BY <1>32 DEF vars, TriedUnregistered, TriedOnce, Tried, OwnHost
<1>33. QED
  BY <1>1, <1>2, <1>3, <1>4, <1>5, <1>6, <1>7, <1>8, <1>9, <1>10, <1>11, <1>12, <1>13, <1>14, <1>15, <1>16, <1>17, <1>18, <1>19, <1>20, <1>21, <1>22, <1>23, <1>24, <1>25, <1>26, <1>27, <1>28, <1>29, <1>30, <1>31, <1>32
     DEF Next, Reaching, Following, Tasks, Starting, Requests

\* Nobody waits for a buffer that has not started yet.
LEMMA EarlyStep ==
    TypeOK /\ OwnHost /\ TriedUnregistered /\ Early /\ EarlyPump /\ [Next]_vars => Early'
<1> SUFFICES ASSUME TypeOK, OwnHost, TriedUnregistered, Early, EarlyPump, [Next]_vars PROVE Early'
  OBVIOUS
<1> USE HostAssumption
<1>1. ASSUME NEW h \in Host, Wakes(h) PROVE Early'
  BY <1>1 DEF Wakes, TypeOK, TriedUnregistered, Tried, OwnHost, Early, EarlyPump, Task
<1>2. ASSUME NEW h \in Host, Reaches(h) PROVE Early'
  BY <1>2 DEF Reaches, TypeOK, TriedUnregistered, Tried, OwnHost, Early, EarlyPump, Task
<1>3. ASSUME NEW h \in Host, ReachFails(h) PROVE Early'
  BY <1>3 DEF ReachFails, TypeOK, TriedUnregistered, Tried, OwnHost, Early, EarlyPump, Task
<1>4. ASSUME NEW h \in Host, Checks(h) PROVE Early'
  BY <1>4 DEF Checks, TypeOK, TriedUnregistered, Tried, OwnHost, Early, EarlyPump
<1>5. ASSUME NEW h \in Host, Registers(h) PROVE Early'
  BY <1>5 DEF Registers, TypeOK, TriedUnregistered, Tried, OwnHost, Early, EarlyPump
<1>6. ASSUME NEW h \in Host, Tells(h) PROVE Early'
  BY <1>6 DEF Tells, TypeOK, TriedUnregistered, Tried, OwnHost, Early, EarlyPump
<1>7. ASSUME NEW h \in Host, PutsBack(h) PROVE Early'
  BY <1>7 DEF PutsBack, TypeOK, TriedUnregistered, Tried, OwnHost, Early, EarlyPump
<1>8. ASSUME NEW h \in Host, TriedAll(h) PROVE Early'
  BY <1>8 DEF TriedAll, TypeOK, TriedUnregistered, Tried, OwnHost, Early, EarlyPump, Task
<1>9. ASSUME NEW h \in Host, Leaves(h) PROVE Early'
  BY <1>9 DEF Leaves, TypeOK, TriedUnregistered, Tried, OwnHost, Early, EarlyPump, Task
<1>10. ASSUME NEW h \in Host, Rechecks(h) PROVE Early'
  BY <1>10 DEF Rechecks, TypeOK, TriedUnregistered, Tried, OwnHost, Early, EarlyPump, Task, ReachHost
<1>11. ASSUME NEW h \in Host, Lost(h) PROVE Early'
  BY <1>11 DEF Lost, TypeOK, TriedUnregistered, Tried, OwnHost, Early, EarlyPump
<1>12. ASSUME NEW h \in Host, NEW b \in Buffer, Attaches(h, b) PROVE Early'
  BY <1>12 DEF Attaches, TypeOK, TriedUnregistered, Tried, OwnHost, Early, EarlyPump, Attached
<1>13. ASSUME NEW h \in Host, NEW b \in Buffer, AttachFails(h, b) PROVE Early'
  BY <1>13 DEF AttachFails, TypeOK, TriedUnregistered, Tried, OwnHost, Early, EarlyPump, Attached
<1>14. ASSUME NEW b \in Buffer, PumpExited(b) PROVE Early'
  BY <1>14 DEF PumpExited, TypeOK, TriedUnregistered, Tried, OwnHost, Early, EarlyPump
<1>15. ASSUME NEW b \in Buffer, PumpLost(b) PROVE Early'
  BY <1>15 DEF PumpLost, TypeOK, TriedUnregistered, Tried, OwnHost, Early, EarlyPump
<1>16. ASSUME NEW b \in Buffer, Create(b) PROVE Early'
  BY <1>16 DEF Create, TypeOK, TriedUnregistered, Tried, OwnHost, Early, EarlyPump
<1>17. ASSUME NEW b \in Buffer, StartConnects(b) PROVE Early'
  BY <1>17 DEF StartConnects, TypeOK, TriedUnregistered, Tried, OwnHost, Early, EarlyPump
<1>18. ASSUME NEW b \in Buffer, StartSpawns(b) PROVE Early'
  BY <1>18 DEF StartSpawns, TypeOK, TriedUnregistered, Tried, OwnHost, Early, EarlyPump
<1>19. ASSUME NEW b \in Buffer, StartFails(b) PROVE Early'
  BY <1>19 DEF StartFails, TypeOK, TriedUnregistered, Tried, OwnHost, Early, EarlyPump
<1>20. ASSUME NEW b \in Buffer, StartRegisters(b) PROVE Early'
  BY <1>20 DEF StartRegisters, TypeOK, TriedUnregistered, Tried, OwnHost, Early, EarlyPump
<1>21. ASSUME NEW b \in Buffer, StartPlaces(b) PROVE Early'
  BY <1>21 DEF StartPlaces, TypeOK, TriedUnregistered, Tried, OwnHost, Early, EarlyPump, ApplyStatus, MarkRunning, MarkExited, Known
<1>22. ASSUME NEW b \in Buffer, KillLooks(b) PROVE Early'
  BY <1>22 DEF KillLooks, TypeOK, TriedUnregistered, Tried, OwnHost, Early, EarlyPump
<1>23. ASSUME NEW b \in Buffer, Kills(b) PROVE Early'
  BY <1>23 DEF Kills, TypeOK, TriedUnregistered, Tried, OwnHost, Early, EarlyPump
<1>24. ASSUME NEW b \in Buffer, Disposes(b) PROVE Early'
  BY <1>24 DEF Disposes, TypeOK, TriedUnregistered, Tried, OwnHost, Early, EarlyPump
<1>25. ASSUME NEW b \in Buffer, HostActs(b) PROVE Early'
  BY <1>25 DEF HostActs, TypeOK, TriedUnregistered, Tried, OwnHost, Early, EarlyPump
<1>26. ASSUME NEW c \in calls, Reports(c) PROVE Early'
  BY <1>26 DEF Reports, TypeOK, TriedUnregistered, Tried, OwnHost, Early, EarlyPump, Task, ReachHost, EndCall
<1>27. ASSUME NEW t \in ends, EndChecks(t) PROVE Early'
  BY <1>27 DEF EndChecks, TypeOK, TriedUnregistered, Tried, OwnHost, Early, EarlyPump
<1>28. ASSUME NEW t \in ends, EndMarks(t) PROVE Early'
  BY <1>28 DEF EndMarks, TypeOK, TriedUnregistered, Tried, OwnHost, Early, EarlyPump, MarkExited, MarkInterrupted, Known
<1>29. ASSUME NEW t \in taken, TakenUp(t) PROVE Early'
  BY <1>29 DEF TakenUp, TypeOK, TriedUnregistered, Tried, OwnHost, Early, EarlyPump, ApplyStatus, MarkRunning, MarkExited, Known
<1>30. ASSUME NEW r \in releasing, ReleaseWaiting(r) PROVE Early'
  BY <1>30 DEF ReleaseWaiting, TypeOK, TriedUnregistered, Tried, OwnHost, Early, EarlyPump, Release
<1>31. ASSUME NEW r \in releasing, ReleaseRunning(r) PROVE Early'
  BY <1>31 DEF ReleaseRunning, TypeOK, TriedUnregistered, Tried, OwnHost, Early, EarlyPump, Release
<1>32. CASE UNCHANGED vars
  BY <1>32 DEF vars, TriedUnregistered, Tried, OwnHost, Early, EarlyPump
<1>33. QED
  BY <1>1, <1>2, <1>3, <1>4, <1>5, <1>6, <1>7, <1>8, <1>9, <1>10, <1>11, <1>12, <1>13, <1>14, <1>15, <1>16, <1>17, <1>18, <1>19, <1>20, <1>21, <1>22, <1>23, <1>24, <1>25, <1>26, <1>27, <1>28, <1>29, <1>30, <1>31, <1>32
     DEF Next, Reaching, Following, Tasks, Starting, Requests

\* A buffer has no pump before its start.
LEMMA EarlyPumpStep ==
    TypeOK /\ OwnHost /\ Early /\ EarlyPump /\ [Next]_vars => EarlyPump'
<1> SUFFICES ASSUME TypeOK, OwnHost, Early, EarlyPump, [Next]_vars PROVE EarlyPump'
  OBVIOUS
<1> USE HostAssumption
<1>1. ASSUME NEW h \in Host, Wakes(h) PROVE EarlyPump'
  BY <1>1 DEF Wakes, TypeOK, Tried, Early, EarlyPump, Task
<1>2. ASSUME NEW h \in Host, Reaches(h) PROVE EarlyPump'
  BY <1>2 DEF Reaches, TypeOK, Tried, Early, EarlyPump, Task
<1>3. ASSUME NEW h \in Host, ReachFails(h) PROVE EarlyPump'
  BY <1>3 DEF ReachFails, TypeOK, Tried, Early, EarlyPump, Task
<1>4. ASSUME NEW h \in Host, Checks(h) PROVE EarlyPump'
  BY <1>4 DEF Checks, TypeOK, Tried, Early, EarlyPump
<1>5. ASSUME NEW h \in Host, Registers(h) PROVE EarlyPump'
  BY <1>5 DEF Registers, TypeOK, Tried, Early, EarlyPump
<1>6. ASSUME NEW h \in Host, Tells(h) PROVE EarlyPump'
  BY <1>6 DEF Tells, TypeOK, Tried, Early, EarlyPump
<1>7. ASSUME NEW h \in Host, PutsBack(h) PROVE EarlyPump'
  BY <1>7 DEF PutsBack, TypeOK, Tried, Early, EarlyPump
<1>8. ASSUME NEW h \in Host, TriedAll(h) PROVE EarlyPump'
  BY <1>8 DEF TriedAll, TypeOK, Tried, Early, EarlyPump, Task
<1>9. ASSUME NEW h \in Host, Leaves(h) PROVE EarlyPump'
  BY <1>9 DEF Leaves, TypeOK, Tried, Early, EarlyPump, Task
<1>10. ASSUME NEW h \in Host, Rechecks(h) PROVE EarlyPump'
  BY <1>10 DEF Rechecks, TypeOK, Tried, Early, EarlyPump, Task, ReachHost
<1>11. ASSUME NEW h \in Host, Lost(h) PROVE EarlyPump'
  BY <1>11 DEF Lost, TypeOK, Tried, Early, EarlyPump
<1>12. ASSUME NEW h \in Host, NEW b \in Buffer, Attaches(h, b) PROVE EarlyPump'
  BY <1>12 DEF Attaches, TypeOK, Tried, Early, EarlyPump, Attached
<1>13. ASSUME NEW h \in Host, NEW b \in Buffer, AttachFails(h, b) PROVE EarlyPump'
  BY <1>13 DEF AttachFails, TypeOK, Tried, Early, EarlyPump, Attached
<1>14. ASSUME NEW b \in Buffer, PumpExited(b) PROVE EarlyPump'
  BY <1>14 DEF PumpExited, TypeOK, Tried, Early, EarlyPump
<1>15. ASSUME NEW b \in Buffer, PumpLost(b) PROVE EarlyPump'
  BY <1>15 DEF PumpLost, TypeOK, Tried, Early, EarlyPump
<1>16. ASSUME NEW b \in Buffer, Create(b) PROVE EarlyPump'
  BY <1>16 DEF Create, TypeOK, Tried, Early, EarlyPump
<1>17. ASSUME NEW b \in Buffer, StartConnects(b) PROVE EarlyPump'
  BY <1>17 DEF StartConnects, TypeOK, Tried, Early, EarlyPump
<1>18. ASSUME NEW b \in Buffer, StartSpawns(b) PROVE EarlyPump'
  BY <1>18 DEF StartSpawns, TypeOK, Tried, Early, EarlyPump
<1>19. ASSUME NEW b \in Buffer, StartFails(b) PROVE EarlyPump'
  BY <1>19 DEF StartFails, TypeOK, Tried, Early, EarlyPump
<1>20. ASSUME NEW b \in Buffer, StartRegisters(b) PROVE EarlyPump'
  BY <1>20 DEF StartRegisters, TypeOK, Tried, Early, EarlyPump
<1>21. ASSUME NEW b \in Buffer, StartPlaces(b) PROVE EarlyPump'
  BY <1>21 DEF StartPlaces, TypeOK, Tried, Early, EarlyPump, ApplyStatus, MarkRunning, MarkExited, Known
<1>22. ASSUME NEW b \in Buffer, KillLooks(b) PROVE EarlyPump'
  BY <1>22 DEF KillLooks, TypeOK, Tried, Early, EarlyPump
<1>23. ASSUME NEW b \in Buffer, Kills(b) PROVE EarlyPump'
  BY <1>23 DEF Kills, TypeOK, Tried, Early, EarlyPump
<1>24. ASSUME NEW b \in Buffer, Disposes(b) PROVE EarlyPump'
  BY <1>24 DEF Disposes, TypeOK, Tried, Early, EarlyPump
<1>25. ASSUME NEW b \in Buffer, HostActs(b) PROVE EarlyPump'
  BY <1>25 DEF HostActs, TypeOK, Tried, Early, EarlyPump
<1>26. ASSUME NEW c \in calls, Reports(c) PROVE EarlyPump'
  BY <1>26 DEF Reports, TypeOK, Tried, Early, EarlyPump, Task, ReachHost, EndCall
<1>27. ASSUME NEW t \in ends, EndChecks(t) PROVE EarlyPump'
  BY <1>27 DEF EndChecks, TypeOK, Tried, Early, EarlyPump
<1>28. ASSUME NEW t \in ends, EndMarks(t) PROVE EarlyPump'
  BY <1>28 DEF EndMarks, TypeOK, Tried, Early, EarlyPump, MarkExited, MarkInterrupted, Known
<1>29. ASSUME NEW t \in taken, TakenUp(t) PROVE EarlyPump'
  BY <1>29 DEF TakenUp, TypeOK, Tried, Early, EarlyPump, ApplyStatus, MarkRunning, MarkExited, Known
<1>30. ASSUME NEW r \in releasing, ReleaseWaiting(r) PROVE EarlyPump'
  BY <1>30 DEF ReleaseWaiting, TypeOK, Tried, Early, EarlyPump, Release
<1>31. ASSUME NEW r \in releasing, ReleaseRunning(r) PROVE EarlyPump'
  BY <1>31 DEF ReleaseRunning, TypeOK, Tried, Early, EarlyPump, Release
<1>32. CASE UNCHANGED vars
  BY <1>32 DEF vars, Tried, Early, EarlyPump
<1>33. QED
  BY <1>1, <1>2, <1>3, <1>4, <1>5, <1>6, <1>7, <1>8, <1>9, <1>10, <1>11, <1>12, <1>13, <1>14, <1>15, <1>16, <1>17, <1>18, <1>19, <1>20, <1>21, <1>22, <1>23, <1>24, <1>25, <1>26, <1>27, <1>28, <1>29, <1>30, <1>31, <1>32
     DEF Next, Reaching, Following, Tasks, Starting, Requests

\* What is tried has at most the pump it was attached with.
LEMMA TriedPumpStep ==
    TypeOK /\ OwnHost /\ TriedOnce /\ Early /\ TriedPump /\ [Next]_vars => TriedPump'
<1> SUFFICES ASSUME TypeOK, OwnHost, TriedOnce, Early, TriedPump, [Next]_vars PROVE TriedPump'
  OBVIOUS
<1> USE HostAssumption
<1>1. ASSUME NEW h \in Host, Wakes(h) PROVE TriedPump'
  BY <1>1 DEF Wakes, TypeOK, TriedOnce, Tried, OwnHost, Early, TriedPump, TaskHolds, Task
<1>2. ASSUME NEW h \in Host, Reaches(h) PROVE TriedPump'
  <2>1. \A g \in Host : g # h => reach'[g] = reach[g]
    BY <1>2 DEF Reaches, TypeOK
  <2>2. /\ reach'[h].stage = "take" /\ reach'[h].todo = {b \in waiting : HostOf[b] = h}
        /\ reach'[h].buf = None
    BY <1>2 DEF Reaches, TypeOK, Task
  <2>3. \A g \in Host : reach'[g].stage = "register" => reach'[g].found = "ok"
    BY <1>2, <2>1, <2>2 DEF TriedPump, Reaches
  <2>4. \A b \in waiting' : pump'[b] = 0 \/ \E g \in Host : TaskHolds(g, b)'
    BY <1>2, <2>1, <2>2 DEF Reaches, TriedPump, TaskHolds, Tried, TriedOnce, TypeOK
  <2>5. \A g \in Host : \A b \in Tried(g)' : pump'[b] = 0 \/ (TaskHolds(g, b)' /\ pump'[b] = reach'[g].epoch)
    <3>1. ASSUME NEW g \in Host, g # h, NEW b \in Tried(g)'
          PROVE pump'[b] = 0 \/ (TaskHolds(g, b)' /\ pump'[b] = reach'[g].epoch)
      BY <1>2, <2>1, <3>1 DEF Reaches, TriedPump, TaskHolds, Tried, OwnHost, TypeOK
    <3>2. ASSUME NEW b \in Tried(h)'
          PROVE pump'[b] = 0 \/ (TaskHolds(h, b)' /\ pump'[b] = reach'[h].epoch)
      <4>1. b \in waiting /\ HostOf[b] = h
        BY <2>2, <3>2 DEF Tried
      <4>2. \A g \in Host : ~TaskHolds(g, b)
        BY <1>2, <4>1 DEF Reaches, TaskHolds, OwnHost
      <4> QED
        BY <1>2, <4>1, <4>2 DEF Reaches, TriedPump
    <3> QED
      BY <3>1, <3>2
  <2> QED
    BY <2>3, <2>4, <2>5 DEF TriedPump
<1>3. ASSUME NEW h \in Host, ReachFails(h) PROVE TriedPump'
  BY <1>3 DEF ReachFails, TypeOK, TriedOnce, Tried, OwnHost, Early, TriedPump, TaskHolds, Task
<1>4. ASSUME NEW h \in Host, Checks(h) PROVE TriedPump'
  BY <1>4 DEF Checks, TypeOK, TriedOnce, Tried, OwnHost, Early, TriedPump, TaskHolds
<1>5. ASSUME NEW h \in Host, Registers(h) PROVE TriedPump'
  <2>1. \A g \in Host : g # h => reach'[g] = reach[g]
    BY <1>5 DEF Registers, TypeOK
  <2>2. /\ reach'[h].stage = "tell" /\ reach'[h].todo = reach[h].todo
        /\ reach'[h].buf = reach[h].buf /\ reach'[h].epoch = reach[h].epoch
    BY <1>5 DEF Registers, TypeOK
  <2>3. \A g \in Host : reach'[g].stage = "register" => reach'[g].found = "ok"
    BY <1>5, <2>1, <2>2 DEF TriedPump, Registers
  <2>4. ASSUME NEW b \in waiting' PROVE pump'[b] = 0 \/ \E g \in Host : TaskHolds(g, b)'
    <3>1. CASE b \in waiting /\ pump[b] # 0
      <4>1. PICK g \in Host : TaskHolds(g, b)
        BY <3>1 DEF TriedPump
      <4>2. g # h
        BY <1>5, <3>1, <4>1 DEF Registers, TaskHolds, TriedOnce
      <4> QED
        BY <2>1, <4>1, <4>2 DEF TaskHolds
    <3> QED
      BY <1>5, <3>1 DEF Registers
  <2>5. \A g \in Host : \A b \in Tried(g)' : pump'[b] = 0 \/ (TaskHolds(g, b)' /\ pump'[b] = reach'[g].epoch)
    <3>1. ASSUME NEW g \in Host, g # h, NEW b \in Tried(g)'
          PROVE pump'[b] = 0 \/ (TaskHolds(g, b)' /\ pump'[b] = reach'[g].epoch)
      BY <1>5, <2>1, <3>1 DEF Registers, TriedPump, TaskHolds, Tried, OwnHost, TypeOK
    <3>2. ASSUME NEW b \in Tried(h)'
          PROVE pump'[b] = 0 \/ (TaskHolds(h, b)' /\ pump'[b] = reach'[h].epoch)
      BY <1>5, <2>2, <3>2 DEF Registers, TriedPump, TaskHolds, Tried, TriedOnce, OwnHost, TypeOK
    <3> QED
      BY <3>1, <3>2
  <2> QED
    BY <2>3, <2>4, <2>5 DEF TriedPump
<1>6. ASSUME NEW h \in Host, Tells(h) PROVE TriedPump'
  BY <1>6 DEF Tells, TypeOK, TriedOnce, Tried, OwnHost, Early, TriedPump, TaskHolds
<1>7. ASSUME NEW h \in Host, PutsBack(h) PROVE TriedPump'
  <2>1. \A g \in Host : g # h => reach'[g] = reach[g]
    BY <1>7 DEF PutsBack, TypeOK
  <2>2. /\ reach'[h].stage = "take" /\ reach'[h].todo = reach[h].todo
        /\ reach'[h].buf = reach[h].buf /\ reach'[h].epoch = reach[h].epoch
    BY <1>7 DEF PutsBack, TypeOK
  <2>3. \A g \in Host : reach'[g].stage = "register" => reach'[g].found = "ok"
    BY <1>7, <2>1, <2>2 DEF TriedPump, PutsBack
  <2>4. ASSUME NEW b \in waiting' PROVE pump'[b] = 0 \/ \E g \in Host : TaskHolds(g, b)'
    <3>1. CASE b \in waiting /\ pump[b] # 0
      <4>1. PICK g \in Host : TaskHolds(g, b)
        BY <3>1 DEF TriedPump
      <4>2. g # h
        BY <1>7, <3>1, <4>1 DEF PutsBack, TaskHolds, TriedOnce
      <4> QED
        BY <2>1, <4>1, <4>2 DEF TaskHolds
    <3>2. CASE b = reach[h].buf
      <4>1. b \in Tried(h) /\ ~TaskHolds(h, b)
        BY <1>7, <3>2 DEF PutsBack, Tried, TaskHolds
      <4> QED
        BY <1>7, <4>1 DEF PutsBack, TriedPump
    <3> QED
      BY <1>7, <3>1, <3>2 DEF PutsBack
  <2>5. \A g \in Host : \A b \in Tried(g)' : pump'[b] = 0 \/ (TaskHolds(g, b)' /\ pump'[b] = reach'[g].epoch)
    <3>1. ASSUME NEW g \in Host, g # h, NEW b \in Tried(g)'
          PROVE pump'[b] = 0 \/ (TaskHolds(g, b)' /\ pump'[b] = reach'[g].epoch)
      BY <1>7, <2>1, <3>1 DEF PutsBack, TriedPump, TaskHolds, Tried, OwnHost, TypeOK
    <3>2. ASSUME NEW b \in Tried(h)'
          PROVE pump'[b] = 0 \/ (TaskHolds(h, b)' /\ pump'[b] = reach'[h].epoch)
      BY <1>7, <2>2, <3>2 DEF PutsBack, TriedPump, TaskHolds, Tried, TriedOnce, OwnHost, TypeOK
    <3> QED
      BY <3>1, <3>2
  <2> QED
    BY <2>3, <2>4, <2>5 DEF TriedPump
<1>8. ASSUME NEW h \in Host, TriedAll(h) PROVE TriedPump'
  <2>1. \A g \in Host : g # h => reach'[g] = reach[g]
    BY <1>8 DEF TriedAll, TypeOK
  <2>2. /\ reach'[h].stage \in {"leave", "sleep"} /\ reach'[h].todo = {}
        /\ reach'[h].buf = None
    BY <1>8 DEF TriedAll, TypeOK, Task
  <2>3. \A g \in Host : reach'[g].stage = "register" => reach'[g].found = "ok"
    BY <1>8, <2>1, <2>2 DEF TriedPump, TriedAll
  <2>4. \A b \in waiting' : pump'[b] = 0 \/ \E g \in Host : TaskHolds(g, b)'
    BY <1>8, <2>1, <2>2 DEF TriedAll, TriedPump, TaskHolds, Tried, TriedOnce, TypeOK
  <2>5. \A g \in Host : \A b \in Tried(g)' : pump'[b] = 0 \/ (TaskHolds(g, b)' /\ pump'[b] = reach'[g].epoch)
    <3>1. ASSUME NEW g \in Host, g # h, NEW b \in Tried(g)'
          PROVE pump'[b] = 0 \/ (TaskHolds(g, b)' /\ pump'[b] = reach'[g].epoch)
      BY <1>8, <2>1, <3>1 DEF TriedAll, TriedPump, TaskHolds, Tried, OwnHost, TypeOK
    <3>2. ASSUME NEW b \in Tried(h)'
          PROVE pump'[b] = 0 \/ (TaskHolds(h, b)' /\ pump'[b] = reach'[h].epoch)
      BY <1>8, <2>2, <3>2 DEF TriedAll, TriedPump, TaskHolds, Tried, TriedOnce, OwnHost, TypeOK
    <3> QED
      BY <3>1, <3>2
  <2> QED
    BY <2>3, <2>4, <2>5 DEF TriedPump
<1>9. ASSUME NEW h \in Host, Leaves(h) PROVE TriedPump'
  BY <1>9 DEF Leaves, TypeOK, TriedOnce, Tried, OwnHost, Early, TriedPump, TaskHolds, Task
<1>10. ASSUME NEW h \in Host, Rechecks(h) PROVE TriedPump'
  BY <1>10 DEF Rechecks, TypeOK, TriedOnce, Tried, OwnHost, Early, TriedPump, TaskHolds, Task, ReachHost
<1>11. ASSUME NEW h \in Host, Lost(h) PROVE TriedPump'
  BY <1>11 DEF Lost, TypeOK, TriedOnce, Tried, OwnHost, Early, TriedPump, TaskHolds
<1>12. ASSUME NEW h \in Host, NEW b \in Buffer, Attaches(h, b) PROVE TriedPump'
  <2>1. \A g \in Host : g # h => reach'[g] = reach[g]
    BY <1>12 DEF Attaches, TypeOK
  <2>2. /\ reach'[h].stage = "attached" /\ reach'[h].todo = reach[h].todo \ {b}
        /\ reach'[h].buf = b /\ reach'[h].epoch = reach[h].epoch
        /\ reach'[h].found = "ok" \/ pump' = pump
    BY <1>12 DEF Attaches, TypeOK, Attached
  <2>3. \A g \in Host : reach'[g].stage = "register" => reach'[g].found = "ok"
    BY <1>12, <2>1, <2>2 DEF TriedPump, Attaches
  <2>4. \A x \in waiting' : pump'[x] = 0 \/ \E g \in Host : TaskHolds(g, x)'
    BY <1>12, <2>1, <2>2 DEF Attaches, TriedPump, TaskHolds, Tried, TriedOnce, TypeOK
  <2>5. \A g \in Host : \A x \in Tried(g)' : pump'[x] = 0 \/ (TaskHolds(g, x)' /\ pump'[x] = reach'[g].epoch)
    <3>1. ASSUME NEW g \in Host, g # h, NEW x \in Tried(g)'
          PROVE pump'[x] = 0 \/ (TaskHolds(g, x)' /\ pump'[x] = reach'[g].epoch)
      <4>1. x \in Tried(g) /\ HostOf[x] = g
        BY <2>1, <3>1 DEF Tried, OwnHost
      <4>2. HostOf[b] = h
        BY <1>12 DEF Attaches, OwnHost
      <4>3. x # b /\ pump'[x] = pump[x]
        BY <1>12, <3>1, <4>1, <4>2, TriedBuffers DEF Attaches, TypeOK
      <4> QED
        BY <2>1, <3>1, <4>1, <4>3 DEF TriedPump, TaskHolds
    <3>2. ASSUME NEW x \in Tried(h)'
          PROVE pump'[x] = 0 \/ (TaskHolds(h, x)' /\ pump'[x] = reach'[h].epoch)
      <4>1. \A y \in reach[h].todo : pump[y] = 0
        BY <1>12 DEF Attaches, TriedPump, TaskHolds, Tried
      <4>2. CASE x = b /\ reach'[h].found = "ok"
        <5>1. TaskHolds(h, b)'
          BY <2>2, <4>2 DEF TaskHolds
        <5>2. pump'[b] = 0 \/ pump'[b] = reach[h].epoch
          BY <1>12, <4>1 DEF Attaches, TypeOK
        <5> QED
          BY <2>2, <4>2, <5>1, <5>2
      <4>3. CASE x = b /\ pump' = pump
        BY <1>12, <4>1, <4>3 DEF Attaches
      <4>4. CASE x # b
        <5>1. x \in reach[h].todo
          BY <2>2, <3>2, <4>4 DEF Tried
        <5>2. x \in Buffer /\ pump'[x] = pump[x]
          BY <1>12, <4>4, <5>1, TaskFields DEF Attaches, TypeOK
        <5> QED
          BY <4>1, <5>1, <5>2
      <4> QED
        BY <2>2, <4>2, <4>3, <4>4
    <3> QED
      BY <3>1, <3>2
  <2> QED
    BY <2>3, <2>4, <2>5 DEF TriedPump
<1>13. ASSUME NEW h \in Host, NEW b \in Buffer, AttachFails(h, b) PROVE TriedPump'
  BY <1>13 DEF AttachFails, TypeOK, TriedOnce, Tried, OwnHost, Early, TriedPump, TaskHolds, Attached
<1>14. ASSUME NEW b \in Buffer, PumpExited(b) PROVE TriedPump'
  BY <1>14 DEF PumpExited, TypeOK, TriedOnce, Tried, OwnHost, Early, TriedPump, TaskHolds
<1>15. ASSUME NEW b \in Buffer, PumpLost(b) PROVE TriedPump'
  BY <1>15 DEF PumpLost, TypeOK, TriedOnce, Tried, OwnHost, Early, TriedPump, TaskHolds
<1>16. ASSUME NEW b \in Buffer, Create(b) PROVE TriedPump'
  BY <1>16 DEF Create, TypeOK, TriedOnce, Tried, OwnHost, Early, TriedPump, TaskHolds
<1>17. ASSUME NEW b \in Buffer, StartConnects(b) PROVE TriedPump'
  BY <1>17 DEF StartConnects, TypeOK, TriedOnce, Tried, OwnHost, Early, TriedPump, TaskHolds
<1>18. ASSUME NEW b \in Buffer, StartSpawns(b) PROVE TriedPump'
  BY <1>18 DEF StartSpawns, TypeOK, TriedOnce, Tried, OwnHost, Early, TriedPump, TaskHolds
<1>19. ASSUME NEW b \in Buffer, StartFails(b) PROVE TriedPump'
  BY <1>19 DEF StartFails, TypeOK, TriedOnce, Tried, OwnHost, Early, TriedPump, TaskHolds
<1>20. ASSUME NEW b \in Buffer, StartRegisters(b) PROVE TriedPump'
  BY <1>20 DEF StartRegisters, TypeOK, TriedOnce, Tried, OwnHost, Early, TriedPump, TaskHolds
<1>21. ASSUME NEW b \in Buffer, StartPlaces(b) PROVE TriedPump'
  <2>1. waiting' = waiting /\ reach' = reach /\ \A x \in Buffer : pump'[x] \in {pump[x], 0}
    BY <1>21 DEF StartPlaces, TypeOK
  <2>2. \A h \in Host : Tried(h)' = Tried(h) /\ Tried(h) \subseteq Buffer
    BY <2>1, TriedBuffers DEF Tried
  <2>3. waiting \subseteq Buffer /\ \A h \in Host, x \in Buffer : TaskHolds(h, x)' = TaskHolds(h, x)
    BY <2>1 DEF TaskHolds, TypeOK
  <2> QED
    BY <2>1, <2>2, <2>3 DEF TriedPump
<1>22. ASSUME NEW b \in Buffer, KillLooks(b) PROVE TriedPump'
  BY <1>22 DEF KillLooks, TypeOK, TriedOnce, Tried, OwnHost, Early, TriedPump, TaskHolds
<1>23. ASSUME NEW b \in Buffer, Kills(b) PROVE TriedPump'
  BY <1>23 DEF Kills, TypeOK, TriedOnce, Tried, OwnHost, Early, TriedPump, TaskHolds
<1>24. ASSUME NEW b \in Buffer, Disposes(b) PROVE TriedPump'
  BY <1>24 DEF Disposes, TypeOK, TriedOnce, Tried, OwnHost, Early, TriedPump, TaskHolds
<1>25. ASSUME NEW b \in Buffer, HostActs(b) PROVE TriedPump'
  BY <1>25 DEF HostActs, TypeOK, TriedOnce, Tried, OwnHost, Early, TriedPump, TaskHolds
<1>26. ASSUME NEW c \in calls, Reports(c) PROVE TriedPump'
  BY <1>26 DEF Reports, TypeOK, TriedOnce, Tried, OwnHost, Early, TriedPump, TaskHolds, Task, ReachHost, EndCall
<1>27. ASSUME NEW t \in ends, EndChecks(t) PROVE TriedPump'
  BY <1>27 DEF EndChecks, TypeOK, TriedOnce, Tried, OwnHost, Early, TriedPump, TaskHolds
<1>28. ASSUME NEW t \in ends, EndMarks(t) PROVE TriedPump'
  BY <1>28 DEF EndMarks, TypeOK, TriedOnce, Tried, OwnHost, Early, TriedPump, TaskHolds, MarkExited, MarkInterrupted, Known
<1>29. ASSUME NEW t \in taken, TakenUp(t) PROVE TriedPump'
  BY <1>29 DEF TakenUp, TypeOK, TriedOnce, Tried, OwnHost, Early, TriedPump, TaskHolds, ApplyStatus, MarkRunning, MarkExited, Known
<1>30. ASSUME NEW r \in releasing, ReleaseWaiting(r) PROVE TriedPump'
  BY <1>30 DEF ReleaseWaiting, TypeOK, TriedOnce, Tried, OwnHost, Early, TriedPump, TaskHolds, Release
<1>31. ASSUME NEW r \in releasing, ReleaseRunning(r) PROVE TriedPump'
  BY <1>31 DEF ReleaseRunning, TypeOK, TriedOnce, Tried, OwnHost, Early, TriedPump, TaskHolds, Release
<1>32. CASE UNCHANGED vars
  BY <1>32 DEF vars, TriedOnce, Tried, OwnHost, Early, TriedPump, TaskHolds
<1>33. QED
  BY <1>1, <1>2, <1>3, <1>4, <1>5, <1>6, <1>7, <1>8, <1>9, <1>10, <1>11, <1>12, <1>13, <1>14, <1>15, <1>16, <1>17, <1>18, <1>19, <1>20, <1>21, <1>22, <1>23, <1>24, <1>25, <1>26, <1>27, <1>28, <1>29, <1>30, <1>31, <1>32
     DEF Next, Reaching, Following, Tasks, Starting, Requests

\* A pump stays with whoever holds its handle.
LEMMA PumpStep ==
    TypeOK /\ OwnHost /\ EarlyPump /\ TriedPump /\ PumpIsHeld /\ [Next]_vars => PumpIsHeld'
<1> SUFFICES ASSUME TypeOK, OwnHost, EarlyPump, TriedPump, PumpIsHeld, [Next]_vars PROVE PumpIsHeld'
  OBVIOUS
<1> USE HostAssumption
<1>1. ASSUME NEW h \in Host, Wakes(h) PROVE PumpIsHeld'
  BY <1>1 DEF Wakes, TypeOK, EarlyPump, TriedPump, TaskHolds, Tried, PumpIsHeld, Holds, Task
<1>2. ASSUME NEW h \in Host, Reaches(h) PROVE PumpIsHeld'
  BY <1>2 DEF Reaches, TypeOK, EarlyPump, TriedPump, TaskHolds, Tried, PumpIsHeld, Holds, Task
<1>3. ASSUME NEW h \in Host, ReachFails(h) PROVE PumpIsHeld'
  BY <1>3 DEF ReachFails, TypeOK, EarlyPump, TriedPump, TaskHolds, Tried, PumpIsHeld, Holds, Task
<1>4. ASSUME NEW h \in Host, Checks(h) PROVE PumpIsHeld'
  BY <1>4 DEF Checks, TypeOK, EarlyPump, TriedPump, TaskHolds, Tried, PumpIsHeld, Holds
<1>5. ASSUME NEW h \in Host, Registers(h) PROVE PumpIsHeld'
  <2>1. \A g \in Host : g # h => reach'[g] = reach[g]
    BY <1>5 DEF Registers, TypeOK
  <2>2. reach[h].buf \in Buffer /\ reach[h].buf \in Tried(h)
    BY <1>5, TaskFields DEF Registers, TypeOK, Tried
  <2>3. pump[reach[h].buf] \in {0, reach[h].epoch}
    BY <2>2 DEF TriedPump
  <2>4. ASSUME NEW x \in Buffer, pump'[x] # 0 PROVE running'[x] = pump'[x] \/ Holds(x)'
    <3>1. CASE x = reach[h].buf
      BY <1>5, <2>2, <2>3, <2>4, <3>1 DEF Registers, TypeOK
    <3>2. CASE x # reach[h].buf
      BY <1>5, <2>1, <2>2, <2>4, <3>2 DEF Registers, PumpIsHeld, Holds, TypeOK
    <3> QED
      BY <3>1, <3>2
  <2> QED
    BY <2>4 DEF PumpIsHeld
<1>6. ASSUME NEW h \in Host, Tells(h) PROVE PumpIsHeld'
  BY <1>6 DEF Tells, TypeOK, EarlyPump, TriedPump, TaskHolds, Tried, PumpIsHeld, Holds
<1>7. ASSUME NEW h \in Host, PutsBack(h) PROVE PumpIsHeld'
  BY <1>7 DEF PutsBack, TypeOK, EarlyPump, TriedPump, TaskHolds, Tried, PumpIsHeld, Holds
<1>8. ASSUME NEW h \in Host, TriedAll(h) PROVE PumpIsHeld'
  BY <1>8 DEF TriedAll, TypeOK, EarlyPump, TriedPump, TaskHolds, Tried, PumpIsHeld, Holds, Task
<1>9. ASSUME NEW h \in Host, Leaves(h) PROVE PumpIsHeld'
  BY <1>9 DEF Leaves, TypeOK, EarlyPump, TriedPump, TaskHolds, Tried, PumpIsHeld, Holds, Task
<1>10. ASSUME NEW h \in Host, Rechecks(h) PROVE PumpIsHeld'
  BY <1>10 DEF Rechecks, TypeOK, EarlyPump, TriedPump, TaskHolds, Tried, PumpIsHeld, Holds, Task, ReachHost
<1>11. ASSUME NEW h \in Host, Lost(h) PROVE PumpIsHeld'
  BY <1>11 DEF Lost, TypeOK, EarlyPump, TriedPump, TaskHolds, Tried, PumpIsHeld, Holds
<1>12. ASSUME NEW h \in Host, NEW b \in Buffer, Attaches(h, b) PROVE PumpIsHeld'
  <2>1. \A x \in Buffer : Holds(x) => Holds(x)'
    BY <1>12 DEF Attaches, Holds, Attached, TypeOK
  <2>2. CASE prog[b] \in {"running", "exited"}
    <3>1. Holds(b)'
      BY <1>12, <2>2 DEF Attaches, Holds, Attached, TypeOK
    <3>2. \A x \in Buffer \ {b} : pump'[x] = pump[x] /\ running'[x] = running[x]
      BY <1>12 DEF Attaches, TypeOK
    <3> QED
      BY <2>1, <3>1, <3>2 DEF PumpIsHeld
  <2>3. CASE prog[b] \notin {"running", "exited"}
    BY <1>12, <2>1, <2>3 DEF Attaches, PumpIsHeld
  <2> QED
    BY <2>2, <2>3
<1>13. ASSUME NEW h \in Host, NEW b \in Buffer, AttachFails(h, b) PROVE PumpIsHeld'
  BY <1>13 DEF AttachFails, TypeOK, EarlyPump, TriedPump, TaskHolds, Tried, PumpIsHeld, Holds, Attached
<1>14. ASSUME NEW b \in Buffer, PumpExited(b) PROVE PumpIsHeld'
  BY <1>14 DEF PumpExited, TypeOK, EarlyPump, TriedPump, TaskHolds, Tried, PumpIsHeld, Holds
<1>15. ASSUME NEW b \in Buffer, PumpLost(b) PROVE PumpIsHeld'
  BY <1>15 DEF PumpLost, TypeOK, EarlyPump, TriedPump, TaskHolds, Tried, PumpIsHeld, Holds
<1>16. ASSUME NEW b \in Buffer, Create(b) PROVE PumpIsHeld'
  BY <1>16 DEF Create, TypeOK, EarlyPump, TriedPump, TaskHolds, Tried, PumpIsHeld, Holds
<1>17. ASSUME NEW b \in Buffer, StartConnects(b) PROVE PumpIsHeld'
  BY <1>17 DEF StartConnects, TypeOK, EarlyPump, TriedPump, TaskHolds, Tried, PumpIsHeld, Holds
<1>18. ASSUME NEW b \in Buffer, StartSpawns(b) PROVE PumpIsHeld'
  BY <1>18 DEF StartSpawns, TypeOK, EarlyPump, TriedPump, TaskHolds, Tried, PumpIsHeld, Holds
<1>19. ASSUME NEW b \in Buffer, StartFails(b) PROVE PumpIsHeld'
  BY <1>19 DEF StartFails, TypeOK, EarlyPump, TriedPump, TaskHolds, Tried, PumpIsHeld, Holds
<1>20. ASSUME NEW b \in Buffer, StartRegisters(b) PROVE PumpIsHeld'
  BY <1>20 DEF StartRegisters, TypeOK, EarlyPump, TriedPump, TaskHolds, Tried, PumpIsHeld, Holds
<1>21. ASSUME NEW b \in Buffer, StartPlaces(b) PROVE PumpIsHeld'
  BY <1>21 DEF StartPlaces, TypeOK, EarlyPump, TriedPump, TaskHolds, Tried, PumpIsHeld, Holds, ApplyStatus, MarkRunning, MarkExited, Known
<1>22. ASSUME NEW b \in Buffer, KillLooks(b) PROVE PumpIsHeld'
  BY <1>22 DEF KillLooks, TypeOK, EarlyPump, TriedPump, TaskHolds, Tried, PumpIsHeld, Holds
<1>23. ASSUME NEW b \in Buffer, Kills(b) PROVE PumpIsHeld'
  BY <1>23 DEF Kills, TypeOK, EarlyPump, TriedPump, TaskHolds, Tried, PumpIsHeld, Holds
<1>24. ASSUME NEW b \in Buffer, Disposes(b) PROVE PumpIsHeld'
  BY <1>24 DEF Disposes, TypeOK, EarlyPump, TriedPump, TaskHolds, Tried, PumpIsHeld, Holds
<1>25. ASSUME NEW b \in Buffer, HostActs(b) PROVE PumpIsHeld'
  BY <1>25 DEF HostActs, TypeOK, EarlyPump, TriedPump, TaskHolds, Tried, PumpIsHeld, Holds
<1>26. ASSUME NEW c \in calls, Reports(c) PROVE PumpIsHeld'
  BY <1>26 DEF Reports, TypeOK, EarlyPump, TriedPump, TaskHolds, Tried, PumpIsHeld, Holds, Task, ReachHost, EndCall
<1>27. ASSUME NEW t \in ends, EndChecks(t) PROVE PumpIsHeld'
  BY <1>27 DEF EndChecks, TypeOK, EarlyPump, TriedPump, TaskHolds, Tried, PumpIsHeld, Holds
<1>28. ASSUME NEW t \in ends, EndMarks(t) PROVE PumpIsHeld'
  BY <1>28 DEF EndMarks, TypeOK, EarlyPump, TriedPump, TaskHolds, Tried, PumpIsHeld, Holds, MarkExited, MarkInterrupted, Known
<1>29. ASSUME NEW t \in taken, TakenUp(t) PROVE PumpIsHeld'
  BY <1>29 DEF TakenUp, TypeOK, EarlyPump, TriedPump, TaskHolds, Tried, PumpIsHeld, Holds, ApplyStatus, MarkRunning, MarkExited, Known
<1>30. ASSUME NEW r \in releasing, ReleaseWaiting(r) PROVE PumpIsHeld'
  BY <1>30 DEF ReleaseWaiting, TypeOK, EarlyPump, TriedPump, TaskHolds, Tried, PumpIsHeld, Holds, Release
<1>31. ASSUME NEW r \in releasing, ReleaseRunning(r) PROVE PumpIsHeld'
  BY <1>31 DEF ReleaseRunning, TypeOK, EarlyPump, TriedPump, TaskHolds, Tried, PumpIsHeld, Holds, Release
<1>32. CASE UNCHANGED vars
  BY <1>32 DEF vars, EarlyPump, TriedPump, TaskHolds, Tried, PumpIsHeld, Holds
<1>33. QED
  BY <1>1, <1>2, <1>3, <1>4, <1>5, <1>6, <1>7, <1>8, <1>9, <1>10, <1>11, <1>12, <1>13, <1>14, <1>15, <1>16, <1>17, <1>18, <1>19, <1>20, <1>21, <1>22, <1>23, <1>24, <1>25, <1>26, <1>27, <1>28, <1>29, <1>30, <1>31, <1>32
     DEF Next, Reaching, Following, Tasks, Starting, Requests

\* The runtime of a removed record keeps somebody who will release it.
LEMMA RemovedStep ==
    TypeOK /\ OwnHost /\ Early /\ RemovedIsReleased /\ [Next]_vars => RemovedIsReleased'
<1> SUFFICES ASSUME TypeOK, OwnHost, Early, RemovedIsReleased, [Next]_vars PROVE RemovedIsReleased'
  OBVIOUS
<1> USE HostAssumption
<1>1. ASSUME NEW h \in Host, Wakes(h) PROVE RemovedIsReleased'
  BY <1>1 DEF Wakes, TypeOK, Early, RemovedIsReleased, ReleaseDue, Task
<1>2. ASSUME NEW h \in Host, Reaches(h) PROVE RemovedIsReleased'
  BY <1>2 DEF Reaches, TypeOK, Early, RemovedIsReleased, ReleaseDue, Task
<1>3. ASSUME NEW h \in Host, ReachFails(h) PROVE RemovedIsReleased'
  BY <1>3 DEF ReachFails, TypeOK, Early, RemovedIsReleased, ReleaseDue, Task
<1>4. ASSUME NEW h \in Host, Checks(h) PROVE RemovedIsReleased'
  BY <1>4 DEF Checks, TypeOK, Early, RemovedIsReleased, ReleaseDue
<1>5. ASSUME NEW h \in Host, Registers(h) PROVE RemovedIsReleased'
  <2> SUFFICES ASSUME NEW x \in Buffer, running'[x] # 0, rec'[x] = "removed"
               PROVE ReleaseDue(x)' \/ killed'[x] = "registered"
    BY DEF RemovedIsReleased
  <2>1. \A g \in Host : g # h => reach'[g] = reach[g]
    BY <1>5 DEF Registers, TypeOK
  <2>2. reach'[h].stage = "tell" /\ reach'[h].buf = reach[h].buf
    BY <1>5 DEF Registers, TypeOK
  <2>3. CASE x = reach[h].buf
    BY <2>2, <2>3 DEF ReleaseDue
  <2>4. CASE x # reach[h].buf
    BY <1>5, <2>1, <2>4 DEF Registers, RemovedIsReleased, ReleaseDue, TypeOK
  <2> QED
    BY <2>3, <2>4
<1>6. ASSUME NEW h \in Host, Tells(h) PROVE RemovedIsReleased'
  <2> SUFFICES ASSUME NEW x \in Buffer, running'[x] # 0, rec'[x] = "removed"
               PROVE ReleaseDue(x)' \/ killed'[x] = "registered"
    BY DEF RemovedIsReleased
  <2>1. \A g \in Host : g # h => reach'[g] = reach[g]
    BY <1>6 DEF Tells, TypeOK
  <2> DEFINE t == [buf |-> reach[h].buf, epoch |-> reach[h].epoch, status |-> reach[h].found]
  <2>2. t \in taken' /\ t.buf = reach[h].buf
    BY <1>6 DEF Tells
  <2>3. CASE x = reach[h].buf
    BY <2>2, <2>3 DEF ReleaseDue
  <2>4. CASE x # reach[h].buf
    BY <1>6, <2>1, <2>4 DEF Tells, RemovedIsReleased, ReleaseDue, TypeOK
  <2> QED
    BY <2>3, <2>4
<1>7. ASSUME NEW h \in Host, PutsBack(h) PROVE RemovedIsReleased'
  BY <1>7 DEF PutsBack, TypeOK, Early, RemovedIsReleased, ReleaseDue
<1>8. ASSUME NEW h \in Host, TriedAll(h) PROVE RemovedIsReleased'
  BY <1>8 DEF TriedAll, TypeOK, Early, RemovedIsReleased, ReleaseDue, Task
<1>9. ASSUME NEW h \in Host, Leaves(h) PROVE RemovedIsReleased'
  BY <1>9 DEF Leaves, TypeOK, Early, RemovedIsReleased, ReleaseDue, Task
<1>10. ASSUME NEW h \in Host, Rechecks(h) PROVE RemovedIsReleased'
  BY <1>10 DEF Rechecks, TypeOK, Early, RemovedIsReleased, ReleaseDue, Task, ReachHost
<1>11. ASSUME NEW h \in Host, Lost(h) PROVE RemovedIsReleased'
  BY <1>11 DEF Lost, TypeOK, Early, RemovedIsReleased, ReleaseDue
<1>12. ASSUME NEW h \in Host, NEW b \in Buffer, Attaches(h, b) PROVE RemovedIsReleased'
  BY <1>12 DEF Attaches, TypeOK, Early, RemovedIsReleased, ReleaseDue, Attached
<1>13. ASSUME NEW h \in Host, NEW b \in Buffer, AttachFails(h, b) PROVE RemovedIsReleased'
  BY <1>13 DEF AttachFails, TypeOK, Early, RemovedIsReleased, ReleaseDue, Attached
<1>14. ASSUME NEW b \in Buffer, PumpExited(b) PROVE RemovedIsReleased'
  BY <1>14 DEF PumpExited, TypeOK, Early, RemovedIsReleased, ReleaseDue
<1>15. ASSUME NEW b \in Buffer, PumpLost(b) PROVE RemovedIsReleased'
  BY <1>15 DEF PumpLost, TypeOK, Early, RemovedIsReleased, ReleaseDue
<1>16. ASSUME NEW b \in Buffer, Create(b) PROVE RemovedIsReleased'
  BY <1>16 DEF Create, TypeOK, Early, RemovedIsReleased, ReleaseDue
<1>17. ASSUME NEW b \in Buffer, StartConnects(b) PROVE RemovedIsReleased'
  BY <1>17 DEF StartConnects, TypeOK, Early, RemovedIsReleased, ReleaseDue
<1>18. ASSUME NEW b \in Buffer, StartSpawns(b) PROVE RemovedIsReleased'
  BY <1>18 DEF StartSpawns, TypeOK, Early, RemovedIsReleased, ReleaseDue
<1>19. ASSUME NEW b \in Buffer, StartFails(b) PROVE RemovedIsReleased'
  BY <1>19 DEF StartFails, TypeOK, Early, RemovedIsReleased, ReleaseDue
<1>20. ASSUME NEW b \in Buffer, StartRegisters(b) PROVE RemovedIsReleased'
  BY <1>20 DEF StartRegisters, TypeOK, Early, RemovedIsReleased, ReleaseDue
<1>21. ASSUME NEW b \in Buffer, StartPlaces(b) PROVE RemovedIsReleased'
  BY <1>21 DEF StartPlaces, TypeOK, Early, RemovedIsReleased, ReleaseDue, ApplyStatus, MarkRunning, MarkExited, Known
<1>22. ASSUME NEW b \in Buffer, KillLooks(b) PROVE RemovedIsReleased'
  BY <1>22 DEF KillLooks, TypeOK, Early, RemovedIsReleased, ReleaseDue
<1>23. ASSUME NEW b \in Buffer, Kills(b) PROVE RemovedIsReleased'
  BY <1>23 DEF Kills, TypeOK, Early, RemovedIsReleased, ReleaseDue
<1>24. ASSUME NEW b \in Buffer, Disposes(b) PROVE RemovedIsReleased'
  <2> SUFFICES ASSUME NEW x \in Buffer, running'[x] # 0, rec'[x] = "removed"
               PROVE ReleaseDue(x)' \/ killed'[x] = "registered"
    BY DEF RemovedIsReleased
  <2> DEFINE r == [buf |-> b, by |-> 0, stage |-> "waiting"]
  <2>1. r \in releasing' /\ r.buf = b
    BY <1>24 DEF Disposes
  <2>2. CASE x = b
    BY <2>1, <2>2 DEF ReleaseDue
  <2>3. CASE x # b
    BY <1>24, <2>3 DEF Disposes, RemovedIsReleased, ReleaseDue, TypeOK
  <2> QED
    BY <2>2, <2>3
<1>25. ASSUME NEW b \in Buffer, HostActs(b) PROVE RemovedIsReleased'
  BY <1>25 DEF HostActs, TypeOK, Early, RemovedIsReleased, ReleaseDue
<1>26. ASSUME NEW c \in calls, Reports(c) PROVE RemovedIsReleased'
  BY <1>26 DEF Reports, TypeOK, Early, RemovedIsReleased, ReleaseDue, Task, ReachHost, EndCall
<1>27. ASSUME NEW t \in ends, EndChecks(t) PROVE RemovedIsReleased'
  BY <1>27 DEF EndChecks, TypeOK, Early, RemovedIsReleased, ReleaseDue
<1>28. ASSUME NEW t \in ends, EndMarks(t) PROVE RemovedIsReleased'
  BY <1>28 DEF EndMarks, TypeOK, Early, RemovedIsReleased, ReleaseDue, MarkExited, MarkInterrupted, Known
<1>29. ASSUME NEW t \in taken, TakenUp(t) PROVE RemovedIsReleased'
  <2> SUFFICES ASSUME NEW x \in Buffer, running'[x] # 0, rec'[x] = "removed"
               PROVE ReleaseDue(x)' \/ killed'[x] = "registered"
    BY DEF RemovedIsReleased
  <2>1. rec[x] = "removed"
    BY <1>29 DEF TakenUp, ApplyStatus, MarkRunning, MarkExited, Known, TypeOK
  <2>2. CASE x = t.buf
    <3> DEFINE r == [buf |-> t.buf, by |-> t.epoch, stage |-> "waiting"]
    <3>1. r \in releasing'
      BY <1>29, <2>1, <2>2 DEF TakenUp, Known
    <3>2. r.buf = x
      BY <2>2
    <3> QED
      BY <3>1, <3>2 DEF ReleaseDue
  <2>3. CASE x # t.buf
    BY <1>29, <2>1, <2>3 DEF TakenUp, RemovedIsReleased, ReleaseDue
  <2> QED
    BY <2>2, <2>3
<1>30. ASSUME NEW r \in releasing, ReleaseWaiting(r) PROVE RemovedIsReleased'
  <2> SUFFICES ASSUME NEW x \in Buffer, running'[x] # 0, rec'[x] = "removed"
               PROVE ReleaseDue(x)' \/ killed'[x] = "registered"
    BY DEF RemovedIsReleased
  <2>1. [r EXCEPT !.stage = "running"] \in releasing' /\ [r EXCEPT !.stage = "running"].buf = r.buf
    BY <1>30 DEF ReleaseWaiting, TypeOK, Release
  <2>2. CASE x = r.buf
    BY <2>1, <2>2 DEF ReleaseDue
  <2>3. CASE x # r.buf
    BY <1>30, <2>3 DEF ReleaseWaiting, RemovedIsReleased, ReleaseDue
  <2> QED
    BY <2>2, <2>3
<1>31. ASSUME NEW r \in releasing, ReleaseRunning(r) PROVE RemovedIsReleased'
  BY <1>31 DEF ReleaseRunning, TypeOK, Early, RemovedIsReleased, ReleaseDue, Release
<1>32. CASE UNCHANGED vars
  BY <1>32 DEF vars, Early, RemovedIsReleased, ReleaseDue
<1>33. QED
  BY <1>1, <1>2, <1>3, <1>4, <1>5, <1>6, <1>7, <1>8, <1>9, <1>10, <1>11, <1>12, <1>13, <1>14, <1>15, <1>16, <1>17, <1>18, <1>19, <1>20, <1>21, <1>22, <1>23, <1>24, <1>25, <1>26, <1>27, <1>28, <1>29, <1>30, <1>31, <1>32
     DEF Next, Reaching, Following, Tasks, Starting, Requests
-----------------------------------------------------------------------------
\* The invariant holds of a server that starts: what was saved waits, and nothing
\* is tried, registered or followed yet.
LEMMA InitInv == Init => HostsInv
<1> SUFFICES ASSUME Init PROVE HostsInv
  OBVIOUS
<1> USE HostAssumption
<1>1. PICK saved \in SUBSET Buffer :
        /\ \A b \in Buffer : b \in saved <=> prog[b] # "none"
        /\ rec = [b \in Buffer |-> IF b \in saved THEN "interrupted" ELSE "none"]
        /\ waiting = saved
  BY DEF Init
<1>2. /\ running = [b \in Buffer |-> 0]
      /\ pump = [b \in Buffer |-> 0]
      /\ start = [b \in Buffer |-> [stage |-> "idle", epoch |-> 0, status |-> "running"]]
  BY DEF Init
<1>3. \A h \in Host : reach[h].stage \in {"idle", "sleep"} /\ reach[h].todo = {}
  BY DEF Init, Task
<1>4. TypeOK
  BY InitTypes
<1>5. OwnHost /\ TriedOnce
  BY <1>3 DEF OwnHost, TriedOnce
<1>6. \A h \in Host : Tried(h) = {}
  BY <1>3 DEF Tried
<1>7. TriedUnregistered
  BY <1>1, <1>2, <1>6 DEF TriedUnregistered
<1>8. Early /\ EarlyPump
  BY <1>1, <1>2, <1>6 DEF Early, EarlyPump
<1>9. TriedPump
  BY <1>1, <1>2, <1>3, <1>6 DEF TriedPump
<1>10. PumpIsHeld /\ RemovedIsReleased
  BY <1>2 DEF PumpIsHeld, RemovedIsReleased
<1> QED
  BY <1>4, <1>5, <1>7, <1>8, <1>9, <1>10 DEF HostsInv

\* Every step of a task, a pump, a request or a host keeps the invariant.
LEMMA InvStep == HostsInv /\ [Next]_vars => HostsInv'
  BY TypeStep, OwnHostStep, TriedStep, TriedOnceStep, EarlyStep, EarlyPumpStep,
     TriedPumpStep, PumpStep, RemovedStep DEF HostsInv

\* pump_changes of however many buffers: in every reachable state a pump belongs to
\* the registered runtime of its buffer, or to a start or take-up that holds its
\* handle, whatever releases, losses and take-ups interleave.
THEOREM PumpsHeld == Spec => []PumpIsHeld
<1>1. Spec => []HostsInv
  BY InitInv, InvStep, PTL DEF Spec
<1>2. HostsInv => PumpIsHeld
  BY DEF HostsInv
<1> QED
  BY <1>1, <1>2, PTL

\* record_buffer_taken_up, spawn_buffer_runtime_with and release between them: no
\* runtime outlives its removed record without somebody who will look at it again,
\* kill_buffer's own case apart.
THEOREM RemovedRuntimesReleased == Spec => []RemovedIsReleased
<1>1. Spec => []HostsInv
  BY InitInv, InvStep, PTL DEF Spec
<1>2. HostsInv => RemovedIsReleased
  BY DEF HostsInv
<1> QED
  BY <1>1, <1>2, PTL
=============================================================================
