---------------------- MODULE BufferLifecycleProofs ------------------------
(***************************************************************************)
(* Proofs about BufferLifecycle, for any sets of buffers and keepers and   *)
(* any choice of faults: IInv is an inductive invariant, and type          *)
(* correctness, ToldNotNeeded, RunningHasRuntime and SavedExitIsFinal      *)
(* follow from it.                                                         *)
(*                                                                         *)
(* The proof has three layers: what the operations on one record do        *)
(* (RecordOps to RecordRests), what a step does to the records (RecForward *)
(* and RecRests), and one lemma for each conjunct of IInv with a step for  *)
(* every action.                                                           *)
(***************************************************************************)
EXTENDS BufferLifecycleInv, TLAPS

-----------------------------------------------------------------------------
(* Operations on records and tasks *)

\* Every operation of ServerState on a buffer's record yields a record, and sets
\* its state and its socket as the guards of the operation say: an exited buffer
\* is never set running or interrupted (mark_buffer_running, mark_buffer_interrupted).
LEMMA RecordOps ==
    /\ NoRecord \in Record /\ NoRecord.state = "none" /\ ~NoRecord.placed
    /\ NewRecord \in Record /\ NewRecord.state = "Created" /\ ~NewRecord.placed
    /\ \A r \in Record :
          /\ MarkRunning(r) \in Record /\ MarkRunning(r).placed = r.placed
          /\ MarkRunning(r).state = IF r.state \in {"none", "Exited"} THEN r.state ELSE "Running"
          /\ MarkInterrupted(r) \in Record /\ MarkInterrupted(r).placed = r.placed
          /\ MarkInterrupted(r).state = IF r.state \in {"none", "Exited"} THEN r.state ELSE "Interrupted"
          /\ MarkExited(r) \in Record /\ MarkExited(r).placed = r.placed
          /\ MarkExited(r).state = IF r.state = "none" THEN "none" ELSE "Exited"
          /\ Restored(r) \in Record /\ Restored(r).placed = r.placed
          /\ Restored(r).state # "Running"
          /\ Restored(r).state \in {"none", "Exited"} <=> r.state \in {"none", "Exited"}
          /\ (Restored(r).state = "none") <=> (r.state = "none")
          /\ Persisted(r) \in Record /\ Persisted(r).placed = r.placed
          /\ Persisted(r).state = r.state
    /\ \A r \in Record, p \in BOOLEAN :
          /\ SetPlaced(r, p) \in Record /\ SetPlaced(r, p).state = r.state
          /\ SetPlaced(r, p).placed = IF r.state = "none" THEN r.placed ELSE p
          /\ SetAttached(r, p) \in Record /\ SetAttached(r, p).state = r.state
          /\ SetAttached(r, p).placed = r.placed
<1>1. NoRecord \in Record /\ NoRecord.state = "none" /\ ~NoRecord.placed
  BY DEF NoRecord, Record, States
<1>2. NewRecord \in Record /\ NewRecord.state = "Created" /\ ~NewRecord.placed
  BY DEF NewRecord, NoRecord, Record, States
<1>3. ASSUME NEW r \in Record
      PROVE  /\ MarkRunning(r) \in Record /\ MarkRunning(r).placed = r.placed
             /\ MarkRunning(r).state = IF r.state \in {"none", "Exited"} THEN r.state ELSE "Running"
  BY DEF MarkRunning, Record, States
<1>4. ASSUME NEW r \in Record
      PROVE  /\ MarkInterrupted(r) \in Record /\ MarkInterrupted(r).placed = r.placed
             /\ MarkInterrupted(r).state
                  = IF r.state \in {"none", "Exited"} THEN r.state ELSE "Interrupted"
  BY DEF MarkInterrupted, Record, States
<1>5. ASSUME NEW r \in Record
      PROVE  /\ MarkExited(r) \in Record /\ MarkExited(r).placed = r.placed
             /\ MarkExited(r).state = IF r.state = "none" THEN "none" ELSE "Exited"
  BY DEF MarkExited, Record, States
<1>6. ASSUME NEW r \in Record
      PROVE  /\ Restored(r) \in Record /\ Restored(r).placed = r.placed
             /\ Restored(r).state # "Running"
             /\ Restored(r).state \in {"none", "Exited"} <=> r.state \in {"none", "Exited"}
             /\ (Restored(r).state = "none") <=> (r.state = "none")
  BY DEF Restored, Record, States
<1>7. ASSUME NEW r \in Record
      PROVE  /\ Persisted(r) \in Record /\ Persisted(r).placed = r.placed
             /\ Persisted(r).state = r.state
  BY DEF Persisted, Record, States
<1>8. ASSUME NEW r \in Record, NEW p \in BOOLEAN
      PROVE  /\ SetPlaced(r, p) \in Record /\ SetPlaced(r, p).state = r.state
             /\ SetPlaced(r, p).placed = IF r.state = "none" THEN r.placed ELSE p
             /\ SetAttached(r, p) \in Record /\ SetAttached(r, p).state = r.state
             /\ SetAttached(r, p).placed = r.placed
  BY DEF SetPlaced, SetAttached, Record, States
<1>. QED BY <1>1, <1>2, <1>3, <1>4, <1>5, <1>6, <1>7, <1>8

\* The results of the operations are records.
LEMMA RecordTypes ==
    /\ NoRecord \in Record /\ NewRecord \in Record
    /\ \A r \in Record : /\ MarkRunning(r) \in Record
                         /\ MarkInterrupted(r) \in Record
                         /\ MarkExited(r) \in Record
                         /\ Restored(r) \in Record
                         /\ Persisted(r) \in Record
    /\ \A r \in Record, p \in BOOLEAN : SetPlaced(r, p) \in Record /\ SetAttached(r, p) \in Record
BY RecordOps

\* The values the start, take-up and save tasks are reset to are tasks.
LEMMA TaskTypes ==
    /\ Idle \in StartTask /\ Spawning \in StartTask /\ FailedStart \in StartTask
    /\ NoTaking \in TakeUpTask
    /\ NoSave \in SaveTask /\ AtStage("telling") \in SaveTask
    /\ NotSaved \in Saved
BY RecordTypes DEF NotSaved, Saved, Idle, Spawning, FailedStart, NoTaking, NoSave, AtStage, StartTask,
                   TakeUpTask, SaveTask, KeeperOrNone


\* What those values hold: no keeper, no buffer, nothing to release.
LEMMA TaskFields ==
    /\ Idle.stage = "idle" /\ Idle.keeper = None
    /\ Spawning.stage = "spawn" /\ Spawning.keeper = None
    /\ FailedStart.stage = "failed" /\ FailedStart.keeper = None
    /\ NoTaking.buf = None /\ NoTaking.keeper = None
    /\ NoSave.stage = "idle" /\ NoSave.released = {}
    /\ NotSaved.used = {} /\ ~NotSaved.known
    /\ AtStage("telling").stage = "telling" /\ AtStage("telling").released = {}
BY DEF Idle, Spawning, FailedStart, NoTaking, NoSave, AtStage, NotSaved

\* What may become of a record r in a step: a buffer that is gone stays gone,
\* one that is over stays over, and one that needs no keeper goes on so.
Forward(r, s) ==
    /\ r.state = "none" => s.state = "none"
    /\ Over(r) => Over(s)
    /\ ~NeedsKeeper(r) => ~NeedsKeeper(s)

\* Every operation but the placement of a started buffer takes a record forward;
\* and that one, the end of spawn_buffer_runtime_with, still leaves a buffer that
\* is over as it is.
LEMMA RecordEffects ==
    /\ NoRecord.state = "none" /\ Over(NoRecord)
    /\ ~NeedsKeeper(NoRecord) /\ ~NeedsKeeper(NewRecord)
    /\ \A r \in Record : Over(r) => ~NeedsKeeper(r)
    /\ \A r \in Record : /\ Forward(r, r)
                         /\ Forward(r, NoRecord)
                         /\ Forward(r, MarkRunning(r))
                         /\ Forward(r, MarkInterrupted(r))
                         /\ Forward(r, MarkExited(r))
                         /\ Forward(r, Restored(r))
                         /\ Forward(r, Persisted(r))
    /\ \A r \in Record, a \in BOOLEAN : Forward(r, SetAttached(r, a)) /\ Forward(r, ApplyStatus(r, a))
    /\ \A r \in Record : Forward(r, MarkInterrupted(SetPlaced(r, FALSE)))
    /\ \A r \in Record, a \in BOOLEAN :
          LET s == ApplyStatus(SetPlaced(MarkRunning(r), TRUE), a) IN
          /\ r.state = "none" => s.state = "none"
          /\ Over(r) => Over(s)
<1> USE DEF Forward, Over, NeedsKeeper
<1>1. /\ NoRecord.state = "none" /\ Over(NoRecord)
      /\ ~NeedsKeeper(NoRecord) /\ ~NeedsKeeper(NewRecord)
      /\ \A r \in Record : Over(r) => ~NeedsKeeper(r)
      /\ \A r \in Record : Forward(r, r) /\ Forward(r, NoRecord)
  BY RecordOps
<1>2. ASSUME NEW r \in Record
      PROVE  /\ Forward(r, MarkRunning(r)) /\ Forward(r, MarkInterrupted(r))
             /\ Forward(r, MarkExited(r)) /\ Forward(r, Restored(r)) /\ Forward(r, Persisted(r))
  BY RecordOps
<1>3. ASSUME NEW r \in Record, NEW a \in BOOLEAN
      PROVE  Forward(r, SetAttached(r, a)) /\ Forward(r, ApplyStatus(r, a))
  BY DEF SetAttached, ApplyStatus, MarkRunning, MarkExited, Record, States
<1>4. ASSUME NEW r \in Record
      PROVE  Forward(r, MarkInterrupted(SetPlaced(r, FALSE)))
  BY DEF SetPlaced, MarkInterrupted, Record, States
<1>5. ASSUME NEW r \in Record, NEW a \in BOOLEAN
      PROVE  LET s == ApplyStatus(SetPlaced(MarkRunning(r), TRUE), a) IN
             (r.state = "none" => s.state = "none") /\ (Over(r) => Over(s))
  BY DEF SetPlaced, ApplyStatus, MarkRunning, MarkExited, Record, States
<1> HIDE DEF Forward, Over, NeedsKeeper
<1>. QED BY <1>1, <1>2, <1>3, <1>4, <1>5

\* The step from r to s does not set a record running.
Rests(r, s) == s.state = "Running" => r.state = "Running"

\* Only mark_buffer_running, and a status that says so, set a record running; and
\* no record is restored as running.
LEMMA RecordRests ==
    /\ \A r \in Record : /\ Rests(r, r) /\ Rests(r, NoRecord)
                         /\ Rests(r, MarkInterrupted(r)) /\ Rests(r, MarkExited(r))
                         /\ Restored(r).state # "Running"
                         /\ MarkInterrupted(SetPlaced(r, FALSE)).state # "Running"
                         /\ ApplyStatus(r, FALSE).state # "Running"
    /\ \A r \in Record, a \in BOOLEAN : Rests(r, SetAttached(r, a))
<1>1. \A r \in Record : MarkInterrupted(SetPlaced(r, FALSE)).state # "Running"
  BY DEF MarkInterrupted, SetPlaced, Record, States
<1>2. \A r \in Record : Rests(r, r) /\ Rests(r, NoRecord) /\ Rests(r, MarkInterrupted(r))
  BY RecordOps DEF Rests
<1>3. \A r \in Record : Rests(r, MarkExited(r)) /\ ApplyStatus(r, FALSE).state # "Running"
  BY RecordOps DEF Rests, ApplyStatus
<1>4. \A r \in Record, a \in BOOLEAN : Rests(r, SetAttached(r, a))
  BY RecordOps DEF Rests
<1>5. \A r \in Record : Restored(r).state # "Running"
  BY RecordOps
<1>. QED BY <1>1, <1>2, <1>3, <1>4, <1>5

\* to_persisted keeps the state of a record.
LEMMA PersistedOver == \A r \in Record : Over(r) <=> Over(Persisted(r))
<1>1. \A r \in Record : Persisted(r).state = r.state
  BY RecordOps
<1>. QED BY <1>1 DEF Over

-----------------------------------------------------------------------------
(* What a step does to the records *)

\* Requests, ends of programs, cleanups and the restore take every record forward.
LEMMA RecForward ==
    ASSUME TypeOK, Bound, NEW c \in Buffer,
           \/ \E b \in Buffer : AttachBuffer(b) \/ DetachBuffer(b) \/ KillInterrupted(b)
                                \/ StartFailed(b) \/ ApplyRestored(b)
           \/ \E end \in ends : RecordEnd(end)
           \/ DisposeExited \/ RestartInterrupted
    PROVE  Forward(rec[c], rec'[c])
<1>0. rec \in [Buffer -> Record] /\ rec[c] \in Record
  BY DEF TypeOK
<1>1. ASSUME NEW b \in Buffer, AttachBuffer(b) PROVE Forward(rec[c], rec'[c])
  BY <1>0, <1>1, RecordEffects DEF AttachBuffer
<1>2. ASSUME NEW b \in Buffer, DetachBuffer(b) PROVE Forward(rec[c], rec'[c])
  BY <1>0, <1>2, RecordEffects DEF DetachBuffer
<1>3. ASSUME NEW b \in Buffer, KillInterrupted(b) PROVE Forward(rec[c], rec'[c])
  BY <1>0, <1>3, RecordEffects DEF KillInterrupted
<1>4. ASSUME NEW b \in Buffer, StartFailed(b) PROVE Forward(rec[c], rec'[c])
  BY <1>0, <1>4, RecordEffects DEF StartFailed
<1>5. ASSUME NEW b \in Buffer, ApplyRestored(b) PROVE Forward(rec[c], rec'[c])
  <2>1. CASE outcome[b] = "gone"
    BY <1>0, <1>5, <2>1, RecordEffects DEF ApplyRestored
  <2>2. CASE outcome[b] # "gone"
    BY <1>0, <1>5, <2>2, RecordEffects DEF ApplyRestored
  <2>. QED BY <2>1, <2>2
<1>6. ASSUME NEW end \in ends, RecordEnd(end) PROVE Forward(rec[c], rec'[c])
  <2>1. \/ rec' = rec
        \/ rec' = [rec EXCEPT ![kbuf[end[1]]] = MarkExited(@)]
        \/ rec' = [rec EXCEPT ![kbuf[end[1]]] = MarkInterrupted(@)]
    BY <1>6 DEF RecordEnd
  <2>. QED BY <1>0, <2>1, RecordEffects
<1>7. ASSUME DisposeExited PROVE Forward(rec[c], rec'[c])
  <2>1. rec'[c] \in {rec[c], NoRecord}
    BY <1>0, <1>7 DEF DisposeExited, Without
  <2>. QED BY <1>0, <2>1, RecordEffects
<1>8. ASSUME RestartInterrupted PROVE Forward(rec[c], rec'[c])
  <2>1. rec'[c] \in {rec[c], NoRecord}
    BY <1>0, <1>8 DEF RestartInterrupted
  <2>. QED BY <1>0, <2>1, RecordEffects
<1>. QED BY <1>1, <1>2, <1>3, <1>4, <1>5, <1>6, <1>7, <1>8

\* None of them but the take-up of a running keeper sets a record running.
LEMMA RecRests ==
    ASSUME TypeOK, Bound, NEW c \in Buffer,
           \/ \E b \in Buffer : AttachBuffer(b) \/ DetachBuffer(b) \/ KillInterrupted(b)
                                \/ StartFailed(b)
           \/ \E end \in ends : RecordEnd(end)
           \/ DisposeExited \/ RestartInterrupted
    PROVE  Rests(rec[c], rec'[c])
<1>0. rec \in [Buffer -> Record] /\ rec[c] \in Record
  BY DEF TypeOK
<1>1. ASSUME NEW b \in Buffer, AttachBuffer(b) PROVE Rests(rec[c], rec'[c])
  BY <1>0, <1>1, RecordRests DEF AttachBuffer
<1>2. ASSUME NEW b \in Buffer, DetachBuffer(b) PROVE Rests(rec[c], rec'[c])
  BY <1>0, <1>2, RecordRests DEF DetachBuffer
<1>3. ASSUME NEW b \in Buffer, KillInterrupted(b) PROVE Rests(rec[c], rec'[c])
  BY <1>0, <1>3, RecordRests DEF KillInterrupted
<1>4. ASSUME NEW b \in Buffer, StartFailed(b) PROVE Rests(rec[c], rec'[c])
  BY <1>0, <1>4, RecordRests DEF StartFailed
<1>5. ASSUME NEW end \in ends, RecordEnd(end) PROVE Rests(rec[c], rec'[c])
  <2>1. \/ rec' = rec
        \/ rec' = [rec EXCEPT ![kbuf[end[1]]] = MarkExited(@)]
        \/ rec' = [rec EXCEPT ![kbuf[end[1]]] = MarkInterrupted(@)]
    BY <1>5 DEF RecordEnd
  <2>. QED BY <1>0, <2>1, RecordRests
<1>6. ASSUME DisposeExited PROVE Rests(rec[c], rec'[c])
  <2>1. rec'[c] \in {rec[c], NoRecord}
    BY <1>0, <1>6 DEF DisposeExited, Without
  <2>. QED BY <1>0, <2>1, RecordRests
<1>7. ASSUME RestartInterrupted PROVE Rests(rec[c], rec'[c])
  <2>1. rec'[c] \in {rec[c], NoRecord}
    BY <1>0, <1>7 DEF RestartInterrupted
  <2>. QED BY <1>0, <2>1, RecordRests
<1>. QED BY <1>1, <1>2, <1>3, <1>4, <1>5, <1>6, <1>7

-----------------------------------------------------------------------------
(* The conjuncts of the invariant, one by one *)

\* Every step keeps the types: a poller that reports, and a keeper that is taken
\* up, belong to a buffer (Bound).
LEMMA TypeStep == TypeOK /\ Bound /\ [Next]_vars => TypeOK'
<1> SUFFICES ASSUME TypeOK, Bound, [Next]_vars PROVE TypeOK'
  OBVIOUS
<1> USE NoneAssumption DEF TypeOK, KeeperOrNone, kvars, dvars, svars, hvars
<1>1. ASSUME NEW k \in Keeper, ChildExits(k) PROVE TypeOK'
  BY <1>1 DEF ChildExits
<1>2. ASSUME NEW k \in Keeper, StartPipe(k) PROVE TypeOK'
  BY <1>2 DEF StartPipe
<1>3. ASSUME NEW k \in Keeper, PipeEnds(k) PROVE TypeOK'
  BY <1>3 DEF PipeEnds
<1>4. ASSUME NEW k \in Keeper, KeeperLeaves(k) PROVE TypeOK'
  BY <1>4 DEF KeeperLeaves, LeaveSocket
<1>5. ASSUME NEW k \in Keeper, KeeperUnreachable(k) PROVE TypeOK'
  BY <1>5 DEF KeeperUnreachable
<1>6. ASSUME NEW k \in Keeper, KeeperDies(k) PROVE TypeOK'
  BY <1>6 DEF KeeperDies
<1>7. ASSUME NEW b \in Buffer, NEW k \in Keeper, SpawnKeeper(b, k) PROVE TypeOK'
  BY <1>7 DEF SpawnKeeper, StartTask
<1>7a. ASSUME NEW b \in Buffer, NEW k \in Keeper, AttachFails(b, k) PROVE TypeOK'
  BY <1>7a, TaskTypes DEF AttachFails
<1>8. ASSUME NEW b \in Buffer, StartCheck(b) PROVE TypeOK'
  <2> DEFINE k == start[b].keeper
  <2>1. k \in KeeperOrNone
    BY DEF StartTask
  <2>2. start' \in [Buffer -> StartTask]
    <3>1. [stage |-> "checked", keeper |-> k, running |-> child[k] # "exited"] \in StartTask
      BY <2>1 DEF StartTask
    <3>2. \E s \in StartTask : start' = [start EXCEPT ![b] = s]
      BY <1>8, <3>1, TaskTypes DEF StartCheck
    <3> HIDE DEF TypeOK
    <3>3. start \in [Buffer -> StartTask]
      BY DEF TypeOK
    <3>. QED BY <3>2, <3>3
  <2>3. /\ awaiting' \in {awaiting, [awaiting EXCEPT ![b] = k]}
        /\ poller' = poller \/ poller' = [poller EXCEPT ![k] = "off"]
        /\ early' \in {early, early \ {b}}
    BY <1>8 DEF StartCheck, LetGoUnregistered
  <2>4. /\ awaiting' \in [Buffer -> KeeperOrNone]
        /\ poller' \in [Keeper -> {"off", "watching", "seen"}]
    BY <2>1, <2>3
  <2>5. early' \in SUBSET Buffer /\ dirty' \in BOOLEAN
    BY <1>8, <2>3 DEF StartCheck
  <2>. QED BY <1>8, <2>2, <2>4, <2>5 DEF StartCheck
<1>8a. ASSUME NEW b \in Buffer, StartRegister(b) PROVE TypeOK'
  <2> DEFINE k == start[b].keeper
  <2>1. k \in KeeperOrNone
    BY DEF StartTask
  <2>2. start' \in [Buffer -> StartTask]
    BY <1>8a DEF StartRegister, StartTask
  <2>3. /\ running' = [running EXCEPT ![b] = k]
        /\ awaiting' \in {awaiting, [awaiting EXCEPT ![b] = k]}
        /\ early' = early \ {b}
    BY <1>8a DEF StartRegister, Registered
  <2>4. /\ running' \in [Buffer -> KeeperOrNone]
        /\ awaiting' \in [Buffer -> KeeperOrNone]
        /\ early' \in SUBSET Buffer
    BY <2>1, <2>3
  <2>. QED BY <1>8a, <2>2, <2>4 DEF StartRegister
<1>9. ASSUME NEW b \in Buffer, SpawnFails(b) PROVE TypeOK'
  BY <1>9, TaskTypes DEF SpawnFails
<1>10. ASSUME NEW b \in Buffer, StatusFails(b) PROVE TypeOK'
  BY <1>10, TaskTypes DEF StatusFails, LetGoUnregistered, StartTask
<1>11. ASSUME NEW b \in Buffer, StartFinish(b) PROVE TypeOK'
  <2>1. ApplyStatus(SetPlaced(MarkRunning(rec[b]), TRUE), start[b].running) \in Record
    BY RecordTypes DEF ApplyStatus
  <2>. QED BY <1>11, <2>1, TaskTypes DEF StartFinish
<1>12. ASSUME NEW b \in Buffer, StartDiscard(b) PROVE TypeOK'
  BY <1>12, TaskTypes DEF StartDiscard, LetGo
<1>13. ASSUME NEW b \in Buffer, StartFailed(b) PROVE TypeOK'
  BY <1>13, RecordTypes, TaskTypes DEF StartFailed
<1>14. ASSUME NEW b \in Buffer, CreateBuffer(b) PROVE TypeOK'
  BY <1>14, RecordTypes, TaskTypes DEF CreateBuffer
<1>15. ASSUME NEW b \in Buffer, AttachBuffer(b) PROVE TypeOK'
  BY <1>15, RecordTypes DEF AttachBuffer
<1>16. ASSUME NEW b \in Buffer, DetachBuffer(b) PROVE TypeOK'
  BY <1>16, RecordTypes DEF DetachBuffer
<1>17. ASSUME NEW b \in Buffer, KillProgram(b) PROVE TypeOK'
  BY <1>17 DEF KillProgram
<1>18. ASSUME NEW b \in Buffer, KillInterrupted(b) PROVE TypeOK'
  BY <1>18, RecordTypes DEF KillInterrupted
<1>19. ASSUME NEW k \in Keeper, PollExit(k) PROVE TypeOK'
  <2>1. kbuf[k] \in Buffer /\ <<k, poller[k], "Exited">> \in EndReport
                          /\ <<k, poller[k], "Interrupted">> \in EndReport
    BY <1>19 DEF PollExit, Bound, EndReport
  <2>2. /\ running' \in {running, [running EXCEPT ![kbuf[k]] = None]}
        /\ awaiting' \in {awaiting, [awaiting EXCEPT ![kbuf[k]] = running[kbuf[k]]]}
        /\ ends' \in {ends \cup {<<k, poller[k], "Exited">>}, ends \cup {<<k, poller[k], "Interrupted">>}}
        /\ early' \in {early, early \cup {kbuf[k]}}
        /\ dying' \in {dying, dying \ {kbuf[k]}}
    BY <1>19 DEF PollExit, Ended
  <2>3. running' \in [Buffer -> KeeperOrNone] /\ awaiting' \in [Buffer -> KeeperOrNone]
    BY <2>1, <2>2
  <2>4. ends' \in SUBSET EndReport /\ early' \in SUBSET Buffer /\ dying' \in SUBSET Buffer
    BY <2>1, <2>2
  <2>5. poller' \in [Keeper -> {"off", "watching", "seen"}] /\ exitRead' \in SUBSET Buffer
    BY <1>19, <2>1 DEF PollExit
  <2>. QED BY <1>19, <2>3, <2>4, <2>5 DEF PollExit
<1>20. ASSUME NEW k \in Keeper, PollBroken(k) PROVE TypeOK'
  <2>1. kbuf[k] \in Buffer /\ <<k, poller[k], "Exited">> \in EndReport
                          /\ <<k, poller[k], "Interrupted">> \in EndReport
    BY <1>20 DEF PollBroken, Bound, EndReport
  <2>2. CASE kbuf[k] \in dying
    BY <1>20, <2>1, <2>2 DEF PollBroken, Ended
  <2>3. CASE kbuf[k] \notin dying /\ running[kbuf[k]] # None
    BY <1>20, <2>1, <2>3 DEF PollBroken, Ended
  <2>4. CASE kbuf[k] \notin dying /\ running[kbuf[k]] = None
    BY <1>20, <2>1, <2>4 DEF PollBroken, Ended
  <2>. QED BY <2>2, <2>3, <2>4
<1>21. ASSUME NEW end \in ends, RecordEnd(end) PROVE TypeOK'
  <2>1. end[1] \in Keeper /\ kbuf[end[1]] \in Buffer
    BY DEF Bound, EndReport
  <2>2. rec' \in [Buffer -> Record]
    <3>1. \/ rec' = rec
          \/ rec' = [rec EXCEPT ![kbuf[end[1]]] = MarkExited(@)]
          \/ rec' = [rec EXCEPT ![kbuf[end[1]]] = MarkInterrupted(@)]
      BY <1>21 DEF RecordEnd
    <3>2. /\ MarkExited(rec[kbuf[end[1]]]) \in Record
          /\ MarkInterrupted(rec[kbuf[end[1]]]) \in Record
      BY <2>1, RecordTypes
    <3>. QED BY <3>1, <3>2
  <2>3. ends' \subseteq ends /\ cleanup' \in BOOLEAN /\ dirty' \in BOOLEAN
    BY <1>21 DEF RecordEnd
  <2>4. UNCHANGED <<kvars, dvars, hvars, phase, used, running, awaiting, early, dying,
                    poller, start, taking, todo, outcome, releasing, save, lastSaved, acks>>
    BY <1>21 DEF RecordEnd
  <2>. QED BY <2>2, <2>3, <2>4
<1>22. ASSUME DisposeExited PROVE TypeOK'
  <2>1. PICK watched \in SUBSET Buffer :
            /\ rec' = Without(rec, Disposable(rec, watched))
            /\ releasing' = releasing \cup Disposable(rec, watched)
            /\ dirty' = (dirty \/ Disposable(rec, watched) # {})
    BY <1>22 DEF DisposeExited
  <2>2. Disposable(rec, watched) \in SUBSET Buffer
    BY DEF Disposable
  <2>3. rec' \in [Buffer -> Record]
    BY <2>1, RecordTypes DEF Without
  <2>. QED BY <1>22, <2>1, <2>2, <2>3 DEF DisposeExited
<1>23. ASSUME NEW b \in Buffer, Release(b) PROVE TypeOK'
  BY <1>23 DEF Release, LetGo
<1>24. ASSUME SaveSnapshot PROVE TypeOK'
  BY <1>24, RecordTypes DEF SaveSnapshot, SaveTask
<1>25. ASSUME SaveWrite PROVE TypeOK'
  <2>1. save' \in SaveTask
    BY <1>25 DEF SaveWrite, SaveTask
  <2>2. [known |-> TRUE, recs |-> save.recs, used |-> save.used] \in Saved
    BY DEF Saved, SaveTask
  <2>3. save.recs \in [Buffer -> Record] /\ save.used \in SUBSET Buffer
    BY DEF SaveTask
  <2>. QED BY <1>25, <2>1, <2>2, <2>3 DEF SaveWrite
<1>26. ASSUME SaveFails PROVE TypeOK'
  <2>1. UNCHANGED dvars
    BY <1>26 DEF SaveFails
  <2>2. CASE phase = "final"
    <3>1. ServerGone /\ UNCHANGED <<kvars, hvars>>
      BY <1>26, <2>2 DEF SaveFails, EndSave
    <3>. QED BY <2>1, <3>1, RecordTypes, TaskTypes DEF ServerGone
  <2>3. CASE phase # "final"
    BY <1>26, <2>1, <2>3, RecordTypes, TaskTypes DEF SaveFails, EndSave
  <2>. QED BY <2>2, <2>3
<1>27. ASSUME SyncFails PROVE TypeOK'
  <2>1. disk' = save.recs /\ diskUsed' = save.used
    BY <1>27 DEF SyncFails
  <2>2. CASE phase = "final"
    <3>1. ServerGone /\ UNCHANGED <<kvars, hvars>>
      BY <1>27, <2>2 DEF SyncFails, EndSave
    <3>. QED BY <2>1, <3>1, RecordTypes, TaskTypes DEF ServerGone, SaveTask
  <2>3. CASE phase # "final"
    BY <1>27, <2>1, <2>3, RecordTypes, TaskTypes DEF SyncFails, EndSave, SaveTask
  <2>. QED BY <2>2, <2>3
<1>28. ASSUME SaveRelease PROVE TypeOK'
  BY <1>28, TaskTypes DEF SaveRelease, SaveTask
<1>29. ASSUME SaveDone PROVE TypeOK'
  <2>1. UNCHANGED dvars
    BY <1>29 DEF SaveDone
  <2>2. CASE phase = "final"
    <3>1. ServerGone /\ UNCHANGED <<kvars, hvars>>
      BY <1>29, <2>2 DEF SaveDone, EndSave
    <3>. QED BY <2>1, <3>1, RecordTypes, TaskTypes DEF ServerGone
  <2>3. CASE phase # "final"
    BY <1>29, <2>1, <2>3, RecordTypes, TaskTypes DEF SaveDone, EndSave
  <2>. QED BY <2>2, <2>3
<1>30. ASSUME NEW k \in Keeper, TellKeeper(k) PROVE TypeOK'
  BY <1>30 DEF TellKeeper
<1>31. ASSUME LoadWorkspace PROVE TypeOK'
  BY <1>31, RecordTypes DEF LoadWorkspace
<1>32. ASSUME NEW b \in Buffer, KeeperMissing(b) PROVE TypeOK'
  BY <1>32 DEF KeeperMissing
<1>33. ASSUME NEW b \in Buffer, TakeUpAttach(b) PROVE TypeOK'
  BY <1>33 DEF TakeUpAttach, Answers, TakeUpTask
<1>34. ASSUME NEW b \in Buffer, ApplyRestored(b) PROVE TypeOK'
  <2>1. /\ MarkInterrupted(SetPlaced(rec[b], FALSE)) \in Record
        /\ ApplyStatus(rec[b], outcome[b] = "running") \in Record
    BY RecordTypes DEF ApplyStatus
  <2>. QED BY <1>34, <2>1 DEF ApplyRestored
<1>35. ASSUME TakeUpFinish PROVE TypeOK'
  <2> DEFINE b == taking.buf
             k == taking.keeper
  <2>1. k \in Keeper /\ b \in Buffer /\ taking.running \in BOOLEAN
    BY <1>35 DEF TakeUpFinish, Bound, TakeUpTask
  <2>2. /\ running' \in {running, [running EXCEPT ![b] = k]}
        /\ awaiting' \in {awaiting, [awaiting EXCEPT ![b] = k]}
        /\ poller' \in {poller, [poller EXCEPT ![k] = "off"]}
        /\ pipe' \in {pipe, [pipe EXCEPT ![k] = FALSE]}
        /\ child' \in {child, [child EXCEPT ![k] = "killed"]}
    BY <1>35 DEF TakeUpFinish, Registered, LetGoUnregistered
  <2>3. \/ outcome' = [outcome EXCEPT ![b] = "gone"]
        \/ outcome' = [outcome EXCEPT ![b] = IF taking.running THEN "running" ELSE "exited"]
    BY <1>35 DEF TakeUpFinish
  <2>4. running' \in [Buffer -> KeeperOrNone] /\ awaiting' \in [Buffer -> KeeperOrNone]
    BY <2>1, <2>2
  <2>5. poller' \in [Keeper -> {"off", "watching", "seen"}]
    BY <2>1, <2>2
  <2>6. pipe' \in [Keeper -> BOOLEAN]
    <3>1. pipe \in [Keeper -> BOOLEAN]
      OBVIOUS
    <3> HIDE DEF TypeOK
    <3>. QED BY <2>2, <3>1
  <2>7. child' \in [Keeper -> {"running", "killed", "exited"}]
    BY <2>1, <2>2
  <2>8. outcome' \in [Buffer -> {"none", "running", "exited", "gone"}]
    BY <2>1, <2>3
  <2>9. taking' \in TakeUpTask /\ early' \in SUBSET Buffer
    BY <1>35, TaskTypes DEF TakeUpFinish, Registered, LetGoUnregistered
  <2>. QED BY <1>35, <2>4, <2>5, <2>6, <2>7, <2>8, <2>9 DEF TakeUpFinish
<1>36. ASSUME RestartInterrupted PROVE TypeOK'
  <2>1. rec' \in [Buffer -> Record]
    <3>1. rec' = rec \/ rec' = [b \in Buffer |-> IF rec[b].state = "Interrupted" /\ ~rec[b].attached
                                                THEN NoRecord ELSE rec[b]]
      BY <1>36 DEF RestartInterrupted
    <3>2. NoRecord \in Record
      BY RecordTypes
    <3>. QED BY <3>1, <3>2
  <2>2. start' \in [Buffer -> StartTask]
    BY <1>36, TaskTypes DEF RestartInterrupted
  <2>. QED BY <1>36, <2>1, <2>2 DEF RestartInterrupted
<1>37. ASSUME FinishRestore PROVE TypeOK'
  BY <1>37 DEF FinishRestore
<1>38. ASSUME ServerCrashes PROVE TypeOK'
  BY <1>38, RecordTypes, TaskTypes DEF ServerCrashes, ServerGone
<1>39. ASSUME NEW kill \in BOOLEAN, BeginShutDown(kill) PROVE TypeOK'
  BY <1>39 DEF BeginShutDown
<1>40. ASSUME ShutDownRelease PROVE TypeOK'
  BY <1>40 DEF ShutDownRelease
<1>41. ASSUME FinishKill PROVE TypeOK'
  BY <1>41, RecordTypes, TaskTypes DEF FinishKill, ServerGone
<1>42. ASSUME FinishStop PROVE TypeOK'
  BY <1>42 DEF FinishStop
<1>43. CASE UNCHANGED vars
  BY <1>43 DEF vars
<1> HIDE DEF TypeOK, KeeperOrNone, kvars, dvars, svars, hvars
<1>. QED
  BY <1>7a, <1>8a,
     <1>1, <1>2, <1>3, <1>4, <1>5, <1>6, <1>7, <1>8, <1>9, <1>10, <1>11, <1>12, <1>13, <1>14,
     <1>15, <1>16, <1>17, <1>18, <1>19, <1>20, <1>21, <1>22, <1>23, <1>24, <1>25, <1>26, <1>27,
     <1>28, <1>29, <1>30, <1>31, <1>32, <1>33, <1>34, <1>35, <1>36, <1>37, <1>38, <1>39, <1>40,
     <1>41, <1>42, <1>43
  DEF Next, KeeperNext, StartNext, RequestNext, EndNext, SaveNext, RestoreNext, ShutDownNext

\* Every step files a keeper under the buffer it was started for, and only under
\* that one.
LEMMA BoundStep == TypeOK /\ Bound /\ [Next]_vars => Bound'
<1> SUFFICES ASSUME TypeOK, Bound, [Next]_vars PROVE Bound'
  OBVIOUS
<1> USE NoneAssumption DEF TypeOK, Bound, StartedFor, KeeperOrNone, kvars, dvars, svars, hvars
<1>1. ASSUME NEW k \in Keeper, ChildExits(k) \/ StartPipe(k) \/ PipeEnds(k)
      PROVE  Bound'
  <2>1. UNCHANGED <<kstate, kbuf, told, socket, running, awaiting, poller, ends, start, taking, acks>>
    BY <1>1 DEF ChildExits, StartPipe, PipeEnds
  <2>. QED BY <2>1
<1>2. ASSUME NEW b \in Buffer,
             AttachBuffer(b) \/ DetachBuffer(b) \/ KillProgram(b) \/ KillInterrupted(b) \/
             KeeperMissing(b) \/ ApplyRestored(b)
      PROVE  Bound'
  <2>1. UNCHANGED <<kstate, kbuf, told, socket, running, awaiting, poller, ends, start, taking, acks>>
    BY <1>2 DEF AttachBuffer, DetachBuffer, KillProgram, KillInterrupted, KeeperMissing,
        ApplyRestored
  <2>. QED BY <2>1
<1>3. ASSUME DisposeExited \/ SaveSnapshot \/ SaveWrite \/ LoadWorkspace \/ FinishRestore \/
             FinishStop \/ UNCHANGED vars
      PROVE  Bound'
  <2>1. UNCHANGED <<kstate, kbuf, told, socket, running, awaiting, poller, ends, start, taking, acks>>
    BY <1>3 DEF DisposeExited, SaveSnapshot, SaveWrite, LoadWorkspace, FinishRestore, FinishStop,
        vars
  <2>. QED BY <2>1
<1>4. ASSUME NEW k \in Keeper, KeeperLeaves(k) PROVE Bound'
  BY <1>4 DEF KeeperLeaves, LeaveSocket
<1>5. ASSUME NEW k \in Keeper, KeeperUnreachable(k) PROVE Bound'
  BY <1>5 DEF KeeperUnreachable
<1>6. ASSUME NEW k \in Keeper, KeeperDies(k) PROVE Bound'
  BY <1>6 DEF KeeperDies
<1>7. ASSUME NEW b \in Buffer, NEW k \in Keeper, SpawnKeeper(b, k) PROVE Bound'
  BY <1>7 DEF SpawnKeeper, StartTask
<1>7a. ASSUME NEW b \in Buffer, NEW k \in Keeper, AttachFails(b, k) PROVE Bound'
  BY <1>7a, TaskFields DEF AttachFails, StartTask
<1>8. ASSUME NEW b \in Buffer, StartCheck(b) PROVE Bound'
  <2>1. start[b].keeper \in Keeper /\ StartedFor(start[b].keeper, b)
    BY <1>8 DEF StartCheck, StartTask
  <2>2. CASE Stopping
    <3>1. /\ awaiting' = [awaiting EXCEPT ![b] = start[b].keeper]
          /\ poller' = [poller EXCEPT ![start[b].keeper] = "off"]
          /\ start' = [start EXCEPT ![b] = FailedStart]
          /\ UNCHANGED <<kstate, kbuf, told, socket, running, ends, taking, acks>>
      BY <1>8, <2>2 DEF StartCheck, LetGoUnregistered
    <3>. QED BY <2>1, <3>1, TaskFields
  <2>3. CASE ~Stopping
    <3>1. \A c \in Buffer : /\ start'[c].keeper = start[c].keeper
                            /\ start'[c].stage \in {"attached", "checked"}
                                 => start[c].stage \in {"attached", "checked"}
      BY <1>8, <2>1, <2>3 DEF StartCheck, StartTask
    <3>2. UNCHANGED <<kstate, kbuf, told, socket, running, awaiting, poller, taking, ends, acks>>
      BY <1>8, <2>3 DEF StartCheck
    <3>3. \A c \in Buffer : start'[c].keeper # None => StartedFor(start[c].keeper, c)'
      BY <3>1, <3>2
    <3>4. \A c \in Buffer : start'[c].stage \in {"attached", "checked"} => start'[c].keeper # None
      BY <3>1
    <3>. QED BY <3>2, <3>3, <3>4
  <2>. QED BY <2>2, <2>3
<1>8a. ASSUME NEW b \in Buffer, StartRegister(b) PROVE Bound'
  <2>1. start[b].keeper \in Keeper /\ StartedFor(start[b].keeper, b)
    BY <1>8a DEF StartRegister, StartTask
  <2>2. /\ running' = [running EXCEPT ![b] = start[b].keeper]
        /\ \/ awaiting' = awaiting
           \/ awaiting' = [awaiting EXCEPT ![b] = start[b].keeper]
    BY <1>8a DEF StartRegister, Registered
  <2>3. \A c \in Buffer : /\ start'[c].keeper = start[c].keeper
                          /\ start'[c].stage \in {"attached", "checked"}
                               => start[c].stage \in {"attached", "checked"}
    BY <1>8a DEF StartRegister, StartTask
  <2>4. UNCHANGED <<kstate, kbuf, told, socket, poller, taking, ends, acks>>
    BY <1>8a DEF StartRegister
  <2>5. \A c \in Buffer : running'[c] # None => StartedFor(running[c], c)'
    BY <2>1, <2>2, <2>4
  <2>6. \A c \in Buffer : awaiting'[c] # None => StartedFor(awaiting[c], c)'
    BY <2>1, <2>2, <2>4
  <2>7. \A c \in Buffer : start'[c].keeper # None => StartedFor(start[c].keeper, c)'
    BY <2>3, <2>4
  <2>. QED BY <2>3, <2>4, <2>5, <2>6, <2>7
<1>9. ASSUME NEW b \in Buffer, SpawnFails(b) PROVE Bound'
  BY <1>9, TaskFields DEF SpawnFails
<1>10. ASSUME NEW b \in Buffer, StatusFails(b) PROVE Bound'
  BY <1>10, TaskFields DEF StatusFails, LetGoUnregistered, StartTask
<1>11. ASSUME NEW b \in Buffer, StartFinish(b) PROVE Bound'
  BY <1>11, TaskFields DEF StartFinish, StartTask
<1>12. ASSUME NEW b \in Buffer, StartDiscard(b) PROVE Bound'
  BY <1>12, TaskFields DEF StartDiscard, LetGo
<1>13. ASSUME NEW b \in Buffer, StartFailed(b) PROVE Bound'
  BY <1>13, TaskFields DEF StartFailed
<1>14. ASSUME NEW b \in Buffer, CreateBuffer(b) PROVE Bound'
  BY <1>14, TaskFields DEF CreateBuffer
<1>15. ASSUME NEW k \in Keeper, PollExit(k) PROVE Bound'
  BY <1>15 DEF PollExit, Ended, EndReport
<1>16. ASSUME NEW k \in Keeper, PollBroken(k) PROVE Bound'
  BY <1>16 DEF PollBroken, Ended, EndReport
<1>17. ASSUME NEW end \in ends, RecordEnd(end) PROVE Bound'
  BY <1>17 DEF RecordEnd, EndReport
<1>18. ASSUME NEW b \in Buffer, Release(b) PROVE Bound'
  BY <1>18 DEF Release, LetGo
<1>19. ASSUME SaveFails PROVE Bound'
  BY <1>19, TaskFields DEF SaveFails, EndSave, ServerGone
<1>20. ASSUME SyncFails PROVE Bound'
  BY <1>20, TaskFields DEF SyncFails, EndSave, ServerGone, SaveTask
<1>21. ASSUME SaveRelease PROVE Bound'
  BY <1>21 DEF SaveRelease, SaveTask
<1>22. ASSUME SaveDone PROVE Bound'
  BY <1>22, TaskFields DEF SaveDone, EndSave, ServerGone
<1>23. ASSUME NEW k \in Keeper, TellKeeper(k) PROVE Bound'
  BY <1>23 DEF TellKeeper
<1>24. ASSUME NEW b \in Buffer, TakeUpAttach(b) PROVE Bound'
  BY <1>24 DEF TakeUpAttach, Answers, TakeUpTask
<1>25. ASSUME TakeUpFinish PROVE Bound'
  <2> DEFINE b == taking.buf
             k == taking.keeper
  <2>1. k \in Keeper /\ b \in Buffer /\ StartedFor(k, b)
    BY <1>25 DEF TakeUpFinish, TakeUpTask
  <2>2. /\ running' \in {running, [running EXCEPT ![b] = k]}
        /\ awaiting' \in {awaiting, [awaiting EXCEPT ![b] = k]}
        /\ poller' \in {poller, [poller EXCEPT ![k] = "off"]}
    BY <1>25 DEF TakeUpFinish, Registered, LetGoUnregistered
  <2>3. taking'.keeper = None /\ UNCHANGED <<kstate, kbuf, told, socket, ends, start, acks>>
    BY <1>25, TaskFields DEF TakeUpFinish
  <2>. QED BY <2>1, <2>2, <2>3
<1>26. ASSUME RestartInterrupted PROVE Bound'
  BY <1>26, TaskFields DEF RestartInterrupted
<1>27. ASSUME ServerCrashes PROVE Bound'
  BY <1>27, TaskFields DEF ServerCrashes, ServerGone
<1>28. ASSUME NEW kill \in BOOLEAN, BeginShutDown(kill) PROVE Bound'
  <2>1. \A k \in Keeper : (kstate'[k] = "unborn") <=> (kstate[k] = "unborn")
    BY <1>28 DEF BeginShutDown
  <2>2. \A b \in Buffer : socket'[b] \in {socket[b], None} /\ awaiting'[b] \in {awaiting[b], None}
    BY <1>28 DEF BeginShutDown
  <2>3. UNCHANGED <<kbuf, told, running, start, poller, taking, ends, acks>>
    BY <1>28 DEF BeginShutDown
  <2>. QED BY <2>1, <2>2, <2>3 DEF StartTask, TakeUpTask, EndReport
<1>29. ASSUME ShutDownRelease PROVE Bound'
  BY <1>29 DEF ShutDownRelease
<1>30. ASSUME FinishKill PROVE Bound'
  BY <1>30, TaskFields DEF FinishKill, ServerGone
<1> HIDE DEF TypeOK, Bound, StartedFor, KeeperOrNone, kvars, dvars, svars, hvars
<1>. QED
  BY <1>7a, <1>8a,
     <1>1, <1>2, <1>3, <1>4, <1>5, <1>6, <1>7, <1>8, <1>9, <1>10, <1>11, <1>12, <1>13, <1>14,
     <1>15, <1>16, <1>17, <1>18, <1>19, <1>20, <1>21, <1>22, <1>23, <1>24, <1>25, <1>26, <1>27,
     <1>28, <1>29, <1>30
  DEF Next, KeeperNext, StartNext, RequestNext, EndNext, SaveNext, RestoreNext, ShutDownNext

\* Every step into "down" empties the server, and nothing starts up in a server
\* that is down but by loading the workspace.
LEMMA DownStep == TypeOK /\ Bound /\ DownEmpty /\ [Next]_vars => DownEmpty'
<1> SUFFICES ASSUME TypeOK, Bound, DownEmpty, [Next]_vars PROVE DownEmpty'
  OBVIOUS
<1> USE NoneAssumption DEF TypeOK, DownEmpty, KeeperOrNone, kvars, dvars, svars, hvars
<1>1. ASSUME NEW k \in Keeper,
             ChildExits(k) \/ StartPipe(k) \/ PipeEnds(k) \/ KeeperLeaves(k) \/
             KeeperUnreachable(k) \/ KeeperDies(k)
      PROVE  DownEmpty'
  <2>1. UNCHANGED <<phase, rec, running, awaiting, dying, start, taking, todo, outcome, releasing, save, lastSaved, acks>>
    BY <1>1 DEF ChildExits, StartPipe, PipeEnds, KeeperLeaves, KeeperUnreachable, KeeperDies
  <2>. QED BY <2>1
<1>2. ASSUME NEW b \in Buffer, KillProgram(b)
      PROVE  DownEmpty'
  <2>1. UNCHANGED <<phase, rec, running, awaiting, dying, start, taking, todo, outcome, releasing, save, lastSaved, acks>>
    BY <1>2 DEF KillProgram
  <2>. QED BY <2>1
<1>3. ASSUME UNCHANGED vars
      PROVE  DownEmpty'
  <2>1. UNCHANGED <<phase, rec, running, awaiting, dying, start, taking, todo, outcome, releasing, save, lastSaved, acks>>
    BY <1>3 DEF vars
  <2>. QED BY <2>1
<1>4. ASSUME NEW b \in Buffer, NEW k \in Keeper, SpawnKeeper(b, k) PROVE DownEmpty'
  BY <1>4 DEF SpawnKeeper, StartTask
<1>4a. ASSUME NEW b \in Buffer, NEW k \in Keeper, AttachFails(b, k) PROVE DownEmpty'
  BY <1>4a, TaskFields DEF AttachFails, StartTask
<1>5a. ASSUME NEW b \in Buffer, StartCheck(b) PROVE DownEmpty'
  BY <1>5a, TaskFields DEF StartCheck, LetGoUnregistered, StartTask
<1>5. ASSUME NEW b \in Buffer, StartRegister(b) PROVE DownEmpty'
  BY <1>5, TaskFields DEF StartRegister, Registered, StartTask
<1>6. ASSUME NEW b \in Buffer, SpawnFails(b) PROVE DownEmpty'
  BY <1>6, TaskFields DEF SpawnFails
<1>7. ASSUME NEW b \in Buffer, StatusFails(b) PROVE DownEmpty'
  BY <1>7, TaskFields DEF StatusFails, LetGoUnregistered, StartTask
<1>8. ASSUME NEW b \in Buffer, StartFinish(b) PROVE DownEmpty'
  BY <1>8, RecordEffects, TaskFields DEF StartFinish, StartTask
<1>9. ASSUME NEW b \in Buffer, StartDiscard(b) PROVE DownEmpty'
  BY <1>9, TaskFields DEF StartDiscard, LetGo, Bound
<1>10. ASSUME NEW b \in Buffer, StartFailed(b) PROVE DownEmpty'
  BY <1>10, RecForward, TaskFields DEF StartFailed, Forward
<1>11. ASSUME NEW b \in Buffer, CreateBuffer(b) PROVE DownEmpty'
  BY <1>11, RecordEffects, TaskFields DEF CreateBuffer
<1>12. ASSUME NEW b \in Buffer, AttachBuffer(b) PROVE DownEmpty'
  BY <1>12, RecForward DEF AttachBuffer, Forward
<1>13. ASSUME NEW b \in Buffer, DetachBuffer(b) PROVE DownEmpty'
  BY <1>13, RecForward DEF DetachBuffer, Forward
<1>14. ASSUME NEW b \in Buffer, KillInterrupted(b) PROVE DownEmpty'
  BY <1>14, RecForward DEF KillInterrupted, Forward
<1>15. ASSUME NEW k \in Keeper, PollExit(k) PROVE DownEmpty'
  BY <1>15 DEF PollExit, Ended, EndReport
<1>16. ASSUME NEW k \in Keeper, PollBroken(k) PROVE DownEmpty'
  BY <1>16 DEF PollBroken, Ended, EndReport
<1>17. ASSUME NEW end \in ends, RecordEnd(end) PROVE DownEmpty'
  BY <1>17, RecForward DEF RecordEnd, EndReport, Forward
<1>18. ASSUME DisposeExited PROVE DownEmpty'
  <2>1. ASSUME phase = "down", NEW watched \in SUBSET Buffer PROVE Disposable(rec, watched) = {}
    BY <2>1 DEF Disposable
  <2>2. phase = "down" => releasing' = releasing
    BY <1>18, <2>1 DEF DisposeExited
  <2>3. \A b \in Buffer : rec[b].state = "none" => rec'[b].state = "none"
    BY <1>18, RecForward DEF Forward
  <2>. QED BY <1>18, <2>2, <2>3 DEF DisposeExited
<1>19. ASSUME NEW b \in Buffer, Release(b) PROVE DownEmpty'
  BY <1>19 DEF Release, LetGo
<1>20. ASSUME SaveSnapshot PROVE DownEmpty'
  BY <1>20, RecordEffects DEF SaveSnapshot, SaveTask, SaveAllowed
<1>21. ASSUME SaveWrite PROVE DownEmpty'
  BY <1>21 DEF SaveWrite, SaveTask, Saved
<1>22. ASSUME SaveFails PROVE DownEmpty'
  <2>1. UNCHANGED dvars
    BY <1>22 DEF SaveFails
  <2>2. CASE phase = "final"
    <3>1. ServerGone /\ UNCHANGED <<kvars, hvars>>
      BY <1>22, <2>2 DEF SaveFails, EndSave
    <3>. QED BY <2>1, <3>1, RecordEffects, TaskFields DEF ServerGone
  <2>3. CASE phase # "final"
    BY <1>22, <2>1, <2>3, RecordEffects, TaskFields DEF SaveFails, EndSave
  <2>. QED BY <2>2, <2>3
<1>23. ASSUME SyncFails PROVE DownEmpty'
  <2>1. disk' = save.recs /\ diskUsed' = save.used
    BY <1>23 DEF SyncFails
  <2>2. CASE phase = "final"
    <3>1. ServerGone /\ UNCHANGED <<kvars, hvars>>
      BY <1>23, <2>2 DEF SyncFails, EndSave
    <3>. QED BY <2>1, <3>1, RecordEffects, TaskFields DEF ServerGone
  <2>3. CASE phase # "final"
    BY <1>23, <2>1, <2>3, RecordEffects, TaskFields DEF SyncFails, EndSave
  <2>. QED BY <2>2, <2>3
<1>24. ASSUME SaveRelease PROVE DownEmpty'
  BY <1>24, TaskFields DEF SaveRelease, SaveTask
<1>25. ASSUME SaveDone PROVE DownEmpty'
  <2>1. UNCHANGED dvars
    BY <1>25 DEF SaveDone
  <2>2. CASE phase = "final"
    <3>1. ServerGone /\ UNCHANGED <<kvars, hvars>>
      BY <1>25, <2>2 DEF SaveDone, EndSave
    <3>. QED BY <2>1, <3>1, RecordEffects, TaskFields DEF ServerGone
  <2>3. CASE phase # "final"
    BY <1>25, <2>1, <2>3, RecordEffects, TaskFields DEF SaveDone, EndSave
  <2>. QED BY <2>2, <2>3
<1>26. ASSUME NEW k \in Keeper, TellKeeper(k) PROVE DownEmpty'
  BY <1>26 DEF TellKeeper
<1>27. ASSUME LoadWorkspace PROVE DownEmpty'
  BY <1>27, RecordEffects DEF LoadWorkspace
<1>28. ASSUME NEW b \in Buffer, KeeperMissing(b) PROVE DownEmpty'
  BY <1>28 DEF KeeperMissing
<1>29. ASSUME NEW b \in Buffer, TakeUpAttach(b) PROVE DownEmpty'
  BY <1>29 DEF TakeUpAttach, Answers, TakeUpTask
<1>30. ASSUME NEW b \in Buffer, ApplyRestored(b) PROVE DownEmpty'
  BY <1>30, RecForward DEF ApplyRestored, Forward
<1>31. ASSUME TakeUpFinish PROVE DownEmpty'
  BY <1>31, TaskFields DEF TakeUpFinish, Registered, LetGoUnregistered, TakeUpTask, Bound
<1>32. ASSUME RestartInterrupted PROVE DownEmpty'
  BY <1>32, RecForward, TaskFields DEF RestartInterrupted, Forward
<1>33. ASSUME FinishRestore PROVE DownEmpty'
  BY <1>33 DEF FinishRestore
<1>34. ASSUME ServerCrashes PROVE DownEmpty'
  BY <1>34, RecordEffects, TaskFields DEF ServerCrashes, ServerGone
<1>35. ASSUME NEW kill \in BOOLEAN, BeginShutDown(kill) PROVE DownEmpty'
  BY <1>35 DEF BeginShutDown
<1>36. ASSUME ShutDownRelease PROVE DownEmpty'
  BY <1>36 DEF ShutDownRelease
<1>37. ASSUME FinishKill PROVE DownEmpty'
  BY <1>37, RecordEffects, TaskFields DEF FinishKill, ServerGone
<1>38. ASSUME FinishStop PROVE DownEmpty'
  BY <1>38 DEF FinishStop
<1> HIDE DEF TypeOK, DownEmpty, KeeperOrNone, kvars, dvars, svars, hvars
<1>. QED
  BY <1>4a, <1>5a,
     <1>1, <1>2, <1>3, <1>4, <1>5, <1>6, <1>7, <1>8, <1>9, <1>10, <1>11, <1>12, <1>13, <1>14,
     <1>15, <1>16, <1>17, <1>18, <1>19, <1>20, <1>21, <1>22, <1>23, <1>24, <1>25, <1>26, <1>27,
     <1>28, <1>29, <1>30, <1>31, <1>32, <1>33, <1>34, <1>35, <1>36, <1>37, <1>38
  DEF Next, KeeperNext, StartNext, RequestNext, EndNext, SaveNext, RestoreNext, ShutDownNext

\* Every step keeps the ids of all that is known of a buffer taken: the saved
\* next_buffer_id and the records are written, and restored, together.
LEMMA IdsStep == TypeOK /\ Bound /\ DownEmpty /\ IdsUsed /\ [Next]_vars => IdsUsed'
<1> SUFFICES ASSUME TypeOK, Bound, DownEmpty, IdsUsed, [Next]_vars PROVE IdsUsed'
  OBVIOUS
<1> USE NoneAssumption DEF TypeOK, IdsUsed, KeeperOrNone, kvars, dvars, svars, hvars
<1>1. ASSUME NEW k \in Keeper,
             ChildExits(k) \/ StartPipe(k) \/ PipeEnds(k) \/ KeeperLeaves(k) \/
             KeeperUnreachable(k) \/ KeeperDies(k) \/ TellKeeper(k)
      PROVE  IdsUsed'
  <2>1. UNCHANGED <<disk, diskUsed, rec, used, running, awaiting, start, taking, todo, outcome, releasing, save>>
    BY <1>1 DEF ChildExits, StartPipe, PipeEnds, KeeperLeaves, KeeperUnreachable, KeeperDies,
        TellKeeper
  <2>. QED BY <2>1
<1>2. ASSUME NEW b \in Buffer, KillProgram(b)
      PROVE  IdsUsed'
  <2>1. UNCHANGED <<disk, diskUsed, rec, used, running, awaiting, start, taking, todo, outcome, releasing, save>>
    BY <1>2 DEF KillProgram
  <2>. QED BY <2>1
<1>3. ASSUME FinishRestore \/ FinishStop \/ UNCHANGED vars
      PROVE  IdsUsed'
  <2>1. UNCHANGED <<disk, diskUsed, rec, used, running, awaiting, start, taking, todo, outcome, releasing, save>>
    BY <1>3 DEF FinishRestore, FinishStop, vars
  <2>. QED BY <2>1
<1>4. ASSUME NEW b \in Buffer, NEW k \in Keeper, SpawnKeeper(b, k) PROVE IdsUsed'
  BY <1>4 DEF SpawnKeeper, StartTask
<1>4a. ASSUME NEW b \in Buffer, NEW k \in Keeper, AttachFails(b, k) PROVE IdsUsed'
  BY <1>4a, TaskFields DEF AttachFails, StartTask
<1>5a. ASSUME NEW b \in Buffer, StartCheck(b) PROVE IdsUsed'
  BY <1>5a, TaskFields DEF StartCheck, LetGoUnregistered, StartTask
<1>5. ASSUME NEW b \in Buffer, StartRegister(b) PROVE IdsUsed'
  BY <1>5, TaskFields DEF StartRegister, Registered, StartTask
<1>6. ASSUME NEW b \in Buffer, SpawnFails(b) PROVE IdsUsed'
  BY <1>6, TaskFields DEF SpawnFails
<1>7. ASSUME NEW b \in Buffer, StatusFails(b) PROVE IdsUsed'
  BY <1>7, TaskFields DEF StatusFails, LetGoUnregistered, StartTask
<1>8. ASSUME NEW b \in Buffer, StartFinish(b) PROVE IdsUsed'
  <2>1. b \in used
    BY <1>8 DEF StartFinish, Known
  <2>2. \A c \in Buffer \ {b} : rec'[c] = rec[c] /\ start'[c] = start[c]
    BY <1>8 DEF StartFinish
  <2>3. UNCHANGED <<disk, diskUsed, used, running, awaiting, taking, todo, outcome, releasing, save>>
    BY <1>8 DEF StartFinish
  <2>. QED BY <2>1, <2>2, <2>3
<1>9. ASSUME NEW b \in Buffer, StartDiscard(b) PROVE IdsUsed'
  BY <1>9, TaskFields DEF StartDiscard, LetGo
<1>10. ASSUME NEW b \in Buffer, StartFailed(b) PROVE IdsUsed'
  BY <1>10, RecForward, TaskFields DEF StartFailed, Forward
<1>11. ASSUME NEW b \in Buffer, CreateBuffer(b) PROVE IdsUsed'
  BY <1>11, RecordEffects, TaskFields DEF CreateBuffer
<1>12. ASSUME NEW b \in Buffer, AttachBuffer(b) PROVE IdsUsed'
  BY <1>12, RecForward DEF AttachBuffer, Forward
<1>13. ASSUME NEW b \in Buffer, DetachBuffer(b) PROVE IdsUsed'
  BY <1>13, RecForward DEF DetachBuffer, Forward
<1>14. ASSUME NEW b \in Buffer, KillInterrupted(b) PROVE IdsUsed'
  BY <1>14, RecForward DEF KillInterrupted, Forward
<1>15. ASSUME NEW k \in Keeper, PollExit(k) PROVE IdsUsed'
  BY <1>15 DEF PollExit, Ended, EndReport
<1>16. ASSUME NEW k \in Keeper, PollBroken(k) PROVE IdsUsed'
  BY <1>16 DEF PollBroken, Ended, EndReport
<1>17. ASSUME NEW end \in ends, RecordEnd(end) PROVE IdsUsed'
  BY <1>17, RecForward DEF RecordEnd, EndReport, Forward
<1>18. ASSUME DisposeExited PROVE IdsUsed'
  <2>1. \A b \in Buffer : b \in releasing' => b \in releasing \/ rec[b].state # "none"
    BY <1>18 DEF DisposeExited, Disposable
  <2>2. \A b \in Buffer : rec[b].state = "none" => rec'[b].state = "none"
    BY <1>18, RecForward DEF Forward
  <2>. QED BY <1>18, <2>1, <2>2 DEF DisposeExited
<1>19. ASSUME NEW b \in Buffer, Release(b) PROVE IdsUsed'
  BY <1>19 DEF Release, LetGo
<1>20. ASSUME SaveSnapshot PROVE IdsUsed'
  BY <1>20, RecordEffects DEF SaveSnapshot, SaveTask, Forward
<1>21. ASSUME SaveWrite PROVE IdsUsed'
  BY <1>21 DEF SaveWrite, SaveTask, Saved
<1>22. ASSUME SaveFails PROVE IdsUsed'
  BY <1>22, RecordEffects, TaskFields DEF SaveFails, EndSave, ServerGone
<1>23. ASSUME SyncFails PROVE IdsUsed'
  BY <1>23, RecordEffects, TaskFields DEF SyncFails, EndSave, ServerGone, SaveTask
<1>24. ASSUME SaveRelease PROVE IdsUsed'
  BY <1>24, TaskFields DEF SaveRelease, SaveTask
<1>25. ASSUME SaveDone PROVE IdsUsed'
  BY <1>25, RecordEffects, TaskFields DEF SaveDone, EndSave, ServerGone
<1>26. ASSUME LoadWorkspace PROVE IdsUsed'
  BY <1>26, RecordEffects DEF LoadWorkspace, DownEmpty, Forward
<1>27. ASSUME NEW b \in Buffer, KeeperMissing(b) PROVE IdsUsed'
  BY <1>27 DEF KeeperMissing
<1>28. ASSUME NEW b \in Buffer, TakeUpAttach(b) PROVE IdsUsed'
  BY <1>28 DEF TakeUpAttach, Answers, TakeUpTask
<1>29. ASSUME NEW b \in Buffer, ApplyRestored(b) PROVE IdsUsed'
  <2>1. \A c \in Buffer : rec[c].state = "none" => rec'[c].state = "none"
    BY <1>29, RecForward DEF Forward
  <2>2. todo' \subseteq todo /\ \A c \in Buffer : outcome'[c] \in {outcome[c], "none"}
    BY <1>29 DEF ApplyRestored
  <2>3. UNCHANGED <<dvars, used, running, awaiting, start, taking, releasing, save>>
    BY <1>29 DEF ApplyRestored
  <2>. QED BY <2>1, <2>2, <2>3
<1>30. ASSUME TakeUpFinish PROVE IdsUsed'
  BY <1>30, TaskFields DEF TakeUpFinish, Registered, LetGoUnregistered, TakeUpTask, Bound
<1>31. ASSUME RestartInterrupted PROVE IdsUsed'
  BY <1>31, RecForward, TaskFields DEF RestartInterrupted, Forward
<1>32. ASSUME ServerCrashes PROVE IdsUsed'
  BY <1>32, RecordEffects, TaskFields DEF ServerCrashes, ServerGone
<1>33. ASSUME NEW kill \in BOOLEAN, BeginShutDown(kill) PROVE IdsUsed'
  BY <1>33 DEF BeginShutDown
<1>34. ASSUME ShutDownRelease PROVE IdsUsed'
  BY <1>34 DEF ShutDownRelease
<1>35. ASSUME FinishKill PROVE IdsUsed'
  BY <1>35, RecordEffects, TaskFields DEF FinishKill, ServerGone
<1> HIDE DEF TypeOK, IdsUsed, KeeperOrNone, kvars, dvars, svars, hvars
<1>. QED
  BY <1>4a, <1>5a,
     <1>1, <1>2, <1>3, <1>4, <1>5, <1>6, <1>7, <1>8, <1>9, <1>10, <1>11, <1>12, <1>13, <1>14,
     <1>15, <1>16, <1>17, <1>18, <1>19, <1>20, <1>21, <1>22, <1>23, <1>24, <1>25, <1>26, <1>27,
     <1>28, <1>29, <1>30, <1>31, <1>32, <1>33, <1>34, <1>35
  DEF Next, KeeperNext, StartNext, RequestNext, EndNext, SaveNext, RestoreNext, ShutDownNext

\* Between the copy of the records and the release of keepers, no step brings a
\* released buffer back.
LEMMA ReleasesStep ==
    TypeOK /\ Bound /\ DownEmpty /\ IdsUsed /\ LastSavedOver /\ SaveReleasesOver /\ [Next]_vars
        => SaveReleasesOver'
<1> SUFFICES ASSUME TypeOK, Bound, DownEmpty, IdsUsed, LastSavedOver, SaveReleasesOver, [Next]_vars
             PROVE  SaveReleasesOver'
  OBVIOUS
<1> USE NoneAssumption DEF TypeOK, SaveReleasesOver, kvars, dvars, svars, hvars
<1>1. ASSUME NEW k \in Keeper,
             ChildExits(k) \/ StartPipe(k) \/ PipeEnds(k) \/ KeeperLeaves(k) \/
             KeeperUnreachable(k) \/ KeeperDies(k) \/ PollExit(k) \/ PollBroken(k) \/
             TellKeeper(k)
      PROVE  SaveReleasesOver'
  <2>1. UNCHANGED <<disk, rec, save>>
    BY <1>1 DEF ChildExits, StartPipe, PipeEnds, KeeperLeaves, KeeperUnreachable, KeeperDies,
        PollExit, PollBroken, TellKeeper
  <2>. QED BY <2>1
<1>2. ASSUME NEW b \in Buffer,
             StartCheck(b) \/ StartRegister(b) \/ SpawnFails(b) \/ StatusFails(b) \/ StartDiscard(b) \/
             KillProgram(b) \/ Release(b) \/ KeeperMissing(b) \/ TakeUpAttach(b)
      PROVE  SaveReleasesOver'
  <2>1. UNCHANGED <<disk, rec, save>>
    BY <1>2 DEF StartCheck, StartRegister, SpawnFails, StatusFails, StartDiscard, KillProgram, Release,
        KeeperMissing, TakeUpAttach
  <2>. QED BY <2>1
<1>3. ASSUME NEW b \in Buffer, NEW k \in Keeper, SpawnKeeper(b, k) \/ AttachFails(b, k)
      PROVE  SaveReleasesOver'
  <2>1. UNCHANGED <<disk, rec, save>>
    BY <1>3 DEF SpawnKeeper, AttachFails
  <2>. QED BY <2>1
<1>4. ASSUME NEW kill \in BOOLEAN, BeginShutDown(kill)
      PROVE  SaveReleasesOver'
  <2>1. UNCHANGED <<disk, rec, save>>
    BY <1>4 DEF BeginShutDown
  <2>. QED BY <2>1
<1>5. ASSUME TakeUpFinish \/ FinishRestore \/ ShutDownRelease \/ FinishStop \/ UNCHANGED vars
      PROVE  SaveReleasesOver'
  <2>1. UNCHANGED <<disk, rec, save>>
    BY <1>5 DEF TakeUpFinish, FinishRestore, ShutDownRelease, FinishStop, vars
  <2>. QED BY <2>1
<1>6. ASSUME NEW b \in Buffer, StartFinish(b) PROVE SaveReleasesOver'
  <2> DEFINE s == ApplyStatus(SetPlaced(MarkRunning(rec[b]), TRUE), start[b].running)
  <2>1. rec[b] \in Record /\ start[b].running \in BOOLEAN
    BY DEF StartTask
  <2>2. Over(rec[b]) => Over(s)
    BY <2>1, RecordEffects
  <2>3. rec' = [rec EXCEPT ![b] = s] /\ UNCHANGED <<save, disk>>
    BY <1>6 DEF StartFinish
  <2> HIDE DEF s
  <2>. QED BY <2>2, <2>3 DEF SaveTask
<1>7. ASSUME NEW b \in Buffer, StartFailed(b) PROVE SaveReleasesOver'
  BY <1>7, RecForward, TaskFields DEF StartFailed, Forward, SaveTask
<1>8. ASSUME NEW b \in Buffer, CreateBuffer(b) PROVE SaveReleasesOver'
  BY <1>8, RecordEffects, TaskFields DEF CreateBuffer, IdsUsed
<1>9. ASSUME NEW b \in Buffer, AttachBuffer(b) PROVE SaveReleasesOver'
  BY <1>9, RecForward DEF AttachBuffer, Forward, SaveTask
<1>10. ASSUME NEW b \in Buffer, DetachBuffer(b) PROVE SaveReleasesOver'
  BY <1>10, RecForward DEF DetachBuffer, Forward, SaveTask
<1>11. ASSUME NEW b \in Buffer, KillInterrupted(b) PROVE SaveReleasesOver'
  BY <1>11, RecForward DEF KillInterrupted, Forward, SaveTask
<1>12. ASSUME NEW end \in ends, RecordEnd(end) PROVE SaveReleasesOver'
  BY <1>12, RecForward DEF RecordEnd, EndReport, Forward, SaveTask
<1>13. ASSUME DisposeExited PROVE SaveReleasesOver'
  BY <1>13, RecForward DEF DisposeExited, Forward, SaveTask
<1>14. ASSUME SaveSnapshot PROVE SaveReleasesOver'
  BY <1>14, RecordEffects DEF SaveSnapshot, SaveTask, Unneeded, Forward, Over
<1>15. ASSUME SaveWrite PROVE SaveReleasesOver'
  <2>1. save'.released = save.released /\ save'.early = save.early /\ save'.stage = "written"
    BY <1>15 DEF SaveWrite, SaveTask
  <2>2. save.stage = "snapshot" /\ UNCHANGED rec
    BY <1>15 DEF SaveWrite
  <2>3. CASE disk' = save.recs
    BY <2>1, <2>2, <2>3
  <2>4. CASE UNCHANGED disk /\ lastSaved = [known |-> TRUE, recs |-> save.recs, used |-> save.used]
    BY <2>1, <2>2, <2>4 DEF LastSavedOver
  <2>. QED BY <1>15, <2>3, <2>4 DEF SaveWrite
<1>16. ASSUME SaveFails PROVE SaveReleasesOver'
  BY <1>16, RecordEffects, TaskFields DEF SaveFails, EndSave, ServerGone
<1>17. ASSUME SyncFails PROVE SaveReleasesOver'
  BY <1>17, RecordEffects, TaskFields DEF SyncFails, EndSave, ServerGone, SaveTask
<1>18. ASSUME SaveRelease PROVE SaveReleasesOver'
  BY <1>18, TaskFields DEF SaveRelease, SaveTask
<1>19. ASSUME SaveDone PROVE SaveReleasesOver'
  BY <1>19, RecordEffects, TaskFields DEF SaveDone, EndSave, ServerGone
<1>20. ASSUME LoadWorkspace PROVE SaveReleasesOver'
  BY <1>20, RecordEffects DEF LoadWorkspace, DownEmpty
<1>21. ASSUME NEW b \in Buffer, ApplyRestored(b) PROVE SaveReleasesOver'
  BY <1>21, RecForward DEF ApplyRestored, Forward, SaveTask
<1>22. ASSUME RestartInterrupted PROVE SaveReleasesOver'
  BY <1>22, RecForward, TaskFields DEF RestartInterrupted, Forward, SaveTask
<1>23. ASSUME ServerCrashes PROVE SaveReleasesOver'
  BY <1>23, RecordEffects, TaskFields DEF ServerCrashes, ServerGone
<1>24. ASSUME FinishKill PROVE SaveReleasesOver'
  BY <1>24, RecordEffects, TaskFields DEF FinishKill, ServerGone
<1> HIDE DEF TypeOK, SaveReleasesOver, kvars, dvars, svars, hvars
<1>. QED
  BY <1>1, <1>2, <1>3, <1>4, <1>5, <1>6, <1>7, <1>8, <1>9, <1>10, <1>11, <1>12, <1>13, <1>14,
     <1>15, <1>16, <1>17, <1>18, <1>19, <1>20, <1>21, <1>22, <1>23, <1>24
  DEF Next, KeeperNext, StartNext, RequestNext, EndNext, SaveNext, RestoreNext, ShutDownNext

\* No step makes the file, or what may be written to it, need a keeper that was
\* told its exit was saved.
LEMMA ToldStep ==
    TypeOK /\ Bound /\ DownEmpty /\ IdsUsed /\ SaveReleasesOver /\ ToldUnneeded /\ [Next]_vars
        => ToldUnneeded'
<1> SUFFICES ASSUME TypeOK, Bound, DownEmpty, IdsUsed, SaveReleasesOver, ToldUnneeded, [Next]_vars
             PROVE  ToldUnneeded'
  OBVIOUS
<1> USE NoneAssumption DEF TypeOK, ToldUnneeded, Reachable, kvars, dvars, svars, hvars
<1>1. ASSUME NEW k \in Keeper,
             ChildExits(k) \/ StartPipe(k) \/ PipeEnds(k) \/ KeeperUnreachable(k) \/
             KeeperDies(k) \/ PollExit(k) \/ PollBroken(k)
      PROVE  ToldUnneeded'
  <2>1. UNCHANGED <<kbuf, told, socket, disk, rec, start, save, acks, toldEarly>>
    BY <1>1 DEF ChildExits, StartPipe, PipeEnds, KeeperUnreachable, KeeperDies, PollExit, PollBroken
  <2>. QED BY <2>1
<1>2. ASSUME NEW b \in Buffer,
             KillProgram(b) \/ Release(b) \/ KeeperMissing(b) \/ TakeUpAttach(b)
      PROVE  ToldUnneeded'
  <2>1. UNCHANGED <<kbuf, told, socket, disk, rec, start, save, acks, toldEarly>>
    BY <1>2 DEF KillProgram, Release, KeeperMissing, TakeUpAttach
  <2>. QED BY <2>1
<1>3. ASSUME TakeUpFinish \/ FinishRestore \/ ShutDownRelease \/ FinishStop \/ UNCHANGED vars
      PROVE  ToldUnneeded'
  <2>1. UNCHANGED <<kbuf, told, socket, disk, rec, start, save, acks, toldEarly>>
    BY <1>3 DEF TakeUpFinish, FinishRestore, ShutDownRelease, FinishStop, vars
  <2>. QED BY <2>1
<1>4. ASSUME NEW k \in Keeper, KeeperLeaves(k) PROVE ToldUnneeded'
  BY <1>4 DEF KeeperLeaves, LeaveSocket
<1>5. ASSUME NEW b \in Buffer, NEW k \in Keeper, SpawnKeeper(b, k) PROVE ToldUnneeded'
  BY <1>5 DEF SpawnKeeper, StartTask, Bound
<1>5a. ASSUME NEW b \in Buffer, NEW k \in Keeper, AttachFails(b, k) PROVE ToldUnneeded'
  BY <1>5a, TaskFields DEF AttachFails, StartTask, Bound
<1>6a. ASSUME NEW b \in Buffer, StartCheck(b) PROVE ToldUnneeded'
  BY <1>6a, TaskFields DEF StartCheck, LetGoUnregistered, StartTask
<1>6. ASSUME NEW b \in Buffer, StartRegister(b) PROVE ToldUnneeded'
  BY <1>6, TaskFields DEF StartRegister, Registered, StartTask
<1>7. ASSUME NEW b \in Buffer, SpawnFails(b) PROVE ToldUnneeded'
  BY <1>7, TaskFields DEF SpawnFails
<1>8. ASSUME NEW b \in Buffer, StatusFails(b) PROVE ToldUnneeded'
  BY <1>8, TaskFields DEF StatusFails, LetGoUnregistered, StartTask
<1>9. ASSUME NEW b \in Buffer, StartFinish(b) PROVE ToldUnneeded'
  <2> DEFINE s == ApplyStatus(SetPlaced(MarkRunning(rec[b]), TRUE), start[b].running)
  <2>1. rec[b] \in Record /\ start[b].running \in BOOLEAN
    BY DEF StartTask
  <2>2. Over(rec[b]) => Over(s) /\ ~NeedsKeeper(s)
    BY <2>1, RecordEffects, RecordTypes DEF ApplyStatus
  <2>3. rec' = [rec EXCEPT ![b] = s] /\ start' = [start EXCEPT ![b] = Idle]
    BY <1>9 DEF StartFinish
  <2>4. start[b].stage = "registered"
    BY <1>9 DEF StartFinish
  <2>5. UNCHANGED <<kbuf, told, acks, socket, disk, save, toldEarly>>
    BY <1>9 DEF StartFinish
  <2> HIDE DEF s
  <2>. QED BY <2>2, <2>3, <2>4, <2>5, TaskFields
<1>10. ASSUME NEW b \in Buffer, StartDiscard(b) PROVE ToldUnneeded'
  BY <1>10, TaskFields DEF StartDiscard, LetGo
<1>11. ASSUME NEW b \in Buffer, StartFailed(b) PROVE ToldUnneeded'
  BY <1>11, RecForward, TaskFields DEF StartFailed, Forward
<1>12. ASSUME NEW b \in Buffer, CreateBuffer(b) PROVE ToldUnneeded'
  BY <1>12, RecordEffects, TaskFields DEF CreateBuffer
<1>13. ASSUME NEW b \in Buffer, AttachBuffer(b) PROVE ToldUnneeded'
  BY <1>13, RecForward DEF AttachBuffer, Forward
<1>14. ASSUME NEW b \in Buffer, DetachBuffer(b) PROVE ToldUnneeded'
  BY <1>14, RecForward DEF DetachBuffer, Forward
<1>15. ASSUME NEW b \in Buffer, KillInterrupted(b) PROVE ToldUnneeded'
  BY <1>15, RecForward DEF KillInterrupted, Forward
<1>16. ASSUME NEW end \in ends, RecordEnd(end) PROVE ToldUnneeded'
  BY <1>16, RecForward DEF RecordEnd, EndReport, Forward
<1>17. ASSUME DisposeExited PROVE ToldUnneeded'
  BY <1>17, RecForward DEF DisposeExited, Forward
<1>18. ASSUME SaveSnapshot PROVE ToldUnneeded'
  BY <1>18, RecordEffects DEF SaveSnapshot, SaveTask, Forward
<1>19. ASSUME SaveWrite PROVE ToldUnneeded'
  BY <1>19 DEF SaveWrite, SaveTask, Saved
<1>20. ASSUME SaveFails PROVE ToldUnneeded'
  BY <1>20, RecordEffects, TaskFields DEF SaveFails, EndSave, ServerGone
<1>21. ASSUME SyncFails PROVE ToldUnneeded'
  BY <1>21, RecordEffects, TaskFields DEF SyncFails, EndSave, ServerGone, SaveTask
<1>22. ASSUME SaveRelease PROVE ToldUnneeded'
  <2>1. ASSUME NEW k \in acks' \ acks, k \notin toldEarly'
        PROVE  /\ k \in Keeper /\ kbuf[k] \in Buffer
               /\ Over(rec[kbuf[k]]) /\ Over(disk[kbuf[k]])
    <3>1. PICK b \in save.released : awaiting[b] = k /\ k # None
      BY <1>22, <2>1 DEF SaveRelease
    <3>2. b \in Buffer /\ k \in Keeper /\ kbuf[k] = b
      BY <3>1 DEF SaveTask, Bound, StartedFor, KeeperOrNone
    <3>3. b \notin save.early
      BY <1>22, <2>1, <3>1 DEF SaveRelease
    <3>. QED BY <1>22, <3>1, <3>2, <3>3 DEF SaveRelease, SaveReleasesOver
  <2>2. save'.stage = "telling" /\ toldEarly \subseteq toldEarly'
    BY <1>22, TaskFields DEF SaveRelease
  <2>3. UNCHANGED <<kbuf, told, socket, disk, rec, start>>
    BY <1>22 DEF SaveRelease
  <2>. QED BY <2>1, <2>2, <2>3, RecordEffects
<1>23. ASSUME SaveDone PROVE ToldUnneeded'
  BY <1>23, RecordEffects, TaskFields DEF SaveDone, EndSave, ServerGone
<1>24. ASSUME NEW k \in Keeper, TellKeeper(k) PROVE ToldUnneeded'
  BY <1>24 DEF TellKeeper
<1>25. ASSUME LoadWorkspace PROVE ToldUnneeded'
  BY <1>25, RecordEffects DEF LoadWorkspace, DownEmpty, Forward
<1>26. ASSUME NEW b \in Buffer, ApplyRestored(b) PROVE ToldUnneeded'
  BY <1>26, RecForward DEF ApplyRestored, Forward
<1>27. ASSUME RestartInterrupted PROVE ToldUnneeded'
  BY <1>27, RecForward, TaskFields DEF RestartInterrupted, Forward
<1>28. ASSUME ServerCrashes PROVE ToldUnneeded'
  BY <1>28, RecordEffects, TaskFields DEF ServerCrashes, ServerGone
<1>29. ASSUME NEW kill \in BOOLEAN, BeginShutDown(kill) PROVE ToldUnneeded'
  BY <1>29 DEF BeginShutDown
<1>30. ASSUME FinishKill PROVE ToldUnneeded'
  BY <1>30, RecordEffects, TaskFields DEF FinishKill, ServerGone
<1> HIDE DEF TypeOK, ToldUnneeded, Reachable, kvars, dvars, svars, hvars
<1>. QED
  BY <1>5a, <1>6a,
     <1>1, <1>2, <1>3, <1>4, <1>5, <1>6, <1>7, <1>8, <1>9, <1>10, <1>11, <1>12, <1>13, <1>14,
     <1>15, <1>16, <1>17, <1>18, <1>19, <1>20, <1>21, <1>22, <1>23, <1>24, <1>25, <1>26, <1>27,
     <1>28, <1>29, <1>30
  DEF Next, KeeperNext, StartNext, RequestNext, EndNext, SaveNext, RestoreNext, ShutDownNext

\* No step brings back, in the records or in a save in flight, a buffer the file
\* says exited.
LEMMA ExitStep ==
    TypeOK /\ Bound /\ DownEmpty /\ IdsUsed /\ SavedExitOver /\ [Next]_vars
        => SavedExitOver'
<1> SUFFICES ASSUME TypeOK, Bound, DownEmpty, IdsUsed, SavedExitOver, [Next]_vars
             PROVE  SavedExitOver'
  OBVIOUS
<1> USE NoneAssumption DEF TypeOK, SavedExitOver, kvars, dvars, svars, hvars
<1>1. ASSUME NEW k \in Keeper,
             ChildExits(k) \/ StartPipe(k) \/ PipeEnds(k) \/ KeeperLeaves(k) \/
             KeeperUnreachable(k) \/ KeeperDies(k) \/ PollExit(k) \/ PollBroken(k) \/
             TellKeeper(k)
      PROVE  SavedExitOver'
  <2>1. UNCHANGED <<disk, diskUsed, phase, rec, used, save>>
    BY <1>1 DEF ChildExits, StartPipe, PipeEnds, KeeperLeaves, KeeperUnreachable, KeeperDies,
        PollExit, PollBroken, TellKeeper
  <2>. QED BY <2>1
<1>2. ASSUME NEW b \in Buffer,
             StartCheck(b) \/ StartRegister(b) \/ SpawnFails(b) \/ StatusFails(b) \/ StartDiscard(b) \/
             KillProgram(b) \/ Release(b) \/ KeeperMissing(b) \/ TakeUpAttach(b)
      PROVE  SavedExitOver'
  <2>1. UNCHANGED <<disk, diskUsed, phase, rec, used, save>>
    BY <1>2 DEF StartCheck, StartRegister, SpawnFails, StatusFails, StartDiscard, KillProgram, Release,
        KeeperMissing, TakeUpAttach
  <2>. QED BY <2>1
<1>3. ASSUME NEW b \in Buffer, NEW k \in Keeper, SpawnKeeper(b, k) \/ AttachFails(b, k)
      PROVE  SavedExitOver'
  <2>1. UNCHANGED <<disk, diskUsed, phase, rec, used, save>>
    BY <1>3 DEF SpawnKeeper, AttachFails
  <2>. QED BY <2>1
<1>4. ASSUME TakeUpFinish \/ UNCHANGED vars
      PROVE  SavedExitOver'
  <2>1. UNCHANGED <<disk, diskUsed, phase, rec, used, save>>
    BY <1>4 DEF TakeUpFinish, vars
  <2>. QED BY <2>1
<1>5. ASSUME NEW b \in Buffer, StartFinish(b) PROVE SavedExitOver'
  <2> DEFINE s == ApplyStatus(SetPlaced(MarkRunning(rec[b]), TRUE), start[b].running)
  <2>1. rec[b] \in Record /\ start[b].running \in BOOLEAN
    BY DEF StartTask
  <2>2. Over(rec[b]) => Over(s)
    BY <2>1, RecordEffects
  <2>3. rec' = [rec EXCEPT ![b] = s] /\ UNCHANGED <<disk, diskUsed, phase, used, save>>
    BY <1>5 DEF StartFinish
  <2> HIDE DEF s
  <2>. QED BY <2>2, <2>3
<1>6. ASSUME NEW b \in Buffer, StartFailed(b) PROVE SavedExitOver'
  BY <1>6, RecForward, TaskFields DEF StartFailed, Forward
<1>7. ASSUME NEW b \in Buffer, CreateBuffer(b) PROVE SavedExitOver'
  BY <1>7, RecordEffects, TaskFields DEF CreateBuffer, IdsUsed
<1>8. ASSUME NEW b \in Buffer, AttachBuffer(b) PROVE SavedExitOver'
  BY <1>8, RecForward DEF AttachBuffer, Forward
<1>9. ASSUME NEW b \in Buffer, DetachBuffer(b) PROVE SavedExitOver'
  BY <1>9, RecForward DEF DetachBuffer, Forward
<1>10. ASSUME NEW b \in Buffer, KillInterrupted(b) PROVE SavedExitOver'
  BY <1>10, RecForward DEF KillInterrupted, Forward
<1>11. ASSUME NEW end \in ends, RecordEnd(end) PROVE SavedExitOver'
  BY <1>11, RecForward DEF RecordEnd, EndReport, Forward
<1>12. ASSUME DisposeExited PROVE SavedExitOver'
  BY <1>12, RecForward DEF DisposeExited, Forward
<1>13. ASSUME SaveSnapshot PROVE SavedExitOver'
  <2>1. phase # "down" /\ UNCHANGED <<phase, disk, diskUsed, rec, used>>
    BY <1>13 DEF SaveSnapshot, SaveAllowed
  <2>2. save'.used = used /\ \A b \in Buffer : save'.recs[b] = Persisted(rec[b])
    BY <1>13 DEF SaveSnapshot
  <2>3. \A b \in Buffer : /\ Over(rec[b]) => Over(save'.recs[b])
                          /\ save'.recs[b].state = rec[b].state
    <3>1. \A r \in Record : Persisted(r).state = r.state
      BY RecordOps
    <3>. QED BY <2>2, <3>1 DEF Over
  <2>4. \A b \in Buffer : save'.recs[b].state = "Exited" => Over(rec[b])
    BY <2>3 DEF Over
  <2>. QED BY <2>1, <2>2, <2>3, <2>4
<1>14. ASSUME SaveWrite PROVE SavedExitOver'
  BY <1>14 DEF SaveWrite, SaveTask, Saved
<1>15. ASSUME SaveFails PROVE SavedExitOver'
  BY <1>15, RecordEffects, TaskFields DEF SaveFails, EndSave, ServerGone
<1>16. ASSUME SyncFails PROVE SavedExitOver'
  BY <1>16, RecordEffects, TaskFields DEF SyncFails, EndSave, ServerGone, SaveTask
<1>17. ASSUME SaveRelease PROVE SavedExitOver'
  BY <1>17, TaskFields DEF SaveRelease, SaveTask
<1>18. ASSUME SaveDone PROVE SavedExitOver'
  BY <1>18, RecordEffects, TaskFields DEF SaveDone, EndSave, ServerGone
<1>19. ASSUME LoadWorkspace PROVE SavedExitOver'
  BY <1>19, RecordEffects DEF LoadWorkspace, DownEmpty, Forward, Over
<1>20. ASSUME NEW b \in Buffer, ApplyRestored(b) PROVE SavedExitOver'
  BY <1>20, RecForward DEF ApplyRestored, Forward
<1>21. ASSUME RestartInterrupted PROVE SavedExitOver'
  BY <1>21, RecForward, TaskFields DEF RestartInterrupted, Forward
<1>22. ASSUME FinishRestore PROVE SavedExitOver'
  BY <1>22 DEF FinishRestore
<1>23. ASSUME ServerCrashes PROVE SavedExitOver'
  BY <1>23, RecordEffects, TaskFields DEF ServerCrashes, ServerGone
<1>24. ASSUME NEW kill \in BOOLEAN, BeginShutDown(kill) PROVE SavedExitOver'
  BY <1>24 DEF BeginShutDown
<1>25. ASSUME FinishKill PROVE SavedExitOver'
  BY <1>25, RecordEffects, TaskFields DEF FinishKill, ServerGone
<1>25a. ASSUME ShutDownRelease PROVE SavedExitOver'
  BY <1>25a DEF ShutDownRelease
<1>26. ASSUME FinishStop PROVE SavedExitOver'
  BY <1>26 DEF FinishStop
<1> HIDE DEF TypeOK, SavedExitOver, kvars, dvars, svars, hvars
<1>. QED
  BY <1>25a,
     <1>1, <1>2, <1>3, <1>4, <1>5, <1>6, <1>7, <1>8, <1>9, <1>10, <1>11, <1>12, <1>13, <1>14,
     <1>15, <1>16, <1>17, <1>18, <1>19, <1>20, <1>21, <1>22, <1>23, <1>24, <1>25, <1>26
  DEF Next, KeeperNext, StartNext, RequestNext, EndNext, SaveNext, RestoreNext, ShutDownNext

\* Nothing the last known save says is over comes back, though a write may have
\* replaced the file and failed after it (write_workspace syncs the directory last).
LEMMA LastSavedStep ==
    TypeOK /\ Bound /\ DownEmpty /\ IdsUsed /\ LastSavedOver /\ [Next]_vars
        => LastSavedOver'
<1> SUFFICES ASSUME TypeOK, Bound, DownEmpty, IdsUsed, LastSavedOver, [Next]_vars
             PROVE  LastSavedOver'
  OBVIOUS
<1> USE NoneAssumption DEF TypeOK, LastSavedOver, kvars, dvars, svars, hvars
<1>1. ASSUME NEW k \in Keeper,
             ChildExits(k) \/ StartPipe(k) \/ PipeEnds(k) \/ KeeperLeaves(k) \/
             KeeperUnreachable(k) \/ KeeperDies(k) \/ PollExit(k) \/ PollBroken(k) \/
             TellKeeper(k)
      PROVE  LastSavedOver'
  <2>1. UNCHANGED <<disk, rec, used, save, lastSaved>>
    BY <1>1 DEF ChildExits, StartPipe, PipeEnds, KeeperLeaves, KeeperUnreachable, KeeperDies,
        PollExit, PollBroken, TellKeeper
  <2>. QED BY <2>1
<1>2. ASSUME NEW b \in Buffer,
             StartCheck(b) \/ StartRegister(b) \/ SpawnFails(b) \/ StatusFails(b) \/ StartDiscard(b) \/
             KillProgram(b) \/ Release(b) \/ KeeperMissing(b) \/ TakeUpAttach(b)
      PROVE  LastSavedOver'
  <2>1. UNCHANGED <<disk, rec, used, save, lastSaved>>
    BY <1>2 DEF StartCheck, StartRegister, SpawnFails, StatusFails, StartDiscard, KillProgram, Release,
        KeeperMissing, TakeUpAttach
  <2>. QED BY <2>1
<1>3. ASSUME NEW b \in Buffer, NEW k \in Keeper, SpawnKeeper(b, k) \/ AttachFails(b, k)
      PROVE  LastSavedOver'
  <2>1. UNCHANGED <<disk, rec, used, save, lastSaved>>
    BY <1>3 DEF SpawnKeeper, AttachFails
  <2>. QED BY <2>1
<1>4. ASSUME NEW kill \in BOOLEAN, BeginShutDown(kill)
      PROVE  LastSavedOver'
  <2>1. UNCHANGED <<disk, rec, used, save, lastSaved>>
    BY <1>4 DEF BeginShutDown
  <2>. QED BY <2>1
<1>5. ASSUME TakeUpFinish \/ FinishRestore \/ ShutDownRelease \/ FinishStop \/ UNCHANGED vars
      PROVE  LastSavedOver'
  <2>1. UNCHANGED <<disk, rec, used, save, lastSaved>>
    BY <1>5 DEF TakeUpFinish, FinishRestore, ShutDownRelease, FinishStop, vars
  <2>. QED BY <2>1
<1>6. ASSUME NEW b \in Buffer, StartFinish(b) PROVE LastSavedOver'
  <2> DEFINE s == ApplyStatus(SetPlaced(MarkRunning(rec[b]), TRUE), start[b].running)
  <2>1. rec[b] \in Record /\ start[b].running \in BOOLEAN
    BY DEF StartTask
  <2>2. Over(rec[b]) => Over(s)
    BY <2>1, RecordEffects
  <2>3. rec' = [rec EXCEPT ![b] = s] /\ UNCHANGED <<save, disk, used, lastSaved>>
    BY <1>6 DEF StartFinish
  <2> HIDE DEF s
  <2>. QED BY <2>2, <2>3 DEF Saved, SaveTask
<1>7. ASSUME NEW b \in Buffer, StartFailed(b) PROVE LastSavedOver'
  BY <1>7, RecForward, TaskFields DEF StartFailed, Forward, Saved, SaveTask
<1>8. ASSUME NEW b \in Buffer, CreateBuffer(b) PROVE LastSavedOver'
  <2>1. b \notin used /\ used \subseteq used' /\ UNCHANGED <<save, disk, lastSaved>>
    BY <1>8 DEF CreateBuffer
  <2>2. \A c \in Buffer \ {b} : rec'[c] = rec[c]
    BY <1>8 DEF CreateBuffer
  <2>. QED BY <2>1, <2>2 DEF Saved, SaveTask
<1>9. ASSUME NEW b \in Buffer, AttachBuffer(b) PROVE LastSavedOver'
  BY <1>9, RecForward DEF AttachBuffer, Forward, Saved, SaveTask
<1>10. ASSUME NEW b \in Buffer, DetachBuffer(b) PROVE LastSavedOver'
  BY <1>10, RecForward DEF DetachBuffer, Forward, Saved, SaveTask
<1>11. ASSUME NEW b \in Buffer, KillInterrupted(b) PROVE LastSavedOver'
  BY <1>11, RecForward DEF KillInterrupted, Forward, Saved, SaveTask
<1>12. ASSUME NEW end \in ends, RecordEnd(end) PROVE LastSavedOver'
  BY <1>12, RecForward DEF RecordEnd, EndReport, Forward, Saved, SaveTask
<1>13. ASSUME DisposeExited PROVE LastSavedOver'
  BY <1>13, RecForward DEF DisposeExited, Forward, Saved, SaveTask
<1>14. ASSUME SaveSnapshot PROVE LastSavedOver'
  <2>1. UNCHANGED <<disk, rec, used, lastSaved>>
    BY <1>14 DEF SaveSnapshot
  <2>2. /\ save'.used = used
        /\ \A b \in Buffer : save'.recs[b] = Persisted(rec[b])
        /\ \A b \in save'.released : b \in Buffer /\ awaiting[b] # None
    BY <1>14 DEF SaveSnapshot
  <2>3. \A b \in Buffer : Over(rec[b]) <=> Over(save'.recs[b])
    BY <2>2, PersistedOver
  <2>. QED BY <2>1, <2>2, <2>3 DEF IdsUsed, Saved
<1>15. ASSUME SaveWrite PROVE LastSavedOver'
  <2>1. CASE UNCHANGED <<disk, diskUsed, lastSaved>>
    BY <1>15, <2>1 DEF SaveWrite, SaveTask
  <2>2. CASE disk' = save.recs /\ lastSaved' = [known |-> TRUE, recs |-> save.recs, used |-> save.used]
    BY <1>15, <2>2 DEF SaveWrite, SaveTask
  <2>. QED BY <1>15, <2>1, <2>2 DEF SaveWrite
<1>16. ASSUME SaveFails PROVE LastSavedOver'
  BY <1>16, RecordEffects, TaskFields DEF SaveFails, EndSave, ServerGone
<1>17. ASSUME SyncFails PROVE LastSavedOver'
  BY <1>17, RecordEffects, TaskFields DEF SyncFails, EndSave, ServerGone, SaveTask, Saved
<1>18. ASSUME SaveRelease PROVE LastSavedOver'
  BY <1>18, TaskFields DEF SaveRelease, SaveTask
<1>19. ASSUME SaveDone PROVE LastSavedOver'
  BY <1>19, RecordEffects, TaskFields DEF SaveDone, EndSave, ServerGone
<1>20. ASSUME LoadWorkspace PROVE LastSavedOver'
  BY <1>20, RecordEffects DEF LoadWorkspace, DownEmpty
<1>21. ASSUME NEW b \in Buffer, ApplyRestored(b) PROVE LastSavedOver'
  BY <1>21, RecForward DEF ApplyRestored, Forward, Saved, SaveTask
<1>22. ASSUME RestartInterrupted PROVE LastSavedOver'
  BY <1>22, RecForward, TaskFields DEF RestartInterrupted, Forward, Saved, SaveTask
<1>23. ASSUME ServerCrashes PROVE LastSavedOver'
  BY <1>23, RecordEffects, TaskFields DEF ServerCrashes, ServerGone
<1>24. ASSUME FinishKill PROVE LastSavedOver'
  BY <1>24, RecordEffects, TaskFields DEF FinishKill, ServerGone
<1> HIDE DEF TypeOK, LastSavedOver, kvars, dvars, svars, hvars
<1>. QED
  BY <1>1, <1>2, <1>3, <1>4, <1>5, <1>6, <1>7, <1>8, <1>9, <1>10, <1>11, <1>12, <1>13, <1>14,
     <1>15, <1>16, <1>17, <1>18, <1>19, <1>20, <1>21, <1>22, <1>23, <1>24
  DEF Next, KeeperNext, StartNext, RequestNext, EndNext, SaveNext, RestoreNext, ShutDownNext

\* No step takes the runtime of a record that is still there, before the server
\* ends.
LEMMA RuntimeStep ==
    TypeOK /\ Bound /\ DownEmpty /\ IdsUsed /\ RuntimeHeld /\ [Next]_vars
        => RuntimeHeld'
<1> SUFFICES ASSUME TypeOK, Bound, DownEmpty, IdsUsed, RuntimeHeld, [Next]_vars
             PROVE  RuntimeHeld'
  OBVIOUS
<1> USE NoneAssumption DEF TypeOK, RuntimeHeld, Live, KeeperOrNone, kvars, dvars, svars, hvars
<1>1. ASSUME NEW k \in Keeper,
             ChildExits(k) \/ StartPipe(k) \/ PipeEnds(k) \/ KeeperLeaves(k) \/
             KeeperUnreachable(k) \/ KeeperDies(k) \/ TellKeeper(k)
      PROVE  RuntimeHeld'
  <2>1. UNCHANGED <<phase, rec, running, dying, start, outcome, releasing>>
    BY <1>1 DEF ChildExits, StartPipe, PipeEnds, KeeperLeaves, KeeperUnreachable, KeeperDies,
        TellKeeper
  <2>. QED BY <2>1
<1>2. ASSUME NEW b \in Buffer, KillProgram(b) \/ TakeUpAttach(b)
      PROVE  RuntimeHeld'
  <2>1. UNCHANGED <<phase, rec, running, dying, start, outcome, releasing>>
    BY <1>2 DEF KillProgram, TakeUpAttach
  <2>. QED BY <2>1
<1>3. ASSUME SaveSnapshot \/ SaveWrite \/ SaveRelease \/ UNCHANGED vars
      PROVE  RuntimeHeld'
  <2>1. UNCHANGED <<phase, rec, running, dying, start, outcome, releasing>>
    BY <1>3 DEF SaveSnapshot, SaveWrite, SaveRelease, vars
  <2>. QED BY <2>1
<1>4. ASSUME NEW b \in Buffer, NEW k \in Keeper, SpawnKeeper(b, k) PROVE RuntimeHeld'
  BY <1>4 DEF SpawnKeeper, StartTask
<1>4a. ASSUME NEW b \in Buffer, NEW k \in Keeper, AttachFails(b, k) PROVE RuntimeHeld'
  BY <1>4a, TaskFields DEF AttachFails, StartTask
<1>5. ASSUME NEW b \in Buffer, StartCheck(b) PROVE RuntimeHeld'
  <2>1. \A c \in Buffer : start'[c].stage = "registered" => start[c].stage = "registered"
    BY <1>5, TaskFields DEF StartCheck, StartTask
  <2>2. UNCHANGED <<phase, rec, running, dying, outcome, releasing>>
    BY <1>5 DEF StartCheck
  <2>. QED BY <2>1, <2>2
<1>5a. ASSUME NEW b \in Buffer, StartRegister(b) PROVE RuntimeHeld'
  <2>1. start[b].keeper # None
    BY <1>5a DEF StartRegister, Bound
  <2>2. running' = [running EXCEPT ![b] = start[b].keeper]
    BY <1>5a DEF StartRegister, Registered
  <2>. QED BY <1>5a, <2>1, <2>2 DEF StartRegister, StartTask
<1>6. ASSUME NEW b \in Buffer, SpawnFails(b) PROVE RuntimeHeld'
  BY <1>6, TaskFields DEF SpawnFails
<1>7. ASSUME NEW b \in Buffer, StatusFails(b) PROVE RuntimeHeld'
  BY <1>7, TaskFields DEF StatusFails, LetGoUnregistered, StartTask
<1>8. ASSUME NEW b \in Buffer, StartFinish(b) PROVE RuntimeHeld'
  <2>1. running[b] # None \/ ~Live
    BY <1>8 DEF StartFinish, Known
  <2>2. \A c \in Buffer \ {b} : rec'[c] = rec[c] /\ start'[c] = start[c]
    BY <1>8 DEF StartFinish
  <2>3. b \notin releasing /\ start'[b].stage = "idle"
    BY <1>8, TaskFields DEF StartFinish, Known
  <2>4. UNCHANGED <<phase, dying, releasing, outcome, running>>
    BY <1>8 DEF StartFinish
  <2>. QED BY <2>1, <2>2, <2>3, <2>4
<1>9. ASSUME NEW b \in Buffer, StartDiscard(b) PROVE RuntimeHeld'
  BY <1>9, TaskFields DEF StartDiscard, LetGo, Known
<1>10. ASSUME NEW b \in Buffer, StartFailed(b) PROVE RuntimeHeld'
  <2>1. \A c \in Buffer : /\ rec[c].state = "none" => rec'[c].state = "none"
                          /\ rec'[c].state = "Running" => rec[c].state = "Running"
    BY <1>10, RecForward, RecRests DEF Forward, Rests
  <2>2. \A c \in Buffer : start'[c].stage = "registered" => start[c].stage = "registered"
    BY <1>10, TaskFields DEF StartFailed
  <2>3. UNCHANGED <<phase, running, dying, outcome, releasing>>
    BY <1>10 DEF StartFailed
  <2>. QED BY <2>1, <2>2, <2>3
<1>11. ASSUME NEW b \in Buffer, CreateBuffer(b) PROVE RuntimeHeld'
  <2>1. b \notin releasing /\ outcome[b] = "none" /\ NewRecord.state = "Created"
    BY <1>11, RecordOps DEF CreateBuffer, IdsUsed
  <2>. QED BY <1>11, <2>1, TaskFields DEF CreateBuffer
<1>12. ASSUME NEW b \in Buffer, AttachBuffer(b) PROVE RuntimeHeld'
  BY <1>12, RecForward, RecRests DEF AttachBuffer, Forward, Rests
<1>13. ASSUME NEW b \in Buffer, DetachBuffer(b) PROVE RuntimeHeld'
  BY <1>13, RecForward, RecRests DEF DetachBuffer, Forward, Rests
<1>14. ASSUME NEW b \in Buffer, KillInterrupted(b) PROVE RuntimeHeld'
  BY <1>14, RecForward, RecRests DEF KillInterrupted, Forward, Rests
<1>15. ASSUME NEW k \in Keeper, PollExit(k) PROVE RuntimeHeld'
  BY <1>15 DEF PollExit, Ended, EndReport
<1>16. ASSUME NEW k \in Keeper, PollBroken(k) PROVE RuntimeHeld'
  BY <1>16 DEF PollBroken, Ended, EndReport
<1>17. ASSUME NEW end \in ends, RecordEnd(end) PROVE RuntimeHeld'
  BY <1>17, RecForward, RecRests DEF RecordEnd, EndReport, Forward, Rests
<1>18. ASSUME DisposeExited PROVE RuntimeHeld'
  <2>1. \A b \in Buffer : b \in releasing' => b \in releasing \/ rec'[b].state = "none"
    BY <1>18, RecordEffects DEF DisposeExited, Without
  <2>2. \A b \in Buffer : /\ rec[b].state = "none" => rec'[b].state = "none"
                          /\ rec'[b].state = "Running" => rec[b].state = "Running"
    BY <1>18, RecForward, RecRests DEF Forward, Rests
  <2>. QED BY <1>18, <2>1, <2>2 DEF DisposeExited
<1>19. ASSUME NEW b \in Buffer, Release(b) PROVE RuntimeHeld'
  BY <1>19 DEF Release, LetGo
<1>20. ASSUME SaveFails PROVE RuntimeHeld'
  BY <1>20, RecordEffects, TaskFields DEF SaveFails, EndSave, ServerGone
<1>21. ASSUME SyncFails PROVE RuntimeHeld'
  BY <1>21, RecordEffects, TaskFields DEF SyncFails, EndSave, ServerGone, SaveTask
<1>22. ASSUME SaveDone PROVE RuntimeHeld'
  BY <1>22, RecordEffects, TaskFields DEF SaveDone, EndSave, ServerGone
<1>23. ASSUME LoadWorkspace PROVE RuntimeHeld'
  <2>1. \A b \in Buffer : rec'[b].state # "Running"
    BY <1>23, RecordRests DEF LoadWorkspace
  <2>. QED BY <1>23, <2>1 DEF LoadWorkspace, DownEmpty
<1>24. ASSUME NEW b \in Buffer, KeeperMissing(b) PROVE RuntimeHeld'
  BY <1>24 DEF KeeperMissing
<1>25. ASSUME NEW b \in Buffer, ApplyRestored(b) PROVE RuntimeHeld'
  <2>1. \A c \in Buffer : rec[c].state = "none" => rec'[c].state = "none"
    BY <1>25, RecForward DEF Forward
  <2>2. outcome[b] \in {"gone", "exited"} \/ outcome[b] = "running"
    BY <1>25 DEF ApplyRestored
  <2>3. rec'[b].state = "Running" => outcome[b] = "running" \/ rec[b].state = "Running"
    BY <1>25, RecordRests DEF ApplyRestored
  <2>4. rec[b].state = "none" => rec'[b].state # "Running"
    BY <2>1
  <2>5. \A c \in Buffer \ {b} : rec'[c] = rec[c]
    BY <1>25 DEF ApplyRestored
  <2>6. UNCHANGED <<phase, running, dying, start, releasing>> /\ outcome' = [outcome EXCEPT ![b] = "none"]
    BY <1>25 DEF ApplyRestored
  <2>. QED BY <2>1, <2>3, <2>4, <2>5, <2>6
<1>26. ASSUME TakeUpFinish PROVE RuntimeHeld'
  BY <1>26, TaskFields DEF TakeUpFinish, Registered, LetGoUnregistered, TakeUpTask, Bound
<1>27. ASSUME RestartInterrupted PROVE RuntimeHeld'
  BY <1>27, RecForward, RecRests, TaskFields DEF RestartInterrupted, Forward, Rests
<1>28. ASSUME FinishRestore PROVE RuntimeHeld'
  BY <1>28 DEF FinishRestore
<1>29. ASSUME ServerCrashes PROVE RuntimeHeld'
  BY <1>29, RecordEffects, TaskFields DEF ServerCrashes, ServerGone
<1>30. ASSUME NEW kill \in BOOLEAN, BeginShutDown(kill) PROVE RuntimeHeld'
  BY <1>30 DEF BeginShutDown
<1>31. ASSUME ShutDownRelease PROVE RuntimeHeld'
  BY <1>31 DEF ShutDownRelease
<1>32. ASSUME FinishKill PROVE RuntimeHeld'
  BY <1>32, RecordEffects, TaskFields DEF FinishKill, ServerGone
<1>33. ASSUME FinishStop PROVE RuntimeHeld'
  BY <1>33 DEF FinishStop
<1> HIDE DEF TypeOK, RuntimeHeld, Live, KeeperOrNone, kvars, dvars, svars, hvars
<1>. QED
  BY <1>4a, <1>5a,
     <1>1, <1>2, <1>3, <1>4, <1>5, <1>6, <1>7, <1>8, <1>9, <1>10, <1>11, <1>12, <1>13, <1>14,
     <1>15, <1>16, <1>17, <1>18, <1>19, <1>20, <1>21, <1>22, <1>23, <1>24, <1>25, <1>26, <1>27,
     <1>28, <1>29, <1>30, <1>31, <1>32, <1>33
  DEF Next, KeeperNext, StartNext, RequestNext, EndNext, SaveNext, RestoreNext, ShutDownNext

-----------------------------------------------------------------------------
(* The theorems *)

\* The invariant holds of a machine that never ran the server.
LEMMA InvInit == Init => IInv
<1> SUFFICES ASSUME Init PROVE IInv
  OBVIOUS
<1>1. TypeOK
  BY NoneAssumption, RecordTypes, TaskTypes DEF Init, TypeOK, KeeperOrNone
<1>2. Bound
  BY NoneAssumption, TaskFields DEF Init, Bound, StartedFor
<1>3. DownEmpty
  BY RecordEffects, TaskFields DEF Init, DownEmpty
<1>4. IdsUsed
  BY NoneAssumption, RecordEffects, TaskFields DEF Init, IdsUsed
<1>5. SaveReleasesOver
  BY TaskFields DEF Init, SaveReleasesOver
<1>6. ToldUnneeded
  BY DEF Init, ToldUnneeded
<1>7. SavedExitOver
  BY TaskFields DEF Init, SavedExitOver
<1>8. LastSavedOver
  BY TaskFields DEF Init, LastSavedOver
<1>9. RuntimeHeld
  BY RecordEffects, TaskFields DEF Init, RuntimeHeld
<1>. QED BY <1>1, <1>2, <1>3, <1>4, <1>5, <1>6, <1>7, <1>8, <1>9 DEF IInv

\* Every step of the server, a keeper, a client or a fault keeps the invariant.
LEMMA InvStep == IInv /\ [Next]_vars => IInv'
BY TypeStep, BoundStep, DownStep, IdsStep, ReleasesStep, ToldStep, ExitStep, LastSavedStep,
   RuntimeStep
   DEF IInv

\* IInv is an invariant of the specification.
THEOREM Invariance == Spec => []IInv
BY InvInit, InvStep, PTL DEF Spec

\* Type correctness: the tables of the server and of the keepers always hold
\* what their types say.
THEOREM TypeCorrect == Spec => []TypeOK
<1>1. IInv => TypeOK
  BY DEF IInv
<1>. QED BY <1>1, Invariance, PTL

\* A keeper told that its exit was saved is never one the workspace file still
\* needs (persist_workspace and exits_recorded_in), whatever crashes, failing
\* writes and restores come between, unless it was released because its record
\* named no socket yet.
THEOREM ToldKeepersNotNeeded == Spec => []ToldNotNeeded
<1>1. IInv => ToldNotNeeded
  BY DEF IInv, ToldUnneeded, ToldNotNeeded
<1>. QED BY <1>1, Invariance, PTL

\* While the server serves, a record marked running has its runtime in the
\* table, whenever the state lock is free: starts, exits, cleanups, saves and
\* restores take the runtime of a record only after the record.
THEOREM RunningBuffersHaveRuntimes == Spec => []RunningHasRuntime
<1>1. IInv => RunningHasRuntime
  BY DEF IInv, RuntimeHeld, Live, RunningHasRuntime
<1>. QED BY <1>1, Invariance, PTL

\* No step of any server turns a saved exit into anything but a removed record.
LEMMA SavedExitStep ==
    ASSUME IInv, [Next]_vars, NEW b \in Buffer, disk[b].state = "Exited"
    PROVE  disk'[b].state \in {"Exited", "none"}
<1>1. CASE SaveWrite
  BY <1>1 DEF SaveWrite, IInv, SavedExitOver, Over
<1>2. CASE FinishKill
  BY <1>2, RecordEffects DEF FinishKill
<1>3. CASE SyncFails
  BY <1>3 DEF SyncFails, IInv, SavedExitOver, Over
<1>4. ASSUME ~SaveWrite, ~FinishKill, ~SyncFails PROVE UNCHANGED disk
  <2>1. CASE KeeperNext
    BY <2>1 DEF KeeperNext, ChildExits, StartPipe, PipeEnds, KeeperLeaves, KeeperUnreachable,
                KeeperDies, dvars
  <2>2. CASE StartNext
    BY <2>2 DEF StartNext, SpawnKeeper, AttachFails, StartCheck, StartRegister, SpawnFails, StatusFails, StartFinish,
                StartDiscard, StartFailed, dvars
  <2>3. CASE RequestNext
    BY <2>3 DEF RequestNext, CreateBuffer, AttachBuffer, DetachBuffer, KillProgram,
                KillInterrupted, dvars
  <2>4. CASE EndNext
    BY <2>4 DEF EndNext, PollExit, PollBroken, RecordEnd, DisposeExited, Release, dvars
  <2>5. CASE SaveNext
    BY <1>4, <2>5 DEF SaveNext, SaveSnapshot, SaveFails, SaveRelease, SaveDone,
                       TellKeeper, dvars
  <2>6. CASE RestoreNext
    BY <2>6 DEF RestoreNext, LoadWorkspace, KeeperMissing, TakeUpAttach, TakeUpFinish,
                ApplyRestored, RestartInterrupted, FinishRestore, dvars
  <2>7. CASE ShutDownNext
    BY <1>4, <2>7 DEF ShutDownNext, ServerCrashes, BeginShutDown, ShutDownRelease, FinishStop, dvars
  <2>8. CASE UNCHANGED vars
    BY <2>8 DEF vars, dvars
  <2>. QED BY <2>1, <2>2, <2>3, <2>4, <2>5, <2>6, <2>7, <2>8 DEF Next
<1>. QED BY <1>1, <1>2, <1>3, <1>4

\* A saved exit is final: over all crashes and restarts, the file never says
\* again that a buffer it called exited may run.
THEOREM SavedExitsAreFinal == Spec => SavedExitIsFinal
<1>1. IInv /\ [Next]_vars =>
        [\A b \in Buffer : disk[b].state = "Exited" => disk'[b].state \in {"Exited", "none"}]_vars
  BY SavedExitStep
<1>. QED BY <1>1, Invariance, PTL DEF Spec, SavedExitIsFinal
=============================================================================
