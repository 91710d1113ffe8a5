------------------------ MODULE BufferLifecycleInv -------------------------
(***************************************************************************)
(* The inductive invariant of BufferLifecycle: what ties the tables of the *)
(* server, the save in flight, the workspace file and the keepers together *)
(* between any two steps.  BufferLifecycleProofs proves it; TLC checks it   *)
(* on a small instance with MCBufferLifecycle_inv.cfg.                      *)
(***************************************************************************)
EXTENDS BufferLifecycle

\* The keeper k was started for b.
StartedFor(k, b) == kstate[k] # "unborn" /\ kbuf[k] = b

\* Every handle, report and socket belongs to a keeper that was started for the
\* buffer it is filed under; a keeper not started yet has none.
Bound ==
    /\ \A k \in Keeper : kstate[k] # "unborn" => kbuf[k] \in Buffer
    /\ \A k \in Keeper : kstate[k] = "unborn" => poller[k] = "off" /\ ~told[k] /\ k \notin acks
    /\ \A b \in Buffer : running[b] # None => StartedFor(running[b], b)
    /\ \A b \in Buffer : awaiting[b] # None => StartedFor(awaiting[b], b)
    /\ \A b \in Buffer : socket[b] # None => StartedFor(socket[b], b)
    /\ \A b \in Buffer : start[b].keeper # None => StartedFor(start[b].keeper, b)
    /\ \A b \in Buffer : start[b].stage \in {"attached", "checked"} => start[b].keeper # None
    /\ taking.keeper # None => taking.buf \in Buffer /\ StartedFor(taking.keeper, taking.buf)
    /\ \A end \in ends : kstate[end[1]] # "unborn"

\* A server that is down holds nothing.
DownEmpty ==
    phase = "down" =>
        /\ \A b \in Buffer : /\ running[b] = None /\ awaiting[b] = None
                             /\ start[b].stage = "idle" /\ outcome[b] = "none"
                             /\ rec[b].state = "none"
        /\ taking.buf = None /\ todo = {} /\ releasing = {} /\ dying = {}
        /\ save.stage = "idle" /\ save.released = {} /\ lastSaved.used = {}
        /\ acks = {}

\* An id is handed out once: whatever the file, a save or the server knows of a
\* buffer, its id is taken.
IdsUsed ==
    /\ \A b \in Buffer : disk[b].state # "none" => b \in diskUsed
    /\ save.stage = "snapshot" =>
          \A b \in Buffer : save.recs[b].state # "none" => b \in save.used
    /\ \A b \in Buffer :
          \/ rec[b].state # "none" \/ running[b] # None \/ awaiting[b] # None
          \/ start[b].stage # "idle" \/ b \in todo \/ taking.buf = b \/ b \in save.released
          \/ b \in releasing \/ outcome[b] # "none"
          => b \in used

\* The buffer is gone, or its program has ended for good.
Over(r) == r.state \in {"none", "Exited"}

\* A buffer a save releases is over, in the records and in what is written,
\* unless it was released for want of a socket.
SaveReleasesOver ==
    save.stage \in {"snapshot", "written"} =>
        \A b \in save.released \ save.early :
            /\ Over(rec[b])
            /\ save.stage = "snapshot" => Over(save.recs[b])
            /\ save.stage = "written" => Over(disk[b])

\* A keeper told, or about to be, is needed neither by the file nor by what
\* could still be written to it.
ToldUnneeded ==
    \A k \in Keeper \ toldEarly :
        (told[k] \/ k \in acks) /\ Reachable(k) =>
            /\ ~NeedsKeeper(disk[kbuf[k]])
            /\ ~NeedsKeeper(rec[kbuf[k]])
            /\ start[kbuf[k]].stage \in {"attached", "checked", "registered"} => Over(rec[kbuf[k]])
            /\ save.stage = "snapshot" => ~NeedsKeeper(save.recs[kbuf[k]])

\* What is saved as exited is over for the server that saved or restored it.
SavedExitOver ==
    /\ phase # "down" => diskUsed \subseteq used
    /\ save.stage = "snapshot" => save.used \subseteq used
    /\ \A b \in Buffer :
          /\ disk[b].state = "Exited" /\ phase # "down" => Over(rec[b])
          /\ disk[b].state = "Exited" /\ save.stage = "snapshot" => Over(save.recs[b])
          /\ save.stage = "snapshot" /\ save.recs[b].state = "Exited" => Over(rec[b])

\* What was over when the server last knew of a save is over in its records, in
\* a save in flight, and in the file, even if a write since then failed halfway.
LastSavedOver ==
    /\ lastSaved.used \subseteq used
    /\ save.stage \in {"snapshot", "written"} => save.released \subseteq save.used
    /\ save.stage = "snapshot" =>
          /\ save.used \subseteq used
          /\ \A b \in save.used : Over(save.recs[b]) => Over(rec[b])
    /\ \A b \in lastSaved.used :
          Over(lastSaved.recs[b]) =>
              /\ Over(rec[b])
              /\ Over(disk[b])
              /\ save.stage = "snapshot" => Over(save.recs[b])

\* The server has not begun to end.
Live == phase \in {"attach", "restart", "serving"}

\* Until the server ends, a runtime leaves the table only after its record: a
\* record whose start or take-up found a keeper has its runtime.
RuntimeHeld ==
    /\ dying # {} => ~Live
    /\ \A b \in Buffer :
          /\ b \in releasing => rec[b].state = "none"
          /\ Live /\ start[b].stage = "registered" /\ rec[b].state # "none" => running[b] # None
          /\ Live /\ outcome[b] \in {"running", "exited"} /\ rec[b].state # "none" => running[b] # None
          /\ Live /\ rec[b].state = "Running" => running[b] # None

\* The inductive invariant: it holds initially, every step keeps it, and it
\* implies TypeOK, ToldNotNeeded and RunningHasRuntime.  It says how the tables
\* of the server, the save in flight, the workspace file and the keepers fit
\* together at every point where the server may crash.
IInv == /\ TypeOK /\ Bound /\ DownEmpty /\ IdsUsed /\ SaveReleasesOver /\ ToldUnneeded /\ SavedExitOver
        /\ LastSavedOver /\ RuntimeHeld
=============================================================================
