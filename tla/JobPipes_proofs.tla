---------------------------- MODULE JobPipes_proofs ----------------------------
(***************************************************************************)
(* A job is done only with its whole output, a kill reaches it, and its     *)
(* task leaves no program behind, for any number of pieces and upgrades and *)
(* any of the faults that a configuration may turn off.                     *)
(***************************************************************************)
EXTENDS JobPipes, TLAPS

\* What the task, the reap and its thread say of the program.
Tasks ==
  /\ prog \in {"none", "running", "zombie", "freed"}
  /\ task \in {"submitted", "running", "over"}
  /\ task = "submitted" => prog = "none" /\ ~finished /\ ~failed
  /\ task = "running" => prog # "none" /\ ~finished /\ ~failed
  /\ finished => task = "over"
  /\ failed => finished /\ prog = "none"

Reaps ==
  /\ ended \/ thread \in {"collected", "back"} => prog = "freed"
  /\ reaper = "done" => prog = "freed" \/ (cancelled /\ task = "over")
  /\ reaper = "top" \/ reaper = "waiting" => prog # "none" /\ task # "submitted"
  /\ reaper = "waiting" => thread # "off"

\* A pump that is over has read its pipe to the end.
Streamed ==
  /\ wrote \in [Streams -> Nat] /\ landed \in [Streams -> Nat]
  /\ pump \in [Streams -> {"off", "top", "parked", "selecting", "done"}]
  /\ \A s \in Streams :
       /\ landed[s] <= wrote[s]
       /\ pump[s] = "done" /\ ~cancelled => landed[s] = wrote[s] /\ holders[s] = {}
       /\ task = "submitted" => pump[s] = "off"

\* What the snapshot of a paused upgrade says of the job.
Snapped ==
  /\ paused =>
       /\ ~cancelled
       /\ snap = "none" => ~listed
       /\ snap = "running" => task # "submitted" /\ (task = "over" => finished)
       /\ snap = "done" => finished /\ prog \in {"none", "freed"}
  /\ snap \in {"none", "running", "done"}
  /\ image \in Nat
  /\ listed /\ task = "over" /\ ~crashed => finished

PipesInv ==
  Tasks /\ Reaps /\ Streamed /\ Snapped /\ OutputIsWholeWhenDone /\ KillIsDelivered
    /\ NoneIsLeftRunning

LEMMA PipesInit == Init => PipesInv
BY DEF Init, PipesInv, Tasks, Reaps, Streamed, Snapped, OutputIsWholeWhenDone, KillIsDelivered,
  NoneIsLeftRunning, Streams

\* The end of a program.
LEMMA EndsKeeps ==
  ASSUME PipesInv, NEW heirs, prog = "running", Ends(heirs), UNCHANGED wrote
  PROVE  /\ prog' = "zombie"
         /\ \A s \in Streams : holders[s] = {} => holders'[s] = {}
BY DEF Ends

LEMMA ProgEndsKeeps ==
  ASSUME PipesInv, ProgEnds
  PROVE  PipesInv'
<1> USE DEF PipesInv, reapVars, jobVars, serverVars
<1>1. prog' = "zombie" /\ prog = "running" /\ \A s \in Streams : holders[s] = {} => holders'[s] = {}
  BY EndsKeeps DEF ProgEnds
<1>2. Tasks' /\ Reaps' /\ Snapped'
  BY <1>1 DEF ProgEnds, Tasks, Reaps, Snapped
<1>3. Streamed'
  BY <1>1 DEF ProgEnds, Streamed
<1>4. OutputIsWholeWhenDone' /\ KillIsDelivered' /\ NoneIsLeftRunning'
  BY <1>1 DEF ProgEnds, Tasks, OutputIsWholeWhenDone, KillIsDelivered, NoneIsLeftRunning, Forgotten
<1> QED BY <1>2, <1>3, <1>4

LEMMA ProgWritesKeeps ==
  ASSUME PipesInv, NEW q \in Streams, ProgWrites(q)
  PROVE  PipesInv'
<1> USE DEF PipesInv, reapVars, jobVars, serverVars, ProgWrites
<1>1. Tasks' /\ Reaps' /\ Snapped'
  BY DEF Tasks, Reaps, Snapped
<1>2. Streamed'
  BY DEF Streamed
<1>3. OutputIsWholeWhenDone' /\ KillIsDelivered' /\ NoneIsLeftRunning'
  BY DEF OutputIsWholeWhenDone, KillIsDelivered, NoneIsLeftRunning, Forgotten
<1> QED BY <1>1, <1>2, <1>3

LEMMA StreamLetGoKeeps ==
  ASSUME PipesInv, NEW q \in Streams, StreamLetGo(q)
  PROVE  PipesInv'
<1> USE DEF PipesInv, reapVars, jobVars, serverVars, StreamLetGo
<1>1. Tasks' /\ Reaps' /\ Snapped'
  BY DEF Tasks, Reaps, Snapped
<1>2. \A s \in Streams : holders[s] = {} => holders'[s] = {}
  OBVIOUS
<1>3. Streamed'
  BY <1>2 DEF Streamed
<1>4. OutputIsWholeWhenDone' /\ KillIsDelivered' /\ NoneIsLeftRunning'
  BY <1>2 DEF OutputIsWholeWhenDone, KillIsDelivered, NoneIsLeftRunning, Forgotten
<1> QED BY <1>1, <1>3, <1>4

\* What a signal does to a program, and to who holds its pipes.
LEMMA SignalEffect ==
  ASSUME NEW mayIgnore \in BOOLEAN, Signal(mayIgnore)
  PROVE  /\ \/ prog' = prog
            \/ prog = "running" /\ prog' = "zombie"
         /\ \A s \in Streams : holders[s] = {} => holders'[s] = {}
         /\ ended \/ mayIgnore \/ prog' # "running"
BY DEF Signal, Ends

LEMMA KilledEffect ==
  ASSUME Killed
  PROVE  /\ \/ prog' = prog
            \/ prog = "running" /\ prog' = "zombie"
         /\ \A s \in Streams : holders[s] = {} => holders'[s] = {}
         /\ prog # "none" => termed'
BY SignalEffect DEF Killed

\* `kill-job`, and the sweep.
LEMMA KillKeeps ==
  ASSUME PipesInv, Kill \/ Sweep
  PROVE  PipesInv'
<1> USE DEF PipesInv, reapVars, serverVars, Kill, Sweep
<1>1. /\ \/ prog' = prog
         \/ prog = "running" /\ prog' = "zombie"
      /\ \A s \in Streams : holders[s] = {} => holders'[s] = {}
  BY KilledEffect
<1>2. killAsked' /\ prog' # "none" => termed' \/ (killAsked /\ termed' = termed)
  BY <1>1, KilledEffect DEF Tasks
<1>3. Tasks' /\ Reaps' /\ Snapped'
  BY <1>1 DEF Tasks, Reaps, Snapped
<1>4. Streamed'
  BY <1>1 DEF Streamed
<1>5. OutputIsWholeWhenDone' /\ NoneIsLeftRunning'
  BY <1>1 DEF OutputIsWholeWhenDone, NoneIsLeftRunning, Forgotten, Tasks
<1>6. KillIsDelivered'
  BY <1>1, <1>2 DEF KillIsDelivered
<1> QED BY <1>3, <1>4, <1>5, <1>6

LEMMA SuperviseStartsKeeps ==
  ASSUME PipesInv, SuperviseStarts
  PROVE  PipesInv'
<1> USE DEF PipesInv, serverVars, SuperviseStarts, PendingKill
<1>1. Tasks' /\ Reaps' /\ Snapped'
  BY DEF Tasks, Reaps, Snapped
<1>2. Streamed'
  BY DEF Streamed
<1>3. OutputIsWholeWhenDone' /\ KillIsDelivered' /\ NoneIsLeftRunning'
  BY DEF Tasks, OutputIsWholeWhenDone, KillIsDelivered, NoneIsLeftRunning
<1> QED BY <1>1, <1>2, <1>3

LEMMA SuperviseFailsKeeps ==
  ASSUME PipesInv, SuperviseFails
  PROVE  PipesInv'
<1> USE DEF PipesInv, osVars, reapVars, serverVars, SuperviseFails
<1>1. Tasks' /\ Reaps' /\ Snapped'
  BY DEF Tasks, Reaps, Snapped
<1>2. Streamed'
  BY DEF Streamed
<1>3. OutputIsWholeWhenDone' /\ KillIsDelivered' /\ NoneIsLeftRunning'
  BY DEF Tasks, OutputIsWholeWhenDone, KillIsDelivered, NoneIsLeftRunning
<1> QED BY <1>1, <1>2, <1>3

\* Both pumps and the reap are over, which is all that a job waits for.
LEMMA SuperviseEndsKeeps ==
  ASSUME PipesInv, SuperviseEnds
  PROVE  PipesInv'
<1> USE DEF PipesInv, osVars, reapVars, serverVars, SuperviseEnds, AllOver
<1>1. prog = "freed"
  BY DEF Reaps
<1>2. Tasks' /\ Reaps' /\ Snapped'
  BY <1>1 DEF Tasks, Reaps, Snapped
<1>3. Streamed'
  BY DEF Streamed
<1>4. OutputIsWholeWhenDone' /\ KillIsDelivered' /\ NoneIsLeftRunning'
  BY <1>1 DEF Streamed, OutputIsWholeWhenDone, KillIsDelivered, NoneIsLeftRunning
<1> QED BY <1>2, <1>3, <1>4

\* A server that goes kills the job, unless it was reaped.
LEMMA SuperviseCancelledKeeps ==
  ASSUME PipesInv, SuperviseCancelled
  PROVE  PipesInv'
<1> USE DEF PipesInv, serverVars, SuperviseCancelled
<1>1. /\ prog' = prog \/ (prog = "running" /\ prog' = "zombie")
      /\ ended \/ prog' # "running"
      /\ \A s \in Streams : holders[s] = {} => holders'[s] = {}
  BY SignalEffect
<1>2. prog' \in {"zombie", "freed"}
  BY <1>1 DEF Tasks, Reaps
<1>3. Tasks' /\ Reaps' /\ Snapped'
  BY <1>1, <1>2 DEF Tasks, Reaps, Snapped
<1>4. Streamed'
  BY <1>1 DEF Streamed
<1>5. OutputIsWholeWhenDone' /\ KillIsDelivered' /\ NoneIsLeftRunning'
  BY <1>1, <1>2 DEF Tasks, OutputIsWholeWhenDone, KillIsDelivered, NoneIsLeftRunning
<1> QED BY <1>3, <1>4, <1>5

LEMMA PumpKeeps ==
  ASSUME PipesInv, NEW q \in Streams, Pump(q)
  PROVE  PipesInv'
<1> USE DEF PipesInv, osVars, reapVars, jobVars, serverVars, Pump, PumpStarts, PumpReads, PausedMeanwhile
<1>1. Tasks' /\ Reaps' /\ Snapped'
  BY DEF Tasks, Reaps, Snapped
<1>2. /\ \A s \in Streams \ {q} : pump'[s] = pump[s] /\ landed'[s] = landed[s]
      /\ pump' \in [Streams -> {"off", "top", "parked", "selecting", "done"}]
      /\ landed' \in [Streams -> Nat]
      /\ landed'[q] <= wrote[q] /\ pump[q] # "off"
      /\ pump'[q] = "done" => landed'[q] = wrote[q] /\ holders[q] = {}
  BY DEF Streamed
<1>3. Streamed'
  BY <1>2 DEF Streamed
<1>4. KillIsDelivered' /\ NoneIsLeftRunning'
  BY DEF KillIsDelivered, NoneIsLeftRunning, Forgotten
<1>5. OutputIsWholeWhenDone'
  <2>1. UNCHANGED <<finished, cancelled, failed, prog, wrote, holders>>
    OBVIOUS
  <2>2. SUFFICES ASSUME finished, ~cancelled, ~failed
                 PROVE  prog = "freed" /\ \A s \in Streams : landed'[s] = wrote[s] /\ holders[s] = {}
    BY <2>1 DEF OutputIsWholeWhenDone
  <2>3. prog = "freed" /\ \A s \in Streams : landed[s] = wrote[s] /\ holders[s] = {}
    BY <2>2 DEF OutputIsWholeWhenDone
  <2>4. landed'[q] = landed[q]
    BY <2>3 DEF Streamed
  <2> QED BY <1>2, <2>3, <2>4
<1> QED BY <1>1, <1>3, <1>4, <1>5

LEMMA ReapKeeps ==
  ASSUME PipesInv, Reap
  PROVE  PipesInv'
<1> USE DEF PipesInv, osVars, jobVars, serverVars, Reap, ReapStarts, ThreadCollects, ThreadReturns,
    ReapEnds
<1>1. /\ UNCHANGED <<holders, wrote, pump, landed, task, finished, failed, listed, killAsked, termed,
                     cancelled, paused, snap, crashed, image>>
      /\ prog' = prog \/ (prog # "none" /\ prog' = "freed")
  BY DEF Reaps
<1>2. Tasks' /\ Snapped'
  BY <1>1 DEF Tasks, Snapped
<1>3. Reaps'
  <2>1. CASE ReapStarts
    BY <2>1 DEF Tasks, Reaps
  <2>2. CASE ThreadCollects \/ ThreadReturns \/ ReapEnds
    BY <2>2 DEF Reaps
  <2> QED BY <2>1, <2>2
<1>4. Streamed'
  BY <1>1 DEF Streamed
<1>5. OutputIsWholeWhenDone' /\ KillIsDelivered' /\ NoneIsLeftRunning'
  BY <1>1 DEF OutputIsWholeWhenDone, KillIsDelivered, NoneIsLeftRunning, Forgotten, Tasks
<1> QED BY <1>2, <1>3, <1>4, <1>5

LEMMA CancelKeeps ==
  ASSUME PipesInv, Cancel
  PROVE  PipesInv'
<1> USE DEF PipesInv, osVars, reapVars, jobVars, Cancel
<1>1. Tasks' /\ Reaps' /\ Snapped'
  BY DEF Tasks, Reaps, Snapped
<1>2. Streamed'
  BY DEF Streamed
<1>3. OutputIsWholeWhenDone' /\ KillIsDelivered' /\ NoneIsLeftRunning'
  BY DEF OutputIsWholeWhenDone, KillIsDelivered, NoneIsLeftRunning, Forgotten
<1> QED BY <1>1, <1>2, <1>3

\* The snapshot of a job that is done has its end.
LEMMA UpgradePausesKeeps ==
  ASSUME PipesInv, UpgradePauses
  PROVE  PipesInv'
<1> USE DEF PipesInv, osVars, reapVars, jobVars, UpgradePauses
<1>1. Tasks' /\ Reaps'
  BY DEF Tasks, Reaps
<1>2. Snapped'
  <2>1. listed /\ finished => prog \in {"none", "freed"}
    BY DEF NoneIsLeftRunning, Forgotten, Tasks
  <2> QED BY <2>1 DEF Snapped
<1>3. Streamed'
  BY DEF Streamed
<1>4. OutputIsWholeWhenDone' /\ KillIsDelivered' /\ NoneIsLeftRunning'
  BY DEF OutputIsWholeWhenDone, KillIsDelivered, NoneIsLeftRunning, Forgotten
<1> QED BY <1>1, <1>2, <1>3, <1>4

LEMMA UpgradeAbortsKeeps ==
  ASSUME PipesInv, UpgradeAborts
  PROVE  PipesInv'
<1> USE DEF PipesInv, osVars, reapVars, jobVars, UpgradeAborts
<1>1. Tasks' /\ Reaps' /\ Snapped'
  BY DEF Tasks, Reaps, Snapped
<1>2. Streamed'
  BY DEF Streamed
<1>3. OutputIsWholeWhenDone' /\ KillIsDelivered' /\ NoneIsLeftRunning'
  BY DEF OutputIsWholeWhenDone, KillIsDelivered, NoneIsLeftRunning, Forgotten
<1> QED BY <1>1, <1>2, <1>3

\* The next image supervises the job, or knows its end, or never heard of it.
LEMMA ExecKeeps ==
  ASSUME PipesInv, Exec
  PROVE  PipesInv'
<1> USE DEF PipesInv, osVars, Exec, Carried
<1>1. CASE snap = "running" /\ listed /\ ~finished
  <2>1. Tasks' /\ Reaps' /\ Snapped'
    BY <1>1 DEF Tasks, Reaps, Snapped
  <2>2. Streamed'
    BY <1>1 DEF Streamed
  <2>3. OutputIsWholeWhenDone' /\ KillIsDelivered' /\ NoneIsLeftRunning'
    BY <1>1 DEF OutputIsWholeWhenDone, KillIsDelivered, NoneIsLeftRunning
  <2> QED BY <2>1, <2>2, <2>3
<1>2. CASE ~(snap = "running" /\ listed /\ ~finished)
  <2>1. Tasks' /\ Reaps' /\ Snapped'
    BY <1>2 DEF Tasks, Reaps, Snapped
  <2>2. Streamed'
    BY <1>2 DEF Streamed
  <2>3. OutputIsWholeWhenDone' /\ KillIsDelivered'
    BY <1>2 DEF OutputIsWholeWhenDone, KillIsDelivered
  <2>4. NoneIsLeftRunning'
    BY <1>2 DEF NoneIsLeftRunning, Forgotten, Snapped
  <2> QED BY <2>1, <2>2, <2>3, <2>4
<1> QED BY <1>1, <1>2

LEMMA StutterKeeps ==
  ASSUME PipesInv, (\E s \in Streams : NumberReused(s)) \/ UNCHANGED vars
  PROVE  PipesInv'
<1> USE DEF PipesInv, vars, osVars, reapVars, jobVars, serverVars, NumberReused
<1>1. Tasks' /\ Reaps' /\ Snapped'
  BY DEF Tasks, Reaps, Snapped
<1>2. Streamed'
  BY DEF Streamed
<1>3. OutputIsWholeWhenDone' /\ KillIsDelivered' /\ NoneIsLeftRunning'
  BY DEF OutputIsWholeWhenDone, KillIsDelivered, NoneIsLeftRunning, Forgotten
<1> QED BY <1>1, <1>2, <1>3

LEMMA PipesInductive == Spec => []PipesInv
<1>1. PipesInv /\ [Next]_vars => PipesInv'
  BY ProgEndsKeeps, ProgWritesKeeps, StreamLetGoKeeps, KillKeeps, SuperviseStartsKeeps,
     SuperviseFailsKeeps, SuperviseEndsKeeps, SuperviseCancelledKeeps, PumpKeeps, ReapKeeps,
     CancelKeeps, UpgradePausesKeeps, UpgradeAbortsKeeps, ExecKeeps, StutterKeeps
  DEF Next, Program, Supervise, Upgrade
<1> QED BY <1>1, PipesInit, PTL DEF Spec

\* A job that is done was reaped, and everything it and its children wrote has
\* landed: `_finish` runs behind the reap and both pumps, over every upgrade.
THEOREM DoneMeansWhole == Spec => []OutputIsWholeWhenDone
BY PipesInductive, PTL DEF PipesInv

\* A kill that comes before the fork reaches the process behind it.
THEOREM KillsAreDelivered == Spec => []KillIsDelivered
BY PipesInductive, PTL DEF PipesInv

\* The task of a job leaves no program behind it, also in a server that goes.
THEOREM NoneIsLeft == Spec => []NoneIsLeftRunning
BY PipesInductive, PTL DEF PipesInv
================================================================================
