------------------------------- MODULE JobPipes -------------------------------
(***************************************************************************)
(* One job that runs on two pipes, from its submit to its end: the task     *)
(* that supervises it, a pump for each pipe, the reap in a worker thread,   *)
(* `kill-job`, the sweep that forgets an idle job, and the hot upgrade that *)
(* carries the job's pipes over an exec.                                    *)
(*                                                                          *)
(* One action is what a task does between two awaits.  What a pipe is given *)
(* is counted in pieces, and the pipe holds those from landed to wrote.     *)
(***************************************************************************)
EXTENDS Naturals

CONSTANTS
  MaxPieces,    \* pieces a stream is given, at most
  MaxUpgrades,  \* hot upgrades tried, at most
  LetsGo,       \* whether a program may close a stream, or leave it to a child
  MayReuse,     \* whether the number of a closed pipe may name another file
  MaySweep,     \* whether the idle sweep may forget the running job
  MayCancel     \* whether the server's scope may be cancelled

ASSUME PipesAssumption ==
  /\ MaxPieces \in Nat /\ MaxUpgrades \in Nat
  /\ LetsGo \in BOOLEAN /\ MayReuse \in BOOLEAN
  /\ MaySweep \in BOOLEAN /\ MayCancel \in BOOLEAN

Streams == {"stdout", "stderr"}

VARIABLES
  \* the operating system's side
  prog,         \* "none", "running", "zombie" or "freed": its pid is anybody's
  holders,      \* per stream: who holds its write end
  wrote,        \* per stream: pieces written
  fd,           \* per stream: what the number in JobPipes names
  \* the supervise task of this image
  task,         \* "submitted", "running" or "over"
  pump,         \* per stream: where `pump` stands
  reading,      \* the event `_reading` names is set
  landed,       \* per stream: pieces in the job's tail
  reaper,       \* where `reap` stands
  thread,       \* where the worker thread in waitpid stands
  ended,        \* JobPipes._ended
  \* the job
  finished,     \* Job.is_done
  failed,       \* it never started
  listed,       \* the table has it
  killAsked,    \* Job.kill_requested
  termed,       \* SIGTERM was sent to it
  \* the server
  cancelled,    \* its scope was cancelled
  paused,       \* an upgrade paused the reading and wrote its snapshot
  snap,         \* the job in that snapshot: "none", "running" or "done"
  crashed,      \* an image adopted a pipe that did not cross the exec
  image,        \* which image of the server this is
  upgrades      \* hot upgrades tried

osVars == <<prog, holders, wrote>>
reapVars == <<reaper, thread, ended>>
jobVars == <<finished, failed, listed, killAsked, termed>>
serverVars == <<cancelled, paused, snap, crashed, image, upgrades>>
vars == <<osVars, fd, task, pump, reading, landed, reapVars, jobVars, serverVars>>

\* `submit`: the job is in the table, and its task has yet to run.
Init ==
  /\ prog = "none"
  /\ holders = [s \in Streams |-> {}] /\ wrote = [s \in Streams |-> 0]
  /\ fd = [s \in Streams |-> "none"]
  /\ task = "submitted" /\ pump = [s \in Streams |-> "off"] /\ reading = TRUE
  /\ landed = wrote
  /\ reaper = "off" /\ thread = "off" /\ ended = FALSE
  /\ finished = FALSE /\ failed = FALSE /\ listed = TRUE /\ killAsked = FALSE /\ termed = FALSE
  /\ cancelled = FALSE /\ paused = FALSE /\ snap = "none" /\ crashed = FALSE
  /\ image = 0 /\ upgrades = 0

-----------------------------------------------------------------------------
(* The program and the kernel. *)

ProgWrites(s) ==
  /\ holders[s] # {} /\ wrote[s] < MaxPieces
  /\ wrote' = [wrote EXCEPT ![s] = @ + 1]
  /\ UNCHANGED <<prog, holders, fd, task, pump, reading, landed, reapVars, jobVars,
                 serverVars>>

\* The program ends: its descriptors close, and what a child holds stays open.
Ends(heirs) ==
  /\ prog' = "zombie"
  /\ holders' = [s \in Streams |->
                   IF s \in heirs /\ holders[s] # {} THEN {"heir"} ELSE holders[s] \ {"program"}]

Heirs == IF LetsGo THEN SUBSET Streams ELSE {{}}

ProgEnds ==
  /\ prog = "running"
  /\ \E heirs \in Heirs : Ends(heirs)
  /\ UNCHANGED <<wrote, fd, task, pump, reading, landed, reapVars, jobVars, serverVars>>

\* A running program closes a stream and goes on, as a daemon does, or a
\* child it left behind ends.
StreamLetGo(s) ==
  /\ LetsGo /\ holders[s] # {}
  /\ holders' = [holders EXCEPT ![s] = {}]
  /\ UNCHANGED <<prog, wrote, fd, task, pump, reading, landed, reapVars, jobVars,
                 serverVars>>

\* The server opens a file, and the number of a closed pipe is the lowest free.
NumberReused(s) ==
  /\ MayReuse /\ fd[s] = "closed"
  /\ fd' = [fd EXCEPT ![s] = "other"]
  /\ UNCHANGED <<osVars, task, pump, reading, landed, reapVars, jobVars, serverVars>>

-----------------------------------------------------------------------------
(* Signals. *)

\* `send_signal`: not once the reap said it ended.  A program ends of the
\* signal, or it ignores one that it may.
Signal(mayIgnore) ==
  \/ ~ended /\ prog = "running" /\ \E heirs \in Heirs : Ends(heirs)
  \/ (ended \/ mayIgnore \/ prog # "running") /\ UNCHANGED <<prog, holders>>

\* `JobTable.kill`: now, or as soon as the process exists.
Killed ==
  IF prog = "none"
    THEN UNCHANGED <<prog, holders, termed>>
    ELSE Signal(TRUE) /\ termed' = TRUE

Kill ==
  /\ listed /\ ~finished /\ ~paused /\ ~killAsked /\ task # "over"
  /\ killAsked' = TRUE
  /\ Killed
  /\ UNCHANGED <<wrote, fd, task, pump, reading, landed, reapVars, finished, failed, listed,
                 serverVars>>

\* `sweep`: an idle job that nobody waits for is ended and forgotten.
Sweep ==
  /\ MaySweep /\ listed
  /\ listed' = FALSE
  /\ IF finished
       THEN UNCHANGED <<prog, holders, killAsked, termed>>
       ELSE killAsked' = TRUE /\ Killed
  /\ UNCHANGED <<wrote, fd, task, pump, reading, landed, reapVars, finished, failed, serverVars>>

-----------------------------------------------------------------------------
(* `_supervise_on_pipes`. *)

\* The fork, and the kill that was asked for before it.  A task that has yet to
\* start runs up to its first await though its scope was cancelled.
PendingKill_Forgotten == FALSE
PendingKill == killAsked

SuperviseStarts ==
  /\ task = "submitted"
  /\ task' = "running"
  /\ prog' = "running"
  /\ holders' = [s \in Streams |-> {"program"}]
  /\ fd' = [s \in Streams |-> "pipe"]
  /\ pump' = [s \in Streams |-> "top"]
  /\ reaper' = "top"
  /\ termed' = PendingKill
  /\ UNCHANGED <<wrote, reading, landed, thread, ended, finished, failed, listed,
                 killAsked, serverVars>>

\* The fork fails: the job is done, and never started.
SuperviseFails ==
  /\ task = "submitted"
  /\ task' = "over"
  /\ finished' = TRUE /\ failed' = TRUE
  /\ UNCHANGED <<osVars, fd, pump, reading, landed, reapVars, listed, killAsked, termed,
                 serverVars>>

\* Both pumps read their end, and the reap said how it ended.
AllOver_Reaped == reaper = "done"
AllOver == reaper = "done" /\ \A s \in Streams : pump[s] = "done"

SuperviseEnds ==
  /\ task = "running" /\ AllOver
  /\ task' = "over"
  /\ finished' = TRUE
  /\ UNCHANGED <<osVars, fd, pump, reading, landed, reapVars, failed, listed, killAsked, termed,
                 serverVars>>

\* The server goes down: no orphan.  The thread in waitpid is abandoned.
SuperviseCancelled ==
  /\ cancelled /\ task = "running"
  /\ task' = "over"
  /\ Signal(FALSE)
  /\ finished' = TRUE
  /\ pump' = [s \in Streams |-> "done"] /\ reaper' = "done"
  /\ fd' = [s \in Streams |-> IF fd[s] = "pipe" THEN "closed" ELSE fd[s]]
  /\ UNCHANGED <<wrote, reading, landed, thread, ended, failed, listed, killAsked, termed,
                 serverVars>>

-----------------------------------------------------------------------------
(* `pump`. *)

\* `await self._reading.wait()`.
PumpStarts(s) ==
  /\ pump[s] = "top" /\ ~cancelled
  /\ pump' = [pump EXCEPT ![s] = IF reading THEN "selecting" ELSE "parked"]
  /\ UNCHANGED <<osVars, fd, task, reading, landed, reapVars, jobVars, serverVars>>

\* A pause that came while it waited holds too.
PausedMeanwhile == ~reading

\* The pipe is readable: a piece, or its end once nobody holds the write end.
\* A number that names another file is read all the same.
PumpReads(s) ==
  /\ pump[s] = "selecting" /\ ~cancelled
  /\ landed[s] < wrote[s] \/ holders[s] = {}
  /\ IF PausedMeanwhile
       THEN pump' = [pump EXCEPT ![s] = "parked"] /\ UNCHANGED <<landed, fd>>
       ELSE IF landed[s] < wrote[s]
              THEN landed' = [landed EXCEPT ![s] = @ + 1] /\ UNCHANGED <<pump, fd>>
              ELSE /\ pump' = [pump EXCEPT ![s] = "done"]
                   /\ fd' = [fd EXCEPT ![s] = "closed"]
                   /\ UNCHANGED landed
  /\ UNCHANGED <<osVars, task, reading, reapVars, jobVars, serverVars>>

-----------------------------------------------------------------------------
(* `reap`. *)

\* A child that ended already is reaped at once, else a thread waits for it.
\* It is a step of its own because the program may end behind the fork.
ReapStarts ==
  /\ reaper = "top" /\ ~cancelled
  /\ IF prog = "running"
       THEN reaper' = "waiting" /\ thread' = "waiting" /\ UNCHANGED <<prog, ended>>
       ELSE reaper' = "done" /\ prog' = "freed" /\ ended' = TRUE /\ UNCHANGED thread
  /\ UNCHANGED <<holders, wrote, fd, task, pump, reading, landed, jobVars, serverVars>>

ThreadCollects ==
  /\ thread = "waiting" /\ prog = "zombie"
  /\ thread' = "collected" /\ prog' = "freed"
  /\ UNCHANGED <<holders, wrote, fd, task, pump, reading, landed, reaper, ended,
                 jobVars, serverVars>>

ThreadReturns ==
  /\ thread = "collected"
  /\ thread' = "back"
  /\ UNCHANGED <<osVars, fd, task, pump, reading, landed, reaper, ended, jobVars, serverVars>>

ReapEnds ==
  /\ reaper = "waiting" /\ thread = "back"
  /\ reaper' = "done" /\ ended' = TRUE
  /\ UNCHANGED <<osVars, fd, task, pump, reading, landed, thread, jobVars, serverVars>>

-----------------------------------------------------------------------------
(* The server: its scope, and the hot upgrade. *)

Cancel ==
  /\ MayCancel /\ ~cancelled /\ ~paused
  /\ cancelled' = TRUE
  /\ UNCHANGED <<osVars, fd, task, pump, reading, landed, reapVars, jobVars, paused, snap, crashed,
                 image, upgrades>>

\* The pause and the snapshot, in one step.  It refuses a job that has yet to
\* start, and a job the table forgot is not in it.
UpgradePauses ==
  /\ ~paused /\ ~cancelled /\ ~crashed /\ upgrades < MaxUpgrades
  /\ listed => task # "submitted"
  /\ paused' = TRUE /\ upgrades' = upgrades + 1
  /\ snap' = IF ~listed THEN "none" ELSE IF finished THEN "done" ELSE "running"
  /\ reading' = (reading /\ ~(listed /\ ~finished))
  /\ UNCHANGED <<osVars, fd, task, pump, landed, reapVars, jobVars, cancelled, crashed, image>>

\* The upgrade fails: a job that is still in the table is read again.
UpgradeAborts_Deaf ==
  /\ paused
  /\ paused' = FALSE
  /\ reading' = (reading \/ (listed /\ ~finished))
  /\ UNCHANGED <<osVars, fd, task, pump, landed, reapVars, jobVars, cancelled, snap, crashed,
                 image, upgrades>>
UpgradeAborts ==
  /\ paused
  /\ paused' = FALSE
  /\ IF listed /\ ~finished
       THEN /\ reading' = TRUE
            /\ pump' = [s \in Streams |-> IF pump[s] = "parked" THEN "selecting" ELSE pump[s]]
       ELSE UNCHANGED <<reading, pump>>
  /\ UNCHANGED <<osVars, fd, task, landed, reapVars, jobVars, cancelled, snap, crashed, image,
                 upgrades>>

\* `carried` names the pipes of a job that runs, and a number that names no
\* file fails the upgrade.
Carried == listed /\ ~finished

\* The new image supervises a job that ran, on the numbers the snapshot names.
\* A number that did not cross names no file there, and its pump raises in the
\* server's own scope.
Exec_Unsupervised ==
  /\ paused /\ ~crashed /\ snap = "running" /\ Carried /\ "closed" \notin {fd[s] : s \in Streams}
  /\ paused' = FALSE /\ image' = image + 1 /\ thread' = "off" /\ killAsked' = FALSE
  /\ task' = "over"
  /\ UNCHANGED <<osVars, fd, pump, reading, reaper, ended, landed, finished, failed, listed,
                 termed, cancelled, snap, crashed, upgrades>>
Exec ==
  /\ paused /\ ~crashed
  /\ Carried => "closed" \notin {fd[s] : s \in Streams}
  /\ paused' = FALSE /\ image' = image + 1
  /\ thread' = "off" /\ killAsked' = FALSE
  /\ crashed' = (snap = "running" /\ ~Carried)
  /\ listed' = (snap # "none")
  /\ IF snap = "running" /\ Carried
       THEN /\ task' = "running" /\ reaper' = "top" /\ ended' = FALSE /\ finished' = FALSE
            /\ pump' = [s \in Streams |-> "top"]
            /\ UNCHANGED fd
       ELSE /\ task' = "over" /\ reaper' = "off" /\ pump' = [s \in Streams |-> "off"]
            /\ fd' = [s \in Streams |-> "closed"]
            /\ UNCHANGED <<ended, finished>>
  /\ reading' = TRUE
  /\ UNCHANGED <<osVars, landed, failed, termed, cancelled, snap, upgrades>>

-----------------------------------------------------------------------------
Program == ProgEnds \/ \E s \in Streams : ProgWrites(s) \/ StreamLetGo(s)
Supervise == SuperviseStarts \/ SuperviseFails \/ SuperviseEnds \/ SuperviseCancelled
Pump(s) == PumpStarts(s) \/ PumpReads(s)
Reap == ReapStarts \/ ThreadCollects \/ ThreadReturns \/ ReapEnds
Upgrade == UpgradePauses \/ UpgradeAborts \/ Exec

Next ==
  \/ Program \/ Supervise \/ Reap \/ Upgrade \/ Kill \/ Sweep \/ Cancel
  \/ \E s \in Streams : Pump(s) \/ NumberReused(s)

Spec == Init /\ [][Next]_vars

\* The loop runs every task it can, and the thread returns.
FairSpec ==
  /\ Spec
  /\ WF_vars(SuperviseStarts \/ SuperviseFails)
  /\ WF_vars(SuperviseEnds) /\ WF_vars(SuperviseCancelled)
  /\ \A s \in Streams : WF_vars(Pump(s))
  /\ WF_vars(ReapStarts) /\ WF_vars(ThreadCollects) /\ WF_vars(ThreadReturns) /\ WF_vars(ReapEnds)

-----------------------------------------------------------------------------
(* Safety and liveness. *)

\* The job is done only once the program was reaped and everything it and its
\* children wrote has landed, so a waiter never reads half of it.
OutputIsWholeWhenDone ==
  finished /\ ~cancelled /\ ~failed =>
    /\ prog = "freed"
    /\ \A s \in Streams : landed[s] = wrote[s] /\ holders[s] = {}

\* A kill that came before the process reaches it once there is one.
KillIsDelivered == killAsked /\ prog # "none" => termed

\* The sweep forgot the job, and an upgrade then went over it.
Forgotten == ~listed /\ image > 0

\* The task of a job leaves no program behind it, unless it was forgotten: it
\* was reaped, or killed by a server that goes.
NoneIsLeftRunning ==
  task = "over" /\ ~crashed =>
    prog \in {"none", "freed"} \/ (cancelled /\ prog = "zombie") \/ Forgotten

\* A job that is over is done, unless it was forgotten, an upgrade holds it, or
\* one that failed left it unread because the sweep took it meanwhile.
TheEndIsRecorded ==
  (prog = "freed" /\ \A s \in Streams : holders[s] = {})
    ~> (finished \/ paused \/ crashed \/ Forgotten \/ (~listed /\ ~reading))

================================================================================
