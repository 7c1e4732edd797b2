------------------------------- MODULE JobTable -------------------------------
(***************************************************************************)
(* Every job the server ran, and what the table forgets: finished jobs past *)
(* a cap, and jobs idle past their time, but none that a command waits for  *)
(* or a pane follows.  How one job runs is JobPipes', and what a follower   *)
(* is given is JobStream's.                                                 *)
(***************************************************************************)
EXTENDS Naturals, FiniteSets

CONSTANTS
  MaxJobs,      \* jobs submitted, at most
  Cap,          \* FINISHED_KEEP
  Panes,        \* panes that may view a job
  MaxUpgrades   \* hot upgrades, at most

ASSUME TableAssumption ==
  /\ MaxJobs \in Nat /\ Cap \in Nat /\ MaxUpgrades \in Nat
  /\ IsFiniteSet(Panes)

Jobs == 1..MaxJobs

VARIABLES
  lastId,     \* last_id
  status,     \* "none" before its submit, "running", "done", or "lost" to an exec
  said,       \* the jobs whose `done` event is set
  listed,     \* the jobs in the table
  idle,       \* the jobs idle past the time to live
  killed,     \* the jobs that were told to end
  found,      \* the jobs a command found, for a pane to view
  waits,      \* the jobs a command waits for
  views,      \* per pane: the job it views, or 0
  follow,     \* per pane: its follow is "off", "on" or "ending"
  image,      \* which image of the server this is
  phase       \* "serving", "checked" by the new build, or "crashed" behind the exec

vars == <<lastId, status, said, listed, idle, killed, found, waits, views, follow, image, phase>>

TypeOK ==
  /\ lastId \in 0..MaxJobs
  /\ status \in [Jobs -> {"none", "running", "done", "lost"}]
  /\ said \subseteq Jobs /\ listed \subseteq Jobs /\ idle \subseteq Jobs /\ killed \subseteq Jobs
  /\ found \subseteq Jobs /\ waits \subseteq Jobs
  /\ views \in [Panes -> 0..MaxJobs]
  /\ follow \in [Panes -> {"off", "on", "ending"}]
  /\ \A p \in Panes : views[p] = 0 => follow[p] = "off"
  /\ image \in 0..MaxUpgrades
  /\ phase \in {"serving", "checked", "crashed"}

Init ==
  /\ lastId = 0
  /\ status = [j \in Jobs |-> "none"]
  /\ said = {} /\ listed = {} /\ idle = {} /\ killed = {} /\ found = {} /\ waits = {}
  /\ views = [p \in Panes |-> 0] /\ follow = [p \in Panes |-> "off"]
  /\ image = 0 /\ phase = "serving"

-----------------------------------------------------------------------------
\* A job somebody watches: `Job.waiters` is not 0.
Waited_ByCommands(j) == j \in waits
Waited(j) == j \in waits \/ \E p \in Panes : views[p] = j /\ follow[p] # "off"

\* A crash at an upgrade leaves nothing that runs.
Up == phase # "crashed"

\* `submit`, and its `supervise` behind it.
Submit ==
  /\ Up /\ lastId < MaxJobs
  /\ lastId' = lastId + 1
  /\ status' = [status EXCEPT ![lastId'] = "running"]
  /\ listed' = listed \cup {lastId'}
  /\ idle' = idle \ {lastId'}
  /\ UNCHANGED <<said, killed, found, waits, views, follow, image, phase>>

\* Time passes over a job that does nothing, and output starts it again (`land`).
Idles(j) ==
  /\ Up /\ j \in listed \ idle
  /\ idle' = idle \cup {j}
  /\ UNCHANGED <<lastId, status, said, listed, killed, found, waits, views, follow, image, phase>>

Lands(j) ==
  /\ Up /\ status[j] = "running" /\ j \in idle
  /\ idle' = idle \ {j}
  /\ UNCHANGED <<lastId, status, said, listed, killed, found, waits, views, follow, image, phase>>

\* `_reap`: of the finished past the cap the oldest go, up to one that is waited for.
Reaped_OneMore(finished) ==
  {j \in finished : /\ Cardinality({k \in finished : k >= j}) > Cap + 1
                    /\ \A k \in finished : k <= j => ~Waited(k)}
Reaped(finished) ==
  {j \in finished : /\ Cardinality({k \in finished : k >= j}) > Cap
                    /\ \A k \in finished : k <= j => ~Waited(k)}

\* `_finish`, and the reap with it.
Finish(j) ==
  /\ Up /\ status[j] = "running"
  /\ status' = [status EXCEPT ![j] = "done"]
  /\ said' = said \cup {j}
  /\ idle' = idle \ {j}
  /\ listed' = listed \ Reaped({k \in listed : status'[k] = "done"})
  /\ UNCHANGED <<lastId, killed, found, waits, views, follow, image, phase>>

\* `kill`: a job that ended answers instead, and one may ignore it.
Kill(j) ==
  /\ Up /\ j \in listed /\ status[j] = "running"
  /\ killed' = killed \cup {j}
  /\ UNCHANGED <<lastId, status, said, listed, idle, found, waits, views, follow, image, phase>>

\* `sweep`, one turn over the whole table.
Swept == {j \in listed : j \in idle /\ ~Waited(j)}

Sweep ==
  /\ Up /\ Swept # {}
  /\ listed' = listed \ Swept
  /\ killed' = killed \cup {j \in Swept : status[j] = "running"}
  /\ UNCHANGED <<lastId, status, said, idle, found, waits, views, follow, image, phase>>

-----------------------------------------------------------------------------
(* Who waits: `wait-job`, `tail-job`, and a pane that views a job. *)

\* `wait` and `follow`: a command finds its job and waits for it in one turn.
WaitEnters(j) ==
  /\ Up /\ j \in listed \ waits
  /\ waits' = waits \cup {j}
  /\ UNCHANGED <<lastId, status, said, listed, idle, killed, found, views, follow, image, phase>>

\* The job's end wakes it, or a timeout ends it.
WaitLeaves(j) ==
  /\ j \in waits \cap said
  /\ waits' = waits \ {j}
  /\ UNCHANGED <<lastId, status, said, listed, idle, killed, found, views, follow, image, phase>>

WaitTimesOut(j) ==
  /\ j \in waits
  /\ waits' = waits \ {j}
  /\ UNCHANGED <<lastId, status, said, listed, idle, killed, found, views, follow, image, phase>>

\* `view-job`, and the chooser: the pane is made in a later turn.
Finds(j) ==
  /\ Up /\ j \in listed \ found
  /\ found' = found \cup {j}
  /\ UNCHANGED <<lastId, status, said, listed, idle, killed, waits, views, follow, image, phase>>

\* `JobFeed.start`: a viewer is a waiter, of a job found a turn before.
ViewOpens(p, j) ==
  /\ Up /\ views[p] = 0 /\ follow[p] = "off" /\ j \in found
  /\ found' = found \ {j}
  /\ views' = [views EXCEPT ![p] = j]
  /\ follow' = [follow EXCEPT ![p] = "on"]
  /\ UNCHANGED <<lastId, status, said, listed, idle, killed, waits, image, phase>>

\* The follow ends with the job, and the pane stays and says how it ended.
FollowEnds(p) ==
  /\ Up /\ follow[p] = "on" /\ status[views[p]] = "done"
  /\ follow' = [follow EXCEPT ![p] = "off"]
  /\ UNCHANGED <<lastId, status, said, listed, idle, killed, found, waits, views, image, phase>>

\* The pane goes: `JobFeed.kill`, and the follow leaves in its own turn.
ViewCloses(p) ==
  /\ Up /\ views[p] # 0 /\ follow[p] # "ending"
  /\ IF follow[p] = "on"
       THEN follow' = [follow EXCEPT ![p] = "ending"] /\ UNCHANGED views
       ELSE views' = [views EXCEPT ![p] = 0] /\ UNCHANGED follow
  /\ UNCHANGED <<lastId, status, said, listed, idle, killed, found, waits, image, phase>>

FollowLeaves(p) ==
  /\ Up /\ follow[p] = "ending"
  /\ follow' = [follow EXCEPT ![p] = "off"]
  /\ views' = [views EXCEPT ![p] = 0]
  /\ UNCHANGED <<lastId, status, said, listed, idle, killed, found, waits, image, phase>>

-----------------------------------------------------------------------------
\* A hot upgrade: the new build loads a first snapshot, and refuses one with a
\* pane that views a job it does not hold.  The server serves on until it writes
\* the second, which nobody loads before the exec.
Viewed(p) == views[p] # 0 /\ follow[p] # "ending"
Loads == \A p \in Panes : Viewed(p) => views[p] \in listed

UpgradeChecks ==
  /\ phase = "serving" /\ image < MaxUpgrades
  /\ Loads
  /\ phase' = "checked"
  /\ UNCHANGED <<lastId, status, said, listed, idle, killed, found, waits, views, follow, image>>

UpgradeAborts ==
  /\ phase = "checked"
  /\ phase' = "serving"
  /\ UNCHANGED <<lastId, status, said, listed, idle, killed, found, waits, views, follow, image>>

\* The commands that wait go with the exec, and a viewer that crosses follows
\* its job again.  `restore` says again that a finished job is done.
Exec_NotRestored ==
  /\ phase = "checked" /\ Loads
  /\ phase' = "serving" /\ image' = image + 1
  /\ said' = {} /\ killed' = {} /\ found' = {} /\ waits' = {}
  /\ UNCHANGED <<lastId, status, listed, idle, views, follow>>
Exec ==
  /\ phase = "checked" /\ Loads
  /\ phase' = "serving" /\ image' = image + 1
  /\ status' = [j \in Jobs |-> IF status[j] = "running" /\ j \notin listed THEN "lost" ELSE status[j]]
  /\ said' = {j \in listed : status[j] = "done"}
  /\ killed' = {} /\ found' = {} /\ waits' = {}
  /\ views' = [p \in Panes |-> IF Viewed(p) THEN views[p] ELSE 0]
  /\ follow' = [p \in Panes |-> IF Viewed(p) THEN "on" ELSE "off"]
  /\ UNCHANGED <<lastId, listed, idle>>

ExecCrashes ==
  /\ phase = "checked" /\ ~Loads
  /\ phase' = "crashed"
  /\ found' = {} /\ waits' = {}
  /\ UNCHANGED <<lastId, status, said, listed, idle, killed, views, follow, image>>

-----------------------------------------------------------------------------
Next ==
  \/ Submit \/ Sweep
  \/ \E j \in Jobs : Idles(j) \/ Lands(j) \/ Finish(j) \/ Kill(j)
  \/ \E j \in Jobs : Finds(j) \/ WaitEnters(j) \/ WaitLeaves(j) \/ WaitTimesOut(j)
  \/ \E p \in Panes : FollowEnds(p) \/ ViewCloses(p) \/ FollowLeaves(p)
  \/ \E p \in Panes, j \in Jobs : ViewOpens(p, j)
  \/ UpgradeChecks \/ UpgradeAborts \/ Exec \/ ExecCrashes

Spec == Init /\ [][Next]_vars

\* A waiter whose job ended runs; nobody is sure to time out.
FairSpec == Spec /\ \A j \in Jobs : WF_vars(WaitLeaves(j))

-----------------------------------------------------------------------------
Finished == {j \in listed : status[j] = "done"}

\* Neither the cap nor the sweep takes a job that somebody waits for or follows.
WaitedStay ==
  [][\A j \in listed :
       j \in waits \/ (\E p \in Panes : views[p] = j /\ follow[p] = "on") => j \in listed']_vars

\* A job that runs on when it leaves the table was told to end: the cap never
\* takes it, and the sweep ends it first.
RunningLeaveKilled ==
  [][\A j \in listed : j \notin listed' /\ status'[j] = "running" => j \in killed']_vars

\* After a job ends the table holds no more finished ones than the cap, unless
\* the oldest of them is waited for.
FinishesKeepTheCap ==
  [][\A j \in Jobs : status[j] = "running" /\ status'[j] = "done" /\ j \in listed =>
       \/ Cardinality(Finished') <= Cap
       \/ \E k \in Finished' : Waited(k)' /\ \A i \in Finished' : k <= i]_vars

\* No id is handed out twice, over every upgrade.
IdsNeverRepeat ==
  [][\A j \in Jobs : j \in listed' \ listed => status[j] = "none"]_vars

\* Who waits for a job that ended is answered, whether the table forgot the
\* job, and whether it ended in this image or the one before.
EveryWaitEnds == \A j \in Jobs : (j \in waits /\ status[j] = "done") ~> (j \notin waits)

================================================================================
