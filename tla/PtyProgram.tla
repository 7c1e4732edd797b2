------------------------------ MODULE PtyProgram ------------------------------
(***************************************************************************)
(* A program on a pty, as ptyhost runs it: `Process` over `PosixBackend`.   *)
(*                                                                          *)
(* Four tasks of one event loop share the two ends of the pty: the pump     *)
(* hands pages of output over, the writer sends the input the pty had no    *)
(* room for, the reaper waits for the program in a worker thread, and a     *)
(* payer draws what a held-back redraw owes.  Around them an embedder       *)
(* suspends and resumes the program, writes input, hangs it up or kills it, *)
(* and a hot upgrade pauses it and execs a new image over it.               *)
(*                                                                          *)
(* One action is what a task does between two awaits.  A page of output is  *)
(* a number, so the pages of the pty are those from taken + 1 to wrote.     *)
(***************************************************************************)
EXTENDS Naturals, Sequences

CONSTANTS
  MaxOut,        \* pages the program writes, at most
  MaxIn,         \* units of input the embedder gives, at most
  Room,          \* units of input the pty holds before a write blocks
  MaxSuspends,   \* times the embedder suspends the program, at most
  MaxHangUps,    \* times the embedder hangs it up, at most
  MaxUpgrades,   \* hot upgrades tried, at most
  Origins,       \* which programs to start: TRUE forked here, FALSE a stranger's
  MayCancel      \* whether the scope that holds the tasks may be cancelled

ASSUME PtyAssumption ==
  /\ MaxOut \in Nat /\ MaxIn \in Nat /\ Room \in Nat \ {0}
  /\ MaxSuspends \in Nat /\ MaxHangUps \in Nat /\ MaxUpgrades \in Nat
  /\ Origins \subseteq BOOLEAN /\ MayCancel \in BOOLEAN

VARIABLES
  \* the operating system's side
  prog,         \* "running", "zombie" or "freed": its pid is anybody's
  slaves,       \* who holds the slave side open
  wrote,        \* pages written to the pty so far
  inPty,        \* input the pty holds
  got,          \* input the program read
  misfired,     \* a signal went to a pid that was no longer the program's
  \* PosixBackend: reading
  master,       \* the master side is open
  pump,         \* where `_pump` stands
  reading,      \* the event `_reading` names is set
  eof,          \* PtyReader.closed
  taken,        \* pages read from the pty
  \* PosixBackend: writing
  given,        \* units of input given so far
  unwritten,    \* _unwritten
  written,      \* the event `_written` names is set
  moreToWrite,  \* the event `_more_to_write` names is set
  writer,       \* where `_write_the_rest` stands
  \* PosixBackend: the end
  parent,       \* this process forked the program
  reaper,       \* where `_reap` stands
  thread,       \* where the worker thread in waitpid stands
  coded,        \* returncode is known
  readyF,       \* ready_f is set
  graces,       \* tasks of _kill_after_grace that run
  \* Process
  suspended,    \* Process.suspended
  holding,      \* pages `_read` holds over its checkpoint
  fed,          \* pages given to `receive`
  shown,        \* fed, as of the last invalidate
  owed,         \* _owed
  payers,       \* tasks of _pay_what_is_owed that run
  watching,     \* `_watch_end` waits for ready_f
  told,         \* done_callback was called
  \* the scope, the upgrade and the bounds
  cancelled,    \* the scope of the tasks was cancelled
  paused,       \* an upgrade paused the reading and wrote its snapshot
  snapFed,      \* the snapshot's pages on the screen,
  snapMaster,   \* whether it names a master,
  snapCoded,    \* and whether it knows how the program ended
  lost,         \* pages that were read and that no screen will show
  crashed,      \* an image could not adopt the master its snapshot names
  image,        \* which image of the server this is
  suspends, hangUps, upgrades   \* counts of the bounded actions

osVars == <<prog, slaves, wrote, misfired>>
inVars == <<inPty, got, given, unwritten, written, moreToWrite, writer>>
outVars == <<master, pump, eof, taken>>
feedVars == <<holding, fed, shown, owed, payers, lost>>
endVars == <<parent, reaper, thread, coded, readyF, graces, watching, told>>
holdVars == <<reading, suspended, paused, snapFed, snapMaster, snapCoded, crashed>>
snapVars == <<snapFed, snapMaster, snapCoded>>
boundVars == <<cancelled, image, suspends, hangUps, upgrades>>
vars == <<osVars, inVars, outVars, feedVars, endVars, holdVars, boundVars>>

PumpStates == {"top", "parked", "woken", "orphaned", "selecting", "held", "done"}

InputTypes ==
  /\ inPty \in Seq(1..MaxIn) /\ got \in Seq(1..MaxIn) /\ unwritten \in Seq(1..MaxIn)
  /\ given \in 0..MaxIn /\ Len(inPty) <= Room
  /\ writer \in {"waiting", "writing", "done"}

OutputTypes ==
  /\ wrote \in 0..MaxOut /\ taken \in 0..wrote
  /\ fed \in 0..MaxOut /\ shown \in 0..MaxOut /\ lost \in 0..MaxOut /\ holding \in 0..1
  /\ payers \in Nat
  /\ pump \in PumpStates

EndTypes ==
  /\ prog \in {"running", "zombie", "freed"} /\ slaves \subseteq {"host", "program", "heir"}
  /\ reaper \in {"top", "waiting", "stranger", "done"}
  /\ thread \in {"off", "waiting", "collected", "back"}
  /\ hangUps \in 0..MaxHangUps /\ graces \in 0..hangUps

UpgradeTypes ==
  /\ snapFed \in 0..MaxOut
  /\ upgrades \in 0..MaxUpgrades /\ image \in 0..upgrades
  /\ suspends \in 0..MaxSuspends

FlagTypes ==
  /\ written \in BOOLEAN /\ moreToWrite \in BOOLEAN /\ owed \in BOOLEAN
  /\ master \in BOOLEAN /\ eof \in BOOLEAN /\ reading \in BOOLEAN /\ suspended \in BOOLEAN
  /\ parent \in BOOLEAN /\ misfired \in BOOLEAN /\ coded \in BOOLEAN /\ readyF \in BOOLEAN
  /\ watching \in BOOLEAN /\ told \in BOOLEAN
  /\ snapMaster \in BOOLEAN /\ snapCoded \in BOOLEAN
  /\ paused \in BOOLEAN /\ crashed \in BOOLEAN /\ cancelled \in BOOLEAN

\* Every variable keeps its type, and every count its bound.
TypeOK == InputTypes /\ OutputTypes /\ EndTypes /\ UpgradeTypes /\ FlagTypes

-----------------------------------------------------------------------------
\* `start`: a fresh program is forked with the slave side kept open here, a
\* stranger's is adopted with the master alone.
Init ==
  /\ prog = "running" /\ parent \in Origins
  /\ slaves = IF parent THEN {"host", "program"} ELSE {"program"}
  /\ wrote = 0 /\ taken = 0 /\ fed = 0 /\ shown = 0 /\ lost = 0
  /\ inPty = <<>> /\ got = <<>> /\ unwritten = <<>> /\ given = 0
  /\ written = TRUE /\ moreToWrite = FALSE
  /\ master = TRUE /\ reading = TRUE /\ eof = FALSE
  /\ pump = "top" /\ writer = "waiting" /\ reaper = "top" /\ thread = "off"
  /\ coded = FALSE /\ readyF = FALSE /\ watching = TRUE /\ told = FALSE
  /\ suspended = FALSE /\ holding = 0 /\ owed = FALSE
  /\ payers = 0 /\ graces = 0 /\ misfired = FALSE
  /\ cancelled = FALSE /\ paused = FALSE /\ crashed = FALSE /\ image = 0
  /\ snapFed = 0 /\ snapMaster = TRUE /\ snapCoded = FALSE
  /\ suspends = 0 /\ hangUps = 0 /\ upgrades = 0

-----------------------------------------------------------------------------
(* The program and the kernel. *)

\* The program, or a child that outlives it, writes a page.
ProgWrites ==
  /\ slaves \cap {"program", "heir"} # {}
  /\ wrote < MaxOut
  /\ wrote' = wrote + 1
  /\ UNCHANGED <<prog, slaves, misfired, inVars, outVars, feedVars, endVars, holdVars, boundVars>>

\* The program reads input from its side.
ProgReads ==
  /\ "program" \in slaves /\ inPty # <<>>
  /\ got' = Append(got, Head(inPty))
  /\ inPty' = Tail(inPty)
  /\ UNCHANGED <<osVars, given, unwritten, written, moreToWrite, writer, outVars, feedVars,
                 endVars, holdVars, boundVars>>

\* The program ends: its own descriptors close, and a child it leaves behind
\* may hold the slave side on.
HoldersAfterTheEnd ==
  {slaves \ {"program"}}
    \cup {(slaves \ {"program"}) \cup {"heir"} : p \in {"program"} \cap slaves}

ProgEnds ==
  /\ prog = "running"
  /\ prog' = "zombie"
  /\ slaves' \in HoldersAfterTheEnd
  /\ UNCHANGED <<wrote, misfired, inVars, outVars, feedVars, endVars, holdVars, boundVars>>

\* A running program closes its terminal and goes on, or a child it left
\* behind ends.
SlaveLetGo ==
  /\ \E holder \in slaves \cap {"program", "heir"} : slaves' = slaves \ {holder}
  /\ UNCHANGED <<prog, wrote, misfired, inVars, outVars, feedVars, endVars, holdVars, boundVars>>

\* A stranger is reaped by its own parent.
StrangerReaped ==
  /\ ~parent /\ prog = "zombie"
  /\ prog' = "freed"
  /\ UNCHANGED <<slaves, wrote, misfired, inVars, outVars, feedVars, endVars, holdVars, boundVars>>

-----------------------------------------------------------------------------
(* Redraws: `_feed` and `_pay_what_is_owed`. *)

\* A feed of n pages.  A page that filled its read, soon after the last
\* redraw, holds the redraw back and owes it.
Feed_NoPayer(n) ==
  /\ fed' = fed + n
  /\ \/ n = 1 /\ owed' = TRUE /\ UNCHANGED <<payers, shown>>
     \/ owed' = FALSE /\ shown' = fed' /\ UNCHANGED payers
Feed(n) ==
  /\ fed' = fed + n
  /\ \/ /\ n = 1
        /\ owed' = TRUE
        /\ payers' = IF owed THEN payers ELSE payers + 1
        /\ UNCHANGED shown
     \/ /\ owed' = FALSE
        /\ shown' = fed'
        /\ UNCHANGED payers

PayOwed ==
  /\ payers > 0
  /\ payers' = payers - 1
  /\ owed' = FALSE
  /\ shown' = IF owed THEN fed ELSE shown
  /\ UNCHANGED <<osVars, inVars, outVars, holding, fed, lost, endVars, holdVars, boundVars>>

-----------------------------------------------------------------------------
(* The pump. *)

\* `close`: the master goes, and what waits to be written with it.
Close_StillWaited ==
  /\ master' = FALSE
  /\ unwritten' = <<>>
  /\ moreToWrite' = TRUE
  /\ UNCHANGED <<written, inPty, got, given, writer>>
Close ==
  /\ master' = FALSE
  /\ unwritten' = <<>>
  /\ written' = TRUE
  /\ moreToWrite' = TRUE
  /\ UNCHANGED <<inPty, got, given, writer>>

\* The loop's test has failed: `finally` closes and says `_drained`.
PumpLeaves ==
  /\ pump' = "done"
  /\ Close

\* The test of the loop, up to `await self._reading.wait()`: `over` is
\* whether the end of the file has been read.
LoopTest(over) ==
  IF ~master \/ over
    THEN PumpLeaves
    ELSE /\ pump' = IF reading THEN "woken" ELSE "parked"
         /\ UNCHANGED <<master, inVars>>

PumpStarts ==
  /\ pump = "top"
  /\ LoopTest(eof)
  /\ UNCHANGED <<osVars, eof, taken, feedVars, endVars, holdVars, boundVars>>

\* The event it waited on is set: test again and wait for the descriptor.
PumpWoken ==
  /\ pump = "woken"
  /\ IF ~master \/ eof
       THEN PumpLeaves
       ELSE pump' = "selecting" /\ UNCHANGED <<master, inVars>>
  /\ UNCHANGED <<osVars, eof, taken, feedVars, endVars, holdVars, boundVars>>

\* Something to read: a page, or the end of the file once every slave is closed.
Readable == taken < wrote \/ slaves = {}

\* PtyReader.read_bytes: the page at the front, or else the EIO that ends it.
ReadPage_EndFirst ==
  IF slaves = {}
    THEN eof' = TRUE /\ UNCHANGED taken
    ELSE taken' = taken + 1 /\ UNCHANGED eof
ReadPage ==
  IF taken < wrote
    THEN taken' = taken + 1 /\ UNCHANGED eof
    ELSE eof' = TRUE /\ UNCHANGED taken

\* A pause that came while it waited holds too.
PausedMeanwhile == ~reading

\* The descriptor is readable.  `_read` feeds at once with priority, and else over a checkpoint.
PumpReads ==
  /\ pump = "selecting" /\ master /\ Readable
  /\ IF PausedMeanwhile
       THEN LoopTest(eof) /\ UNCHANGED <<eof, taken, feedVars>>
       ELSE /\ ReadPage
            /\ \/ /\ Feed(taken' - taken)
                  /\ LoopTest(eof')
                  /\ UNCHANGED <<holding, lost>>
               \/ /\ pump' = "held"
                  /\ holding' = taken' - taken
                  /\ UNCHANGED <<fed, shown, owed, payers, lost, master, inVars>>
  /\ UNCHANGED <<osVars, endVars, holdVars, boundVars>>

\* The checkpoint is over: the held page is fed, whatever came meanwhile.
PumpFeedsHeld ==
  /\ pump = "held"
  /\ Feed(holding)
  /\ holding' = 0
  /\ LoopTest(eof)
  /\ UNCHANGED <<osVars, eof, taken, lost, endVars, holdVars, boundVars>>

\* The scope goes: the page held over the checkpoint is never fed.
PumpCancelled ==
  /\ cancelled /\ pump # "done"
  /\ PumpLeaves
  /\ lost' = lost + holding
  /\ holding' = 0
  /\ UNCHANGED <<osVars, eof, taken, fed, shown, owed, payers, endVars, holdVars, boundVars>>

-----------------------------------------------------------------------------
(* Input: `write_bytes` and `_write_the_rest`. *)

Least(a, b) == IF a <= b THEN a ELSE b
Space == Room - Len(inPty)

\* The units n + 1 to n + k of the input.
Units(n, k) == [i \in 1..k |-> n + i]

\* What waits goes first.
Behind_Forgotten == FALSE
Behind == unwritten # <<>>

\* The pty took n of the k units, and the rest waits for the writer.
Queue_NoWake(n, k) ==
  /\ unwritten' = unwritten \o Units(given + n, k - n)
  /\ written' = (written /\ n = k)
  /\ UNCHANGED moreToWrite
Queue(n, k) ==
  /\ unwritten' = unwritten \o Units(given + n, k - n)
  /\ written' = (written /\ n = k)
  /\ moreToWrite' = (moreToWrite \/ n < k)

\* `write_bytes`: behind what waits, or to the pty as far as it has room.  A
\* write fails, and is dropped, only once the program's side is gone.
WriteBytes(k) ==
  /\ given + k <= MaxIn
  /\ given' = given + k
  /\ \/ /\ ~master \/ (~Behind /\ slaves = {})
        /\ UNCHANGED <<inPty, unwritten, written, moreToWrite>>
     \/ /\ master /\ Behind
        /\ unwritten' = unwritten \o Units(given, k)
        /\ UNCHANGED <<inPty, written, moreToWrite>>
     \/ /\ master /\ ~Behind
        /\ inPty' = inPty \o Units(given, Least(k, Space))
        /\ Queue(Least(k, Space), k)
  /\ UNCHANGED <<osVars, got, writer, outVars, feedVars, endVars, holdVars, boundVars>>

\* `_more_to_write` is set: a fresh event for the next time, and on to the
\* writing when there is something to write.
WriterWakes ==
  /\ writer = "waiting" /\ moreToWrite
  /\ moreToWrite' = FALSE
  /\ IF unwritten # <<>> /\ master
       THEN writer' = "writing" /\ UNCHANGED written
       ELSE /\ written' = TRUE
            /\ writer' = IF master THEN "waiting" ELSE "done"
  /\ UNCHANGED <<osVars, inPty, got, given, unwritten, outVars, feedVars, endVars, holdVars,
                 boundVars>>

\* What the pty has room for.
Sendable == Least(Len(unwritten), Space)

WriterWrites ==
  /\ writer = "writing" /\ master /\ unwritten # <<>> /\ Space > 0
  /\ inPty' = inPty \o SubSeq(unwritten, 1, Sendable)
  /\ unwritten' = SubSeq(unwritten, Sendable + 1, Len(unwritten))
  /\ IF unwritten' = <<>>
       THEN written' = TRUE /\ writer' = "waiting"
       ELSE UNCHANGED <<written, writer>>
  /\ UNCHANGED <<osVars, got, given, moreToWrite, outVars, feedVars, endVars, holdVars, boundVars>>

\* The wait or the write fails: the pump closed the master, or the program's
\* side is gone.  The writer ends.
WriterFails ==
  /\ writer = "writing" /\ (~master \/ slaves = {})
  /\ writer' = "done"
  /\ unwritten' = <<>> /\ written' = TRUE
  /\ UNCHANGED <<osVars, inPty, got, given, moreToWrite, outVars, feedVars, endVars, holdVars,
                 boundVars>>

WriterCancelled ==
  /\ cancelled /\ writer # "done"
  /\ writer' = "done"
  /\ UNCHANGED <<osVars, inPty, got, given, unwritten, written, moreToWrite, outVars, feedVars,
                 endVars, holdVars, boundVars>>

-----------------------------------------------------------------------------
(* The end: `_reap`, its thread, and the signals. *)

\* The parent's copy of the slave goes and the master stays.
ReaperFinally(holders) ==
  /\ slaves' = holders \ {"host"}
  /\ readyF' = TRUE
  /\ reaper' = "done"

\* A fresh program is waited for in a thread.  An adopted one may have ended
\* already, reaped here or by the image before.
ReaperStarts ==
  /\ reaper = "top"
  /\ IF parent /\ image > 0 /\ prog # "running"
       THEN /\ prog' = "freed"
            /\ coded' = (coded \/ prog = "zombie")
            /\ ReaperFinally(slaves)
            /\ UNCHANGED thread
       ELSE /\ reaper' = IF parent THEN "waiting" ELSE "stranger"
            /\ thread' = IF parent THEN "waiting" ELSE thread
            /\ UNCHANGED <<prog, slaves, coded, readyF>>
  /\ UNCHANGED <<wrote, misfired, parent, graces, watching, told, inVars, outVars, feedVars,
                 holdVars, boundVars>>

\* waitpid takes the zombie: from here on the pid is anybody's.
ThreadCollects ==
  /\ thread = "waiting" /\ prog = "zombie"
  /\ thread' = "collected"
  /\ prog' = "freed"
  /\ UNCHANGED <<slaves, wrote, misfired, parent, reaper, coded, readyF, graces, watching, told,
                 inVars, outVars, feedVars, holdVars, boundVars>>

\* The thread runs again and says how the program ended.
ThreadReturns ==
  /\ thread = "collected"
  /\ thread' = "back"
  /\ coded' = TRUE
  /\ UNCHANGED <<osVars, parent, reaper, readyF, graces, watching, told, inVars, outVars,
                 feedVars, holdVars, boundVars>>

\* The loop hears of it.  A stranger has ended when its pid or its output has.
ReaperEnds ==
  /\ \/ reaper = "waiting" /\ thread = "back"
     \/ reaper = "stranger" /\ (prog = "freed" \/ pump = "done")
  /\ ReaperFinally(slaves)
  /\ UNCHANGED <<prog, wrote, misfired, parent, thread, coded, graces, watching, told, inVars,
                 outVars, feedVars, holdVars, boundVars>>

\* `reaped`: a reaped pid is not the program's any more.
Reaped == coded \/ readyF

\* `send_signal(SIGKILL)`, and what the pty's holders are after it.
SendKill_Ignored(holders) ==
  holders = slaves /\ UNCHANGED <<prog, misfired>>
SendKill(holders) ==
  IF Reaped
    THEN holders = slaves /\ UNCHANGED <<prog, misfired>>
    ELSE /\ misfired' = (misfired \/ prog = "freed")
         /\ prog' = IF prog = "running" THEN "zombie" ELSE prog
         /\ holders \in IF prog = "running" THEN HoldersAfterTheEnd ELSE {slaves}

\* `Process.kill`.
Kill ==
  /\ SendKill(slaves')
  /\ UNCHANGED <<wrote, inVars, outVars, feedVars, endVars, holdVars, boundVars>>

\* `hang_up`: SIGHUP, which a program may ignore, and the grace starts.
HangUp ==
  /\ ~Reaped /\ hangUps < MaxHangUps /\ ~paused
  /\ hangUps' = hangUps + 1
  /\ misfired' = (misfired \/ prog = "freed")
  /\ graces' = graces + 1
  /\ UNCHANGED <<prog, slaves, wrote, parent, reaper, thread, coded, readyF, watching, told,
                 inVars, outVars, feedVars, holdVars, cancelled, image, suspends, upgrades>>

\* `_kill_after_grace`: the grace is over, or ready_f was set in it.
GraceEnds ==
  /\ graces > 0
  /\ graces' = graces - 1
  /\ SendKill(slaves')
  /\ UNCHANGED <<wrote, parent, reaper, thread, coded, readyF, watching, told, inVars, outVars,
                 feedVars, holdVars, boundVars>>

\* `_watch_end`.
SayDone ==
  /\ watching /\ readyF
  /\ watching' = FALSE /\ told' = TRUE
  /\ UNCHANGED <<osVars, parent, reaper, thread, coded, readyF, graces, inVars, outVars,
                 feedVars, holdVars, boundVars>>

\* The scope that holds the tasks is cancelled: a teardown of the embedder.
Cancel ==
  /\ MayCancel /\ ~cancelled /\ ~paused
  /\ cancelled' = TRUE
  /\ UNCHANGED <<osVars, inVars, outVars, feedVars, endVars, holdVars, image, suspends, hangUps,
                 upgrades>>

\* A program the scope leaves behind is killed.
ReaperCancelled ==
  /\ cancelled /\ reaper # "done"
  /\ \E holders \in HoldersAfterTheEnd \cup {slaves} :
        SendKill(holders) /\ ReaperFinally(holders)
  /\ UNCHANGED <<wrote, parent, thread, coded, graces, watching, told, inVars, outVars, feedVars,
                 holdVars, boundVars>>

\* The tasks that only wait go with the scope.
WaitersCancelled ==
  /\ cancelled /\ (payers > 0 \/ graces > 0 \/ watching)
  /\ payers' = 0 /\ graces' = 0 /\ watching' = FALSE
  /\ UNCHANGED <<osVars, inVars, outVars, holding, fed, shown, owed, lost, parent, reaper,
                 thread, coded, readyF, told, holdVars, boundVars>>

-----------------------------------------------------------------------------
(* The pauses: `suspend`, `resume` and the hot upgrade. *)

\* `pause_reading` names a fresh event.  A pump parked on the one before is
\* parked on an event that nobody names any more.
PauseReading_NotHeld ==
  /\ UNCHANGED <<reading, pump>>
PauseReading ==
  /\ reading' = FALSE
  /\ pump' = IF pump = "parked" THEN "orphaned" ELSE pump

\* `resume_reading` sets the event named now.
ResumeReading_NotHeard ==
  /\ reading' = TRUE
  /\ UNCHANGED pump
ResumeReading ==
  /\ reading' = TRUE
  /\ pump' = IF pump = "parked" THEN "woken" ELSE pump

\* An upgrade refuses every command, so no one suspends or resumes in it.
Suspend ==
  /\ ~suspended /\ ~paused /\ suspends < MaxSuspends
  /\ suspended' = TRUE /\ suspends' = suspends + 1
  /\ PauseReading
  /\ UNCHANGED <<osVars, inVars, master, eof, taken, feedVars, endVars, paused, snapVars, crashed,
                 cancelled, image, hangUps, upgrades>>

Resume ==
  /\ suspended /\ ~paused
  /\ suspended' = FALSE
  /\ ResumeReading
  /\ UNCHANGED <<osVars, inVars, master, eof, taken, feedVars, endVars, paused, snapVars, crashed,
                 boundVars>>

\* The upgrade pauses the reading and writes its snapshot, in one step, long
\* after the tasks of this image first ran.  The pane of a program that was
\* hung up is closed, and not in it.
UpgradePauses ==
  /\ pump # "top" /\ reaper # "top"
  /\ ~paused /\ ~cancelled /\ hangUps = 0 /\ upgrades < MaxUpgrades
  /\ paused' = TRUE /\ upgrades' = upgrades + 1
  /\ snapFed' = fed /\ snapMaster' = master /\ snapCoded' = coded
  /\ PauseReading
  /\ UNCHANGED <<osVars, inVars, master, eof, taken, feedVars, endVars, suspended, crashed,
                 cancelled, image, suspends, hangUps>>

\* The upgrade fails after the pause: serve on.  What copy mode stopped stays.
UpgradeAborts ==
  /\ paused
  /\ paused' = FALSE
  /\ IF suspended THEN UNCHANGED <<reading, pump>> ELSE ResumeReading
  /\ UNCHANGED <<osVars, inVars, master, eof, taken, feedVars, endVars, suspended, snapVars, crashed,
                 boundVars>>

\* The new image starts from the snapshot: a program with a master is adopted,
\* one without has ended, and nothing is started for it.
Exec ==
  /\ paused /\ ~crashed
  /\ paused' = FALSE
  /\ image' = image + 1
  /\ crashed' = (snapMaster /\ ~master)
  /\ slaves' = slaves \ {"host"}
  /\ fed' = snapFed /\ shown' = snapFed /\ lost' = taken - snapFed
  /\ holding' = 0 /\ owed' = FALSE /\ payers' = 0 /\ graces' = 0
  /\ coded' = snapCoded /\ thread' = "off"
  /\ unwritten' = <<>> /\ written' = TRUE /\ moreToWrite' = FALSE
  /\ reading' = ~suspended
  /\ IF snapMaster /\ master
       THEN /\ pump' = "top" /\ writer' = "waiting" /\ reaper' = "top"
            /\ readyF' = FALSE /\ watching' = TRUE
       ELSE /\ pump' = "done" /\ writer' = "done" /\ reaper' = "done"
            /\ readyF' = TRUE /\ watching' = FALSE
  /\ UNCHANGED <<prog, wrote, misfired, inPty, got, given, master, eof, taken, parent, told,
                 suspended, snapVars, cancelled, suspends, hangUps, upgrades>>

-----------------------------------------------------------------------------
Pump == PumpStarts \/ PumpWoken \/ PumpReads \/ PumpFeedsHeld \/ PumpCancelled
Writer == WriterWakes \/ WriterWrites \/ WriterFails \/ WriterCancelled
Reaper == ReaperStarts \/ ThreadCollects \/ ThreadReturns \/ ReaperEnds \/ ReaperCancelled
Program == ProgWrites \/ ProgReads \/ ProgEnds \/ SlaveLetGo \/ StrangerReaped
Upgrade == UpgradePauses \/ UpgradeAborts \/ Exec
Embedder ==
  \/ \E k \in 1..2 : WriteBytes(k)
  \/ Kill \/ HangUp \/ Suspend \/ Resume \/ Cancel

Next ==
  \/ Program \/ Pump \/ Writer \/ Reaper \/ Upgrade \/ Embedder
  \/ PayOwed \/ GraceEnds \/ SayDone \/ WaitersCancelled

Spec == Init /\ [][Next]_vars

\* The loop runs every task it can, the thread returns, and a timer fires.
\* Nothing is said of the program, the embedder or the upgrade.
Fairness ==
  /\ WF_vars(Pump) /\ WF_vars(Writer) /\ WF_vars(PayOwed) /\ WF_vars(GraceEnds)
  /\ WF_vars(ReaperStarts) /\ WF_vars(ThreadCollects) /\ WF_vars(ThreadReturns)
  /\ WF_vars(ReaperEnds) /\ WF_vars(ReaperCancelled)
  /\ WF_vars(SayDone)

FairSpec == Spec /\ Fairness

\* The same, for a program that reads its input as long as it runs.
ReadingSpec == FairSpec /\ WF_vars(ProgReads)

-----------------------------------------------------------------------------
(* Safety. *)

\* Every page read off the pty was fed once, is held over a checkpoint, or is
\* counted as lost: `_read` drops and repeats none.
PagesAccountedFor == taken = fed + holding + lost

\* The master goes only after the last words of the program and of all it left
\* behind were read and fed, and not with the reap (`close`, `_reap`).
LastWordsAreFed ==
  ~master /\ ~cancelled => slaves = {} /\ taken = wrote /\ holding = 0

\* The event `input_written` waits for is set exactly while nothing waits to
\* be written, so that wait neither hangs nor returns early.
WrittenIffNothingWaits == written <=> unwritten = <<>>

\* The program reads what `write_bytes` was given, whole and in order, whatever
\* was written at once and whatever waited, until an image or the pty goes.
InputIsWhole ==
  LET input == got \o inPty \o unwritten IN
    /\ \A i \in 1..Len(input), j \in 1..Len(input) : i < j => input[i] < input[j]
    /\ master /\ slaves # {} /\ image = 0 => Len(input) = given

\* What was fed is drawn, or a payer is on its way to draw it.
RedrawIsComing == shown = fed \/ (owed /\ payers > 0) \/ cancelled

\* A hot upgrade loses at most the one page the pump held over it.
UpgradeLosesAPageAtMost == ~cancelled => lost <= image

\* While the reading is paused no page leaves the pty: what the program writes
\* waits in the kernel (`pause_reading`).
PausedReadsNothing == [][~reading /\ ~reading' => taken' = taken]_vars

\* A signal goes to a pid that is not the program's only between the waitpid
\* in the thread and the thread's next step: once the end is known, never.
SignalsOnlyUnknownEnds == [][misfired' /\ ~misfired => ~coded /\ ~readyF]_vars

-----------------------------------------------------------------------------
(* Liveness. *)

\* The reading is held on purpose, or by an upgrade that failed over a
\* suspended program, whose resume no pump hears.
Held == suspended \/ paused \/ pump = "orphaned"

\* Every page the program writes is fed, unless the reading is held: a resume
\* is never lost.
OutputIsFed ==
  \A n \in 1..MaxOut : (wrote >= n) ~> (fed + lost >= n \/ Held \/ cancelled)

\* `input_written` returns while the program reads, and when it goes.
InputIsWritten == ~written ~> (written \/ "program" \notin slaves)

\* A program forked here that was hung up ends, even one that ignores SIGHUP.
HungUpEnds == (parent /\ graces > 0) ~> (prog # "running" \/ cancelled)

\* No program outlives the scope that forked it.
NothingOutlivesTheScope == (parent /\ cancelled) ~> (prog # "running")

=============================================================================
