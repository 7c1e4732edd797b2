# A model of pyterm

pyterm is a terminal multiplexer (`pymux`) and the packages under it: `pyte`
parses what a program writes, `ptyhost` runs the program on a pty, `ptterm` and
`txterm` draw one terminal. This directory holds TLA+ modules of the parts of it
where tasks, threads, processes and restarts meet, the TLC configurations that
check them on small instances, and TLAPS proofs of what must hold for any size.

Everything runs on one event loop (anyio over asyncio), with worker threads for
the blocking `waitpid` and for compressing big packets. So **one action of a
module is what a task does between two awaits**, and the interleavings are those
of awaits, threads, other processes and the kernel. Line numbers below and in
`PROJECT.json` are of the sources this directory stands beside.

## The parts of the system

| part | state it keeps | operations | what is hard | what makes it right |
| --- | --- | --- | --- | --- |
| **ptyhost: `Process` over `PosixBackend`** (`ptyhost/process.py`, `backends/posix.py`) | master fd, events `_reading`, `_written`, `_more_to_write`, `ready_f`; `_unwritten`; `returncode`; `suspended`; a page held over a checkpoint; owed redraws | pump pages, write input, reap in a thread, suspend/resume, hang up with a grace, kill, pause/release/adopt for an upgrade | four tasks and a thread; two owners of the same pause; the last output against the reap; a pid freed before the loop knows; a cancelled scope at every await | every page fed once; none while paused; input whole and in order; last words before the close; hung-up programs end; no signal after the end is known |
| **jobs: one stream** (`pymux/jobs/job.py`, `feed.py`) | chunks with offsets, `dropped`, queues of one hint, `JobFeed` of a viewing pane | `land`, `_trim`, `since`, `poke`, `follow`, hold, kill | a hint lost between the read and the sleep; a head that falls off under a reader; the end against the last output; a timeout | each byte once, in order; what is missed fell off; nobody sleeps over output or the end |
| **jobs: one job on pipes** (`jobs/pipes.py`, `table.py` supervise) | two pipes, pumps, the reap, `kill_requested`, `done` | submit, pump, reap, kill, sweep, pause/adopt | a child that outlives the job and holds a pipe; a kill before the fork; an end during the exec | done only when reaped and all output landed; no job is left running |
| **jobs: the table** (`jobs/table.py`) | jobs by id, `last_id`, `waiters`, viewers, `FINISHED_KEEP` | submit, finish, forget, sweep, wait, view, thaw | who watches changes while the cap and the sweep look; two snapshots of one upgrade | watched jobs stay; ids are new; waits end |
| **connection and pipes** (`connection/server.py`, `pipes/base.py`, `pipes/posix.py`) | `Turns`, `_outstanding`, `_compressor`, `_closed`, `_empty`, `encode` | `send_packet`, `write_packet`, sound, the `wire` turn, `say_restarting`, drained, close; read loop, pings | each packet is a task of its own, cut at any await; one stateful compressor behind them | one turn; the far end can read what it gets; order; no wake lost |
| **hot upgrade and snapshot** (`core/upgrade.py`, `core/snapshot/`) | the snapshot, what is paused, `refusing_commands`, carried fds | check, say, pause, write, answer, exec, adopt; abort | several awaits between the check and the exec, a turn between the snapshot and the exec | nothing lost that the docs say is carried; an abort resumes everything |
| **frames** (`connection/client_state.py`, `pacing.py`, `frame_holds.py`, `core/waking.py`) | `unread`, `frame_held`, holds with deadlines, ticks | ask for a frame, skip, hold, release, answer | a skipped frame asks for nothing and counts on another wake | a skipped frame is asked for again, and is drawn to a terminal that reads |
| **mirror** (`pymux/mirror/`) | the link's queue, one queued frame per pane, `_streaming`, `stale`, the peer's tree | mirror, frame, pause/resume by sight, copy mode on the owner, reconnect | sight and the link change while frames are queued | the page seen catches up; old frames of a stopped mirror go nowhere |
| **client, reconnecting** (`client/relink.py`, `reconnect.py`, `ssh.py`) | the link, backoff, `slept_through`, a restart's window | hold, retry, watch for sleep, leave | a sleep, a loss and a clean end at once | a detach never retries, a loss does |
| **core: sessions, windows, panes** (`core/arrangement.py`, `window_tree.py`, `splits.py`) | the tree of splits, active panes, window indexes | add, remove, move, swap, link, resize | aliasing of linked windows; algorithms over a tree | every pane in one place, focus on a live pane |
| commands, options, keys, layout, styles, graphics, wayland, notify, web | tables and drawing | parse and call the core | little that is concurrent | - |
| **pyte**, **ptterm**, **txterm** | a parser, a grid of cells, a widget | feed, draw | sequential, large data | conformance to terminals, which their own suites test |

How they meet: a pane holds a `Process`, whose pages go to a pyte stream and so
ask the clients that see it for a frame. A client's frame goes as packets through
`ServerConnection` into the socket. `run` submits a job to the table; a pane that
views it reads the same `Job` as `tail-job` does. A hot upgrade pauses the panes
and the jobs, snapshots both, answers its caller on a connection, and execs an
image that adopts the fds. Events and one-slot queues carry the wakes; nothing is
shared with a thread but the exit status and a packet's bytes.

`PROJECT.json` lists the parts again with the files of each (the largest ones, where a
part is a large directory) and what of it is modelled, and every hazard at its line.

## The modules

| module | models | the code it stands for |
| --- | --- | --- |
| `PtyProgram` | one program on a pty, its four tasks, its embedder and the hot upgrade over it | `process.py`, `backends/posix.py`, parts of `spawn.py`, `posix_utils.py`, `upgrade.py`, `snapshot/` |
| `StreamTail` | **abstract**: what one stream of a job promises its readers | `job.py` `land`, `since` |
| `JobStream` | both streams of a job with their chunks, and who follows | `job.py`, `feed.py`, `table.py` `follow` |
| `JobPipes` | one job on two pipes from submit to end, and an upgrade over it | `pipes.py`, `table.py` supervise, kill, sweep, pause |
| `JobTable` | every job, the cap, the sweep, waits and views, an upgrade | `table.py`, `snapshot/read.py`, `upgrade.py` |
| `PipeWrites` | every task that writes on one client's socket | `pipes/base.py`, `pipes/posix.py`, `server.py` |
| `Arrangement` | sessions, windows, panes and who looks at what, under every command that makes, moves or ends one | `core/arrangement.py`, `core/panes.py`, `core/main.py`, the commands |
| `WindowOrder` | the order of one session's windows and their indexes | `core/arrangement.py`, the commands |
| `MirrorLink` | one pane lent to another server, over links that break | `mirror/source.py`, `link.py`, `peer.py`, `program.py`, `sink.py` |
| `FramePacing` | when one client's next frame is drawn, skipped and asked for again | `pacing.py`, `frame_holds.py`, `client_state.py`, `waking.py` |
| `Relink` | an attached ssh client, the links it holds one after the other, and the server's pings, detaches and restarts | `client/relink.py`, `ssh.py`, `terminal.py`, `connection/server.py`, `core/upgrade.py` |
| `*_proofs` | theorems and their proofs: each module's are in the one of its name; `Arrangement_proofs` has those of `WindowOrder` too, `Frames_proofs` those of `FramePacing` and `MirrorLink`, and `JobStream_proofs` that `JobStream` implements `StreamTail` | - |

Names follow the code: `written` is the event `_written` names, `held` in
`PipeWrites` is `Turns._held`, `kept` and `dropped` are `Stream`'s. A variable
that says where a task stands (`pump`, `writer`, `reaper`, `at`) names the await
it is parked at. A definition called `Name_Something`, before the action `Name`,
is that action with a plausible mistake in it: `PROJECT.json` pairs each with the
property that catches it. No specification uses one.

**PtyProgram.** A page of output and a unit of input are numbers, so loss,
repetition and reordering show. `pump` stands at the wait for `_reading`, at the
descriptor, at the checkpoint of `Process._read` ("held": a page was read and
waits to be fed), or is "orphaned": parked on an event that `_reading` no longer
names. `ReadPage`, `Feed` and `PausedMeanwhile` are the bodies of `_pump`; `Queue`,
`WriterWakes`, `WriterWrites` those of `write_bytes` and `_write_the_rest`;
`ThreadCollects` and `ThreadReturns` split `waitpid` in the thread from the loop's
hearing of it; `PayOwed` is the payer of a redraw held back by a full page;
`Cancel` is the scope's cancel, and each task has the step by which it leaves.
`UpgradePauses`, `UpgradeAborts` and `Exec` are the upgrade's side of one pane, and
the new image adopts with no slave held open. A stranger (`adopt` of a program this
process did not fork) is the other member of `Origins`.

**StreamTail, JobStream.** A byte is its number. `JobStream` keeps chunks as
`job.py` does, trims whole ones and part of one, and gives each follower a queue
of one hint; `tail-job` may time out, and a viewing pane may be held, resumed and
killed. `StreamsAreTails` is the refinement: under a mapping per stream and
reader, every step lands a piece, joins a reader, gives a reader all that is new,
or moves nothing of the abstract tail.

**JobPipes.** The supervise task, a pump per pipe, the reap with its thread,
`kill-job` before and after the fork, the sweep that forgets the job while it
runs, a grandchild that holds a pipe's write end, an upgrade that fails or execs,
and the number of a closed pipe that names another file by the time the exec
carries it.

**JobTable.** Who waits for a job (`waits`) and which pane views it, with the
follow of the view on, ending or off, against `_forget` past `FINISHED_KEEP` and
the sweep. The upgrade loads its first snapshot in the check and its second behind
the exec; `Loads` says when that load raises.

**PipeWrites.** Each writer writes one packet of one or two pieces. A writer is
spawned (by `send_packet`, a task that has not run yet), direct, urgent (sound), or
foreign: `say_restarting` runs in the task of the client that asked for the upgrade
and is cut with that client. `Release` hands the turn over as `Turns` does,
`Compress` enters the stream of the compressor (in the thread for a big packet),
`SendParks` waits for room, and `CutWaiting`/`CutInTurn` are the cancel at each
await, including the one in the very turn in which the writer's turn came.

**Arrangement.** A command is one turn of the loop, so each is one action of the
client that sends it: `NewWindow`, `NewSession`, `SplitWindow`, `SelectPane`,
`SelectWindow`, `SwitchClient`, `UnlinkWindow`, `LinkWindow`, `MoveWindowTo`,
`BreakPane`, `MovePane`, `KillPane`, `KillWindow` and `KillSession`. What comes
between commands is the end of a program (`ProgramEnds`, which is
`take_ended_pane`) and the drawing of a frame (`Draw`). A killed pane leaves its
window in the turn of the command, and its program ends later: `killedIn` is what
`Panes` remembers of it, and what `end_if_empty` asks when it does. `order` and
`pen` are `Arrangement.windows` and the unlinked windows; `looks` is the active
window of each client, which the code keeps per session, and which is not looked
for in the order again once it is set. The order is a set here: where a client
goes from a window that closes is any other window, and `WindowOrder` has the list.

**WindowOrder.** `windows` and `index` of one session, and every command as what it
does to the two: `Insert`, `BreakOff`, `Move`, `MoveAmong`, `MoveOver` (`move-window
-k`), `Swap`, `Link`, `LinkAfter`, `Close`, `Unlink`. `Sorted`, `At`, `MakeRoom`,
`LowestFree` and `Renumbered` are the functions behind them. `MakeRoom` says what the
loop of `make_room_at` ends with: the run of taken indexes from the wanted one up
moves by one, and of two windows on one index the later one in the list.

**MirrorLink.** A page is its version, and a frame is a pair of versions: a frame
built against one page and laid on another is what would draw cells that nobody
sent. `See` is a client of the peer that shows the pane or no longer does, with the
`mirror`, `resume` or `pause` it says; `Hear`, `Write` and `Fail` are the owner's side;
`Lose` breaks the link with what was on its way, and `Dial` makes a new one that
hears everything held in `Told`.

**FramePacing.** `Change` asks for a frame, `Record` is `refresh_what_time_moves`, and
a redraw that is asked for and recorded ends in `Draw` or in one of the four skips of
`should_skip_render`. `SkipForInput` and `SkipForPipe` leave the redraw asked for; the
other two count on a wake (`Wake`, one per hold that was taken) or an answer
(`StatusAnswered`). `unread` holds the sizes of the frames whose report was not
answered, so both limits are there, and a terminal may fall silent at any time.

**Relink.** The client's `at` is "held" while `hold_one` runs, "closing" while it
returns, "waiting" in the pause between tries, and "dialing". `LinkEnds`,
`NoticeSleep` and `HoldEnds` are three steps because the reasons of an end race: the
notice that was read, the failure of the read, and the sleep that the watch finds,
which `hold` puts above the others. `ReadNotice` of a `restarting` or `exit` packet
comes before the end or not at all, as the network may cut it. On the server's side
`Ping`, `TakePong`, `Drop` and `ReadEnd` are `watch_liveness` and the read loop, and
`Announce`, `AbortUpgrade`, `Restart` and `NextServer` are an upgrade or `kill-server
-r` and the image after it.

## What is checked

Every bound is a CONSTANT, named in the module and given in the `.cfg`. A module
names every counter's bound in the guard of the action that counts.

| run | shows | bounds, and why they are enough |
| --- | --- | --- |
| `pty_output` | Last words are fed before the close, all pages are fed, redraws are paid, at most one page is lost over an exec | two pages (one held, one behind it), two suspends (a pause over a pause, and again), one upgrade, both origins |
| `pty_end` | Input whole and in order, its wait neither hangs nor lies, a hung-up program ends, nothing outlives its scope | three units into room for one (one written, one queued, one behind the queue), one hang-up, any kills, a cancel |
| `job_stream` | No sleep over output or the end, the end is heard and comes last, and the refinement of `StreamTail` | a cap of 1 and pieces of 1 and 2, so that heads fall off in whole and in part; one command and one viewer |
| `job_pipes` | Done only when reaped and all landed; a kill reaches the job; nothing is left running or unrecorded | one piece per stream (landed or not), one upgrade, every other fault on; 87 thousand states |
| `job_table` | Watched jobs stay, the cap holds, waits end | two jobs over a cap of one, one viewing pane, one upgrade |
| `pipe_writes` | One turn at a time, the far end can read, no drainer oversleeps, every write ends | five writers, one of each kind and a second spawned one that is long and big; room for one piece; one drainer |
| `arrangement` | A pane has one window and a window one place, the focus is on a pane of its window, clients look at windows that are there, a session whose panes were killed goes with the last of their programs | two clients, two sessions, three windows (two to move between, one to go) and two panes; 500 thousand states |
| `window_order` | The list stays in the order of its indexes, only `link-window` doubles one, making room reorders nobody else | four windows on indexes 0 to 4 with a base of 1: a gap below, a run that is moved whole and a window past it; deadlock is checked too |
| `mirror_link` | Frames fit the page they are laid on, a seen pane catches up, a stale one is answered, an unseen one is paused | three pages, four comings into sight, two lost links, one frame that cannot be built, room for two packets; 134 thousand states |
| `frame_pacing` | A skipped frame is asked for again, and a terminal that reads is drawn to | both kinds of hold, two holds (of one key, or of each), two changes, one input, limits of two frames and three bytes with three reports in flight: each limit is reached with and without the other; 472 thousand states |
| `relink` | A client comes back only for a reason, comes back to the server that restarts, and its ghosts go | three links, one break or sleep, one restart, two missed pings; 35 thousand states |
| `relink_uninvited` | The counterexample to `HungUpStaysAway`, below | two links, one sleep |

`CHECK_DEADLOCK FALSE` is in every configuration but `window_order`'s, since each of
these systems does stop: a program ends, a job is done, a socket closes, a bound
on changes is used up. The orders of one session can always change.

**Fairness.** The event loop runs a task that can run, so each task's step has
weak fairness; a worker thread returns once it has something to return; a timer
(the grace before SIGKILL, a hold's deadline, a wake) fires. Nothing is asked of the
program, the person at the terminal, the embedder, or the choice to upgrade. What is
asked of the world is written in the specifications:

- `pty_end` checks that input is written *for a program that reads* (`ReadingSpec`).
- `pipe_writes` checks that writes end *for a far end that reads or goes* (`WF(Reads)`).
- `MirrorLink`: packets on a link that stands arrive, and the peer dials until it has a
  link, which `Peer.run` does for as long as the peer is held.
- `FramePacing`: the socket drains, and a terminal answers unless it fell silent.
  `FramesAreDrawn` asks nothing of a silent one.
- `Relink`: a try that may succeed again and again succeeds (`SF(DialConnects)`); a
  restart that was said is carried out or aborted, and the next image starts. There
  is no fairness for the network, the pongs, or the person.

**Exceptions the properties carry**, each being something the code does:
`OutputIsFed` excuses an orphaned pump; `UpgradeLosesAPageAtMost` allows the held
page; `TheEndComesLast` excuses a held viewer; `TheEndIsRecorded` and
`NoneIsLeftRunning` excuse a job the sweep forgot before an upgrade; `FarEndCanRead`
excuses `Torn` and `Jumped` foreign packets; `LooksAtItsOwn` excuses sessions whose
order was empty once; `OnlyLinkSharesAnIndex` excuses `link-window`;
`ComesBackToTheNext` excuses a sleep; `GhostsGo` excuses a full socket. And
`arrangement` sets `Across` to FALSE: see below. The next section says what is behind
each of them.

## Where the code and its comments differ

One is a run whose counterexample is the shortest trace:

- `relink_uninvited`: `attach -x` told this client to hang up, `hold_one` answers that
  nothing is to be tried, and the watch finds in the same turn that the machine slept
  during the link. `hold` puts `slept_through` in the place of the answer
  (`client/relink.py:263`), and the client dials, which `client/ssh.py:461` calls
  coming back uninvited.

More are reached by the same modules. They are the exceptions above, or outside what
the properties ask, rather than runs of their own.

*Panes and the upgrade:*

- a suspended pane, then an upgrade that pauses and fails: the second pause names a
  fresh event while the pump waits on the first, the abort leaves a suspended pane as
  it is, and a later resume sets an event nobody waits on (`posix.py:266`, `274`);
- a page read and held over the checkpoint at the pause is on no screen and no longer
  in the kernel, so the exec loses it (`process.py:229`; `posix.py:553` says such a
  byte must not be read);
- a page held over the checkpoint is fed after a `suspend` that came meanwhile;
- between `waitpid` in the thread and the loop's next turn, a kill goes to a pid that
  is free (panes and jobs alike);
- the end of the file held at the pause closes the master while the upgrade answers
  its caller, so the snapshot names a master that `carried` no longer finds;
- a program adopted by one upgrade that closed its terminal and runs is written as
  ended by the next;
- a stranger that closed its terminal and ignores SIGHUP is never sent the SIGKILL,
  since the end of its output sets `ready_f`.

*Jobs:*

- the check of an upgrade loads the first snapshot; a viewed job may be forgotten
  before the second, and the load behind the exec raises (`upgrade.py:13`, `129`);
- a timeout of `tail-job` that fires in the turn in which the job ends answers that
  it still runs;
- a viewer that is held when the job ends leaves without the output it never read,
  and one that is resumed is woken by nobody until the next piece;
- a pump closes its pipe at the end of the stream while the backend still names the
  number, which an exec then carries for whatever file has it, or fails to carry;
- a job the sweep forgot while it obeys its SIGTERM is in no snapshot, and the exec
  leaves a child that nobody reaps; if the upgrade fails instead, its reading stays
  paused, because the resume goes through the table.

*Packets and links:*

- a `say_restarting` that is cut while it waits for room was compressed and never
  sent, and the connection lives on with a gap in its zstd stream
  (`pipes/posix.py:367`, `388`);
- `say_restarting`, awaited in another task, can be written in msgpack ahead of a
  `wire` packet whose own task did not run yet, though `wire.py:9` says nothing
  races. The comment at `mirror/link.py:184` knows of the same jump for a ping;
- `watch_liveness` awaits the write of its ping, so it never counts the silence of a
  client whose socket is full: that ghost stays (`server.py:556`), and a
  `say_restarting` to it parks the upgrade;
- `restart_wait` is cleared only by the end that uses it (`ssh.py:447`): after an
  upgrade that failed, or behind a link that broke, a later detach is taken for the
  restart and the client comes back. `ComesBackForAReason` therefore looks for a
  notice on any link up to this one;
- a sleep that is noticed in the turn of another end takes its place: a detach becomes
  a retry, and a restart loses its window, so that the first refusal of the server
  that restarts is final;
- the server's drop of a link that was slept through can be read as a clean end before
  the watch polls, and then the client leaves for good;
- a client that attaches between the notice of an upgrade and its exec hears nothing
  and leaves. (`kill-server -r` closes its listener first.)

*Sessions and windows:*

- `move-pane -s` of a pane of another session, or of an unlinked window, takes it out
  of the windows of the client's session, where it is not, and puts it in one of them:
  it is then in two windows, though `main.py:962` says that a pane belongs to one
  session. `Across = TRUE` in `Arrangement.cfg` shows it in a few steps; the run leaves
  it out so that everything else can be checked;
- `move-pane` and `swap-window` that name another session's window leave the client
  looking, in its own session, at a window of the other one; `next-window` then raises
  from `windows.index` (`arrangement.py:532`). So does a client that looked at a window
  of a session whose order was emptied and filled again;
- `link-window` onto an index that is taken gives two windows one index;
- a session ends when the last pane of its *order* goes (`has_panes`), with the live
  panes of its unlinked windows; and the pane of a program that ends in an unlinked
  window stays there;
- moving the last window leaves a session empty, which
  `tests/test_move_window_between_sessions.py:126` calls a state a server has always
  been in;
- `new-window` from a key binding looks up its session and its window before its task
  runs, and uses them after.

*Frames:*

- `stale` of a mirrored pane is cleared by the next frame that arrives, also by one
  that was on its way before the sight was lost.

## What is proved

The theorems are in the `_proofs` modules, for every value of the constants that
the modules' assumptions allow. Each follows the same argument: an inductive
invariant, one step per action, and PTL at the end.

**PtyProgram_proofs**

- `PagesAreAccountedFor` (with `UpgradeLosesAPageAtMost`). The invariant `OutputInv` is
  the types, `Books` (taken = fed + held + lost, a page is held only at the
  checkpoint, and what a snapshot counted has been fed) and `PauseBooks`: while an
  upgrade is paused nothing is read, so what the next image loses is what was held
  at the pause. Without `PauseBooks` an exec could lose any number of pages.
- `LastWords` rests on `EndOfFileInv`: once the end of the file was seen nobody holds
  the slave side and every page is read, and a closed master means that the pump is
  over, by the end of the file or by the cancelled scope. A closed master alone is
  not inductive: the pump sees the end one step before it closes. With `Books`, a
  pump that is over holds no page.
- `RedrawsCome` rests on `DebtInv`: an owed redraw has a payer.
- `PausesHold` (a paused pane reads nothing) and `KnownEndsAreLeftAlone` (no signal once
  the loop knows of the end) are action properties, proved step by step.
- `InputWaitsEnd` is inductive only with `NoneWaitsOnAClosedMaster`: the writer's step
  behind a closed master sets `_written`, which is right only if nothing is queued
  there.
- `TypesHold`: the input's, the output's, the end's and the upgrade's types.
- `InputArrivesWhole` by `WholeInv`: what the program read, what the pty holds and what
  waits in `_unwritten` is, read in that order, ascending (`InOrder`), and while the way
  to the program is open it is all that was given. The way (the master, a holder of
  the slave, this image) does not open again once it is shut (`WayStaysShut`), so input
  that was lost with it is never followed by later input. The types of the three
  sequences come from `InputInv`, those of the images from `OutputInv`.

**JobStream_proofs**: the chunks with their offsets implement the tail that `StreamTail`
promises, for any readers, streams and cap.

- `Sound` is the inductive invariant: the types, `TailInv` (the chunks of a stream lie
  one after the other from what fell off to the end, and hold no more than the cap) and
  `TakenInv` (what a reader was given ascends up to its offset, and none of it is from
  before it followed). `_trim` and `Job.read` are `Past` and `Cut`, and
  the lemmas about them say what is left of chunks that join: whole ones, and a part.
- `ChunksKeepThePromise` is the refinement `StreamsAreTails`, and `EachStreamIsATail` that
  of one stream. The code reads and drains both streams in one turn, so a step may move
  two tails at once; `Turn` names what an action does to the readers (one of them joins,
  takes all that is new, or none moves), and `StepMaps` makes of that, or of a landed
  piece, a step of each stream's tail or a stutter.
- `ReadersMissOnlyTheDropped`, `TheTailIsTheLast` and `ReadersSeeThePast` are what the
  promise gives (`Promise` is inductive under the refined steps), and are stated of the
  stream as `JobStream` has it. `EachByteOnce` says more than the abstract tail, which
  has a set of bytes where the code has a list.
- `NobodySleepsOverOutput` adds `SleepersMissNothing` itself: it is inductive with `Sound`,
  as a reader parks only after it drained, and whoever lands a piece or ends the job
  pokes all that are parked. `OutputComesBeforeTheEnd` is an action property of `Sound`.

**JobPipes_proofs**: `DoneMeansWhole`, `KillsAreDelivered` and `NoneIsLeft` by `PipesInv`.
Its parts are `Tasks` (what the supervise task says of the program), `Reaps` (a reap
that is over means a freed pid, or a cancelled task), `Streamed` (a pump that is done
has landed all that was written and nobody holds the write end) and `Snapped`: what the
snapshot of a paused upgrade says of the job still holds when the exec comes. Without
`Snapped` the next image could adopt a job that ended, and call it done with its
output unread.

**JobTable_proofs**: `WhatLeaves` names every step by which a job leaves the table, and
`WatchedJobsStay` and `ForgottenJobsWereEnded` follow from it. `IdsAreNew` needs
`IdInv`: `last_id` is above every job there was, also across the exec. `EveryFinishReaps`
counts: what a reap leaves over the cap lies at or behind its oldest member, of which
there are then more than the cap, so `_forget` stopped at one that is waited for, and
that one is the oldest.

**PipeWrites_proofs**: `TurnIsOnes` by `TurnInv`, whose core is `PassedOn` (a
release gives the turn to one of those who wait, or frees it when nobody does);
`SoundIsFirst`; and `DrainersAreWoken` by `DrainInv`, which counts pieces as
cardinalities (`WeightOfOneMore`, `WeightOfOneLess`), so the count is exact for any
finite set of writers however they are cut.

`WhatGoesOutIsRead` by `ReadInv`, in parts. `PacketInv` ties where a writer stands to what
of its packet is out; `FailInv` says that a write fails only on a connection that closes,
or is foreign and cut; `FormatInv` what is encoded and compressed how, by where the `wire`
packet stands; `FirstInv` that nothing is ahead of that packet unless a foreign one
jumped it; `WholeInv` and `ZipInv` that nothing is behind half a packet, on the wire and
in the compressor, but for a torn one; `AfterInv` that what is behind `wire` is in the
format it announced. `FarEndCanRead` alone is not inductive: of a packet that is half out
it does not say that its writer still has the turn.

**Arrangement_proofs**, each where no `move-pane` names what another session holds
(`~Across`; with it `OneHome` is false):

- `PanesHaveOneHome` and `FocusStays` by `HomeInv`: the types (`TypesHold`), `OneHome`,
  `Furnished` (every window of an order *or a pen* was made and has panes), `Peopled` (a
  pane in a window was made) and `Focused` (a window with panes has the focus on one of
  them). `FocusIsInPlace` speaks of shown windows only and is not inductive:
  `link-window` brings a window back from the pen with the focus it left with.
- `ClientsLookAtTheirOwn` by `LookInv`, which adds `Unmade` (a session that is not made
  yet shows nothing and nobody looks into it). Its core is `OneCloses`: since a pane has
  one home and no window is empty, the end of one pane, or of the panes of one window,
  closes one window at most, so the window a client turns to is not closing as well.
- `SessionsGoWithTheirPrograms` by `KilledOut`: a killed pane is in no window until its
  program ends, whatever commands move meanwhile. So when the program ends,
  `take_ended_pane` takes nothing out of the order, which is empty, and the session goes,
  or was filled by a command with another pane, and it stays.

and of **WindowOrder**, for any number of windows, any `base-index` and any indexes that a
command names, taken ones as well:

- `WindowsStandInOrder`, `IndexesStayApart` and `NeighboursStay` by `OrderInv`: the list
  holds no window twice, is `Ordered` by the indexes, and the indexes are numbers. What a
  command does is `Rearranges`, proved of each of the ten commands, and each theorem is a
  part of it. `Ordered` allows shared indexes, as `link-window` makes them.
- The commands rest on the functions behind them. `SortedHolds`: there is one stable sort
  of a list, the one that puts each window at its `Place` (how many come sooner), which
  fills every place because an injection of a finite set into itself is onto it; so the
  choice that `Sorted` makes is of that list. `RoomHolds`: the run of taken indexes that
  `make_room_at` moves up ends at a gap, so nobody closes up on anybody, and of two
  windows on one index the later one moves, so the order stands. `RenumberedHolds`:
  places of a sorted list are indexes in its order. `LowestFreeHolds`: there are fewer
  windows than numbers.
- `OrderTypesHold`: every index stays in `Indexes`.

**Frames_proofs**, of **FramePacing**: `FramesAreAskedForAgain` and `HoldsHaveWakes` by
`FramesInv`. That a skipped frame is asked for again is not inductive alone: it needs
`HoldsEnd`, that a hold which stands has a wake of its own (its key may have been held
again since), and `HeldWaits`, that a frame is marked held only while an answer is due
that will ask again. Each limit may be off, and there may be any holds.

Of **MirrorLink**, by `MirrorInv`:

- `FramesAreLaidWhereTheyFit` by `ChainInv`: the frames on their way follow one from
  another, from the page that is shown to the page that was sent last. The property
  speaks of single frames and is not inductive: a frame is built against what was sent
  last, which must be what will be shown by the time it lands.
- `WhatNobodySeesIsPaused` by `SaidInv` and `WayInv`: what the peer holds to say again is a
  mirror and, while nobody sees the pane, a pause; and the last word on its way to the
  owner, or the owner if none is, is what the peer wants now. A lost link empties the
  way, and a new one begins with all that is held, so both hold over any number of them.

**Relink_proofs**: `ClientsComeBackForAReason` by `RelinkInv`: `Noted` (what is written
down of the link, before the client decides, has a cause on that link), `OnItsWay` (a
`restarting` that is still to be read was said on this link, since what was on its way
on an earlier one is lost with it) and `Dials` (who waits or dials has a reason).

**What the proofs assume.** The assumptions on the constants, each named in its module
and evaluated in its runs. Most are types and a bound of at least one. Those that say
something of the code: a job keeps at least one byte of a stream; nobody is both a
command that follows a job and a pane that views it; a foreign writer is a task of
another connection, hence not spawned by this one; and of the tasks that `send_packet`
spawns, the `wire` packet's is the first, as `start_gui` sends it before anything else.
The theorems about `Arrangement` assume `~Across`, as its run does.

**Only model-checked.** Liveness, in every module: it needs fairness and ENABLED, which
the prover does not handle. These are `OutputIsFed`, `InputIsWritten`, `HungUpEnds`,
`NothingOutlivesTheScope`, `TheEndIsHeard`, `TheEndIsRecorded`, `EveryWaitEnds`,
`EveryWriteEnds`, `SeenCatchesUp`, `StaleIsAnswered`, `FramesAreDrawn`, `ComesBackToTheNext`
and `GhostsGo`. Every invariant and every action property of a passing run is a theorem.
Of the types, the Boolean part of `PtyProgram`'s `TypeOK` is left to TLC.

## What is not modelled

- Data: bytes, sizes, titles, environments, sequences, cells. Two pages differ by
  their number, two packets by their writer.
- Inside the modelled parts: listening, binding and taking over a socket; the read
  loop and its dispatch; the decompressor at the far end (`FarEndCanRead` says what it
  needs); a read of the kernel's room in the middle of a step; a server's stop that
  cancels every connection's scope at once; a job on a terminal, which shares
  `PosixBackend` with `PtyProgram`; the SQLite file of the snapshot; tags of jobs.
- Of sessions and windows: the split tree with its sizes (a window is a set of panes),
  zoom, `swap-pane` and `rotate-window`, `remain-on-exit`, windows of Wayland programs,
  clients that attach and detach. `move-window -k` is in `WindowOrder` only. The two
  modules are not composed: they share the commands and split what they change.
- Of a mirror: copy mode on the owner, sizes, windows of GUI programs, the peer's tree;
  packets of several panes that share one link.
- Of frames: the redraw cap and its rates, `frames_all_shown` and the two seconds that
  its answer may take, options that change while the client runs.
- Of the client: the local (not ssh) client's own wait loop, the use of `Relink` by a
  link between servers, the arithmetic of the backoff, the end of the keyboard. Pings
  that wait together are one.
- External to the sources, and modelled as they are used: the kernel's pty, pipes,
  sockets and pids; anyio's events, locks, cancel scopes and `to_thread` (a cancel
  waits for a shielded thread, and is delivered to a task at its first await);
  prompt_toolkit's `invalidate`; the terminal's answers.
- Every part that `PROJECT.json` lists as `not_modelled`, with its reason there. Most of
  the repository's lines are of that kind: a terminal's parser and screen, widgets,
  commands' arguments, codecs and file formats are sequential code over large data,
  in which a state machine of a few values says nothing that their own suites do not.

## How the project grew, and what is left

In this order: `PtyProgram` first, as every pane rests on it; `StreamTail` and
`JobStream`; `JobPipes`; `JobTable`; `PipeWrites`; then `MirrorLink`, `FramePacing`,
`Relink`, `Arrangement` and `WindowOrder`. The proofs came after the runs: types and single
invariants first, then the relations over whole sequences (input, the wire, the frames
on their way), the refinement, and the order of the windows.

Left, the most useful first:

1. `HotUpgrade`, the composition: panes, jobs and connections each by the few states
   the modules above distinguish, one upgrade over all of them and its aborts, with
   the modules' own upgrade steps shown to be its projections.
2. An abstract specification of a connection (a queue of whole packets, in order, with
   the one gap that a cut foreign packet leaves), and `PipeWrites` proved to implement it:
   `ReadInv` has the relations that mapping needs.
3. The leads-to properties, each as the safety lemmas of a ranking argument (a measure
   that every fair step lowers and no other raises), which needs no ENABLED; the last
   step from those lemmas to the leads-to stays with TLC.
4. The split tree of a window: insert, remove, rotate and resize as recursive functions
   against a reference over bounded trees.
