------------------------------ MODULE PipeWrites ------------------------------
(***************************************************************************)
(* How packets leave the server on one client's socket: the tasks that      *)
(* write, `Turns` that lets one of them write at a time, sound first, the    *)
(* compressor behind it, and the kernel's room.                              *)
(*                                                                          *)
(* Each writer writes one packet, of one piece or of two.  One action is    *)
(* what a task does between two awaits.  Most writers are tasks of the       *)
(* connection, and end with it; a foreign writer is a task of another        *)
(* client's, `upgrade-server`, that says `restarting` here and can be cut    *)
(* by its own client going.                                                 *)
(***************************************************************************)
EXTENDS Integers, Sequences, FiniteSets

CONSTANTS
  Writers,    \* numbered: the spawned ones in the order they are spawned
  Spawned,    \* those `send_packet` starts as a task of their own
  Urgent,     \* those that write sound
  Foreign,    \* those that are tasks of another client's connection
  Long,       \* those whose packet is two pieces
  Big,        \* those whose packet is compressed in a thread
  Wire,       \* the writer of the `wire` packet
  Zip,        \* whether that packet turns the stream to zstd
  Room,       \* pieces the kernel holds
  TooSlow,    \* pieces that may wait before the client is left behind
  Drainers    \* tasks that wait until all is written

ASSUME PipeAssumption ==
  /\ Writers \subseteq Nat /\ IsFiniteSet(Writers)
  /\ Spawned \subseteq Writers /\ Urgent \subseteq Writers /\ Foreign \subseteq Writers
  /\ Foreign \intersect Spawned = {}
  /\ Wire \in Spawned /\ Zip \in BOOLEAN
  /\ \A w \in Spawned : Wire <= w    \* `start_gui` sends it before anything else
  /\ Room \in Nat /\ TooSlow \in Nat

VARIABLES
  \* the writers
  at,           \* where each stands
  came,         \* the place in the queue of each that waits
  tickets,      \* places given
  cut,          \* whose scope was cancelled
  enc,          \* how each packet was encoded
  left,         \* pieces of each packet the kernel did not take yet
  \* the connection
  encode,       \* ServerConnection.encode
  held,         \* Turns._held
  outstanding,  \* _outstanding
  zstd,         \* there is a _compressor
  squeezed,     \* the packets the compressor took, in order
  closed,       \* _closed
  sleeping,     \* who waits on the event `_empty` names
  awake,        \* who was woken by it and did not look yet
  \* the kernel and the far end
  room,         \* pieces there is room for
  out,          \* whose pieces went out, in order
  gone          \* the far end closed

vars == <<at, came, tickets, cut, enc, left, encode, held, outstanding, zstd,
          squeezed, closed, sleeping, awake, room, out, gone>>

stream == <<left, squeezed, room, out, zstd>>
queue  == <<came, tickets>>

Over    == {"sent", "cut", "refused"}
Holding == {"handed", "offered", "thread", "parked"}
Places  == {"unsent", "started", "waiting"} \union Holding \union Over

Size(w) == IF w \in Long THEN 2 ELSE 1

Init ==
  /\ at = [w \in Writers |-> "unsent"]
  /\ came = [w \in Writers |-> 0] /\ tickets = 0
  /\ cut = {}
  /\ enc = [w \in Writers |-> "json"] /\ encode = "json"
  /\ left = [w \in Writers |-> Size(w)]
  /\ held = FALSE /\ outstanding = 0
  /\ zstd = FALSE /\ squeezed = <<>>
  /\ closed = FALSE /\ sleeping = {} /\ awake = {}
  /\ room = Room /\ out = <<>> /\ gone = FALSE

-----------------------------------------------------------------------------
(* The turn, and the count of what waits.                                   *)

Waiting == {w \in Writers : at[w] = "waiting"}

\* The queue a turn is passed on to: the urgent one unless it is empty.
NextQueue == IF Waiting \intersect Urgent # {} THEN Waiting \intersect Urgent ELSE Waiting

FirstOf(Q) == {v \in Q : \A u \in Q : came[v] <= came[u]}

\* Turns._release: handed over, still held, or let go.  Who had it stands at `how`.
Release_Free(w, how) == held' = FALSE /\ at' = [at EXCEPT ![w] = how]
Release(w, how) ==
  \/ Waiting = {} /\ held' = FALSE /\ at' = [at EXCEPT ![w] = how]
  \/ \E v \in FirstOf(NextQueue) : held' = TRUE /\ at' = [at EXCEPT ![w] = how, ![v] = "handed"]

\* `_empty.set()`, once nothing waits or the connection is closed.
Wake(really) ==
  /\ sleeping' = IF really THEN {} ELSE sleeping
  /\ awake' = IF really THEN awake \union sleeping ELSE awake

\* `write` is over, its packet among the `o` pieces that wait: its `finally`,
\* and for a broken pipe the `detach_and_close` of who called it.
Left_Silent(w, o, broken) ==
  /\ outstanding' = o - Size(w)
  /\ closed' = (closed \/ broken)
  /\ UNCHANGED <<sleeping, awake>>
Left(w, o, broken) ==
  /\ outstanding' = o - Size(w)
  /\ closed' = (closed \/ broken)
  /\ Wake(o = Size(w) \/ broken)

-----------------------------------------------------------------------------
(* A write with the turn.  `o` is what waits, this packet with it.          *)

\* _send_all as far as the room goes.  A closed side or a far end that went
\* is a broken pipe.
Send_LetsGo(w, o) ==
  /\ ~closed /\ ~gone /\ room < left[w]
  /\ room' = 0 /\ left' = [left EXCEPT ![w] = @ - room]
  /\ out' = out \o [i \in 1..room |-> w]
  /\ Release(w, "parked") /\ outstanding' = o
  /\ UNCHANGED <<zstd, closed, sleeping, awake>>
SendBreaks(w, o) ==
  /\ closed \/ gone
  /\ Release(w, "refused") /\ Left(w, o, TRUE)
  /\ UNCHANGED <<left, room, out, zstd>>
SendEnds(w, o) ==
  /\ ~closed /\ ~gone /\ room >= left[w]
  /\ room' = room - left[w] /\ left' = [left EXCEPT ![w] = 0]
  /\ out' = out \o [i \in 1..left[w] |-> w]
  /\ zstd' = (zstd \/ (Zip /\ w = Wire))
  /\ Release(w, "sent") /\ Left(w, o, FALSE)
SendParks(w, o) ==
  /\ ~closed /\ ~gone /\ room < left[w]
  /\ room' = 0 /\ left' = [left EXCEPT ![w] = @ - room]
  /\ out' = out \o [i \in 1..room |-> w]
  /\ held' = TRUE /\ at' = [at EXCEPT ![w] = "parked"] /\ outstanding' = o
  /\ UNCHANGED <<zstd, closed, sleeping, awake>>
Send(w, o) == SendBreaks(w, o) \/ SendEnds(w, o) \/ SendParks(w, o)

\* _compressed: in the thread for a big packet, at once for any other.
Compress(w, o) ==
  \/ /\ zstd /\ w \in Big
     /\ held' = TRUE /\ at' = [at EXCEPT ![w] = "offered"] /\ outstanding' = o
     /\ UNCHANGED <<stream, closed, sleeping, awake>>
  \/ /\ ~(zstd /\ w \in Big)
     /\ squeezed' = IF zstd THEN Append(squeezed, w) ELSE squeezed
     /\ Send(w, o)

\* PosixSocketConnection.write as far as its first await.
Write(w) ==
  \/ /\ closed \/ outstanding > TooSlow
     /\ at' = [at EXCEPT ![w] = "refused"] /\ closed' = TRUE /\ Wake(TRUE)
     /\ UNCHANGED <<queue, stream, held, outstanding>>
  \/ /\ ~closed /\ outstanding <= TooSlow /\ ~held
     /\ Compress(w, outstanding + Size(w))
     /\ UNCHANGED queue
  \/ /\ ~closed /\ outstanding <= TooSlow /\ held
     /\ at' = [at EXCEPT ![w] = "waiting"] /\ outstanding' = outstanding + Size(w)
     /\ came' = [came EXCEPT ![w] = tickets] /\ tickets' = tickets + 1
     /\ UNCHANGED <<stream, held, closed, sleeping, awake>>

-----------------------------------------------------------------------------
(* The tasks.                                                               *)

\* send_packet: encoded now, written by a task that starts later.  The `wire`
\* packet is the last in JSON.
Spawn(w) ==
  /\ w \in Spawned /\ at[w] = "unsent" /\ ~closed
  /\ \A v \in Spawned : v < w => at[v] # "unsent"
  /\ at' = [at EXCEPT ![w] = "started"]
  /\ enc' = [enc EXCEPT ![w] = encode]
  /\ encode' = IF w = Wire THEN "msgpack" ELSE encode
  /\ UNCHANGED <<queue, stream, cut, held, outstanding, closed, sleeping, awake, gone>>

\* Tasks start in the order they were spawned.
Start(w) ==
  /\ at[w] = "started" /\ \A v \in Writers : v < w => at[v] # "started"
  /\ Write(w)
  /\ UNCHANGED <<cut, enc, encode, gone>>

\* write_packet and _write_urgent, awaited by the task that has the packet.
\* The connection's own such tasks are spawned behind the `wire` packet.
Direct(w) ==
  /\ w \notin Spawned /\ at[w] = "unsent" /\ ~closed
  /\ at[Wire] \notin (IF w \in Foreign THEN {"unsent"} ELSE {"unsent", "started"})
  /\ enc' = [enc EXCEPT ![w] = encode]
  /\ Write(w)
  /\ UNCHANGED <<cut, encode, gone>>

\* The writer whose turn came runs.
TurnComes(w) ==
  /\ at[w] = "handed"
  /\ Compress(w, outstanding)
  /\ UNCHANGED <<queue, cut, enc, encode, gone>>

\* to_thread.run_sync: a checkpoint, then the thread, which is not cut short.
ThreadStarts(w) ==
  /\ at[w] = "offered"
  /\ at' = [at EXCEPT ![w] = "thread"]
  /\ UNCHANGED <<queue, stream, cut, enc, encode, held, outstanding, closed, sleeping, awake, gone>>
ThreadEnds(w) ==
  /\ at[w] = "thread"
  /\ squeezed' = Append(squeezed, w)
  /\ Send(w, outstanding)
  /\ UNCHANGED <<queue, cut, enc, encode, gone>>

\* wait_writable returns, or raises as the connection closed.
Writable(w) ==
  /\ at[w] = "parked" /\ (room > 0 \/ closed \/ gone)
  /\ Send(w, outstanding)
  /\ UNCHANGED <<queue, squeezed, cut, enc, encode, gone>>

\* The cancellation of its scope reaches a writer in its await.  One that waits
\* leaves the queue; one whose turn came passes it on.
CutWaiting(w) ==
  /\ w \in cut /\ at[w] = "waiting"
  /\ at' = [at EXCEPT ![w] = "cut"]
  /\ Left(w, outstanding, FALSE)
  /\ UNCHANGED <<queue, stream, held, cut, enc, encode, gone>>
CutInTurn_Kept(w) ==
  /\ w \in cut /\ at[w] \in {"handed", "offered", "parked"}
  /\ at' = [at EXCEPT ![w] = "cut"] /\ held' = held
  /\ Left(w, outstanding, FALSE)
  /\ UNCHANGED <<queue, stream, cut, enc, encode, gone>>
CutInTurn(w) ==
  /\ w \in cut /\ at[w] \in {"handed", "offered", "parked"}
  /\ Release(w, "cut") /\ Left(w, outstanding, FALSE)
  /\ UNCHANGED <<queue, stream, cut, enc, encode, gone>>

\* drained: waits on the event while something waits, and looks again once woken.
Drain(d) ==
  /\ d \notin sleeping
  /\ sleeping' = IF outstanding # 0 /\ ~closed THEN sleeping \union {d} ELSE sleeping
  /\ awake' = awake \ {d}
  /\ sleeping' # sleeping \/ awake' # awake
  /\ UNCHANGED <<at, queue, stream, cut, enc, encode, held, outstanding, closed, gone>>

-----------------------------------------------------------------------------
(* What happens to them.                                                    *)

\* close_connection: detached, kicked, silent for too long, or its far end gone.
Close ==
  /\ ~closed /\ closed' = TRUE /\ Wake(TRUE)
  /\ UNCHANGED <<at, queue, stream, cut, enc, encode, held, outstanding, gone>>

\* serve: the read loop ended, and what the connection still runs goes with it.
ScopeEnds ==
  /\ closed /\ ~(Writers \ Foreign \subseteq cut)
  /\ cut' = cut \union (Writers \ Foreign)
  /\ UNCHANGED <<at, queue, stream, enc, encode, held, outstanding, closed, sleeping, awake, gone>>

\* The client that asked for the upgrade goes.
CallerGoes(w) ==
  /\ w \in Foreign \ cut /\ at[w] \notin Over \union {"unsent"}
  /\ cut' = cut \union {w}
  /\ UNCHANGED <<at, queue, stream, enc, encode, held, outstanding, closed, sleeping, awake, gone>>

Reads ==
  /\ ~gone /\ room < Room
  /\ room' = Room
  /\ UNCHANGED <<at, queue, left, squeezed, out, zstd, cut, enc, encode, held, outstanding,
                 closed, sleeping, awake, gone>>

Goes ==
  /\ ~gone /\ gone' = TRUE
  /\ UNCHANGED <<at, queue, stream, cut, enc, encode, held, outstanding, closed, sleeping, awake>>

-----------------------------------------------------------------------------
TaskStep(w) ==
  \/ Start(w) \/ TurnComes(w) \/ ThreadStarts(w) \/ ThreadEnds(w) \/ Writable(w)
  \/ CutWaiting(w) \/ CutInTurn(w)

Next ==
  \/ \E w \in Writers : Spawn(w) \/ Direct(w) \/ TaskStep(w) \/ CallerGoes(w)
  \/ \E d \in Drainers : Drain(d)
  \/ Close \/ ScopeEnds \/ Reads \/ Goes

Spec == Init /\ [][Next]_vars

\* The loop runs every task that can run, and the far end reads on until it goes.
Fairness ==
  /\ \A w \in Writers : WF_vars(TaskStep(w))
  /\ \A d \in Drainers : WF_vars(d \in awake /\ Drain(d))
  /\ WF_vars(ScopeEnds) /\ WF_vars(Reads)

FairSpec == Spec /\ Fairness

-----------------------------------------------------------------------------
(* Properties.                                                              *)

\* No two writers have the turn at once, a turn that is held is somebody's, and
\* nobody waits for a turn that is free: none is lost when the writer it was
\* handed to is cut.
OneTurn ==
  /\ \A v, w \in Writers : at[v] \in Holding /\ at[w] \in Holding => v = w
  /\ held <=> \E w \in Writers : at[w] \in Holding
  /\ Waiting # {} => held

\* Packet w, its last piece with it, went out before the piece at i.
WentBefore(w, i) == left[w] = 0 /\ \E k \in 1..(i - 1) : out[k] = w /\ \A j \in i..Len(out) : out[j] # w
WentOut(w) == \E i \in DOMAIN out : out[i] = w

\* Foreign packets that were cut short after the stream had part of them.
Torn == {w \in Foreign : at[w] = "cut" /\ (WentOut(w) \/ \E i \in DOMAIN squeezed : squeezed[i] = w)}
\* A foreign packet jumped the `wire` packet.
Jumped == \E i \in DOMAIN out : out[i] \in Foreign /\ ~WentBefore(Wire, i)

\* The far end can read what it is sent: the pieces of a packet go out together,
\* nothing follows a packet cut short, the zstd stream goes out in the order it
\* was compressed and without a gap, and each packet is in the format the far
\* end reads at that point.  Foreign packets are the exception, in two ways: one
\* that is cut leaves its piece behind, and one can jump the `wire` packet.
FarEndCanRead ==
  /\ \A i, j \in DOMAIN out : i < j /\ out[i] # out[j] =>
       out[i] \in Torn \/ WentBefore(out[i], j)
  /\ \A i, j \in DOMAIN squeezed : i < j /\ WentOut(squeezed[j]) =>
       squeezed[i] \in Torn \/ left[squeezed[i]] = 0
  /\ Jumped \/ \A i \in DOMAIN out :
       /\ (enc[out[i]] = "msgpack") = WentBefore(Wire, i)
       /\ (\E k \in DOMAIN squeezed : squeezed[k] = out[i]) = (Zip /\ WentBefore(Wire, i))

\* Sound waits for the packet going out and for no other: while an urgent writer
\* waits, no other writer gets the turn or puts a piece on the wire without it,
\* whether it waited, was just started or is written from where it is made.
YieldsToSound(w) ==
  at[w] \notin Holding /\ (at'[w] \in Holding \/ left'[w] # left[w]) => Waiting \intersect Urgent = {}
SoundGoesFirst == [][\A w \in Writers \ Urgent : YieldsToSound(w)]_vars

\* What is counted as waiting is what waits, to the piece, whoever was cut or
\* refused meanwhile; so nobody sleeps until the socket is empty once it is, or
\* once it is closed.
Pending == {w \in Writers : at[w] \in Holding \union {"waiting"}}
NoDrainerOversleeps ==
  /\ outstanding = Cardinality(Pending) + Cardinality(Pending \intersect Long)
  /\ sleeping # {} => outstanding # 0 /\ ~closed

\* Every packet is written, cut with its task or refused, whoever is cut.
EveryWriteEnds ==
  \A w \in Writers : at[w] \in {"started", "waiting"} ~> at[w] \in Over

=============================================================================
