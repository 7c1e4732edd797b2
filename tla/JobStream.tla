------------------------------- MODULE JobStream -------------------------------
(***************************************************************************)
(* The output of one job and who follows it: `land` and `_trim` keep the    *)
(* tail of two streams as chunks, `poke` wakes the followers over queues of *)
(* one hint, and a follower drains by offset: `tail-job` (`JobTable.follow`)*)
(* and the pane that views a job (`JobFeed`).                               *)
(*                                                                          *)
(* One action is what a task does between two awaits.  A byte is its        *)
(* number in its stream, and offset n is the place past byte n.             *)
(***************************************************************************)
EXTENDS Naturals, SequencesExt

CONSTANTS
  Keep,         \* STREAM_KEEP
  MaxBytes,     \* bytes a stream is given, at most
  Sizes,        \* sizes of the pieces that land
  Followers,    \* who runs `tail-job`
  Viewers,      \* panes that view the job
  MaySuspend,   \* whether a viewer's follow may be held
  MayTimeOut    \* whether a follower gives a timeout

ASSUME StreamAssumption ==
  /\ Keep \in Nat \ {0} /\ MaxBytes \in Nat
  /\ Sizes \subseteq Nat \ {0}
  /\ Followers \cap Viewers = {}
  /\ MaySuspend \in BOOLEAN /\ MayTimeOut \in BOOLEAN

Streams == {"stdout", "stderr"}
Readers == Followers \cup Viewers

VARIABLES
  chunks,       \* per stream: pieces with the offset each starts at
  kept,         \* per stream: bytes in the chunks
  dropped,      \* per stream: bytes that fell off the front
  jobDone,      \* Job.is_done
  at,           \* per reader: where its task stands
  hint,         \* per reader: its queue holds a hint
  base,         \* per reader and stream: the offset it started at
  offset,       \* per reader and stream: the offset it read to
  got,          \* per reader and stream: the bytes it emitted
  said,         \* per reader: how it ended: "exit" is the job's own end
  late,         \* per follower: its timeout fired
  held,         \* per viewer: JobFeed.suspended
  alive         \* per viewer: JobFeed._alive

streamVars == <<chunks, kept, dropped>>
readVars == <<base, offset, got>>
flagVars == <<late, held, alive>>
vars == <<streamVars, jobDone, at, hint, readVars, said, flagVars>>

\* A reader is "away" before it follows, "parked" in `recv.receive()`, "woken"
\* by a hint, "cut" off there by its timeout, or "done".
Init ==
  /\ chunks = [s \in Streams |-> <<>>]
  /\ kept = [s \in Streams |-> 0] /\ dropped = [s \in Streams |-> 0]
  /\ jobDone = FALSE
  /\ at = [r \in Readers |-> "away"] /\ hint = [r \in Readers |-> FALSE]
  /\ base = [r \in Readers |-> [s \in Streams |-> 0]]
  /\ offset = base
  /\ got = [r \in Readers |-> [s \in Streams |-> <<>>]]
  /\ said = [r \in Readers |-> "nothing"]
  /\ late = [f \in Followers |-> FALSE]
  /\ held = [v \in Viewers |-> FALSE] /\ alive = [v \in Viewers |-> TRUE]

-----------------------------------------------------------------------------
(* The tail of a stream. *)

\* `Job.end`.
End(s) == kept[s] + dropped[s]

\* What chunks hold past an offset: those that end there or before it go, and
\* the next one loses its head.
EndOf(chunk) == chunk.start + chunk.len
Gone(cs, from) ==
  CHOOSE g \in 0..Len(cs) :
    /\ \A k \in 1..g : EndOf(cs[k]) <= from
    /\ g < Len(cs) => EndOf(cs[g + 1]) > from
Cut(chunk, from) ==
  LET start == IF from > chunk.start THEN from ELSE chunk.start
  IN  [start |-> start, len |-> EndOf(chunk) - start]
Past(cs, from) ==
  LET gone == Gone(cs, from) IN [k \in 1..(Len(cs) - gone) |-> Cut(cs[gone + k], from)]

\* `_trim`: what is left of the chunks when `overflow` bytes fall off the front.
Trimmed(cs, overflow) == Past(cs, Head(cs).start + overflow)

Overflow_Late(size) == IF size > Keep + 1 THEN size - Keep - 1 ELSE 0
Overflow(size) == IF size > Keep THEN size - Keep ELSE 0

\* `poke`: a parked reader is handed the hint, a running one finds it in its
\* queue, and a queue that holds one takes no other.
Poke_Unheard(readers) == UNCHANGED <<at, hint>>
Poke(readers) ==
  /\ at' = [r \in Readers |-> IF r \in readers /\ at[r] = "parked" THEN "woken" ELSE at[r]]
  /\ hint' = [r \in Readers |-> hint[r] \/ (r \in readers /\ at[r] \in {"woken", "cut"})]

\* `land`.
Land(s, n) ==
  /\ ~jobDone /\ End(s) + n <= MaxBytes
  /\ LET over == Overflow(kept[s] + n) IN
       /\ chunks' = [chunks EXCEPT ![s] = Trimmed(Append(@, [start |-> End(s), len |-> n]), over)]
       /\ kept' = [kept EXCEPT ![s] = @ + n - over]
       /\ dropped' = [dropped EXCEPT ![s] = @ + over]
  /\ Poke(Readers)
  /\ UNCHANGED <<jobDone, readVars, said, flagVars>>

\* `_finish`: the job is done, and then the followers hear of it.
Finish ==
  /\ ~jobDone
  /\ jobDone' = TRUE
  /\ Poke(Readers)
  /\ UNCHANGED <<streamVars, readVars, said, flagVars>>

\* `Job.read`: the bytes past an offset, joined, and the offset past them.
\* With no chunk at all the offset stays.
BytesOf(chunk) == [i \in 1..chunk.len |-> chunk.start + i]
Newer(s, from) ==
  LET past == Past(chunks[s], from) IN FlattenSeq([k \in 1..Len(past) |-> BytesOf(past[k])])
OffsetPast(s, from) == IF chunks[s] = <<>> THEN from ELSE End(s)

-----------------------------------------------------------------------------
(* What both readers do. *)

\* Everything new of both streams is emitted.
Emit(r) ==
  /\ got' = [got EXCEPT ![r] = [s \in Streams |-> @[s] \o Newer(s, offset[r][s])]]
  /\ offset' = [offset EXCEPT ![r] = [s \in Streams |-> OffsetPast(s, @[s])]]

\* `recv.receive()`: a hint in the queue is taken, and without one it parks.
Receive(r) ==
  /\ at' = [at EXCEPT ![r] = IF hint[r] THEN "woken" ELSE "parked"]
  /\ hint' = [hint EXCEPT ![r] = FALSE]

\* `finally`: the queue leaves the job's followers.
Leave(r, words) ==
  /\ at' = [at EXCEPT ![r] = "done"]
  /\ hint' = [hint EXCEPT ![r] = FALSE]
  /\ said' = [said EXCEPT ![r] = words]

-----------------------------------------------------------------------------
(* `tail-job`. *)

\* `follow` joins the followers, from the end of both streams, and its first
\* drain finds nothing new.
FollowStarts(f) ==
  /\ at[f] = "away"
  /\ base' = [base EXCEPT ![f] = [s \in Streams |-> End(s)]]
  /\ offset' = [offset EXCEPT ![f] = [s \in Streams |-> End(s)]]
  /\ IF jobDone THEN Leave(f, "exit") ELSE Receive(f) /\ UNCHANGED said
  /\ UNCHANGED <<streamVars, jobDone, got, flagVars>>

\* `_drain`, from a hint to the next: once nothing is new the end of the job
\* ends it, and a timeout that fired is heard at the next await.
FollowDrains_EndFirst(f) ==
  /\ at[f] = "woken"
  /\ \/ jobDone /\ Leave(f, "exit") /\ UNCHANGED <<got, offset>>
     \/ ~jobDone /\ Emit(f) /\ Receive(f) /\ UNCHANGED said
  /\ UNCHANGED <<streamVars, jobDone, base, flagVars>>
FollowDrains(f) ==
  /\ at[f] = "woken"
  /\ Emit(f)
  /\ \/ jobDone /\ Leave(f, IF late[f] THEN "still" ELSE "exit")
     \/ ~jobDone /\ late[f] /\ Leave(f, "still")
     \/ ~jobDone /\ ~late[f] /\ Receive(f) /\ UNCHANGED said
  /\ UNCHANGED <<streamVars, jobDone, base, flagVars>>

\* The deadline of `move_on_after` passes.  A reader that a hint has woken
\* runs first.
TimeOut(f) ==
  /\ MayTimeOut /\ at[f] \in {"parked", "woken"} /\ ~late[f]
  /\ late' = [late EXCEPT ![f] = TRUE]
  /\ at' = [at EXCEPT ![f] = IF @ = "parked" THEN "cut" ELSE @]
  /\ UNCHANGED <<streamVars, jobDone, hint, readVars, said, held, alive>>

FollowCut(f) ==
  /\ at[f] = "cut"
  /\ Leave(f, "still")
  /\ UNCHANGED <<streamVars, jobDone, readVars, flagVars>>

-----------------------------------------------------------------------------
(* A pane that views the job. *)

\* One turn of `_follow`: up to its next await, or its end.
ViewTurn(v) ==
  IF ~alive[v]
    THEN Leave(v, "nothing") /\ UNCHANGED <<got, offset>>
    ELSE /\ IF held[v] THEN UNCHANGED <<got, offset>> ELSE Emit(v)
         /\ IF jobDone THEN Leave(v, "exit") ELSE Receive(v) /\ UNCHANGED said

\* The first turn replays both tails from the start, held or not.
ViewStarts(v) ==
  /\ at[v] = "away"
  /\ Emit(v)
  /\ IF jobDone /\ alive[v] THEN Leave(v, "exit")
     ELSE IF ~alive[v] THEN Leave(v, "nothing") ELSE Receive(v) /\ UNCHANGED said
  /\ UNCHANGED <<streamVars, jobDone, base, flagVars>>

ViewFeeds(v) ==
  /\ at[v] = "woken"
  /\ ViewTurn(v)
  /\ UNCHANGED <<streamVars, jobDone, base, flagVars>>

\* `JobFeed.kill` pokes its own queue, once it has one.
ViewKilled(v) ==
  /\ alive[v] /\ at[v] # "done"
  /\ alive' = [alive EXCEPT ![v] = FALSE]
  /\ IF at[v] = "away" THEN UNCHANGED <<at, hint>> ELSE Poke({v})
  /\ UNCHANGED <<streamVars, jobDone, readVars, said, late, held>>

ViewSuspended(v) ==
  /\ MaySuspend /\ ~held[v] /\ at[v] # "done"
  /\ held' = [held EXCEPT ![v] = TRUE]
  /\ UNCHANGED <<streamVars, jobDone, at, hint, readVars, said, late, alive>>

\* `JobFeed.resume` wakes nothing.
ViewResumed(v) ==
  /\ held[v]
  /\ held' = [held EXCEPT ![v] = FALSE]
  /\ UNCHANGED <<streamVars, jobDone, at, hint, readVars, said, late, alive>>

-----------------------------------------------------------------------------
Follow(f) == FollowStarts(f) \/ FollowDrains(f) \/ TimeOut(f) \/ FollowCut(f)
View(v) == ViewStarts(v) \/ ViewFeeds(v) \/ ViewKilled(v) \/ ViewSuspended(v) \/ ViewResumed(v)

Next ==
  \/ \E s \in Streams, n \in Sizes : Land(s, n)
  \/ Finish
  \/ \E f \in Followers : Follow(f)
  \/ \E v \in Viewers : View(v)

Spec == Init /\ [][Next]_vars

\* The loop runs a task that can run.  The job, the timeouts and the people
\* owe nothing.
FairSpec ==
  /\ Spec
  /\ \A f \in Followers : WF_vars(FollowDrains(f)) /\ WF_vars(FollowCut(f))
  /\ \A v \in Viewers : WF_vars(ViewStarts(v)) /\ WF_vars(ViewFeeds(v))

-----------------------------------------------------------------------------
(* What holds. *)

\* A reader that sleeps missed no hint: the job runs, and a follower has all
\* there is.  (A viewer that was held may sleep over what came meanwhile.)
SleepersMissNothing ==
  \A r \in Readers :
    at[r] = "parked" =>
      /\ ~jobDone
      /\ IF r \in Viewers THEN alive[r] ELSE \A s \in Streams : offset[r][s] = End(s)

\* Who says how the job ended has shown all of its output first, but for a
\* viewer that is held when it hears of the end.
TheEndComesLast ==
  [][\A r \in Readers :
       said'[r] = "exit" /\ said[r] # "exit" =>
         \/ r \in Viewers /\ held[r]
         \/ \A s \in Streams : offset'[r][s] = End(s)]_vars

\* Each stream is the tail that its readers are promised.
Stream(s) == INSTANCE StreamTail WITH
  end <- End(s),
  dropped <- dropped[s],
  base <- [r \in Readers |-> base[r][s]],
  offset <- [r \in Readers |-> offset[r][s]],
  seen <- [r \in Readers |-> Range(got[r][s])]

TailStep(s) ==
  \/ \E n \in Sizes : Stream(s)!Land(n)
  \/ \E r \in Readers : Stream(s)!Join(r) \/ Stream(s)!Read(r)
  \/ UNCHANGED Stream(s)!vars

\* Chunks, offsets and hints implement the promised tail: every step of the
\* code lands a piece, joins a reader, gives one all that is new, or moves nothing.
StreamsAreTails ==
  /\ \A s \in Streams : Stream(s)!Init
  /\ [][\A s \in Streams : TailStep(s)]_vars

\* Everyone who follows a job hears of its end.
TheEndIsHeard ==
  \A r \in Readers : (jobDone /\ at[r] # "away") ~> (at[r] = "done")

================================================================================
