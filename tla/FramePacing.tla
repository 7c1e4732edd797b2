----------------------------- MODULE FramePacing -----------------------------
(***************************************************************************)
(* When a client's next frame is drawn.  An invalidate asks for one, and   *)
(* the renderer asks `should_skip_render` before it draws: a frame that    *)
(* input arrived after, one that a result is on its way for, and one the   *)
(* terminal is not ready for, are skipped.  A skipped frame loses nothing  *)
(* as long as something asks again.                                        *)
(*                                                                         *)
(* A terminal reads what it is sent and answers the status report behind   *)
(* each frame, and may fall silent.  Time is the order of its ends: a hold *)
(* passes its deadline before the wake that was started with it runs.      *)
(***************************************************************************)
EXTENDS Integers, Sequences, SequencesExt

CONSTANTS
  Keys,          \* what a frame can wait for: a lookup, a mirrored pane
  Released,      \* those whose result asks for a frame when it is in
  FramesInFlight, BytesInFlight,
  MaxChanges,    \* changes of what the client shows, at most
  MaxInputs,     \* packets of input, at most
  MaxHolds,      \* holds taken, at most
  MaxUnread      \* status reports on their way, at most

ASSUME FramePacingAssumption ==
  /\ Released \subseteq Keys
  /\ FramesInFlight \in Nat /\ BytesInFlight \in Nat
  /\ MaxChanges \in Nat /\ MaxInputs \in Nat /\ MaxHolds \in Nat /\ MaxUnread \in Nat \ {0}

VARIABLES
  dirty,       \* the terminal does not show what the client shows
  asked,       \* a redraw is on its way
  recorded,    \* since it was asked for, `refresh_what_time_moves` ran
  fresh,       \* `schedule_tick` is `input_tick`: no input since
  unread,      \* the sizes of the frames whose report is not answered
  answers,     \* the terminal answered a report once
  held,        \* `frame_held`: a frame was skipped for the terminal
  silent,      \* the terminal answers no more
  behind,      \* bytes pile up in this process
  holds,       \* per key: "none", "on", or "late" past its deadline
  in,          \* per key: the result is in
  hold,        \* per key: the number of the hold taken last
  wakes,       \* per key: the numbers of the holds whose wake has not run
  changes, inputs, taken

frame == <<dirty, asked, recorded, fresh>>
terminal == <<unread, answers, held, silent>>
barrier == <<holds, in, hold, wakes, taken>>
vars == <<frame, terminal, behind, barrier, changes, inputs>>

TypeOK ==
  /\ dirty \in BOOLEAN /\ asked \in BOOLEAN /\ recorded \in BOOLEAN /\ fresh \in BOOLEAN
  /\ unread \in Seq(Nat) /\ answers \in BOOLEAN /\ held \in BOOLEAN /\ silent \in BOOLEAN
  /\ behind \in BOOLEAN
  /\ holds \in [Keys -> {"none", "on", "late"}]
  /\ in \in [Keys -> BOOLEAN]
  /\ hold \in [Keys -> 0..MaxHolds]
  /\ wakes \in [Keys -> SUBSET (1..MaxHolds)]
  /\ changes \in 0..MaxChanges /\ inputs \in 0..MaxInputs /\ taken \in 0..MaxHolds

Init ==
  /\ dirty = TRUE /\ asked = TRUE /\ recorded = FALSE /\ fresh = TRUE
  /\ unread = << >> /\ answers = FALSE /\ held = FALSE /\ silent = FALSE
  /\ behind = FALSE
  /\ holds = [k \in Keys |-> "none"] /\ in = [k \in Keys |-> FALSE]
  /\ hold = [k \in Keys |-> 0] /\ wakes = [k \in Keys |-> {}]
  /\ changes = 0 /\ inputs = 0 /\ taken = 0

-----------------------------------------------------------------------------

Total(sizes) == FoldLeft(LAMBDA sum, size : sum + size, 0, sizes)

\* `waits_for_terminal`.  An option that is 0 allows any number.
Waits(sizes) ==
  /\ sizes # << >>
  /\ \/ FramesInFlight > 0 /\ Len(sizes) >= FramesInFlight
     \/ BytesInFlight > 0 /\ Total(sizes) >= BytesInFlight

\* `Application.invalidate`: one redraw at a time, and the tick is recorded
\* when its event runs.
Invalidate == asked' = TRUE /\ recorded' = (asked /\ recorded)

\* What the client shows changes, and asks for a frame.
Change ==
  /\ changes < MaxChanges
  /\ changes' = changes + 1
  /\ dirty' = TRUE
  /\ Invalidate
  /\ UNCHANGED <<fresh, terminal, behind, barrier, inputs>>

\* `ClientRole._on_input`.
Input ==
  /\ inputs < MaxInputs
  /\ inputs' = inputs + 1
  /\ fresh' = FALSE
  /\ UNCHANGED <<dirty, asked, recorded, terminal, behind, barrier, changes>>

\* `client_asked_for_frame`, which a redraw that is asked for runs before it.
Record ==
  /\ asked /\ ~recorded
  /\ recorded' = TRUE /\ fresh' = TRUE
  /\ UNCHANGED <<dirty, asked, terminal, behind, barrier, changes, inputs>>

Hold_WakesOnce(k) ==
  /\ taken < MaxHolds
  /\ taken' = taken + 1
  /\ holds' = [holds EXCEPT ![k] = "on"]
  /\ in' = [in EXCEPT ![k] = FALSE]
  /\ hold' = [hold EXCEPT ![k] = taken']
  /\ wakes' = [wakes EXCEPT ![k] = IF holds[k] = "none" THEN @ \cup {taken'} ELSE @]
  /\ UNCHANGED <<frame, terminal, behind, changes, inputs>>

\* `FrameHolds.hold`: a key that is held again starts again, with a wake of
\* its own.
Hold(k) ==
  /\ taken < MaxHolds
  /\ taken' = taken + 1
  /\ holds' = [holds EXCEPT ![k] = "on"]
  /\ in' = [in EXCEPT ![k] = FALSE]
  /\ hold' = [hold EXCEPT ![k] = taken']
  /\ wakes' = [wakes EXCEPT ![k] = @ \cup {taken'}]
  /\ UNCHANGED <<frame, terminal, behind, changes, inputs>>

\* A result is in: `release` drops its hold and wakes, and of a mirrored pane
\* `stale` is cleared, which asks for nothing.
Result(k) ==
  /\ holds[k] # "none" /\ ~in[k]
  /\ in' = [in EXCEPT ![k] = TRUE]
  /\ IF k \in Released
     THEN /\ holds' = [holds EXCEPT ![k] = "none"]
          /\ Invalidate
     ELSE UNCHANGED <<holds, asked, recorded>>
  /\ UNCHANGED <<dirty, fresh, terminal, behind, hold, wakes, taken, changes, inputs>>

\* The deadline of a hold passes.
Expire(k) ==
  /\ holds[k] = "on"
  /\ holds' = [holds EXCEPT ![k] = "late"]
  /\ UNCHANGED <<frame, terminal, behind, in, hold, wakes, taken, changes, inputs>>

\* `_wake_after`: a wake runs after the deadline of the hold it was started
\* with, which may be held again since.
Wake(k) ==
  /\ \E n \in wakes[k] :
       /\ n = hold[k] => holds[k] # "on"
       /\ wakes' = [wakes EXCEPT ![k] = @ \ {n}]
  /\ Invalidate
  /\ UNCHANGED <<dirty, fresh, terminal, behind, holds, in, hold, taken, changes, inputs>>

\* `FrameHolds.waiting`: the holds that are left.
Standing(k) == holds[k] = "on" /\ ~in[k]

\* `should_skip_render`: input arrived after the redraw was asked for.
SkipForInput ==
  /\ asked /\ recorded /\ ~fresh
  /\ recorded' = FALSE
  /\ UNCHANGED <<dirty, asked, fresh, terminal, behind, barrier, changes, inputs>>

\* A result is on its way.  The holds that are over go.
SkipForHold ==
  /\ asked /\ recorded /\ fresh /\ \E k \in Keys : Standing(k)
  /\ holds' = [k \in Keys |-> IF Standing(k) THEN "on" ELSE "none"]
  /\ asked' = FALSE /\ recorded' = FALSE
  /\ UNCHANGED <<dirty, fresh, terminal, behind, in, hold, wakes, taken, changes, inputs>>

Ready == asked /\ recorded /\ fresh /\ \A k \in Keys : ~Standing(k)
Lets == holds' = [k \in Keys |-> "none"]

\* The terminal has not read what it was sent: its answer asks again.
SkipForTerminal ==
  /\ Ready /\ answers /\ Waits(unread)
  /\ Lets
  /\ held' = TRUE
  /\ asked' = FALSE /\ recorded' = FALSE
  /\ UNCHANGED <<dirty, fresh, unread, answers, silent, behind, in, hold, wakes, taken, changes, inputs>>

\* The pipe holds bytes still: asked again, at a slower pace.
SkipForPipe ==
  /\ Ready /\ ~(answers /\ Waits(unread)) /\ behind
  /\ Lets
  /\ recorded' = FALSE
  /\ UNCHANGED <<dirty, asked, fresh, terminal, behind, in, hold, wakes, taken, changes, inputs>>

\* The frame goes out, and what it shows beside its cells in a flush of its
\* own: behind each that writes anything goes a report.
\* The socket may not take it all.
Draw ==
  /\ Ready /\ ~(answers /\ Waits(unread)) /\ ~behind
  /\ Lets
  /\ dirty' = FALSE
  /\ asked' = FALSE /\ recorded' = FALSE
  /\ \E sizes \in {<< >>, <<1>>, <<2>>, <<1, 1>>} :
       Len(unread \o sizes) <= MaxUnread /\ unread' = unread \o sizes
  /\ behind' \in BOOLEAN
  /\ UNCHANGED <<fresh, answers, held, silent, in, hold, wakes, taken, changes, inputs>>

StatusAnswered_AsksForNothing ==
  /\ ~silent /\ unread # << >>
  /\ unread' = Tail(unread) /\ answers' = TRUE
  /\ held' = (held /\ Waits(unread'))
  /\ UNCHANGED <<frame, silent, behind, barrier, changes, inputs>>

\* `status_answered`: the terminal read the oldest frame, and one that was
\* held for it is asked for once the next need not wait.
StatusAnswered ==
  /\ ~silent /\ unread # << >>
  /\ unread' = Tail(unread) /\ answers' = TRUE
  /\ IF held /\ ~Waits(unread')
     THEN held' = FALSE /\ Invalidate
     ELSE UNCHANGED <<held, asked, recorded>>
  /\ UNCHANGED <<dirty, fresh, silent, behind, barrier, changes, inputs>>

\* The terminal stops answering.
FallSilent ==
  /\ ~silent
  /\ silent' = TRUE
  /\ UNCHANGED <<frame, unread, answers, held, behind, barrier, changes, inputs>>

\* The socket takes what was left.
Drain == behind /\ behind' = FALSE /\ UNCHANGED <<frame, terminal, barrier, changes, inputs>>

Next ==
  \/ Change \/ Input \/ Record
  \/ \E k \in Keys : Hold(k) \/ Result(k) \/ Expire(k) \/ Wake(k)
  \/ SkipForInput \/ SkipForHold \/ SkipForTerminal \/ SkipForPipe \/ Draw
  \/ StatusAnswered \/ FallSilent \/ Drain

Render == SkipForInput \/ SkipForHold \/ SkipForTerminal \/ SkipForPipe \/ Draw

\* The loop runs what is scheduled, deadlines pass, the socket drains, and a
\* terminal that is not silent answers.
Fairness ==
  /\ WF_vars(Record) /\ WF_vars(Render)
  /\ \A k \in Keys : WF_vars(Expire(k)) /\ WF_vars(Wake(k))
  /\ WF_vars(StatusAnswered) /\ WF_vars(Drain)

Spec == Init /\ [][Next]_vars /\ Fairness

-----------------------------------------------------------------------------

\* A frame that was skipped is not forgotten: while the terminal does not
\* show what the client shows, a redraw is asked for, or an answer or a wake
\* that will ask for one is outstanding.
NoFrameIsForgotten ==
  dirty => \/ asked
           \/ held /\ unread # << >>
           \/ \E k \in Keys : wakes[k] # {}

\* A result that never comes costs one wait: a hold that stands, taken again
\* or not, has a wake of its own that runs after its deadline.
HoldsEnd == \A k \in Keys : holds[k] = "on" => hold[k] \in wakes[k]

\* What a client shows reaches a terminal that reads, whatever frames were
\* skipped on the way.
FramesAreDrawn == dirty ~> (~dirty \/ silent)

=============================================================================
