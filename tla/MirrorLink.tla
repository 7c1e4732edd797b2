------------------------------ MODULE MirrorLink ------------------------------
(***************************************************************************)
(* A pane lent to another server.  The owner follows the pane's page and   *)
(* sends frames, each the difference to the page it sent before; the peer  *)
(* lays them on a pane of its own, asks for them while a client there sees *)
(* the pane, pauses them while none does, and says all it holds again on a *)
(* new link after one went.                                                *)
(*                                                                         *)
(* A page is its version, and a frame the two versions it leads between,   *)
(* from None when it holds the whole page.                                 *)
(***************************************************************************)
EXTENDS Integers, SequencesExt

CONSTANTS
  MaxPages,    \* the pages the owner's program shows, at most
  MaxLooks,    \* how often the pane comes into sight, at most
  MaxLosses,   \* links lost, at most
  MaxFailures, \* frames the owner cannot build, at most
  Room         \* packets on their way to the peer while the owner's writer goes on

ASSUME MirrorLinkAssumption ==
  /\ MaxPages \in Nat \ {0} /\ MaxLooks \in Nat /\ MaxLosses \in Nat /\ MaxFailures \in Nat
  /\ Room \in Nat \ {0}

None == 0
Pages == 1..MaxPages

VARIABLES
  page,        \* the owner's page
  source,      \* the owner's MirrorSource, and the page its writer sent last
  queue,       \* the owner's link: "mark" for each frame of the source that waits
  up, down,    \* the packets on their way to the owner and to the peer
  connected,   \* the peer holds a link
  told,        \* what the peer told and holds, in order
  program,     \* the peer's RemoteProgram
  shown,       \* the page the peer shows
  refused,     \* the owner said it sends no more
  looks, losses, failures

owner == <<page, source, queue, failures>>
peer == <<told, program, shown, refused, looks>>
link == <<up, down, connected, losses>>
mirrorVars == <<owner, peer, link>>

Frame(from, to) == [cmd |-> "frame", from |-> from, to |-> to]
Refusal == [cmd |-> "refused", from |-> None, to |-> None]

NoSource == [on |-> FALSE, paused |-> FALSE, queued |-> FALSE, owed |-> FALSE, sent |-> None]
NewSource == [NoSource EXCEPT !.on = TRUE]

MirrorTypeOK ==
  /\ page \in Pages
  /\ source \in [on : BOOLEAN, paused : BOOLEAN, queued : BOOLEAN, owed : BOOLEAN, sent : Pages \cup {None}]
  /\ queue \in Seq({"mark"}) /\ (source.queued => queue # << >>)
  /\ up \in Seq({"mirror", "pause", "resume", "stop"})
  /\ down \in Seq([cmd : {"frame", "refused"}, from : Pages \cup {None}, to : Pages \cup {None}])
  /\ connected \in BOOLEAN
  /\ told \in Seq({"mirror", "pause"})
  /\ program \in [seen : BOOLEAN, asked : BOOLEAN, streaming : BOOLEAN, stale : BOOLEAN, stopped : BOOLEAN]
  /\ shown \in Pages \cup {None}
  /\ refused \in BOOLEAN
  /\ looks \in 0..MaxLooks /\ losses \in 0..MaxLosses /\ failures \in 0..MaxFailures

MirrorInit ==
  /\ page = 1 /\ source = NoSource /\ queue = << >>
  /\ up = << >> /\ down = << >> /\ connected = TRUE
  /\ told = << >>
  /\ program = [seen |-> FALSE, asked |-> FALSE, streaming |-> FALSE, stale |-> FALSE, stopped |-> FALSE]
  /\ shown = None /\ refused = FALSE
  /\ looks = 0 /\ losses = 0 /\ failures = 0

-----------------------------------------------------------------------------
(* The peer *)

\* `Peer.send`: without a link a packet goes nowhere.
Send(packets) == up' = IF connected THEN up \o packets ELSE up

Holds(key) == \E n \in DOMAIN told : told[n] = key

\* `Told.forget` of a key that is held once at most.
Without(list, key) == RemoveFirst(list, key)

\* `Told.say`, of what is not held already.
Say(key) ==
  IF Holds(key) THEN UNCHANGED <<told, up>>
  ELSE told' = Append(told, key) /\ Send(<<key>>)

\* `Peer.mirror`: what was said of the pane before is said again after it.
Mirror ==
  LET before == Without(told, "mirror") IN
  /\ told' = <<"mirror">> \o before
  /\ Send(<<"mirror">> \o before)

Resume == told' = Without(told, "pause") /\ Send(<<"resume">>)

\* `RemoteProgram.seen` and `_stream`.
See(seen) ==
  LET asks == seen /\ ~program.asked IN
  /\ ~program.stopped /\ program.seen # seen
  /\ looks' = IF seen THEN looks + 1 ELSE looks
  /\ looks' <= MaxLooks
  /\ program' = [program EXCEPT !.seen = seen, !.streaming = seen, !.asked = @ \/ seen,
                                !.stale = @ \/ (seen /\ connected)]
  /\ CASE asks -> Mirror
       [] seen /\ ~asks -> Resume
       [] ~seen -> Say("pause")
  /\ UNCHANGED <<owner, shown, refused, down, connected, losses>>

\* `RemoteProgram.kill`, when the owner's tree has the pane no more.
Kill ==
  /\ ~program.stopped
  /\ program' = [program EXCEPT !.stopped = TRUE]
  /\ IF program.asked THEN told' = Without(Without(told, "mirror"), "pause") /\ Send(<<"stop">>)
     ELSE UNCHANGED <<told, up>>
  /\ UNCHANGED <<owner, shown, refused, looks, down, connected, losses>>

\* `MirrorSink.take`, of a pane that is mirrored still: a frame is laid on
\* the page that is shown, whatever page it was built against.
Take ==
  /\ down # << >>
  /\ down' = Tail(down)
  /\ LET packet == Head(down) IN
     IF program.stopped THEN UNCHANGED <<program, shown, refused>>
     ELSE IF packet.cmd = "frame"
     THEN /\ program' = [program EXCEPT !.stale = FALSE]
          /\ shown' = packet.to
          /\ UNCHANGED refused
     ELSE refused' = TRUE /\ UNCHANGED <<program, shown>>
  /\ UNCHANGED <<owner, told, looks, up, connected, losses>>

-----------------------------------------------------------------------------
(* The owner *)

\* `MirrorSource.queue`: one mark at a time.
Queued(s) ==
  IF ~s.on \/ s.paused \/ s.queued
  THEN source' = s /\ UNCHANGED queue
  ELSE source' = [s EXCEPT !.queued = TRUE] /\ queue' = Append(queue, "mark")

Show ==
  /\ page < MaxPages
  /\ page' = page + 1
  /\ Queued(source)
  /\ UNCHANGED <<failures, peer, link>>

Resumed_OwesNothing(s) == IF s.on /\ s.paused THEN [s EXCEPT !.paused = FALSE] ELSE s

\* `MirrorSource.resume` before it queues.
Resumed(s) == IF s.on /\ s.paused THEN [s EXCEPT !.paused = FALSE, !.owed = TRUE] ELSE s

\* `PeerLink.handle`: `_on_mirror`, `_on_pause`, `_on_resume` and `_on_stop`.
Hear ==
  /\ up # << >>
  /\ up' = Tail(up)
  /\ CASE Head(up) = "mirror" -> IF source.on THEN UNCHANGED <<source, queue>> ELSE Queued(NewSource)
       [] Head(up) = "pause" -> source' = [source EXCEPT !.paused = source.on] /\ UNCHANGED queue
       [] Head(up) = "resume" ->
            IF source.on /\ source.paused THEN Queued(Resumed(source)) ELSE UNCHANGED <<source, queue>>
       [] Head(up) = "stop" -> source' = NoSource /\ UNCHANGED queue
  /\ UNCHANGED <<page, failures, peer, down, connected, losses>>

Built_AsQueued(s) == IF s.sent = None \/ s.owed THEN <<Frame(s.sent, page)>> ELSE << >>

\* `MirrorSource.frame`: what changed since the frame before, and an empty
\* one for a peer that resumed and holds its frames for it.
Built(s) ==
  IF ~s.on \/ s.paused \/ (s.sent = page /\ ~s.owed) THEN << >> ELSE <<Frame(s.sent, page)>>

\* `PeerLink.run`: the frame of a mark is built when the writer reaches it.
Write ==
  /\ queue # << >> /\ Len(down) < Room
  /\ queue' = Tail(queue)
  /\ down' = down \o Built(source)
  /\ source' = IF Built(source) = << >> THEN [source EXCEPT !.queued = FALSE]
               ELSE [source EXCEPT !.queued = FALSE, !.owed = FALSE, !.sent = page]
  /\ UNCHANGED <<page, failures, peer, up, connected, losses>>

\* `PeerLink.lost`: a frame that cannot be built ends its mirror.
Fail ==
  /\ queue # << >> /\ source.on /\ ~source.paused /\ failures < MaxFailures
  /\ failures' = failures + 1
  /\ queue' = Tail(queue)
  /\ source' = NoSource
  /\ down' = Append(down, Refusal)
  /\ UNCHANGED <<page, peer, up, connected, losses>>

-----------------------------------------------------------------------------
(* The link *)

Lose_KeepsTheSource ==
  /\ connected /\ losses < MaxLosses
  /\ losses' = losses + 1
  /\ connected' = FALSE
  /\ up' = << >> /\ down' = << >>
  /\ UNCHANGED <<owner, peer>>

\* What was on its way is lost, and the owner lets the pane go
\* (`PeerLink.close`).
Lose ==
  /\ connected /\ losses < MaxLosses
  /\ losses' = losses + 1
  /\ connected' = FALSE
  /\ up' = << >> /\ down' = << >>
  /\ source' = NoSource /\ queue' = << >>
  /\ UNCHANGED <<page, failures, peer>>

Dial_OnlyMirrors ==
  /\ ~connected
  /\ connected' = TRUE
  /\ up' = SelectSeq(told, LAMBDA key : key = "mirror")
  /\ UNCHANGED <<owner, peer, down, losses>>

\* `Peer._hello`: a new link hears all that is held (`Told.replay`).
Dial ==
  /\ ~connected
  /\ connected' = TRUE
  /\ up' = told
  /\ UNCHANGED <<owner, peer, down, losses>>

MirrorNext ==
  \/ \E seen \in BOOLEAN : See(seen)
  \/ Kill \/ Take
  \/ Show \/ Hear \/ Write \/ Fail
  \/ Lose \/ Dial

\* The channels and the writer go on, and the peer dials until it has a link.
MirrorFairness == WF_mirrorVars(Take) /\ WF_mirrorVars(Hear) /\ WF_mirrorVars(Write) /\ WF_mirrorVars(Dial)

MirrorSpec == MirrorInit /\ [][MirrorNext]_mirrorVars /\ MirrorFairness

-----------------------------------------------------------------------------

\* Every frame on its way to a peer that mirrors the pane is built against
\* the page it will be laid on, through pauses, resumes and new links: a
\* frame is a difference, and on another page it draws cells nobody sent.
FramesFitTheirPage ==
  \A n \in DOMAIN down :
    program.stopped \/ down[n].from \in {None, IF n = 1 THEN shown ELSE down[n - 1].to}

Wanted == program.seen /\ ~program.stopped /\ ~refused

\* A pane that stays in sight catches up with the owner's page, across links
\* that go and marks that wait while it is paused and resumed.
SeenCatchesUp == Wanted ~> (shown = page \/ ~Wanted)

\* A page that went stale out of sight is answered for, though nothing
\* changed: the clients that show it hold their frames until then.
StaleIsAnswered == (Wanted /\ program.stale) ~> (~program.stale \/ ~Wanted)

\* Once the owner heard all that was said, a pane nobody sees is paused there
\* or is not mirrored: a new link hears of the pause after the mirror.
UnseenIsPaused ==
  (connected /\ up = << >> /\ ~program.seen) => (source.paused \/ ~source.on)

=============================================================================
