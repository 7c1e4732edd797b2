-------------------------------- MODULE Relink --------------------------------
(***************************************************************************)
(* An attached client over ssh, and the links it holds one after the       *)
(* other.  A link ends because the server closes it on purpose, because    *)
(* the server restarts and said so, because the network or a sleep of the  *)
(* machine broke it, or because the server hears no answer to its pings.   *)
(* What the client makes of the end decides between leaving and dialling   *)
(* again.                                                                  *)
(*                                                                         *)
(* A sleep of the machine is what the server does between two steps of the *)
(* client, and the step Sleep is the end of it.  Time is the order of its  *)
(* ends: pings, the window of a restart, and the poll that finds a gap     *)
(* between the clocks come at any moment they may.                         *)
(***************************************************************************)
EXTENDS Integers, Sequences

CONSTANTS
  MaxLinks,      \* links held, at most
  MaxBreaks,     \* breaks of the network and sleeps of the machine, at most
  MaxRestarts,   \* restarts said by the server, at most
  PingMisses

ASSUME RelinkAssumption ==
  /\ PingMisses \in Nat \ {0}
  /\ MaxBreaks \in Nat /\ MaxRestarts \in Nat
  /\ MaxLinks \in Nat /\ MaxLinks > MaxBreaks + MaxRestarts

Links == 1..MaxLinks

VARIABLES
  at,           \* the client: "held", "closing", "waiting", "dialing", "left" or "failed"
  link,         \* the link it holds, or held last
  lost,         \* why that link went, or "none" for an end of the stream
  restartWait,  \* a `restarting` packet was read, and no restart waited for since
  hangUpAsked,  \* an `exit` packet that says to hang up was read
  sleptThrough, \* the watch found a gap between the clocks, and ended the link
  gap,          \* there is one that it has not found
  window,       \* of the restart that is waited for: "none", "open" or "over"
  server,       \* "up", "announced", "stopping", "between" two images, or "gone"
  open,         \* the links whose connection the server holds
  unanswered,   \* per link: the pings not answered
  stuck,        \* the links whose ping waits for room
  asked,        \* pings are on their way to the client
  pong,         \* the links with an answer to them on its way
  down,         \* the packets on their way to the client, of the link it holds
  cut,          \* the links the network broke
  full,         \* those of them whose socket has no room
  slept,        \* the links during which the machine slept
  told,         \* the links on which a restart was said
  breaks, restarts

client == <<at, link, lost, restartWait, hangUpAsked, sleptThrough, gap, window>>
pings == <<unanswered, stuck, asked, pong>>
network == <<cut, full, breaks>>
vars == <<client, server, open, pings, down, network, slept, told, restarts>>

TypeOK ==
  /\ at \in {"held", "closing", "waiting", "dialing", "left", "failed"}
  /\ link \in Links
  /\ lost \in {"none", "lost", "slept", "restart", "refused"}
  /\ restartWait \in BOOLEAN /\ hangUpAsked \in BOOLEAN
  /\ sleptThrough \in BOOLEAN /\ gap \in BOOLEAN
  /\ window \in {"none", "open", "over"}
  /\ server \in {"up", "announced", "stopping", "between", "gone"}
  /\ open \subseteq Links /\ stuck \subseteq open /\ pong \subseteq open /\ asked \in BOOLEAN
  /\ unanswered \in [Links -> 0..PingMisses]
  /\ down \in Seq({"restarting", "hangUp", "end"})
  /\ cut \subseteq Links /\ full \subseteq cut /\ slept \subseteq Links /\ told \subseteq Links
  /\ breaks \in 0..MaxBreaks /\ restarts \in 0..MaxRestarts

Init ==
  /\ at = "held" /\ link = 1 /\ lost = "none"
  /\ restartWait = FALSE /\ hangUpAsked = FALSE /\ sleptThrough = FALSE /\ gap = FALSE
  /\ window = "none"
  /\ server = "up" /\ open = {1}
  /\ unanswered = [i \in Links |-> 0] /\ stuck = {} /\ asked = FALSE /\ pong = {}
  /\ down = << >>
  /\ cut = {} /\ full = {} /\ breaks = 0
  /\ slept = {} /\ told = {} /\ restarts = 0

-----------------------------------------------------------------------------
(* The client *)

\* A packet of the server that says how this ends.
ReadNotice ==
  /\ at = "held" /\ link \notin cut /\ down # << >> /\ Head(down) # "end"
  /\ down' = Tail(down)
  /\ IF Head(down) = "restarting"
     THEN restartWait' = TRUE /\ UNCHANGED hangUpAsked
     ELSE hangUpAsked' = TRUE /\ UNCHANGED restartWait
  /\ UNCHANGED <<at, link, lost, sleptThrough, gap, window, server, open, pings, network, slept, told, restarts>>

\* `_on_ping`.  Pings that wait together are answered together.
Answer ==
  /\ at = "held" /\ asked /\ link \notin cut
  /\ asked' = FALSE /\ pong' = pong \cup ({link} \cap open)
  /\ UNCHANGED <<client, server, open, unanswered, stuck, down, network, slept, told, restarts>>

\* What is on its way on a link that nobody reads is lost.
Unread == down' = << >> /\ asked' = FALSE

\* The read of the link ends: behind the server's close with the end of the
\* stream, and of a link that broke with a failure.
LinkEnds ==
  /\ at = "held"
  /\ \/ link \notin cut /\ down # << >> /\ Head(down) = "end" /\ lost' = "none"
     \/ link \in cut /\ lost' = "lost"
  /\ at' = "closing" /\ Unread
  /\ UNCHANGED <<link, restartWait, hangUpAsked, sleptThrough, gap, window,
                 server, open, unanswered, stuck, pong, network, slept, told, restarts>>

\* `watch_for_suspend`: the reason is written down before the link is ended,
\* since a link this side ended can read as a clean end.
NoticeSleep ==
  /\ at \in {"held", "closing"} /\ gap
  /\ sleptThrough' = TRUE /\ gap' = FALSE
  /\ at' = "closing" /\ Unread
  /\ IF at = "held" THEN lost' \in {"none", "lost"} ELSE lost' = lost
  /\ UNCHANGED <<link, restartWait, hangUpAsked, window,
                 server, open, unanswered, stuck, pong, network, slept, told, restarts>>

HoldEnds_AsItSaid ==
  LET said == lost = "none" /\ restartWait
      why == IF hangUpAsked THEN "none" ELSE IF said THEN "restart" ELSE lost
  IN
  /\ at = "closing"
  /\ restartWait' = (restartWait /\ ~said)
  /\ lost' = IF sleptThrough THEN "slept" ELSE why
  /\ at' = IF lost' = "none" THEN "left" ELSE "waiting"
  /\ window' = IF lost' = "restart" THEN "open" ELSE "none"
  /\ UNCHANGED <<link, hangUpAsked, sleptThrough, gap, server, open, pings, down, network, slept, told, restarts>>

\* `hold_one` says why the link went, and `hold` puts the sleep it noticed in
\* the place of that.  With no reason left the client leaves.
HoldEnds ==
  LET said == lost = "none" /\ restartWait
      why == IF hangUpAsked THEN "none" ELSE IF said THEN "restart" ELSE lost
  IN
  /\ at = "closing"
  /\ restartWait' = (restartWait /\ ~said)
  /\ lost' = IF sleptThrough THEN "slept" ELSE why
  /\ at' = IF lost' = "none" THEN "left" ELSE "waiting"
  /\ window' = IF lost' = "restart" THEN "open" ELSE "none"
  /\ sleptThrough' = FALSE /\ gap' = FALSE
  /\ UNCHANGED <<link, hangUpAsked, server, open, pings, down, network, slept, told, restarts>>

MayComeBack_NoWindow == lost # "refused"

\* `link_may_come_back`, or the window of the restart is open: then a refusal
\* is no answer.
MayComeBack == lost # "refused" \/ window = "open"

\* `again`: the wait of a try ran out, or the person typed a key.
Try ==
  /\ at = "waiting" /\ MayComeBack
  /\ at' = "dialing"
  /\ UNCHANGED <<link, lost, restartWait, hangUpAsked, sleptThrough, gap, window,
                 server, open, pings, down, network, slept, told, restarts>>

\* There is nothing left to try.
GiveUp ==
  /\ at = "waiting" /\ ~MayComeBack
  /\ at' = "failed"
  /\ UNCHANGED <<link, lost, restartWait, hangUpAsked, sleptThrough, gap, window,
                 server, open, pings, down, network, slept, told, restarts>>

\* The person types q while the client waits or dials.
Leave ==
  /\ at \in {"waiting", "dialing"}
  /\ at' = "left"
  /\ UNCHANGED <<link, lost, restartWait, hangUpAsked, sleptThrough, gap, window,
                 server, open, pings, down, network, slept, told, restarts>>

\* A try fails: the network gave no answer, or the socket takes no channel.
DialFails ==
  /\ at = "dialing"
  /\ \/ lost' = "lost"
     \/ server \in {"stopping", "between", "gone"} /\ lost' = "refused"
  /\ at' = "waiting"
  /\ UNCHANGED <<link, restartWait, hangUpAsked, sleptThrough, gap, window,
                 server, open, pings, down, network, slept, told, restarts>>

\* A new link, with a `start-gui` that says it answers pings.
DialConnects ==
  /\ at = "dialing" /\ link < MaxLinks /\ server \in {"up", "announced"}
  /\ at' = "held" /\ link' = link + 1
  /\ window' = "none"
  /\ open' = open \cup {link + 1}
  /\ UNCHANGED <<lost, restartWait, hangUpAsked, sleptThrough, gap,
                 server, pings, down, network, slept, told, restarts>>

WindowEnds ==
  /\ window = "open" /\ window' = "over"
  /\ UNCHANGED <<at, link, lost, restartWait, hangUpAsked, sleptThrough, gap,
                 server, open, pings, down, network, slept, told, restarts>>

\* The machine was asleep, and its link may be broken by it.  While a link is
\* held a watch looks for the gap.
Sleep ==
  /\ at \in {"held", "closing"} /\ link \notin slept
  /\ breaks < MaxBreaks /\ breaks' = breaks + 1
  /\ gap' = TRUE /\ slept' = slept \cup {link}
  /\ cut' \in {cut, cut \cup {link}}
  /\ UNCHANGED <<at, link, lost, restartWait, hangUpAsked, sleptThrough, window,
                 server, open, pings, down, full, told, restarts>>

-----------------------------------------------------------------------------
(* The server *)

Here(i) == i = link /\ at = "held"
Say(words, to) == down' = IF \E i \in to : Here(i) THEN down \o words ELSE down

\* `close_connection`.
Close(i) ==
  /\ open' = open \ {i} /\ stuck' = stuck \ {i} /\ pong' = pong \ {i}
  /\ unanswered' = [unanswered EXCEPT ![i] = 0]
  /\ UNCHANGED asked

\* A detach, by a key of the client or a command of another one.
Detach(i) ==
  /\ i \in open
  /\ Close(i)
  /\ Say(<<"end">>, {i})
  /\ UNCHANGED <<client, server, network, slept, told, restarts>>

\* `detach_and_close` with a hang-up, which is written before the close.
HangUp(i) ==
  /\ i \in open \ full
  /\ Close(i)
  /\ Say(<<"hangUp", "end">>, {i})
  /\ UNCHANGED <<client, server, network, slept, told, restarts>>

\* `watch_liveness`: a ping is counted before it is written, and is written
\* before the next is counted.
Ping(i) ==
  /\ i \in open \ stuck /\ unanswered[i] < PingMisses
  /\ unanswered' = [unanswered EXCEPT ![i] = @ + 1]
  /\ IF i \in full THEN stuck' = stuck \cup {i} /\ UNCHANGED asked
     ELSE asked' = (asked \/ Here(i)) /\ UNCHANGED stuck
  /\ UNCHANGED <<client, server, open, pong, down, network, slept, told, restarts>>

\* `_on_pong`.
TakePong(i) ==
  /\ i \in open /\ i \in pong \ cut
  /\ unanswered' = [unanswered EXCEPT ![i] = 0]
  /\ pong' = pong \ {i}
  /\ UNCHANGED <<client, server, open, stuck, asked, down, network, slept, told, restarts>>

Drop_OneTooMany(i) ==
  /\ i \in open \ stuck /\ unanswered[i] > PingMisses
  /\ Close(i)
  /\ Say(<<"end">>, {i})
  /\ UNCHANGED <<client, server, network, slept, told, restarts>>

\* Too many pings went unanswered.
Drop(i) ==
  /\ i \in open \ stuck /\ unanswered[i] >= PingMisses
  /\ Close(i)
  /\ Say(<<"end">>, {i})
  /\ UNCHANGED <<client, server, network, slept, told, restarts>>

\* The client closed its side.
ReadEnd(i) ==
  /\ i \in open \ cut /\ ~Here(i)
  /\ Close(i)
  /\ UNCHANGED <<client, server, down, network, slept, told, restarts>>

\* `upgrade`, or `kill-server -r` which takes no client from there on: every
\* connection is told, one after the other, each when the write is over.
Announce ==
  /\ server = "up" /\ restarts < MaxRestarts /\ open \cap full = {}
  /\ restarts' = restarts + 1
  /\ server' \in {"announced", "stopping"}
  /\ Say(<<"restarting">>, open)
  /\ told' = told \cup open
  /\ UNCHANGED <<client, open, pings, network, slept>>

\* The upgrade fails, and says nothing of it.
AbortUpgrade ==
  /\ server = "announced" /\ server' = "up"
  /\ UNCHANGED <<client, open, pings, down, network, slept, told, restarts>>

\* The exec, or the end of the server, closes every connection.
Ends(from, to) ==
  /\ server \in from /\ server' = to
  /\ open' = {} /\ stuck' = {} /\ pong' = {}
  /\ unanswered' = [i \in Links |-> 0]
  /\ Say(<<"end">>, open)
  /\ UNCHANGED <<client, asked, network, slept, told, restarts>>
Restart == Ends({"announced", "stopping"}, "between")
Stop == Ends({"up"}, "gone")

NextServer ==
  /\ server = "between" /\ server' = "up"
  /\ UNCHANGED <<client, open, pings, down, network, slept, told, restarts>>

-----------------------------------------------------------------------------
(* The network *)

Cut ==
  /\ breaks < MaxBreaks /\ at \in {"held", "closing"} /\ link \notin cut
  /\ breaks' = breaks + 1
  /\ cut' = cut \cup {link}
  /\ UNCHANGED <<client, server, open, pings, down, full, slept, told, restarts>>

\* What is written to a link that broke stays with the server.
Fill(i) ==
  /\ i \in open \cap cut /\ i \notin full
  /\ full' = full \cup {i}
  /\ UNCHANGED <<client, server, open, pings, down, cut, breaks, slept, told, restarts>>

Serve(i) == Ping(i) \/ TakePong(i) \/ Drop(i) \/ ReadEnd(i)

Next ==
  \/ ReadNotice \/ Answer \/ LinkEnds \/ NoticeSleep \/ HoldEnds
  \/ Try \/ GiveUp \/ Leave \/ DialFails \/ DialConnects \/ WindowEnds \/ Sleep
  \/ \E i \in Links : Detach(i) \/ HangUp(i) \/ Serve(i) \/ Fill(i)
  \/ Announce \/ AbortUpgrade \/ Restart \/ Stop \/ NextServer \/ Cut

\* Both loops run, timers fire, and a restart that was said is carried out or
\* fails.  A try that the network may answer again and
\* again is answered.
Fairness ==
  /\ WF_vars(LinkEnds \/ NoticeSleep \/ HoldEnds \/ Try \/ GiveUp) /\ WF_vars(ReadNotice)
  /\ WF_vars(DialFails \/ DialConnects) /\ SF_vars(DialConnects)
  /\ WF_vars(AbortUpgrade \/ Restart) /\ WF_vars(NextServer)
  /\ \A i \in Links : WF_vars(Ping(i)) /\ WF_vars(Drop(i)) /\ WF_vars(ReadEnd(i))

Spec == Init /\ [][Next]_vars /\ Fairness

-----------------------------------------------------------------------------

\* A client comes back only from a link that broke or that its machine slept
\* on, or to a server that said it restarts: a detach, a close of the server
\* and a drop for silence are ends, also after the link before them was lost.
ComesBackForAReason ==
  \A i \in 1..(link - 1) : i \in cut \cup slept \/ \E j \in 1..i : j \in told

\* A client whose server closed the link behind a notice of its restart is
\* attached to the next one, whatever refuses it until then, unless the person
\* leaves, the window of the restart runs out, the machine sleeps meanwhile (a
\* sleep takes the place of the restart) or the server was stopped.
AwaitsTheRestart ==
  at = "closing" /\ lost = "none" /\ restartWait /\ ~hangUpAsked /\ link \notin slept
ComesBackToTheNext ==
  AwaitsTheRestart ~> (at \in {"held", "left"} \/ window = "over" \/ lost = "slept" \/ server = "gone")

\* The server lets go of a link that its client no longer holds, so that the
\* size of a terminal nobody looks at goes.  (It waits for ever to write a
\* ping into a socket that is full.)
GhostsGo ==
  \A i \in Links : (i \in open /\ ~Here(i)) ~> (i \notin open \/ i \in full)

\* `attach -x`: "coming back would be coming back uninvited" (client/ssh.py).
HungUpStaysAway == hangUpAsked => at \notin {"waiting", "dialing"}

=============================================================================
