----------------------------- MODULE Frames_proofs -----------------------------
(***************************************************************************)
(* Frames on their two ways out.  To a client's terminal (FramePacing): no  *)
(* frame is forgotten, for any results a frame waits for, any options and   *)
(* any number of changes, packets of input and holds.  To another server    *)
(* (MirrorLink): each frame is laid on the page it was built against, and   *)
(* what nobody sees is paused, for any number of pages and lost links.      *)
(***************************************************************************)
EXTENDS FramePacing, MirrorLink, SequenceTheorems, TLAPS

-----------------------------------------------------------------------------
(* A client's frames *)

\* What a hold's bookkeeping is made of.
HoldTypes ==
  /\ taken \in Nat
  /\ holds \in [Keys -> {"none", "on", "late"}]
  /\ hold \in [Keys -> Nat]
  /\ wakes \in [Keys -> SUBSET Nat]

\* A frame is held for a terminal that has something to answer: a frame that
\* is drawn meanwhile would make the mark a lie.
HeldWaits == held => answers /\ Waits(unread)

FramesInv == HoldTypes /\ HoldsEnd /\ HeldWaits /\ NoFrameIsForgotten

\* Where nothing is on its way nothing is waited for.
LEMMA WaitsForSomething ==
  ASSUME NEW sizes, Waits(sizes)
  PROVE  sizes # << >>
BY DEF Waits

\* A client begins with nothing to draw and nothing held.
LEMMA FramesInit == Init => FramesInv
BY DEF Init, FramesInv, HoldTypes, HoldsEnd, HeldWaits, NoFrameIsForgotten

\* What a step leaves of the holds.
LEMMA BarrierStays ==
  ASSUME HoldTypes, HoldsEnd, UNCHANGED barrier
  PROVE  HoldTypes' /\ HoldsEnd' /\ (\A k \in Keys : wakes'[k] = wakes[k])
BY DEF HoldTypes, HoldsEnd, barrier

\* A renderer that lets every hold go leaves none that stands.
LEMMA LettingGoKeeps ==
  ASSUME HoldTypes, HoldsEnd, Lets, UNCHANGED <<hold, wakes, taken>>
  PROVE  HoldTypes' /\ HoldsEnd'
BY DEF HoldTypes, HoldsEnd, Lets

\* A hold that is taken again has a wake of its own.
LEMMA HoldKeeps ==
  ASSUME FramesInv, NEW k \in Keys, Hold(k)
  PROVE  FramesInv'
<1>1. HoldTypes'
  BY DEF FramesInv, HoldTypes, Hold
<1>2. HoldsEnd'
  BY DEF FramesInv, HoldTypes, HoldsEnd, Hold
<1>3. HeldWaits'
  BY DEF FramesInv, HeldWaits, Hold, terminal
<1>4. \A j \in Keys : wakes[j] \subseteq wakes'[j]
  BY DEF FramesInv, HoldTypes, Hold
<1>5. NoFrameIsForgotten'
  BY <1>4 DEF FramesInv, NoFrameIsForgotten, Hold, frame, terminal
<1> QED BY <1>1, <1>2, <1>3, <1>5 DEF FramesInv

\* A result that is in asks for a frame.
LEMMA ResultKeeps ==
  ASSUME FramesInv, NEW k \in Keys, Result(k)
  PROVE  FramesInv'
<1>1. HoldTypes' /\ HoldsEnd'
  BY DEF FramesInv, HoldTypes, HoldsEnd, Result
<1>2. HeldWaits' /\ NoFrameIsForgotten'
  BY DEF FramesInv, HeldWaits, NoFrameIsForgotten, Result, Invalidate, terminal
<1> QED BY <1>1, <1>2 DEF FramesInv

\* A hold whose deadline passed stands no more, and its wake is to run.
LEMMA ExpireKeeps ==
  ASSUME FramesInv, NEW k \in Keys, Expire(k)
  PROVE  FramesInv'
<1>1. HoldTypes' /\ HoldsEnd'
  BY DEF FramesInv, HoldTypes, HoldsEnd, Expire
<1>2. HeldWaits' /\ NoFrameIsForgotten'
  BY DEF FramesInv, HeldWaits, NoFrameIsForgotten, Expire, frame, terminal
<1> QED BY <1>1, <1>2 DEF FramesInv

\* The wake of the hold that stands waits for its deadline.
LEMMA WakeKeeps ==
  ASSUME FramesInv, NEW k \in Keys, Wake(k)
  PROVE  FramesInv'
<1>1. HoldTypes' /\ HoldsEnd'
  BY DEF FramesInv, HoldTypes, HoldsEnd, Wake
<1>2. HeldWaits'
  BY DEF FramesInv, HeldWaits, Wake, terminal
<1>3. NoFrameIsForgotten'
  BY DEF NoFrameIsForgotten, Wake, Invalidate
<1> QED BY <1>1, <1>2, <1>3 DEF FramesInv

\* A frame that is skipped for a result has the wake of the hold that stands.
LEMMA SkipForHoldKeeps ==
  ASSUME FramesInv, SkipForHold
  PROVE  FramesInv'
<1>1. HoldTypes' /\ HoldsEnd'
  BY DEF FramesInv, HoldTypes, HoldsEnd, Standing, SkipForHold
<1>2. HeldWaits'
  BY DEF FramesInv, HeldWaits, SkipForHold, terminal
<1>3. \E k \in Keys : wakes'[k] # {}
  BY DEF FramesInv, HoldsEnd, Standing, SkipForHold
<1> QED BY <1>1, <1>2, <1>3 DEF FramesInv, NoFrameIsForgotten

\* One that is skipped for the terminal has the answer to come.
LEMMA SkipForTerminalKeeps ==
  ASSUME FramesInv, SkipForTerminal
  PROVE  FramesInv'
<1>1. HoldTypes' /\ HoldsEnd'
  BY LettingGoKeeps DEF FramesInv, SkipForTerminal
<1>2. held' /\ answers' /\ unread' = unread /\ Waits(unread)
  BY DEF SkipForTerminal
<1>3. unread # << >>
  BY <1>2, WaitsForSomething
<1> QED BY <1>1, <1>2, <1>3 DEF FramesInv, HeldWaits, NoFrameIsForgotten

\* A frame is drawn only where none is held for the terminal.
LEMMA DrawKeeps ==
  ASSUME FramesInv, Draw
  PROVE  FramesInv'
<1>1. HoldTypes' /\ HoldsEnd'
  BY LettingGoKeeps DEF FramesInv, Draw
<1>2. HeldWaits'
  BY DEF FramesInv, HeldWaits, Draw
<1> QED BY <1>1, <1>2 DEF FramesInv, NoFrameIsForgotten, Draw

\* An answer that lets a held frame go asks for it.
LEMMA StatusAnsweredKeeps ==
  ASSUME FramesInv, StatusAnswered
  PROVE  FramesInv'
<1>1. HoldTypes' /\ HoldsEnd' /\ \A k \in Keys : wakes'[k] = wakes[k]
  BY BarrierStays DEF FramesInv, StatusAnswered
<1>2. CASE held /\ ~Waits(unread')
  BY <1>1, <1>2 DEF FramesInv, HeldWaits, NoFrameIsForgotten, StatusAnswered, Invalidate
<1>3. CASE held /\ Waits(unread')
  <2>1. unread' # << >>
    BY <1>3, WaitsForSomething
  <2> QED BY <1>1, <1>3, <2>1 DEF FramesInv, HeldWaits, NoFrameIsForgotten, StatusAnswered
<1>4. CASE ~held
  BY <1>1, <1>4 DEF FramesInv, HeldWaits, NoFrameIsForgotten, StatusAnswered
<1> QED BY <1>2, <1>3, <1>4

\* The steps that take neither a redraw nor a wake away.
LEMMA OthersKeep ==
  ASSUME FramesInv,
         \/ Change \/ Input \/ Record \/ SkipForInput \/ FallSilent \/ Drain \/ UNCHANGED vars
  PROVE  FramesInv'
<1>1. UNCHANGED barrier /\ UNCHANGED <<unread, answers, held>>
  BY DEF Change, Input, Record, SkipForInput, FallSilent, Drain, terminal, vars
<1>2. HoldTypes' /\ HoldsEnd' /\ \A k \in Keys : wakes'[k] = wakes[k]
  BY <1>1, BarrierStays DEF FramesInv
<1>3. (asked' = asked /\ dirty' = dirty) \/ asked' = TRUE
  BY DEF Change, Input, Record, SkipForInput, FallSilent, Drain, vars, frame, Invalidate
<1>4. HeldWaits'
  BY <1>1 DEF FramesInv, HeldWaits
<1>5. NoFrameIsForgotten'
  BY <1>1, <1>2, <1>3 DEF FramesInv, NoFrameIsForgotten
<1> QED BY <1>2, <1>4, <1>5 DEF FramesInv

\* A frame skipped for bytes in this process is asked for when they drained.
LEMMA SkipForPipeKeeps ==
  ASSUME FramesInv, SkipForPipe
  PROVE  FramesInv'
<1>1. HoldTypes' /\ HoldsEnd'
  BY LettingGoKeeps DEF FramesInv, SkipForPipe
<1> QED BY <1>1 DEF FramesInv, HeldWaits, NoFrameIsForgotten, SkipForPipe, terminal

\* Every step of a client keeps its frames in hand.
LEMMA FramesInductive == Spec => []FramesInv
<1>1. FramesInv /\ [Next]_vars => FramesInv'
  BY HoldKeeps, ResultKeeps, ExpireKeeps, WakeKeeps, SkipForHoldKeeps, SkipForTerminalKeeps,
     SkipForPipeKeeps, DrawKeeps, StatusAnsweredKeeps, OthersKeep DEF Next
<1> QED BY <1>1, FramesInit, PTL DEF Spec

\* A client whose terminal does not show what it should has a redraw asked for,
\* or an answer or a wake outstanding that asks for one: no skip of
\* `should_skip_render` is the last word.
THEOREM FramesAreAskedForAgain == Spec => []NoFrameIsForgotten
BY FramesInductive, PTL DEF FramesInv

\* A hold that stands has a wake of its own behind its deadline, however often
\* its key was held again (`FrameHolds.hold`).
THEOREM HoldsHaveWakes == Spec => []HoldsEnd
BY FramesInductive, PTL DEF FramesInv

-----------------------------------------------------------------------------
(* A pane lent to another server: sequences *)

\* The last of a list that is not empty: of the packets on their way, what the
\* other side hears last.
LastOf(s) == s[Len(s)]

\* What is sent last is heard last.
LEMMA LastOfMore ==
  ASSUME NEW S, NEW s \in Seq(S), NEW t \in Seq(S), t # << >>
  PROVE  s \o t \in Seq(S) /\ s \o t # << >> /\ LastOf(s \o t) = LastOf(t)
<1>1. Len(s) \in Nat /\ Len(t) \in Nat \ {0}
  BY EmptySeq
<1>2. /\ s \o t \in Seq(S) /\ Len(s \o t) = Len(s) + Len(t)
      /\ \A i \in 1..(Len(s) + Len(t)) : (s \o t)[i] = IF i <= Len(s) THEN s[i] ELSE t[i - Len(s)]
  BY ConcatProperties
<1>3. Len(s) + Len(t) \in 1..(Len(s) + Len(t)) /\ ~(Len(s) + Len(t) <= Len(s)) /\ (Len(s) + Len(t)) - Len(s) = Len(t)
  BY <1>1
<1>4. (s \o t)[Len(s) + Len(t)] = t[Len(t)]
  BY <1>2, <1>3
<1>5. s \o t # << >>
  BY <1>1, <1>2, EmptySeq
<1> QED BY <1>2, <1>4, <1>5 DEF LastOf

\* What is left once the first of a list was taken.
LEMMA TailOfMany ==
  ASSUME NEW S, NEW s \in Seq(S), s # << >>
  PROVE  /\ Head(s) = s[1] /\ Head(s) \in S /\ Tail(s) \in Seq(S) /\ Len(s) \in Nat \ {0} /\ Len(Tail(s)) = Len(s) - 1
         /\ \A i \in 1..(Len(s) - 1) : Tail(s)[i] = s[i + 1]
         /\ Tail(s) # << >> => LastOf(Tail(s)) = LastOf(s)
         /\ Tail(s) = << >> => Head(s) = LastOf(s)
<1>1. /\ Head(s) = s[1] /\ Head(s) \in S /\ Tail(s) \in Seq(S) /\ Len(s) \in Nat \ {0} /\ Len(Tail(s)) = Len(s) - 1
      /\ \A i \in 1..(Len(s) - 1) : Tail(s)[i] = s[i + 1]
  BY HeadTailProperties, EmptySeq
<1>2. ASSUME Tail(s) # << >> PROVE LastOf(Tail(s)) = LastOf(s)
  <2>1. Len(s) - 1 \in Nat \ {0}
    BY <1>1, <1>2, EmptySeq
  <2>2. Len(s) - 1 \in 1..(Len(s) - 1) /\ (Len(s) - 1) + 1 = Len(s)
    BY <1>1, <2>1
  <2> QED BY <1>1, <2>2 DEF LastOf
<1>3. ASSUME Tail(s) = << >> PROVE Head(s) = LastOf(s)
  <2>1. Len(s) - 1 = 0
    BY <1>1, <1>3, EmptySeq
  <2>2. Len(s) \in Nat
    BY <1>1
  <2>3. Len(s) = 1
    BY <2>1, <2>2
  <2> QED BY <1>1, <2>3 DEF LastOf
<1> QED BY <1>1, <1>2, <1>3

\* The least of one number.
LEMMA MinOfOne ==
  ASSUME NEW n \in Nat
  PROVE  Min({n}) = n
BY DEF Min

\* `Told.forget` removes the first of what it finds.
LEMMA WithoutIs ==
  ASSUME NEW s, NEW e
  PROVE  Without(s, e) = IF \E i \in 1..Len(s) : s[i] = e
                           THEN RemoveAt(s, Min({i \in 1..Len(s) : s[i] = e})) ELSE s
<1> DEFINE I == {i \in 1..Len(s) : s[i] = e}
<1>1. SelectInSeq(s, LAMBDA v : v = e) = IF I # {} THEN Min(I) ELSE 0
  BY DEF SelectInSeq
<1>2. I # {} <=> \E i \in 1..Len(s) : s[i] = e
  OBVIOUS
<1>3. Without(s, e) = IF \E i \in 1..Len(s) : s[i] = e
                        THEN RemoveAt(s, SelectInSeq(s, LAMBDA v : v = e)) ELSE s
  BY DEF Without, RemoveFirst
<1> QED BY <1>1, <1>2, <1>3

\* `Told.forget` of what is held first, last, or not at all.
LEMMA ForgetsOne ==
  ASSUME NEW a, NEW b, a # b
  PROVE  /\ Without(<< >>, a) = << >>
         /\ Without(<<a>>, a) = << >> /\ Without(<<a>>, b) = <<a>>
         /\ Without(<<a, b>>, a) = <<b>> /\ Without(<<a, b>>, b) = <<a>>
<1>1. Without(<< >>, a) = << >>
  <2>1. ~\E i \in 1..Len(<< >>) : << >>[i] = a
    OBVIOUS
  <2> QED BY <2>1, WithoutIs
<1>2. Without(<<a>>, a) = << >>
  <2>1. {i \in 1..Len(<<a>>) : <<a>>[i] = a} = {1} /\ \E i \in 1..Len(<<a>>) : <<a>>[i] = a
    OBVIOUS
  <2>2. Without(<<a>>, a) = RemoveAt(<<a>>, 1)
    BY <2>1, WithoutIs, MinOfOne
  <2> QED BY <2>2 DEF RemoveAt
<1>3. Without(<<a>>, b) = <<a>>
  <2>1. ~\E i \in 1..Len(<<a>>) : <<a>>[i] = b
    OBVIOUS
  <2> QED BY <2>1, WithoutIs
<1>4. Without(<<a, b>>, a) = <<b>>
  <2>1. {i \in 1..Len(<<a, b>>) : <<a, b>>[i] = a} = {1} /\ \E i \in 1..Len(<<a, b>>) : <<a, b>>[i] = a
    OBVIOUS
  <2>2. Without(<<a, b>>, a) = RemoveAt(<<a, b>>, 1)
    BY <2>1, WithoutIs, MinOfOne
  <2> QED BY <2>2 DEF RemoveAt
<1>5. Without(<<a, b>>, b) = <<a>>
  <2>1. {i \in 1..Len(<<a, b>>) : <<a, b>>[i] = b} = {2} /\ \E i \in 1..Len(<<a, b>>) : <<a, b>>[i] = b
    OBVIOUS
  <2>2. Without(<<a, b>>, b) = RemoveAt(<<a, b>>, 2)
    BY <2>1, WithoutIs, MinOfOne
  <2> QED BY <2>2 DEF RemoveAt
<1> QED BY <1>1, <1>2, <1>3, <1>4, <1>5

\* All that a peer ever forgets.
LEMMA Forgets ==
  /\ Without(<< >>, "mirror") = << >>
  /\ Without(<<"mirror">>, "mirror") = << >> /\ Without(<<"mirror">>, "pause") = <<"mirror">>
  /\ Without(<<"mirror", "pause">>, "mirror") = <<"pause">> /\ Without(<<"mirror", "pause">>, "pause") = <<"mirror">>
  /\ Without(<<"pause">>, "pause") = << >> /\ Without(<< >>, "pause") = << >>
<1>1. "mirror" # "pause"
  OBVIOUS
<1> QED BY <1>1, ForgetsOne

-----------------------------------------------------------------------------
(* A pane lent to another server: what is said of it, and its frames *)

\* What goes to the owner and to the peer.
Calls == {"mirror", "pause", "resume", "stop"}
Packets == [cmd : {"frame", "refused"}, from : Pages \cup {None}, to : Pages \cup {None}]

\* What the peer said of the pane, and holds to say again: a mirror, once it
\* asked, and a pause while nobody sees the pane.
SaidInv ==
  /\ ~program.asked => told = << >> /\ ~program.seen /\ up = << >> /\ ~source.on
  /\ program.stopped => told = << >>
  /\ program.asked /\ ~program.stopped => told = IF program.seen THEN <<"mirror">> ELSE <<"mirror", "pause">>
  /\ ~connected => up = << >> /\ ~source.on

\* The last of what is on its way to the owner, or the owner where nothing is,
\* is what the peer wants now.
WayInv ==
  connected => IF up = << >> THEN source.on => ~program.stopped /\ (program.seen \/ source.paused)
               ELSE IF program.stopped THEN LastOf(up) = "stop"
               ELSE IF program.seen THEN LastOf(up) \in {"mirror", "resume"} ELSE LastOf(up) = "pause"

\* The pages on their way follow one from another, from the page that is shown
\* to the page that was sent last.
LastPage == IF down = << >> THEN shown ELSE LastOf(down).to
ChainInv ==
  ~program.stopped =>
    /\ \A n \in 1..Len(down) : down[n].from \in {None, IF n = 1 THEN shown ELSE down[n - 1].to}
    /\ \A n \in 1..Len(down) : down[n].cmd = "frame" \/ down[n].to = None
    /\ source.sent \in {None, LastPage}

MirrorInv == MirrorTypeOK /\ SaidInv /\ WayInv /\ ChainInv

\* A pane is lent to nobody at first.
LEMMA MirrorInvAtFirst == MirrorInit => MirrorInv
<1> SUFFICES ASSUME MirrorInit PROVE MirrorInv
  OBVIOUS
<1>1. MirrorTypeOK
  <2>1. source \in [on : BOOLEAN, paused : BOOLEAN, queued : BOOLEAN, owed : BOOLEAN, sent : Pages \cup {None}]
    BY DEF MirrorInit, NoSource
  <2>2. program \in [seen : BOOLEAN, asked : BOOLEAN, streaming : BOOLEAN, stale : BOOLEAN, stopped : BOOLEAN]
    BY DEF MirrorInit
  <2>3. page \in Pages /\ shown \in Pages \cup {None} /\ looks \in 0..MaxLooks /\ losses \in 0..MaxLosses /\ failures \in 0..MaxFailures
    BY MirrorLinkAssumption DEF MirrorInit, Pages
  <2>4. /\ queue = << >> /\ up = << >> /\ down = << >> /\ told = << >> /\ ~source.queued
        /\ connected \in BOOLEAN /\ refused \in BOOLEAN
    BY DEF MirrorInit, NoSource
  <2> QED BY <2>1, <2>2, <2>3, <2>4 DEF MirrorTypeOK
<1>2. Len(<< >>) = 0
  OBVIOUS
<1>3. SaidInv /\ WayInv
  BY DEF MirrorInit, SaidInv, WayInv, NoSource
<1>4. ChainInv
  BY <1>2 DEF MirrorInit, ChainInv, LastPage, NoSource, None
<1> QED BY <1>1, <1>3, <1>4 DEF MirrorInv

\* What the peer says of sight.
LEMMA SeeIs ==
  ASSUME MirrorInv, NEW seen \in BOOLEAN, See(seen)
  PROVE  \E said \in Calls :
           /\ up' = IF connected THEN up \o <<said>> ELSE up
           /\ said \in IF seen THEN {"mirror", "resume"} ELSE {"pause"}
           /\ told' = IF seen THEN <<"mirror">> ELSE <<"mirror", "pause">>
           /\ ~program.stopped /\ (~seen => program.asked)
           /\ program' \in [seen : BOOLEAN, asked : BOOLEAN, streaming : BOOLEAN, stale : BOOLEAN, stopped : BOOLEAN]
           /\ program'.seen = seen /\ program'.asked /\ ~program'.stopped
           /\ looks' \in 0..MaxLooks
           /\ UNCHANGED <<owner, shown, refused, down, connected, losses>>
<1>0. MirrorTypeOK /\ SaidInv /\ looks \in Nat
  BY DEF MirrorInv, MirrorTypeOK
<1>1. /\ ~program.stopped /\ program.seen # seen /\ UNCHANGED <<owner, shown, refused, down, connected, losses>>
      /\ program' = [program EXCEPT !.seen = seen, !.streaming = seen, !.asked = @ \/ seen,
                                    !.stale = @ \/ (seen /\ connected)]
  BY DEF See
<1>2. looks' \in 0..MaxLooks
  BY <1>0, MirrorLinkAssumption DEF See, MirrorTypeOK
<1>3. /\ program' \in [seen : BOOLEAN, asked : BOOLEAN, streaming : BOOLEAN, stale : BOOLEAN, stopped : BOOLEAN]
      /\ program'.seen = seen /\ program'.asked = (program.asked \/ seen) /\ ~program'.stopped
  BY <1>0, <1>1 DEF MirrorTypeOK
<1>4. ~seen => program.asked
  BY <1>0, <1>1 DEF SaidInv, MirrorTypeOK
<1>5. CASE seen /\ ~program.asked
  <2>1. Mirror /\ told = << >>
    BY <1>0, <1>5 DEF See, SaidInv
  <2>2. Without(told, "mirror") = << >>
    BY <2>1, Forgets
  <2>3. told' = <<"mirror">> /\ up' = IF connected THEN up \o <<"mirror">> ELSE up
    <3>1. <<"mirror">> \o << >> = <<"mirror">>
      OBVIOUS
    <3> QED BY <2>1, <2>2, <3>1 DEF Mirror, Send
  <2> QED BY <2>3, <1>1, <1>2, <1>3, <1>5 DEF Calls
<1>6. CASE seen /\ program.asked
  <2>1. Resume /\ told = <<"mirror", "pause">>
    BY <1>0, <1>1, <1>6 DEF See, SaidInv
  <2>2. told' = <<"mirror">> /\ up' = IF connected THEN up \o <<"resume">> ELSE up
    BY <2>1, Forgets DEF Resume, Send
  <2> QED BY <2>2, <1>1, <1>2, <1>3, <1>6 DEF Calls
<1>7. CASE ~seen
  <2>1. Say("pause") /\ told = <<"mirror">>
    BY <1>0, <1>1, <1>4, <1>7 DEF See, SaidInv, MirrorTypeOK
  <2>2. ~Holds("pause")
    BY <2>1 DEF Holds
  <2>3. told' = <<"mirror", "pause">> /\ up' = IF connected THEN up \o <<"pause">> ELSE up
    BY <2>1, <2>2 DEF Say, Send
  <2> QED BY <2>3, <1>1, <1>2, <1>3, <1>4, <1>7 DEF Calls
<1> QED BY <1>5, <1>6, <1>7

\* A packet more on its way to the owner.
LEMMA OneMore ==
  ASSUME up \in Seq(Calls), NEW said \in Calls
  PROVE  up \o <<said>> \in Seq(Calls) /\ up \o <<said>> # << >> /\ LastOf(up \o <<said>>) = said
<1>1. <<said>> \in Seq(Calls) /\ <<said>> # << >> /\ LastOf(<<said>>) = said
  BY DEF LastOf
<1> QED BY <1>1, LastOfMore

\* Sight and its packet go together.
LEMMA SeeKeeps ==
  ASSUME MirrorInv, NEW seen \in BOOLEAN, See(seen)
  PROVE  MirrorInv'
<1>0. MirrorTypeOK /\ SaidInv /\ WayInv /\ ChainInv /\ up \in Seq(Calls)
  BY DEF MirrorInv, MirrorTypeOK, Calls
<1>1. PICK said \in Calls :
           /\ up' = IF connected THEN up \o <<said>> ELSE up
           /\ said \in IF seen THEN {"mirror", "resume"} ELSE {"pause"}
           /\ told' = IF seen THEN <<"mirror">> ELSE <<"mirror", "pause">>
           /\ ~program.stopped /\ (~seen => program.asked)
           /\ program' \in [seen : BOOLEAN, asked : BOOLEAN, streaming : BOOLEAN, stale : BOOLEAN, stopped : BOOLEAN]
           /\ program'.seen = seen /\ program'.asked /\ ~program'.stopped
           /\ looks' \in 0..MaxLooks
           /\ UNCHANGED <<owner, shown, refused, down, connected, losses>>
  BY SeeIs
<1>2. up' \in Seq(Calls) /\ (connected => up' # << >> /\ LastOf(up') = said)
  BY <1>0, <1>1, OneMore
<1>3. MirrorTypeOK'
  <2>1. told' \in Seq({"mirror", "pause"})
    <3>1. <<"mirror">> \in Seq({"mirror", "pause"}) /\ <<"mirror", "pause">> \in Seq({"mirror", "pause"})
      OBVIOUS
    <3> QED BY <3>1, <1>1
  <2> QED BY <2>1, <1>0, <1>1, <1>2 DEF MirrorTypeOK, Calls, owner
<1>4. SaidInv'
  BY <1>0, <1>1 DEF SaidInv, owner
<1>5. WayInv'
  BY <1>1, <1>2 DEF WayInv
<1>6. ChainInv'
  BY <1>0, <1>1 DEF ChainInv, LastPage, owner
<1> QED BY <1>3, <1>4, <1>5, <1>6 DEF MirrorInv

\* A pane that is dropped leaves nothing that is held.
LEMMA KillKeeps ==
  ASSUME MirrorInv, Kill
  PROVE  MirrorInv'
<1>0. MirrorTypeOK /\ SaidInv /\ WayInv /\ up \in Seq(Calls)
  BY DEF MirrorInv, MirrorTypeOK, Calls
<1>1. /\ program' = [program EXCEPT !.stopped = TRUE]
      /\ UNCHANGED <<owner, shown, refused, looks, down, connected, losses>>
      /\ ~program.stopped
  BY DEF Kill
<1>2. told' = << >> /\ up' = IF program.asked /\ connected THEN up \o <<"stop">> ELSE up
  <2>1. CASE program.asked
    <3>1. told' = Without(Without(told, "mirror"), "pause") /\ Send(<<"stop">>)
      BY <2>1 DEF Kill
    <3>2. told = <<"mirror">> \/ told = <<"mirror", "pause">>
      BY <2>1, <1>0, <1>1 DEF SaidInv
    <3>3. told' = << >>
      <4>1. CASE told = <<"mirror">>
        BY <3>1, <4>1, Forgets
      <4>2. CASE told = <<"mirror", "pause">>
        BY <3>1, <4>2, Forgets
      <4> QED BY <3>2, <4>1, <4>2
    <3> QED BY <2>1, <3>1, <3>3 DEF Send
  <2>2. CASE ~program.asked
    BY <2>2, <1>0 DEF Kill, SaidInv
  <2> QED BY <2>1, <2>2
<1>3. up' \in Seq(Calls) /\ (program.asked /\ connected => up' # << >> /\ LastOf(up') = "stop")
  BY <1>0, <1>2, OneMore DEF Calls
<1>4. MirrorTypeOK'
  <2>1. told' \in Seq({"mirror", "pause"})
    BY <1>2
  <2> QED BY <2>1, <1>0, <1>1, <1>3 DEF MirrorTypeOK, Calls, owner
<1>5. SaidInv'
  BY <1>0, <1>1, <1>2 DEF SaidInv, MirrorTypeOK, owner
<1>6. WayInv'
  BY <1>0, <1>1, <1>2, <1>3 DEF WayInv, SaidInv, MirrorTypeOK, owner
<1>7. ChainInv'
  BY <1>0, <1>1 DEF ChainInv, MirrorTypeOK
<1> QED BY <1>4, <1>5, <1>6, <1>7 DEF MirrorInv

\* The peer shows what it took, and the next packet follows from it.
LEMMA TakeKeeps ==
  ASSUME MirrorInv, Take
  PROVE  MirrorInv'
<1>0. MirrorTypeOK /\ SaidInv /\ WayInv /\ ChainInv /\ down \in Seq(Packets) /\ down # << >>
  BY DEF MirrorInv, MirrorTypeOK, Packets, Take
<1>1. /\ Head(down) = down[1] /\ Head(down) \in Packets /\ Tail(down) \in Seq(Packets)
      /\ Len(down) \in Nat \ {0} /\ Len(Tail(down)) = Len(down) - 1
      /\ \A i \in 1..(Len(down) - 1) : Tail(down)[i] = down[i + 1]
      /\ Tail(down) # << >> => LastOf(Tail(down)) = LastOf(down)
      /\ Tail(down) = << >> => Head(down) = LastOf(down)
  BY <1>0, TailOfMany
<1>2. /\ down' = Tail(down) /\ UNCHANGED <<owner, told, looks, up, connected, losses>>
      /\ program.stopped => UNCHANGED <<program, shown, refused>>
      /\ ~program.stopped /\ Head(down).cmd = "frame" =>
           program' = [program EXCEPT !.stale = FALSE] /\ shown' = Head(down).to /\ UNCHANGED refused
      /\ ~program.stopped /\ Head(down).cmd # "frame" => refused' = TRUE /\ UNCHANGED <<program, shown>>
  BY DEF Take
<1>3. /\ program' \in [seen : BOOLEAN, asked : BOOLEAN, streaming : BOOLEAN, stale : BOOLEAN, stopped : BOOLEAN]
      /\ program'.seen = program.seen /\ program'.asked = program.asked /\ program'.stopped = program.stopped
  BY <1>0, <1>2 DEF MirrorTypeOK
<1>4. MirrorTypeOK'
  BY <1>0, <1>1, <1>2, <1>3 DEF MirrorTypeOK, Packets, owner
<1>5. SaidInv' /\ WayInv'
  BY <1>0, <1>2, <1>3 DEF SaidInv, WayInv, owner
<1>6. ChainInv'
  <2> SUFFICES ASSUME ~program.stopped
               PROVE  /\ \A n \in 1..Len(down') : down'[n].from \in {None, IF n = 1 THEN shown' ELSE down'[n - 1].to}
                      /\ \A n \in 1..Len(down') : down'[n].cmd = "frame" \/ down'[n].to = None
                      /\ source'.sent \in {None, LastPage'}
    BY <1>3 DEF ChainInv
  \* A refusal leads to no page, and what comes after one holds its whole page.
  <2>1. shown' = Head(down).to \/ (Head(down).to = None /\ shown' = shown)
    <3>1. 1 \in 1..Len(down) /\ Head(down) = down[1]
      BY <1>1
    <3> QED BY <3>1, <1>0, <1>2 DEF ChainInv
  <2>2. ASSUME NEW n \in 1..Len(down')
        PROVE  /\ down'[n].from \in {None, IF n = 1 THEN shown' ELSE down'[n - 1].to}
               /\ down'[n].cmd = "frame" \/ down'[n].to = None
    <3>0. Len(down) \in Nat /\ Len(down') = Len(down) - 1
      BY <1>1, <1>2
    <3>1. n \in 1..(Len(down) - 1) /\ n + 1 \in 1..Len(down) /\ n + 1 # 1 /\ (n + 1) - 1 = n
      BY <3>0
    <3>2. down[n + 1].from \in {None, down[n].to} /\ (down[n + 1].cmd = "frame" \/ down[n + 1].to = None)
      BY <3>1, <1>0 DEF ChainInv
    <3>3. down'[n] = down[n + 1]
      BY <3>1, <1>1, <1>2
    <3>4. CASE n = 1
      <4>1. down[n] = Head(down)
        BY <3>4, <1>1
      <4>2. down[n].to \in {None, shown'}
        BY <4>1, <2>1
      <4> QED BY <3>2, <3>3, <3>4, <4>2
    <3>5. CASE n # 1
      <4>1. n - 1 \in 1..(Len(down) - 1) /\ (n - 1) + 1 = n
        BY <3>0, <3>1, <3>5
      <4>2. down'[n - 1] = down[n]
        BY <4>1, <1>1, <1>2
      <4> QED BY <3>2, <3>3, <3>5, <4>2
    <3> QED BY <3>4, <3>5
  <2>3. LastPage' = IF down' = << >> THEN shown' ELSE LastOf(down').to
    BY DEF LastPage
  <2>4. source'.sent \in {None, LastOf(down).to}
    BY <1>0, <1>2 DEF ChainInv, LastPage, owner
  <2>5. CASE Tail(down) = << >>
    BY <2>1, <2>3, <2>4, <2>5, <1>1, <1>2
  <2>6. CASE Tail(down) # << >>
    <3>1. down' # << >> /\ LastOf(down') = LastOf(down)
      BY <2>6, <1>1, <1>2
    <3>2. LastPage' = LastOf(down').to
      BY <2>3, <3>1
    <3> QED BY <2>2, <2>4, <3>1, <3>2
  <2> QED BY <2>2, <2>5, <2>6
<1> QED BY <1>4, <1>5, <1>6 DEF MirrorInv

\* What a source may be.
Sources == [on : BOOLEAN, paused : BOOLEAN, queued : BOOLEAN, owed : BOOLEAN, sent : Pages \cup {None}]

\* What the owner holds, for the leaves that need no more of it.
LEMMA OwnerTypes ==
  ASSUME MirrorTypeOK
  PROVE  /\ source \in Sources /\ queue \in Seq({"mark"}) /\ (source.queued => queue # << >>)
         /\ page \in Pages /\ up \in Seq(Calls) /\ down \in Seq(Packets) /\ NoSource \in Sources /\ NewSource \in Sources
         /\ ~NoSource.on /\ ~NoSource.queued /\ NoSource.sent = None
         /\ ~NewSource.queued /\ NewSource.sent = None /\ ~NewSource.paused
BY DEF MirrorTypeOK, Sources, Calls, Packets, NoSource, NewSource

\* A mark that is queued changes nothing of what was sent.
LEMMA QueuedIs ==
  ASSUME NEW s \in Sources, queue \in Seq({"mark"}), s.queued => queue # << >>, Queued(s)
  PROVE  /\ source' \in Sources /\ queue' \in Seq({"mark"}) /\ (source'.queued => queue' # << >>)
         /\ source'.on = s.on /\ source'.paused = s.paused /\ source'.sent = s.sent
<1>1. CASE ~s.on \/ s.paused \/ s.queued
  BY <1>1 DEF Queued, Sources
<1>2. CASE ~(~s.on \/ s.paused \/ s.queued)
  <2>1. source' = [s EXCEPT !.queued = TRUE] /\ queue' = Append(queue, "mark")
    BY <1>2 DEF Queued
  <2>2. queue' \in Seq({"mark"}) /\ queue' # << >>
    BY <2>1
  <2> QED BY <2>1, <2>2 DEF Sources
<1> QED BY <1>1, <1>2

\* What the owner does with its source, where it hears nothing and sends nothing.
LEMMA OwnerKeeps ==
  ASSUME MirrorInv, UNCHANGED <<told, program, shown, refused, looks, connected, losses>>, page' \in Pages,
         source' \in Sources, queue' \in Seq({"mark"}), source'.queued => queue' # << >>,
         failures' \in 0..MaxFailures,
         source'.on => source.on /\ source'.paused = source.paused,
         up' = up, down' \in Seq(Packets),
         \/ down' = down /\ source'.sent \in {source.sent, None}
         \/ \E packet \in Packets :
              /\ down' = Append(down, packet)
              /\ packet.from \in {None, source.sent} /\ source'.sent \in {None, packet.to}
              /\ packet.cmd = "frame" \/ packet.to = None
  PROVE  MirrorInv'
<1>0. MirrorTypeOK /\ SaidInv /\ WayInv /\ ChainInv
  BY DEF MirrorInv
<1>1. MirrorTypeOK'
  BY <1>0 DEF MirrorTypeOK, Sources, Packets
<1>2. source.on \in BOOLEAN /\ source'.on \in BOOLEAN
  BY <1>0 DEF MirrorTypeOK, Sources
<1>3. SaidInv'
  BY <1>0, <1>2 DEF SaidInv
<1>4. WayInv'
  BY <1>0, <1>2 DEF WayInv
<1>5. ChainInv'
  <2>1. CASE down' = down /\ source'.sent \in {source.sent, None}
    BY <2>1, <1>0 DEF ChainInv, LastPage
  <2>2. ASSUME NEW packet \in Packets, down' = Append(down, packet),
               packet.from \in {None, source.sent}, source'.sent \in {None, packet.to},
               packet.cmd = "frame" \/ packet.to = None
        PROVE  ChainInv'
    <3> SUFFICES ASSUME ~program.stopped
                 PROVE  /\ \A n \in 1..Len(down') : down'[n].from \in {None, IF n = 1 THEN shown ELSE down'[n - 1].to}
                        /\ \A n \in 1..Len(down') : down'[n].cmd = "frame" \/ down'[n].to = None
                        /\ source'.sent \in {None, LastPage'}
      BY DEF ChainInv
    <3>1. down \in Seq(Packets) /\ Len(down) \in Nat
      BY <1>0 DEF MirrorTypeOK, Packets
    <3>2. /\ Len(down') = Len(down) + 1 /\ down'[Len(down) + 1] = packet /\ down' # << >>
          /\ \A n \in 1..Len(down) : down'[n] = down[n]
      BY <3>1, <2>2
    <3>3. LastPage' = packet.to
      BY <3>2 DEF LastPage, LastOf
    <3>4. ASSUME NEW n \in 1..Len(down')
          PROVE  /\ down'[n].from \in {None, IF n = 1 THEN shown ELSE down'[n - 1].to}
                 /\ down'[n].cmd = "frame" \/ down'[n].to = None
      <4>1. CASE n \in 1..Len(down)
        <5>1. down'[n] = down[n] /\ (n # 1 => n - 1 \in 1..Len(down) /\ down'[n - 1] = down[n - 1])
          <6>1. n # 1 => n - 1 \in 1..Len(down)
            BY <3>1, <4>1
          <6> QED BY <3>2, <4>1, <6>1
        <5> QED BY <4>1, <5>1, <1>0 DEF ChainInv
      <4>2. CASE n = Len(down) + 1
        <5>1. source.sent \in {None, LastPage}
          BY <1>0 DEF ChainInv
        <5>2. CASE down = << >>
          <6>1. Len(down) = 0 /\ n = 1
            BY <4>2, <5>2
          <6> QED BY <4>2, <5>1, <5>2, <6>1, <3>2, <2>2 DEF LastPage
        <5>3. CASE down # << >>
          <6>1. Len(down) \in 1..Len(down) /\ n # 1 /\ n - 1 = Len(down)
            BY <4>2, <5>3, <3>1, EmptySeq
          <6>2. down'[n - 1] = LastOf(down) /\ LastPage = LastOf(down).to
            BY <6>1, <5>3, <3>2 DEF LastOf, LastPage
          <6> QED BY <4>2, <5>1, <6>1, <6>2, <3>2, <2>2
        <5> QED BY <5>2, <5>3
      <4> QED BY <4>1, <4>2, <3>1, <3>2
    <3> QED BY <3>3, <3>4, <2>2
  <2> QED BY <2>1, <2>2
<1> QED BY <1>1, <1>3, <1>4, <1>5 DEF MirrorInv

\* A page that changes is sent later.
LEMMA ShowKeeps ==
  ASSUME MirrorInv, Show
  PROVE  MirrorInv'
<1>0. MirrorTypeOK
  BY DEF MirrorInv
<1>1. page' \in Pages
  BY <1>0, MirrorLinkAssumption DEF Show, MirrorTypeOK, Pages
<1>2. Queued(source) /\ UNCHANGED <<failures, peer, link>>
  BY DEF Show
<1>3. /\ source' \in Sources /\ queue' \in Seq({"mark"}) /\ (source'.queued => queue' # << >>)
      /\ source'.on = source.on /\ source'.paused = source.paused /\ source'.sent = source.sent
  BY <1>0, <1>2, OwnerTypes, QueuedIs
<1>4. failures' \in 0..MaxFailures /\ down' \in Seq(Packets)
  BY <1>0, <1>2, OwnerTypes DEF MirrorTypeOK, link
<1> QED BY <1>1, <1>2, <1>3, <1>4, OwnerKeeps DEF peer, link

\* A frame follows from the page sent last, which is the last on its way.
LEMMA WriteKeeps ==
  ASSUME MirrorInv, Write
  PROVE  MirrorInv'
<1>0. MirrorTypeOK
  BY DEF MirrorInv
<1>1. queue # << >> /\ queue' = Tail(queue) /\ UNCHANGED <<page, failures, peer, up, connected, losses>>
  BY DEF Write
<1>2. queue' \in Seq({"mark"})
  BY <1>0, <1>1, OwnerTypes, TailOfMany
<1>3. CASE Built(source) = << >>
  <2>1. down' = down \o << >> /\ source' = [source EXCEPT !.queued = FALSE]
    BY <1>3 DEF Write
  <2>2. down' = down /\ down' \in Seq(Packets)
    BY <2>1, <1>0, OwnerTypes, ConcatEmptySeq
  <2>3. /\ source' \in Sources /\ ~source'.queued /\ source'.sent = source.sent
        /\ source'.on = source.on /\ source'.paused = source.paused
    BY <2>1, <1>0, OwnerTypes DEF Sources
  <2> QED BY <2>2, <2>3, <1>0, <1>1, <1>2, OwnerKeeps DEF peer, MirrorTypeOK
<1>4. CASE Built(source) # << >>
  <2>1. Built(source) = <<Frame(source.sent, page)>>
    BY <1>4 DEF Built
  <2>2. /\ down' = down \o <<Frame(source.sent, page)>>
        /\ source' = [source EXCEPT !.queued = FALSE, !.owed = FALSE, !.sent = page]
    BY <1>4, <2>1 DEF Write
  <2>3. /\ Frame(source.sent, page) \in Packets /\ Frame(source.sent, page).from = source.sent
        /\ Frame(source.sent, page).to = page /\ Frame(source.sent, page).cmd = "frame"
    BY <1>0, OwnerTypes DEF Frame, Packets, Sources
  <2>4. /\ source' \in Sources /\ ~source'.queued /\ source'.sent = page
        /\ source'.on = source.on /\ source'.paused = source.paused
    BY <2>2, <1>0, OwnerTypes DEF Sources
  <2> HIDE DEF Frame
  <2>5. down' = Append(down, Frame(source.sent, page)) /\ down' \in Seq(Packets)
    BY <2>2, <2>3, <1>0, OwnerTypes
  <2> QED BY <2>3, <2>4, <2>5, <1>0, <1>1, <1>2, OwnerKeeps DEF peer, MirrorTypeOK
<1> QED BY <1>3, <1>4

\* A frame that cannot be built leaves no source to send from.
LEMMA FailKeeps ==
  ASSUME MirrorInv, Fail
  PROVE  MirrorInv'
<1>0. MirrorTypeOK
  BY DEF MirrorInv
<1>1. /\ queue # << >> /\ queue' = Tail(queue) /\ source' = NoSource /\ down' = Append(down, Refusal)
      /\ failures < MaxFailures /\ failures' = failures + 1 /\ UNCHANGED <<page, peer, up, connected, losses>>
  BY DEF Fail
<1>2. queue' \in Seq({"mark"}) /\ failures' \in 0..MaxFailures
  BY <1>0, <1>1, OwnerTypes, TailOfMany, MirrorLinkAssumption DEF MirrorTypeOK
<1>3. Refusal \in Packets /\ Refusal.from = None /\ Refusal.to = None
  BY DEF Refusal, Packets
<1>4. down' \in Seq(Packets)
  BY <1>0, <1>1, <1>3, OwnerTypes
<1>5. source' \in Sources /\ ~source'.on /\ ~source'.queued /\ source'.sent = None
  BY <1>0, <1>1, OwnerTypes
<1> QED BY <1>0, <1>1, <1>2, <1>3, <1>4, <1>5, OwnerKeeps DEF peer, MirrorTypeOK

\* The owner does what it hears, and a mirror begins with a whole page.
LEMMA HearKeeps ==
  ASSUME MirrorInv, Hear
  PROVE  MirrorInv'
<1>0. MirrorTypeOK /\ SaidInv /\ WayInv /\ ChainInv
  BY DEF MirrorInv
<1> DEFINE call == Head(up)
<1>1. up # << >> /\ up' = Tail(up) /\ UNCHANGED <<page, failures, peer, down, connected, losses>>
  BY DEF Hear
<1>2. /\ call \in Calls /\ up' \in Seq(Calls)
      /\ up' # << >> => LastOf(up') = LastOf(up)
      /\ up' = << >> => call = LastOf(up)
  BY <1>0, <1>1, OwnerTypes, TailOfMany
\* What each packet makes of the source.
<1>3. /\ source' \in Sources /\ queue' \in Seq({"mark"}) /\ (source'.queued => queue' # << >>)
      /\ source'.sent \in {source.sent, None}
      /\ call = "pause" => source'.paused \/ ~source'.on
      /\ call = "stop" => ~source'.on
  <2>1. CASE call = "mirror"
    <3>1. CASE source.on
      BY <2>1, <3>1, <1>0, OwnerTypes DEF Hear
    <3>2. CASE ~source.on
      BY <2>1, <3>2, <1>0, OwnerTypes, QueuedIs DEF Hear
    <3> QED BY <3>1, <3>2
  <2>2. CASE call = "pause"
    <3>1. source' = [source EXCEPT !.paused = source.on] /\ UNCHANGED queue
      BY <2>2 DEF Hear
    <3> QED BY <2>2, <3>1, <1>0, OwnerTypes DEF Sources
  <2>3. CASE call = "resume"
    <3>1. CASE source.on /\ source.paused
      <4>1. Queued(Resumed(source)) /\ Resumed(source) = [source EXCEPT !.paused = FALSE, !.owed = TRUE]
        BY <2>3, <3>1 DEF Hear, Resumed
      <4>2. /\ Resumed(source) \in Sources /\ Resumed(source).sent = source.sent
            /\ Resumed(source).queued = source.queued
        BY <4>1, <1>0, OwnerTypes DEF Sources
      <4> QED BY <2>3, <4>1, <4>2, <1>0, OwnerTypes, QueuedIs
    <3>2. CASE ~(source.on /\ source.paused)
      BY <2>3, <3>2, <1>0, OwnerTypes DEF Hear
    <3> QED BY <3>1, <3>2
  <2>4. CASE call = "stop"
    BY <2>4, <1>0, OwnerTypes DEF Hear
  <2> QED BY <1>2, <2>1, <2>2, <2>3, <2>4 DEF Calls
<1> HIDE DEF call
<1>4. MirrorTypeOK'
  BY <1>0, <1>1, <1>2, <1>3 DEF MirrorTypeOK, Sources, Calls, peer
<1>5. SaidInv'
  BY <1>0, <1>1 DEF SaidInv, peer
<1>6. WayInv'
  BY <1>0, <1>1, <1>2, <1>3 DEF WayInv, peer
<1>7. ChainInv'
  BY <1>0, <1>1, <1>3 DEF ChainInv, LastPage, peer
<1> QED BY <1>4, <1>5, <1>6, <1>7 DEF MirrorInv

\* A link that goes takes the source and all packets with it.
LEMMA LoseKeeps ==
  ASSUME MirrorInv, Lose
  PROVE  MirrorInv'
<1>0. MirrorTypeOK /\ SaidInv
  BY DEF MirrorInv
<1>1. /\ losses' = losses + 1 /\ losses < MaxLosses /\ connected' = FALSE /\ up' = << >> /\ down' = << >>
      /\ source' = NoSource /\ queue' = << >> /\ UNCHANGED <<page, failures, peer>>
  BY DEF Lose
<1>2. source' \in Sources /\ ~source'.on /\ ~source'.queued /\ source'.sent = None
  BY <1>0, <1>1, OwnerTypes
<1>3. losses' \in 0..MaxLosses
  BY <1>0, <1>1, MirrorLinkAssumption DEF MirrorTypeOK
<1>4. MirrorTypeOK'
  <2>1. queue' \in Seq({"mark"}) /\ up' \in Seq({"mirror", "pause", "resume", "stop"})
        /\ down' \in Seq([cmd : {"frame", "refused"}, from : Pages \cup {None}, to : Pages \cup {None}])
    BY <1>1
  <2>2. page' = page /\ failures' = failures /\ told' = told /\ program' = program /\ shown' = shown
        /\ refused' = refused /\ looks' = looks /\ connected' = FALSE
    BY <1>1 DEF peer
  <2> QED BY <1>0, <1>2, <1>3, <2>1, <2>2 DEF MirrorTypeOK, Sources
<1>5. SaidInv' /\ WayInv'
  BY <1>0, <1>1, <1>2 DEF SaidInv, WayInv, peer
<1>6. ChainInv'
  <2>1. Len(down') = 0
    BY <1>1
  <2> QED BY <2>1, <1>2 DEF ChainInv
<1> QED BY <1>4, <1>5, <1>6 DEF MirrorInv

\* A new link carries all that is held, the pause after the mirror.
LEMMA DialKeeps ==
  ASSUME MirrorInv, Dial
  PROVE  MirrorInv'
<1>0. MirrorTypeOK /\ SaidInv /\ ChainInv
  BY DEF MirrorInv
<1>1. ~connected /\ connected' = TRUE /\ up' = told /\ UNCHANGED <<owner, peer, down, losses>>
  BY DEF Dial
<1>2. up' \in Seq(Calls)
  <2>1. told = << >> \/ told = <<"mirror">> \/ told = <<"mirror", "pause">>
    BY <1>0 DEF SaidInv
  <2>2. <<"mirror">> \in Seq(Calls) /\ <<"mirror", "pause">> \in Seq(Calls) /\ << >> \in Seq(Calls)
    BY DEF Calls
  <2> QED BY <2>1, <2>2, <1>1
<1>3. MirrorTypeOK'
  BY <1>0, <1>1, <1>2 DEF MirrorTypeOK, Calls, owner, peer
<1>4. SaidInv'
  BY <1>0, <1>1 DEF SaidInv, owner, peer
<1>5. WayInv'
  <2>1. LastOf(<<"mirror">>) = "mirror" /\ LastOf(<<"mirror", "pause">>) = "pause"
    BY DEF LastOf
  <2>2. program' = program /\ source' = source
    BY <1>1 DEF owner, peer
  <2> QED BY <2>1, <2>2, <1>0, <1>1 DEF WayInv, SaidInv, MirrorTypeOK
<1>6. ChainInv'
  BY <1>0, <1>1 DEF ChainInv, LastPage, owner, peer
<1> QED BY <1>3, <1>4, <1>5, <1>6 DEF MirrorInv

\* Every step of the two keeps them together.
LEMMA MirrorHolds == MirrorSpec => []MirrorInv
<1>1. MirrorInv /\ [MirrorNext]_mirrorVars => MirrorInv'
  <2> SUFFICES ASSUME MirrorInv, [MirrorNext]_mirrorVars PROVE MirrorInv'
    OBVIOUS
  <2>1. CASE UNCHANGED mirrorVars
    BY <2>1 DEF mirrorVars, owner, peer, link, MirrorInv, MirrorTypeOK, SaidInv, WayInv, ChainInv, LastPage
  <2> QED BY <2>1, SeeKeeps, KillKeeps, TakeKeeps, ShowKeeps, HearKeeps, WriteKeeps, FailKeeps, LoseKeeps, DialKeeps
          DEF MirrorNext
<1> QED BY <1>1, MirrorInvAtFirst, PTL DEF MirrorSpec

\* Every frame on its way to a peer that mirrors the pane is built against the
\* page it is laid on (`MirrorSink.take` asks nothing): for any number of pages,
\* looks, lost links and frames that failed, and any room on the way.
THEOREM FramesAreLaidWhereTheyFit == MirrorSpec => []FramesFitTheirPage
<1>1. MirrorInv => FramesFitTheirPage
  <2> SUFFICES ASSUME MirrorInv PROVE FramesFitTheirPage
    OBVIOUS
  <2>1. DOMAIN down = 1..Len(down) /\ ChainInv
    BY DEF MirrorInv, MirrorTypeOK
  <2> QED BY <2>1 DEF ChainInv, FramesFitTheirPage
<1> QED BY <1>1, MirrorHolds, PTL

\* Once the owner heard all that was said, a pane nobody sees is paused there
\* or is not mirrored (`Told.replay` of a new link says the pause last).
THEOREM WhatNobodySeesIsPaused == MirrorSpec => []UnseenIsPaused
<1>1. MirrorInv => UnseenIsPaused
  BY DEF MirrorInv, WayInv, UnseenIsPaused
<1> QED BY <1>1, MirrorHolds, PTL
===============================================================================
