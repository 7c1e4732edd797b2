----------------------------- MODULE Relink_proofs -----------------------------
(***************************************************************************)
(* A client comes back for a reason, for any number of links, breaks,       *)
(* sleeps and restarts, and however many pings a server lets go unanswered. *)
(***************************************************************************)
EXTENDS Relink, TLAPS

Words == {"restarting", "hangUp", "end"}

\* Why a client may come back behind link i.
Reason(i) == i \in cut \cup slept \/ \E j \in 1..i : j \in told

\* What is written down of the link before the client decides.
Noted ==
  /\ at = "closing" => lost \in {"none", "lost"}
  /\ at = "closing" /\ lost = "lost" => link \in cut \cup slept
  /\ gap \/ sleptThrough => at \in {"held", "closing"} /\ link \in slept
  /\ restartWait => \E j \in 1..link : j \in told

\* A notice that is still to be read was said on this link: what was on its way
\* on a link before it is lost.
OnItsWay ==
  /\ down \in Seq(Words)
  /\ at # "held" => down = << >>
  /\ \A n \in 1..Len(down) : down[n] = "restarting" => link \in told

Dials == at \in {"waiting", "dialing"} => Reason(link)

RelinkInv == link \in Nat \ {0} /\ Noted /\ OnItsWay /\ Dials /\ ComesBackForAReason

LEMMA RelinkInit == Init => RelinkInv
<1> SUFFICES ASSUME Init PROVE RelinkInv
  OBVIOUS
<1>1. OnItsWay
  BY DEF Init, OnItsWay
<1> QED BY <1>1 DEF Init, RelinkInv, Noted, Dials, ComesBackForAReason

\* Nothing takes a reason away.
Grows == cut \subseteq cut' /\ slept \subseteq slept' /\ told \subseteq told'

\* What leaves the client where it is, and says words on its way at most, keeps
\* the invariant if a restart that it says is one that was told.
LEMMA SaidKeeps ==
  ASSUME RelinkInv, Grows, UNCHANGED <<at, link, lost, restartWait, sleptThrough, gap>>,
         NEW words \in Seq(Words),
         down' = down \/ (at = "held" /\ down' = down \o words),
         \A n \in 1..Len(words) : words[n] = "restarting" => link \in told'
  PROVE  RelinkInv'
<1>1. OnItsWay'
  <2>1. CASE down' = down
    BY <2>1 DEF RelinkInv, OnItsWay, Grows
  <2>2. CASE at = "held" /\ down' = down \o words
    <3>1. down' \in Seq(Words) /\ Len(down') = Len(down) + Len(words)
      BY <2>2 DEF RelinkInv, OnItsWay
    <3>2. ASSUME NEW n \in 1..Len(down'), down'[n] = "restarting" PROVE link \in told'
      <4>1. CASE n <= Len(down)
        BY <2>2, <3>2, <4>1 DEF RelinkInv, OnItsWay, Grows
      <4>2. CASE n > Len(down)
        <5>1. n - Len(down) \in 1..Len(words) /\ down'[n] = words[n - Len(down)]
          BY <2>2, <3>1, <4>2 DEF RelinkInv, OnItsWay
        <5> QED BY <3>2, <5>1
      <4> QED BY <3>1, <4>1, <4>2 DEF RelinkInv, OnItsWay
    <3> QED BY <2>2, <3>1, <3>2 DEF OnItsWay
  <2> QED BY <2>1, <2>2
<1>2. Noted' /\ Dials' /\ ComesBackForAReason' /\ link' \in Nat \ {0}
  BY DEF RelinkInv, Noted, Dials, ComesBackForAReason, Reason, Grows
<1> QED BY <1>1, <1>2 DEF RelinkInv

\* The client is where it was, and so is the reason it will give.
Stands == Grows /\ UNCHANGED <<at, link, lost, restartWait, sleptThrough, gap>>

Says(words) == down' = down \/ (at = "held" /\ down' = down \o words)

LEMMA SilentKeeps ==
  ASSUME RelinkInv, Stands, UNCHANGED down
  PROVE  RelinkInv'
<1>1. << >> \in Seq(Words) /\ \A n \in 1..Len(<< >>) : << >>[n] = "restarting" => link \in told'
  OBVIOUS
<1> QED BY <1>1, SaidKeeps DEF Stands

LEMMA EndKeeps ==
  ASSUME RelinkInv, Stands, Says(<<"end">>)
  PROVE  RelinkInv'
<1> DEFINE words == <<"end">>
<1>1. words \in Seq(Words) /\ \A n \in 1..Len(words) : words[n] = "restarting" => link \in told'
  BY DEF Words
<1>2. down' = down \/ (at = "held" /\ down' = down \o words)
  BY DEF Says
<1> HIDE DEF words
<1> QED BY <1>1, <1>2, SaidKeeps DEF Stands

LEMMA HangUpKeeps ==
  ASSUME RelinkInv, Stands, Says(<<"hangUp", "end">>)
  PROVE  RelinkInv'
<1> DEFINE words == <<"hangUp", "end">>
<1>1. words \in Seq(Words) /\ \A n \in 1..Len(words) : words[n] = "restarting" => link \in told'
  BY DEF Words
<1>2. down' = down \/ (at = "held" /\ down' = down \o words)
  BY DEF Says
<1> HIDE DEF words
<1> QED BY <1>1, <1>2, SaidKeeps DEF Stands

LEMMA RestartingKeeps ==
  ASSUME RelinkInv, Stands, Says(<<"restarting">>), link \in told'
  PROVE  RelinkInv'
<1> DEFINE words == <<"restarting">>
<1>1. words \in Seq(Words) /\ \A n \in 1..Len(words) : words[n] = "restarting" => link \in told'
  BY DEF Words
<1>2. down' = down \/ (at = "held" /\ down' = down \o words)
  BY DEF Says
<1> HIDE DEF words
<1> QED BY <1>1, <1>2, SaidKeeps DEF Stands

\* The server's steps, and those of the network.
LEMMA ServerKeeps ==
  ASSUME RelinkInv,
         \/ \E i \in Links : Detach(i) \/ HangUp(i) \/ Serve(i) \/ Fill(i)
         \/ Announce \/ AbortUpgrade \/ Restart \/ Stop \/ NextServer \/ Cut
  PROVE  RelinkInv'
<1> USE DEF client, network, Grows, Stands
<1>1. CASE \E i \in Links : Detach(i) \/ Drop(i)
  <2>1. Stands /\ Says(<<"end">>)
    BY <1>1 DEF Detach, Drop, Say, Says, Here
  <2> QED BY <2>1, EndKeeps
<1>2. CASE \E i \in Links : HangUp(i)
  <2>1. Stands /\ Says(<<"hangUp", "end">>)
    BY <1>2 DEF HangUp, Say, Says, Here
  <2> QED BY <2>1, HangUpKeeps
<1>3. CASE Announce
  <2>1. Stands /\ (down' = down \/ (Says(<<"restarting">>) /\ link \in told'))
    BY <1>3 DEF Announce, Say, Says, Here
  <2> QED BY <2>1, SilentKeeps, RestartingKeeps
<1>4. CASE Restart \/ Stop
  <2>1. Stands /\ Says(<<"end">>)
    BY <1>4 DEF Restart, Stop, Ends, Say, Says, Here
  <2> QED BY <2>1, EndKeeps
<1>5. CASE (\E i \in Links : Ping(i) \/ TakePong(i) \/ ReadEnd(i) \/ Fill(i))
           \/ AbortUpgrade \/ NextServer \/ Cut
  <2>1. Stands /\ UNCHANGED down
    BY <1>5 DEF Ping, TakePong, ReadEnd, Fill, AbortUpgrade, NextServer, Cut
  <2> QED BY <2>1, SilentKeeps
<1> QED BY <1>1, <1>2, <1>3, <1>4, <1>5 DEF Serve

\* A notice of a restart is read on the link on which it was said.
LEMMA ReadNoticeKeeps ==
  ASSUME RelinkInv, ReadNotice
  PROVE  RelinkInv'
<1> USE DEF network
<1>1. OnItsWay'
  <2>1. down # << >> /\ down' = Tail(down) /\ down \in Seq(Words) /\ at' = at /\ at = "held"
    BY DEF ReadNotice, RelinkInv, OnItsWay
  <2>2. /\ down' \in Seq(Words) /\ Len(down') = Len(down) - 1
        /\ \A n \in 1..Len(down') : n + 1 \in 1..Len(down) /\ down'[n] = down[n + 1]
    BY <2>1
  <2> QED BY <2>1, <2>2 DEF ReadNotice, RelinkInv, OnItsWay
<1>2. Head(down) = "restarting" => link \in told
  <2>1. down # << >> /\ down \in Seq(Words)
    BY DEF ReadNotice, RelinkInv, OnItsWay
  <2>2. 1 \in 1..Len(down) /\ Head(down) = down[1]
    BY <2>1
  <2> QED BY <2>2 DEF RelinkInv, OnItsWay
<1>3. restartWait' => \E j \in 1..link : j \in told
  <2>1. CASE Head(down) = "restarting"
    <3>1. link \in 1..link
      BY DEF RelinkInv
    <3> QED BY <1>2, <2>1, <3>1
  <2>2. CASE Head(down) # "restarting"
    BY <2>2 DEF ReadNotice, RelinkInv, Noted
  <2> QED BY <2>1, <2>2
<1>4. Noted' /\ Dials' /\ ComesBackForAReason' /\ link' \in Nat \ {0}
  BY <1>3 DEF ReadNotice, RelinkInv, Noted, Dials, ComesBackForAReason, Reason
<1> QED BY <1>1, <1>4 DEF RelinkInv

\* The steps of a client that stays where it is, or only tries.
LEMMA ClientWaitsKeeps ==
  ASSUME RelinkInv, Answer \/ Try \/ GiveUp \/ Leave \/ DialFails \/ WindowEnds \/ UNCHANGED vars
  PROVE  RelinkInv'
<1> USE DEF client, network, vars, Answer, Try, GiveUp, Leave, DialFails, WindowEnds
<1>1. /\ UNCHANGED <<link, restartWait, sleptThrough, gap, down, cut, slept, told>>
      /\ at' = at \/ (at \in {"waiting", "dialing"} /\ at' \notin {"held", "closing"})
      /\ at' \in {"waiting", "dialing"} => at \in {"waiting", "dialing"}
      /\ lost' = lost \/ at' # "closing"
  OBVIOUS
<1>2. OnItsWay'
  BY <1>1 DEF RelinkInv, OnItsWay
<1>3. Noted'
  BY <1>1 DEF RelinkInv, Noted
<1>4. Dials' /\ ComesBackForAReason' /\ link' \in Nat \ {0}
  BY <1>1 DEF RelinkInv, Dials, ComesBackForAReason, Reason
<1> QED BY <1>2, <1>3, <1>4 DEF RelinkInv

\* A link ends by itself, or because the watch found that the machine slept.
LEMMA LinkEndsKeeps ==
  ASSUME RelinkInv, LinkEnds \/ NoticeSleep
  PROVE  RelinkInv'
<1> USE DEF network, LinkEnds, NoticeSleep, Unread
<1>1. OnItsWay'
  <2>1. down' = << >>
    OBVIOUS
  <2>2. << >> \in Seq(Words) /\ Len(<< >>) = 0
    OBVIOUS
  <2> QED BY <2>1, <2>2 DEF OnItsWay
<1>2. Noted'
  BY DEF RelinkInv, Noted
<1>3. Dials' /\ ComesBackForAReason' /\ link' \in Nat \ {0}
  BY DEF RelinkInv, Dials, ComesBackForAReason, Reason
<1> QED BY <1>1, <1>2, <1>3 DEF RelinkInv

\* The client decides: what it comes back for was noted of this link.
LEMMA HoldEndsKeeps ==
  ASSUME RelinkInv, HoldEnds
  PROVE  RelinkInv'
<1> USE DEF network, HoldEnds
<1>1. OnItsWay'
  BY DEF RelinkInv, OnItsWay
<1>2. Noted'
  BY DEF RelinkInv, Noted
<1>3. at' = "waiting" => Reason(link)
  BY DEF RelinkInv, Noted, Reason
<1>4. Dials' /\ ComesBackForAReason' /\ link' \in Nat \ {0}
  BY <1>3 DEF RelinkInv, Dials, ComesBackForAReason, Reason
<1> QED BY <1>1, <1>2, <1>4 DEF RelinkInv

LEMMA DialConnectsKeeps ==
  ASSUME RelinkInv, DialConnects
  PROVE  RelinkInv'
<1> USE DEF network, DialConnects
<1>1. OnItsWay'
  BY DEF RelinkInv, OnItsWay
<1>2. Noted'
  BY DEF RelinkInv, Noted
<1>3. Dials' /\ ComesBackForAReason' /\ link' \in Nat \ {0}
  BY DEF RelinkInv, Dials, ComesBackForAReason, Reason
<1> QED BY <1>1, <1>2, <1>3 DEF RelinkInv

\* The machine wakes up over the link that is held.
LEMMA SleepKeeps ==
  ASSUME RelinkInv, Sleep
  PROVE  RelinkInv'
<1>1. OnItsWay'
  BY DEF RelinkInv, OnItsWay, Sleep
<1>2. Noted'
  BY DEF RelinkInv, Noted, Sleep
<1>3. Dials' /\ ComesBackForAReason' /\ link' \in Nat \ {0}
  BY DEF RelinkInv, Dials, ComesBackForAReason, Reason, Sleep
<1> QED BY <1>1, <1>2, <1>3 DEF RelinkInv

LEMMA RelinkInductive == Init /\ [][Next]_vars => []RelinkInv
<1>1. RelinkInv /\ [Next]_vars => RelinkInv'
  BY ServerKeeps, ReadNoticeKeeps, ClientWaitsKeeps, LinkEndsKeeps, HoldEndsKeeps,
     DialConnectsKeeps, SleepKeeps DEF Next
<1> QED BY <1>1, RelinkInit, PTL

\* A client attaches again only behind a link that broke or was slept on, or to
\* a server that said it restarts: `hold_one` and `hold` take no clean end for
\* a loss, and no reason of an earlier link for one of a later.
THEOREM ClientsComeBackForAReason == Spec => []ComesBackForAReason
BY RelinkInductive, PTL DEF Spec, RelinkInv
===============================================================================
