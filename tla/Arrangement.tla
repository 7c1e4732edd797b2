------------------------------ MODULE Arrangement ------------------------------
(***************************************************************************)
(* The sessions of a server, the windows each holds in its order or in its *)
(* pen of unlinked windows, the panes in them, and which window each       *)
(* client looks at.  Every command is one turn of the loop: what runs      *)
(* between two commands is another client's command or the end of a        *)
(* program.                                                                *)
(*                                                                         *)
(* Who stands where in an order is WindowOrder's: here an order is a set,  *)
(* and a client that loses its window lands on any other window of it.     *)
(* The split tree of a window is its set of panes, and any of the others   *)
(* has the focus after the active one goes.                                *)
(***************************************************************************)
EXTENDS Integers, FiniteSets

CONSTANTS
  Clients,       \* the attached clients
  MaxSessions,   \* sessions made, at most
  MaxWindows,    \* windows made, at most
  MaxPanes,      \* panes made, at most
  Across         \* a move-pane may name what another session, or a pen, holds

ASSUME ArrangementAssumption ==
  /\ MaxSessions \in Nat \ {0} /\ MaxWindows \in Nat \ {0} /\ MaxPanes \in Nat \ {0}
  /\ Across \in BOOLEAN

Sessions == 1..MaxSessions
Windows == 1..MaxWindows
Panes == 1..MaxPanes
None == 0

VARIABLES
  sessions,    \* the sessions of the server
  stopped,     \* the last session went: the server stops
  on,          \* per client: its session
  order,       \* per session: the windows of its order
  pen,         \* per session: the windows unlink-window took out
  holds,       \* per window: its panes
  active,      \* per window: its active pane
  looks,       \* per session and client: the window it looks at, or None before it looked
  program,     \* per pane: "none" before it is made, "running", "hungUp" or "ended"
  killedIn,    \* per pane: the session kill-pane took it out of, until its program ends
  made,        \* how many sessions and windows were made
  emptied      \* the sessions whose order was ever empty since they were made

serving == <<sessions, stopped, on>>
panes == <<holds, active>>
programs == <<program, killedIn>>
vars == <<serving, order, pen, panes, looks, programs, made, emptied>>

TypeOK ==
  /\ sessions \subseteq Sessions /\ sessions # {}
  /\ stopped \in BOOLEAN
  /\ on \in [Clients -> Sessions]
  /\ order \in [Sessions -> SUBSET Windows]
  /\ pen \in [Sessions -> SUBSET Windows]
  /\ holds \in [Windows -> SUBSET Panes]
  /\ active \in [Windows -> Panes \cup {None}]
  /\ looks \in [Sessions -> [Clients -> Windows \cup {None}]]
  /\ program \in [Panes -> {"none", "running", "hungUp", "ended"}]
  /\ killedIn \in [Panes -> Sessions \cup {None}]
  /\ made \in [sessions : 1..MaxSessions, windows : 1..MaxWindows]
  /\ emptied \subseteq Sessions

\* `startup`: the first session holds one window of one pane.
Init ==
  /\ sessions = {1} /\ stopped = FALSE
  /\ on = [c \in Clients |-> 1]
  /\ order = [s \in Sessions |-> IF s = 1 THEN {1} ELSE {}]
  /\ pen = [s \in Sessions |-> {}]
  /\ holds = [w \in Windows |-> IF w = 1 THEN {1} ELSE {}]
  /\ active = [w \in Windows |-> IF w = 1 THEN 1 ELSE None]
  /\ looks = [s \in Sessions |-> [c \in Clients |-> None]]
  /\ program = [p \in Panes |-> IF p = 1 THEN "running" ELSE "none"]
  /\ killedIn = [p \in Panes |-> None]
  /\ made = [sessions |-> 1, windows |-> 1]
  /\ emptied = {}

-----------------------------------------------------------------------------
(* Which window a client looks at *)

\* `focus_next_window` from w, and the windows a client left before w.
Others(ord, w) == IF ord = {w} THEN {w} ELSE ord \ {w}

\* `get_active_window_for`: None of an empty order.  A client that has not
\* looked lands on the window the session was last on, which may be any, and
\* the window a client looked at is not looked for in the order again.
Looking(s, c, ord) ==
  IF ord = {} THEN {None}
  ELSE IF looks[s][c] # None THEN {looks[s][c]}
  ELSE ord

\* `set_active_window` of the client whose turn it is.
Look(s, c, w) == looks' = [looks EXCEPT ![s][c] = w]

\* Where the clients that look at a window of `closing` go when it leaves the
\* order: each of them to another window, one after the other.
Away(s, closing) ==
  {to \in [{c \in Clients : looks[s][c] \in closing} -> Windows] :
     \A c \in DOMAIN to : to[c] \in Others(order[s], looks[s][c])}

Turned(s, to) == [c \in Clients |-> IF c \in DOMAIN to THEN to[c] ELSE looks[s][c]]

LookAway_KeepsLooking(s, closing) == looks' = looks

LookAway(s, closing) ==
  \E to \in Away(s, closing) : looks' = [looks EXCEPT ![s] = Turned(s, to)]

Emptying(s) == emptied' = IF order'[s] = {} THEN emptied \cup {s} ELSE emptied

-----------------------------------------------------------------------------
(* Panes out of their windows, and sessions off the server *)

\* `Window.remove_pane`: a window that loses its active pane has the focus on
\* another one.
Refocus ==
  LET lost == {w \in Windows : holds'[w] # {} /\ active[w] \notin holds'[w]} IN
  \E heir \in [lost -> Panes] :
    /\ \A w \in lost : heir[w] \in holds'[w]
    /\ active' = [w \in Windows |-> IF holds'[w] = {} THEN None ELSE IF w \in lost THEN heir[w] ELSE active[w]]

\* The windows of s that hold nothing but `gone`.
Closing(s, gone) == {w \in order[s] : holds[w] \subseteq gone}

Without(s, gone) == [w \in Windows |-> IF w \in order[s] THEN holds[w] \ gone ELSE holds[w]]

TakePanes_KeepsTheWindow(s, gone) ==
  /\ holds' = Without(s, gone)
  /\ Refocus
  /\ UNCHANGED <<order, looks, emptied>>

\* `Arrangement.remove_pane` for each of the panes in `gone`: a window left
\* empty closes.
TakePanes(s, gone) ==
  /\ holds' = Without(s, gone)
  /\ Refocus
  /\ order' = [order EXCEPT ![s] = @ \ Closing(s, gone)]
  /\ Emptying(s)
  /\ LookAway(s, Closing(s, gone))

\* `remove_session`: its clients go to a session that holds a window, and
\* the last session stays while the server stops.
RemoveSession(s) ==
  LET others == sessions \ {s}
      holding == {t \in others : order'[t] # {}}
  IN IF others = {}
     THEN stopped' = TRUE /\ UNCHANGED <<sessions, on>>
     ELSE /\ sessions' = others /\ stopped' = stopped
          /\ \E t \in IF holding # {} THEN holding ELSE others :
               on' = [c \in Clients |-> IF on[c] = s THEN t ELSE on[c]]

\* `end_if_empty`.
EndIfEmpty(s) ==
  IF s \in sessions /\ \A w \in order'[s] : holds'[w] = {}
  THEN RemoveSession(s) ELSE UNCHANGED serving

\* `_place_of`: the sessions whose windows hold a pane.
Holding(p) == {s \in sessions : \E w \in order[s] : p \in holds[w]}

Shown == UNION {order[s] : s \in sessions}

-----------------------------------------------------------------------------
(* The commands.  Each is one client's, whose session is on[c]. *)

Serving == ~stopped

\* A pane not made yet, in number order.
Fresh(p) == program[p] = "none" /\ \A q \in Panes : q < p => program[q] # "none"
Run(p) == program' = [program EXCEPT ![p] = "running"] /\ UNCHANGED killedIn

\* `Arrangement.create_window`: w, of one pane, in the order of s.
CreateWindow(s, w, p) ==
  /\ w = made.windows + 1 /\ w \in Windows
  /\ order' = [order EXCEPT ![s] = @ \cup {w}]
  /\ holds' = [holds EXCEPT ![w] = {p}]
  /\ active' = [active EXCEPT ![w] = p]
  /\ UNCHANGED <<pen, emptied>>

\* `new-window`.  With `-d` the new window was looked at, and left.
NewWindow(c, s, p, d) ==
  /\ Serving /\ s \in sessions /\ Fresh(p) /\ Run(p)
  /\ \E w \in Windows, at \in Looking(s, c, order[s]) :
       /\ CreateWindow(s, w, p)
       /\ made' = [made EXCEPT !.windows = w]
       /\ Look(s, c, IF d /\ at # None THEN at ELSE w)
  /\ UNCHANGED serving

\* `new-session`, which takes the client along unless it was told `-d`.
NewSession(c, p, d) ==
  LET s == made.sessions + 1 IN
  /\ Serving /\ s \in Sessions /\ Fresh(p) /\ Run(p)
  /\ \E w \in Windows :
       /\ CreateWindow(s, w, p)
       /\ made' = [sessions |-> s, windows |-> w]
       /\ Look(s, c, w)
  /\ sessions' = sessions \cup {s}
  /\ on' = IF d THEN on ELSE [on EXCEPT ![c] = s]
  /\ UNCHANGED stopped

\* `split-window`: the new pane takes the focus unless `-d`.
SplitWindow(w, p, d) ==
  /\ Serving /\ w \in Shown /\ Fresh(p) /\ Run(p)
  /\ holds' = [holds EXCEPT ![w] = @ \cup {p}]
  /\ active' = IF d THEN active ELSE [active EXCEPT ![w] = p]
  /\ UNCHANGED <<serving, order, pen, looks, made, emptied>>

\* `select-pane` and `last-pane`.
SelectPane(w, p) ==
  /\ Serving /\ w \in Shown /\ p \in holds[w] /\ p # active[w]
  /\ active' = [active EXCEPT ![w] = p]
  /\ UNCHANGED <<serving, order, pen, holds, looks, programs, made, emptied>>

\* `select-window`, and inside a session `next-window`, `previous-window` and
\* `last-window`: a window of another session takes the client with it.
SelectWindow(c, w) ==
  /\ Serving
  /\ \E s \in sessions :
       /\ w \in order[s]
       /\ Look(s, c, w)
       /\ on' = [on EXCEPT ![c] = s]
  /\ UNCHANGED <<sessions, stopped, order, pen, panes, programs, made, emptied>>

\* A client draws: it looks at the window it lands on.
Draw(c) ==
  LET s == on[c] IN
  /\ Serving /\ looks[s][c] = None
  /\ \E w \in Looking(s, c, order[s]) \ {None} : looks' = [looks EXCEPT ![s][c] = w]
  /\ UNCHANGED <<serving, order, pen, panes, programs, made, emptied>>

\* `switch-client` and `attach-session`.
SwitchClient(c, s) ==
  /\ Serving /\ s \in sessions \ {on[c]}
  /\ on' = [on EXCEPT ![c] = s]
  /\ UNCHANGED <<sessions, stopped, order, pen, panes, looks, programs, made, emptied>>

\* `unlink-window`, which refuses the last window of the client's session.
UnlinkWindow(c, w) ==
  LET s == on[c] IN
  /\ Serving /\ w \in order[s] /\ order[s] # {w}
  /\ LookAway(s, {w})
  /\ order' = [order EXCEPT ![s] = @ \ {w}]
  /\ pen' = [pen EXCEPT ![s] = @ \cup {w}]
  /\ UNCHANGED <<serving, panes, programs, made, emptied>>

LinkWindow_StaysInThePen(c, w, s) ==
  /\ Serving /\ s \in sessions /\ w \in pen[on[c]]
  /\ order' = [order EXCEPT ![s] = @ \cup {w}]
  /\ Look(s, c, w)
  /\ UNCHANGED <<serving, pen, panes, programs, made, emptied>>

\* `link-window` of a window in the pen of the client's session, into the
\* order of s.  (Of a window in the order it only moves and selects it.)
LinkWindow(c, w, s) ==
  /\ Serving /\ s \in sessions /\ w \in pen[on[c]]
  /\ order' = [order EXCEPT ![s] = @ \cup {w}]
  /\ pen' = [pen EXCEPT ![on[c]] = @ \ {w}]
  /\ Look(s, c, w)
  /\ UNCHANGED <<serving, panes, programs, made, emptied>>

\* `move_window_to`, for move-window and link-window across sessions: who
\* looks at the window goes to another one first, and the client that moved
\* it looks at it where it lands.  The last window may leave.
MoveWindowTo(c, w, src, s) ==
  /\ Serving /\ s \in sessions /\ src \in sessions \ {s} /\ w \in order[src]
  /\ order' = [order EXCEPT ![src] = @ \ {w}, ![s] = @ \cup {w}]
  /\ Emptying(src)
  /\ \E to \in Away(src, {w}) : looks' = [looks EXCEPT ![src] = Turned(src, to), ![s][c] = w]
  /\ UNCHANGED <<serving, pen, panes, programs, made>>

\* `break-pane`: the active pane of a window of several gets its own.
BreakPane(c, d) ==
  LET s == on[c] IN
  /\ Serving
  /\ \E at \in Looking(s, c, order[s]) \ {None}, w \in Windows :
       /\ Cardinality(holds[at]) > 1 /\ w = made.windows + 1
       /\ made' = [made EXCEPT !.windows = w]
       /\ order' = [order EXCEPT ![s] = @ \cup {w}]
       /\ holds' = [holds EXCEPT ![at] = @ \ {active[at]}, ![w] = {active[at]}]
       /\ Refocus
       /\ IF d THEN UNCHANGED looks ELSE Look(s, c, w)
  /\ UNCHANGED <<serving, pen, programs, emptied>>

\* `move-pane` and `join-pane`: the pane is taken out of the windows of the
\* client's session, wherever it is, and is the active one where it lands.
MovePane(c, p, w, d) ==
  LET s == on[c]
      closing == {v \in Closing(s, {p}) : holds[v] # {}}
  IN
  /\ Serving /\ program[p] # "none" /\ p \notin holds[w]
  /\ w \in IF Across THEN Shown ELSE order[s]
  /\ Across \/ s \in Holding(p)
  /\ holds' = [Without(s, {p}) EXCEPT ![w] = @ \cup {p}]
  /\ \E heir \in Panes :
       /\ active' = [v \in Windows |-> IF v = w THEN p ELSE IF holds'[v] = {} THEN None
                                       ELSE IF active[v] = p THEN heir ELSE active[v]]
       /\ \A v \in Windows : active[v] = p /\ holds'[v] # {} => active'[v] \in holds'[v]
  /\ order' = [order EXCEPT ![s] = @ \ closing]
  /\ Emptying(s)
  /\ IF d THEN LookAway(s, closing)
     ELSE \E to \in Away(s, closing) :
            looks' = [looks EXCEPT ![s] = [Turned(s, to) EXCEPT ![c] = w]]
  /\ UNCHANGED <<serving, pen, programs, made>>

\* A program that runs is hung up, and the session it was in is remembered
\* until it ends.
HangUp(s, gone) ==
  /\ program' = [p \in Panes |-> IF p \in gone /\ program[p] = "running" THEN "hungUp" ELSE program[p]]
  /\ killedIn' = [p \in Panes |-> IF p \in gone /\ program[p] # "ended" THEN s ELSE killedIn[p]]

\* `Panes.kill_pane` for the panes in `gone`, of one window of s: they are
\* out of the window, and a program that runs is hung up.  A pane whose
\* program had ended takes the session along, if it was the last one.
Kill(s, gone) ==
  /\ TakePanes(s, gone)
  /\ HangUp(s, gone)
  /\ \E p \in gone : IF program[p] = "ended" THEN EndIfEmpty(s) ELSE UNCHANGED serving
  /\ UNCHANGED <<pen, made>>

\* `kill-pane`: of a pane no order shows, only the program is hung up.
KillPane(p) ==
  /\ Serving /\ program[p] # "none"
  /\ \/ \E s \in Holding(p) : Kill(s, {p})
     \/ /\ Holding(p) = {} /\ program[p] = "running"
        /\ program' = [program EXCEPT ![p] = "hungUp"]
        /\ UNCHANGED <<serving, order, pen, panes, looks, killedIn, made, emptied>>

\* `kill-window`: every pane of a window, in one turn.
KillWindow(w) ==
  /\ Serving
  /\ \E s \in sessions : w \in order[s] /\ Kill(s, holds[w])

\* `kill-session`: every pane its order shows, and the session.
KillSession(s) ==
  LET gone == UNION {holds[w] : w \in order[s]} IN
  /\ Serving /\ s \in sessions
  /\ order' = [order EXCEPT ![s] = {}]
  /\ emptied' = emptied \cup {s}
  /\ holds' = Without(s, gone)
  /\ Refocus
  /\ HangUp(s, gone)
  /\ RemoveSession(s)
  /\ UNCHANGED <<pen, looks, made>>

ProgramEnds_LooksOnlyWhereItIs(p) ==
  /\ Serving /\ program[p] \in {"running", "hungUp"}
  /\ program' = [program EXCEPT ![p] = "ended"]
  /\ killedIn' = [killedIn EXCEPT ![p] = None]
  /\ IF Holding(p) = {} THEN UNCHANGED <<serving, order, panes, looks, emptied>>
     ELSE \E s \in Holding(p) : TakePanes(s, {p}) /\ EndIfEmpty(s)
  /\ UNCHANGED <<pen, made>>

\* A program ended: `take_ended_pane` takes its pane out of the session whose
\* order shows it, or the session kill-pane took it out of.
ProgramEnds(p) ==
  /\ Serving /\ program[p] \in {"running", "hungUp"}
  /\ program' = [program EXCEPT ![p] = "ended"]
  /\ killedIn' = [killedIn EXCEPT ![p] = None]
  /\ LET of == IF Holding(p) # {} THEN Holding(p) ELSE {killedIn[p]} \ {None} IN
     \/ /\ of = {}
        /\ UNCHANGED <<serving, order, panes, looks, emptied>>
     \/ \E s \in of : TakePanes(s, {p}) /\ EndIfEmpty(s)
  /\ UNCHANGED <<pen, made>>

-----------------------------------------------------------------------------

\* The commands that make or move what a session shows.
Arrange(c) ==
  \/ \E s \in Sessions, p \in Panes, d \in BOOLEAN : NewWindow(c, s, p, d)
  \/ \E p \in Panes, d \in BOOLEAN : NewSession(c, p, d)
  \/ \E w \in Windows, p \in Panes, d \in BOOLEAN : SplitWindow(w, p, d)
  \/ \E w \in Windows : UnlinkWindow(c, w)
  \/ \E w \in Windows, s \in Sessions : LinkWindow(c, w, s)
  \/ \E w \in Windows, src \in Sessions, s \in Sessions : MoveWindowTo(c, w, src, s)
  \/ \E d \in BOOLEAN : BreakPane(c, d)
  \/ \E w \in Windows, p \in Panes, d \in BOOLEAN : MovePane(c, p, w, d)

\* The commands that only look elsewhere, and the drawing of a frame.
LookElsewhere(c) ==
  \/ \E w \in Windows, p \in Panes : SelectPane(w, p)
  \/ \E w \in Windows : SelectWindow(c, w)
  \/ Draw(c)
  \/ \E s \in Sessions : SwitchClient(c, s)

\* What ends a pane, and what it empties.
End ==
  \/ \E p \in Panes : KillPane(p)
  \/ \E w \in Windows : KillWindow(w)
  \/ \E s \in Sessions : KillSession(s)
  \/ \E p \in Panes : ProgramEnds(p)

Next == (\E c \in Clients : Arrange(c) \/ LookElsewhere(c)) \/ End

Spec == Init /\ [][Next]_vars

-----------------------------------------------------------------------------
\* A pane is in one window at most, and a window in one order or one pen:
\* "A pane belongs to one session" (`session_holding`, main.py).
OneHome ==
  /\ \A v, w \in Windows : v # w => holds[v] \cap holds[w] = {}
  /\ \A s, t \in Sessions : s # t => (order[s] \cup pen[s]) \cap (order[t] \cup pen[t]) = {}
  /\ \A s \in Sessions : order[s] \cap pen[s] = {}

\* A window of a session that is on has panes, and the pane that has its
\* focus is one of them: a layout is built of it, and typed text goes there.
FocusIsInPlace ==
  \A s \in sessions : ~stopped => \A w \in order[s] : active[w] \in holds[w]

\* In a session whose order was never empty, each client that looked looks
\* at a window of the order, however many other clients close, move and
\* unlink the window it is on.
LooksAtItsOwn ==
  \A s \in sessions \ emptied, c \in Clients : looks[s][c] \in order[s] \cup {None}

\* A session whose panes were killed goes with the program that was in the
\* last of them, unless it got a window in the meantime: no step leaves it
\* empty with nothing to wait for.
GoesWithItsPrograms ==
  \A s \in sessions :
    (order[s] = {} /\ (\E p \in Panes : killedIn[p] = s) /\ \A p \in Panes : killedIn'[p] # s)
      => s \notin sessions' \/ order'[s] # {} \/ stopped'
NoEmptySessionStays == [][GoesWithItsPrograms]_vars

=============================================================================
