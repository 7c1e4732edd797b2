-------------------------- MODULE Arrangement_proofs --------------------------
(***************************************************************************)
(* Every pane and every window has one place, and the focus of a window is *)
(* on a pane of it, for any clients and any number of sessions, windows    *)
(* and panes, where no move-pane names what another session holds.  And    *)
(* the windows of a session stand in the order of their indexes, for any   *)
(* number of windows, any base-index and any indexes a command names.      *)
(***************************************************************************)
EXTENDS Arrangement, WindowOrder, FiniteSetTheorems, SequenceTheorems, WellFoundedInduction, TLAPS

\* The windows that s holds, in its order or its pen.
Has(s) == order[s] \cup pen[s]

\* A window that a session holds was made, and has panes.
Furnished == \A s \in Sessions : \A w \in Has(s) : w <= made.windows /\ holds[w] # {}

\* A pane that a window holds was made.
Peopled == \A w \in Windows : \A p \in holds[w] : program[p] # "none"

\* A window that has panes has the focus on one of them, also out of sight.
Focused == \A w \in Windows : holds[w] # {} => active[w] \in holds[w]

HomeInv == TypeOK /\ OneHome /\ Furnished /\ Peopled /\ Focused

LEMMA HomeInit == Init => HomeInv
<1> SUFFICES ASSUME Init PROVE HomeInv
  OBVIOUS
<1> USE ArrangementAssumption DEF Init, Sessions, Windows, Panes, None
<1>1. TypeOK
  <2>1. 1 \in Sessions /\ 1 \in Windows /\ 1 \in Panes
    OBVIOUS
  <2>2. order \in [Sessions -> SUBSET Windows] /\ pen \in [Sessions -> SUBSET Windows]
    BY <2>1
  <2>3. holds \in [Windows -> SUBSET Panes] /\ active \in [Windows -> Panes \cup {None}]
    BY <2>1
  <2>4. program \in [Panes -> {"none", "running", "hungUp", "ended"}]
        /\ killedIn \in [Panes -> Sessions \cup {None}]
    BY <2>1
  <2>5. made \in [sessions : 1..MaxSessions, windows : 1..MaxWindows]
    BY <2>1
  <2>6. looks \in [Sessions -> [Clients -> Windows \cup {None}]] /\ on \in [Clients -> Sessions]
    BY <2>1
  <2> QED BY <2>1, <2>2, <2>3, <2>4, <2>5, <2>6 DEF TypeOK
<1>2. OneHome
  BY DEF OneHome
<1>3. Furnished
  <2>1. \A s \in Sessions : Has(s) = IF s = 1 THEN {1} ELSE {}
    BY DEF Has
  <2>2. made.windows = 1 /\ holds[1] = {1}
    OBVIOUS
  <2> SUFFICES ASSUME NEW s \in Sessions, NEW w \in Has(s) PROVE w <= made.windows /\ holds[w] # {}
    BY DEF Furnished
  <2>3. w = 1
    BY <2>1
  <2> HIDE DEF Init
  <2> QED BY <2>2, <2>3
<1>4. Peopled /\ Focused
  BY DEF Peopled, Focused
<1> QED BY <1>1, <1>2, <1>3, <1>4 DEF HomeInv

\* Where the focus goes when windows lose their active panes.
LEMMA RefocusKeeps ==
  ASSUME TypeOK, holds' \in [Windows -> SUBSET Panes], Refocus
  PROVE  active' \in [Windows -> Panes \cup {None}] /\ Focused'
BY DEF TypeOK, Refocus, Focused

\* Where the clients go that look at windows which leave an order.
LEMMA TurnedTypes ==
  ASSUME TypeOK, NEW s \in Sessions, NEW closing, NEW to \in Away(s, closing)
  PROVE  Turned(s, to) \in [Clients -> Windows \cup {None}]
<1>1. to \in [{c \in Clients : looks[s][c] \in closing} -> Windows]
  BY DEF Away
<1> QED BY <1>1 DEF TypeOK, Turned

LEMMA LookAwayTypes ==
  ASSUME TypeOK, NEW s \in Sessions, NEW closing, LookAway(s, closing)
  PROVE  looks' \in [Sessions -> [Clients -> Windows \cup {None}]]
<1>1. PICK to \in Away(s, closing) : looks' = [looks EXCEPT ![s] = Turned(s, to)]
  BY DEF LookAway
<1>2. Turned(s, to) \in [Clients -> Windows \cup {None}]
  BY TurnedTypes
<1> QED BY <1>1, <1>2 DEF TypeOK

LEMMA LookTypes ==
  ASSUME TypeOK, NEW s \in Sessions, NEW c \in Clients, NEW w \in Windows \cup {None}, Look(s, c, w)
  PROVE  looks' \in [Sessions -> [Clients -> Windows \cup {None}]]
BY DEF TypeOK, Look

LEMMA LookingTypes ==
  ASSUME TypeOK, NEW s \in Sessions, NEW c \in Clients
  PROVE  Looking(s, c, order[s]) \subseteq Windows \cup {None}
BY DEF TypeOK, Looking

\* A session goes, or the server stops.
LEMMA RemoveSessionTypes ==
  ASSUME TypeOK, NEW s \in Sessions, RemoveSession(s)
  PROVE  sessions' \subseteq Sessions /\ sessions' # {} /\ stopped' \in BOOLEAN /\ on' \in [Clients -> Sessions]
<1>0. /\ sessions \subseteq Sessions /\ sessions # {} /\ stopped \in BOOLEAN
      /\ on \in [Clients -> Sessions]
  BY DEF TypeOK
<1>1. CASE sessions \ {s} = {}
  BY <1>0, <1>1 DEF RemoveSession
<1>2. CASE sessions \ {s} # {}
  <2>1. sessions' = sessions \ {s} /\ stopped' = stopped
    BY <1>2 DEF RemoveSession
  <2>2. PICK t \in sessions \ {s} : on' = [c \in Clients |-> IF on[c] = s THEN t ELSE on[c]]
    BY <1>2 DEF RemoveSession
  <2>3. on' \in [Clients -> Sessions]
    BY <1>0, <2>2
  <2> QED BY <1>0, <1>2, <2>1, <2>3
<1> QED BY <1>1, <1>2

LEMMA EndIfEmptyTypes ==
  ASSUME TypeOK, NEW s \in Sessions, EndIfEmpty(s)
  PROVE  sessions' \subseteq Sessions /\ sessions' # {} /\ stopped' \in BOOLEAN /\ on' \in [Clients -> Sessions]
BY RemoveSessionTypes DEF EndIfEmpty, TypeOK, serving

\* The panes in `gone` leave the windows of one session, and the windows they
\* leave empty close.
LEMMA TakePanesKeeps ==
  ASSUME HomeInv, NEW s \in Sessions, NEW gone, TakePanes(s, gone),
         UNCHANGED <<pen, made>>, \A p \in Panes : program[p] # "none" => program'[p] # "none"
  PROVE  /\ order' \in [Sessions -> SUBSET Windows] /\ holds' \in [Windows -> SUBSET Panes]
         /\ active' \in [Windows -> Panes \cup {None}]
         /\ looks' \in [Sessions -> [Clients -> Windows \cup {None}]]
         /\ emptied' \subseteq Sessions
         /\ OneHome' /\ Furnished' /\ Peopled' /\ Focused'
<1> USE DEF HomeInv
<1>1. order' \in [Sessions -> SUBSET Windows] /\ holds' \in [Windows -> SUBSET Panes]
  BY DEF TakePanes, TypeOK, Without
<1>2. active' \in [Windows -> Panes \cup {None}] /\ Focused'
  BY <1>1, RefocusKeeps DEF TakePanes
<1>3. looks' \in [Sessions -> [Clients -> Windows \cup {None}]]
  BY LookAwayTypes DEF TakePanes
<1>4. emptied' \subseteq Sessions
  BY DEF TakePanes, Emptying, TypeOK
<1>5. \A w \in Windows : holds'[w] \subseteq holds[w]
  BY DEF TakePanes, Without, TypeOK
<1>6. \A t \in Sessions : order'[t] \subseteq order[t] /\ (t # s => order'[t] = order[t])
  BY DEF TakePanes, TypeOK
<1>7. OneHome'
  BY <1>5, <1>6 DEF OneHome
<1>8. Peopled'
  BY <1>1, <1>5 DEF Peopled, TypeOK
<1>9. Furnished'
  <2> SUFFICES ASSUME NEW t \in Sessions, NEW w \in Has(t)' PROVE w <= made'.windows /\ holds'[w] # {}
    BY DEF Furnished
  <2>1. w \in Has(t) /\ w \in Windows
    BY <1>6 DEF Has, TypeOK
  <2>2. w <= made'.windows
    BY <2>1 DEF Furnished
  <2>3. CASE w \in order[s]
    <3>1. t = s
      BY <2>1, <2>3 DEF OneHome, Has
    <3>2. w \notin Closing(s, gone)
      BY <2>3, <3>1 DEF Has, TakePanes, TypeOK, OneHome
    <3>3. holds'[w] = holds[w] \ gone
      BY <2>1, <2>3 DEF TakePanes, Without
    <3> QED BY <2>2, <2>3, <3>2, <3>3 DEF Closing
  <2>4. CASE w \notin order[s]
    <3>1. holds'[w] = holds[w]
      BY <2>1, <2>4 DEF TakePanes, Without
    <3> QED BY <2>1, <2>2, <3>1 DEF Furnished
  <2> QED BY <2>3, <2>4
<1> QED BY <1>1, <1>2, <1>3, <1>4, <1>7, <1>8, <1>9

\* A new window of one new pane, at the end of what was made.
LEMMA CreateWindowKeeps ==
  ASSUME HomeInv, NEW s \in Sessions, NEW w, NEW p \in Panes,
         CreateWindow(s, w, p), Fresh(p), Run(p), made'.windows = w
  PROVE  /\ order' \in [Sessions -> SUBSET Windows] /\ holds' \in [Windows -> SUBSET Panes]
         /\ active' \in [Windows -> Panes \cup {None}] /\ pen' = pen /\ emptied' = emptied
         /\ program' \in [Panes -> {"none", "running", "hungUp", "ended"}] /\ killedIn' = killedIn
         /\ w \in Windows /\ OneHome' /\ Furnished' /\ Peopled' /\ Focused'
<1> USE DEF HomeInv
<1>1. w \in Windows /\ w = made.windows + 1 /\ made.windows \in Nat
  BY DEF CreateWindow, TypeOK
<1>2. order' \in [Sessions -> SUBSET Windows] /\ holds' \in [Windows -> SUBSET Panes]
      /\ active' \in [Windows -> Panes \cup {None}]
      /\ program' \in [Panes -> {"none", "running", "hungUp", "ended"}]
  BY <1>1 DEF CreateWindow, TypeOK, Run
<1>3. \A t \in Sessions : w \notin Has(t)
  BY <1>1 DEF Furnished
<1>4. \A v \in Windows : p \notin holds[v]
  BY DEF Peopled, Fresh
<1>5. \A v \in Windows : holds'[v] = IF v = w THEN {p} ELSE holds[v]
  BY <1>1 DEF CreateWindow, TypeOK
<1>6. \A t \in Sessions : order'[t] = IF t = s THEN order[s] \cup {w} ELSE order[t]
  BY DEF CreateWindow, TypeOK
<1>7. pen' = pen
  BY DEF CreateWindow
<1>8. OneHome'
  <2>1. \A u, v \in Windows : u # v => holds'[u] \cap holds'[v] = {}
    BY <1>4, <1>5 DEF OneHome
  <2>2. \A t, u \in Sessions : t # u => (order'[t] \cup pen'[t]) \cap (order'[u] \cup pen'[u]) = {}
    BY <1>3, <1>6, <1>7 DEF OneHome, Has
  <2>3. \A t \in Sessions : order'[t] \cap pen'[t] = {}
    BY <1>3, <1>6, <1>7 DEF OneHome, Has
  <2> QED BY <2>1, <2>2, <2>3 DEF OneHome
<1>9. Furnished'
  <2> SUFFICES ASSUME NEW t \in Sessions, NEW v \in Has(t)' PROVE v <= made'.windows /\ holds'[v] # {}
    BY DEF Furnished
  <2>1. v \in Windows /\ (v = w \/ v \in Has(t))
    BY <1>1, <1>2, <1>6, <1>7 DEF Has, TypeOK
  <2>2. CASE v = w
    <3>1. made'.windows = v /\ v \in Int
      BY <1>1, <2>2
    <3>2. holds'[v] = {p}
      BY <1>5, <2>1, <2>2
    <3> QED BY <3>1, <3>2
  <2>3. CASE v # w
    <3>1. v <= made.windows /\ holds[v] # {}
      BY <2>1, <2>3 DEF Furnished
    <3>2. v \in Int /\ made'.windows = made.windows + 1
      BY <1>1, <2>1 DEF Windows
    <3>3. v <= made'.windows
      BY <1>1, <3>1, <3>2
    <3> QED BY <1>5, <2>1, <2>3, <3>1, <3>3
  <2> QED BY <2>2, <2>3
<1>10. Peopled'
  <2>1. \A q \in Panes : program'[q] = IF q = p THEN "running" ELSE program[q]
    BY DEF Run, TypeOK
  <2> QED BY <1>2, <1>5, <2>1 DEF Peopled
<1>11. Focused'
  <2>1. \A v \in Windows : active'[v] = IF v = w THEN p ELSE active[v]
    BY <1>1 DEF CreateWindow, TypeOK
  <2> QED BY <1>5, <2>1 DEF Focused
<1> QED BY <1>1, <1>2, <1>7, <1>8, <1>9, <1>10, <1>11 DEF CreateWindow, Run

LEMMA NewWindowKeeps ==
  ASSUME HomeInv, NEW c \in Clients, NEW s \in Sessions, NEW p \in Panes, NEW d \in BOOLEAN,
         NewWindow(c, s, p, d)
  PROVE  HomeInv'
<1>1. PICK w \in Windows, at \in Looking(s, c, order[s]) :
        /\ CreateWindow(s, w, p)
        /\ made' = [made EXCEPT !.windows = w]
        /\ Look(s, c, IF d /\ at # None THEN at ELSE w)
  BY DEF NewWindow
<1>2. made'.windows = w /\ made' \in [sessions : 1..MaxSessions, windows : 1..MaxWindows]
  BY <1>1 DEF HomeInv, TypeOK, Windows
<1>3. looks' \in [Sessions -> [Clients -> Windows \cup {None}]]
  BY <1>1, LookTypes, LookingTypes DEF HomeInv
<1> QED BY <1>1, <1>2, <1>3, CreateWindowKeeps DEF HomeInv, TypeOK, NewWindow, serving

LEMMA NewSessionKeeps ==
  ASSUME HomeInv, NEW c \in Clients, NEW p \in Panes, NEW d \in BOOLEAN, NewSession(c, p, d)
  PROVE  HomeInv'
<1> DEFINE s == made.sessions + 1
<1>1. s \in Sessions
  BY DEF NewSession
<1>2. PICK w \in Windows :
        /\ CreateWindow(s, w, p)
        /\ made' = [sessions |-> s, windows |-> w]
        /\ Look(s, c, w)
  BY DEF NewSession
<1>3. made'.windows = w /\ made' \in [sessions : 1..MaxSessions, windows : 1..MaxWindows]
  BY <1>1, <1>2 DEF HomeInv, TypeOK, Windows, Sessions
<1>4. looks' \in [Sessions -> [Clients -> Windows \cup {None}]]
  BY <1>1, <1>2, LookTypes DEF HomeInv
<1>5. sessions' \subseteq Sessions /\ sessions' # {} /\ stopped' = stopped /\ on' \in [Clients -> Sessions]
  BY <1>1 DEF NewSession, HomeInv, TypeOK
<1>6. Fresh(p) /\ Run(p)
  BY DEF NewSession
<1> HIDE DEF s
<1> QED BY <1>1, <1>2, <1>3, <1>4, <1>5, <1>6, CreateWindowKeeps DEF HomeInv, TypeOK

LEMMA SplitWindowKeeps ==
  ASSUME HomeInv, NEW w \in Windows, NEW p \in Panes, NEW d \in BOOLEAN, SplitWindow(w, p, d)
  PROVE  HomeInv'
<1> USE DEF HomeInv
<1>1. \A v \in Windows : p \notin holds[v]
  BY DEF Peopled, SplitWindow, Fresh
<1>2. \A v \in Windows : holds'[v] = IF v = w THEN holds[w] \cup {p} ELSE holds[v]
  BY DEF SplitWindow, TypeOK
<1>3. \A q \in Panes : program'[q] = IF q = p THEN "running" ELSE program[q]
  BY DEF SplitWindow, Run, TypeOK
<1>4. \A v \in Windows : active'[v] = active[v] \/ (v = w /\ active'[v] = p)
  BY DEF SplitWindow, TypeOK
<1>5. \E t \in Sessions : w \in Has(t)
  BY DEF SplitWindow, Shown, Has, TypeOK
<1>6. TypeOK'
  BY DEF TypeOK, SplitWindow, Run, serving
<1>7. OneHome'
  BY <1>1, <1>2 DEF OneHome, SplitWindow
<1>8. Furnished'
  BY <1>2 DEF Furnished, Has, SplitWindow, TypeOK
<1>9. Peopled'
  BY <1>2, <1>3 DEF Peopled, TypeOK
<1>10. Focused'
  BY <1>2, <1>4, <1>5 DEF Focused, Furnished
<1> QED BY <1>6, <1>7, <1>8, <1>9, <1>10

\* What moves no pane and no window.
LEMMA LooksKeep ==
  ASSUME HomeInv, NEW c \in Clients,
         \/ \E w \in Windows, p \in Panes : SelectPane(w, p)
         \/ \E w \in Windows : SelectWindow(c, w)
         \/ Draw(c)
         \/ \E s \in Sessions : SwitchClient(c, s)
  PROVE  HomeInv'
<1> USE DEF HomeInv
<1>1. CASE \E w \in Windows, p \in Panes : SelectPane(w, p)
  <2>1. PICK w \in Windows, p \in Panes : SelectPane(w, p)
    BY <1>1
  <2>2. TypeOK'
    BY <2>1 DEF SelectPane, TypeOK, serving, programs
  <2>3. OneHome' /\ Furnished' /\ Peopled'
    BY <2>1 DEF SelectPane, OneHome, Furnished, Has, Peopled, programs
  <2>4. Focused'
    BY <2>1 DEF SelectPane, Focused, TypeOK
  <2> QED BY <2>2, <2>3, <2>4
<1>2. CASE \E w \in Windows : SelectWindow(c, w)
  <2>1. PICK w \in Windows : SelectWindow(c, w)
    BY <1>2
  <2>2. PICK s \in sessions : w \in order[s] /\ Look(s, c, w) /\ on' = [on EXCEPT ![c] = s]
    BY <2>1 DEF SelectWindow
  <2>3. looks' \in [Sessions -> [Clients -> Windows \cup {None}]] /\ on' \in [Clients -> Sessions]
    BY <2>2, LookTypes DEF TypeOK
  <2> QED BY <2>1, <2>3
       DEF SelectWindow, TypeOK, OneHome, Furnished, Has, Peopled, Focused, programs, panes
<1>3. CASE Draw(c)
  <2>1. on[c] \in Sessions
    BY DEF TypeOK
  <2>2. looks' \in [Sessions -> [Clients -> Windows \cup {None}]]
    BY <1>3, <2>1, LookingTypes DEF Draw, TypeOK
  <2> QED BY <1>3, <2>2
       DEF Draw, TypeOK, OneHome, Furnished, Has, Peopled, Focused, programs, panes, serving
<1>4. CASE \E s \in Sessions : SwitchClient(c, s)
  BY <1>4 DEF SwitchClient, TypeOK, OneHome, Furnished, Has, Peopled, Focused, programs, panes
<1> QED BY <1>1, <1>2, <1>3, <1>4

\* What moves windows between orders and pens, and leaves their panes alone.
LEMMA MovedKeeps ==
  ASSUME HomeInv, UNCHANGED <<panes, programs, made>>,
         order' \in [Sessions -> SUBSET Windows], pen' \in [Sessions -> SUBSET Windows],
         UNION {Has(s)' : s \in Sessions} \subseteq UNION {Has(s) : s \in Sessions},
         \A s, t \in Sessions : s # t => (order'[s] \cup pen'[s]) \cap (order'[t] \cup pen'[t]) = {},
         \A s \in Sessions : order'[s] \cap pen'[s] = {}
  PROVE  OneHome' /\ Furnished' /\ Peopled' /\ Focused'
<1>1. OneHome'
  BY DEF HomeInv, OneHome, panes
<1>2. Furnished'
  BY DEF HomeInv, Furnished, panes
<1>3. Peopled' /\ Focused'
  BY DEF HomeInv, Peopled, Focused, panes, programs
<1> QED BY <1>1, <1>2, <1>3

LEMMA UnlinkWindowKeeps ==
  ASSUME HomeInv, NEW c \in Clients, NEW w \in Windows, UnlinkWindow(c, w)
  PROVE  HomeInv'
<1> DEFINE s == on[c]
<1>1. s \in Sessions /\ w \in order[s]
  BY DEF HomeInv, TypeOK, UnlinkWindow
<1>2. \A t \in Sessions : /\ order'[t] = IF t = s THEN order[s] \ {w} ELSE order[t]
                          /\ pen'[t] = IF t = s THEN pen[s] \cup {w} ELSE pen[t]
  BY DEF HomeInv, TypeOK, UnlinkWindow
<1>3. order' \in [Sessions -> SUBSET Windows] /\ pen' \in [Sessions -> SUBSET Windows]
  BY DEF HomeInv, TypeOK, UnlinkWindow
<1>4. looks' \in [Sessions -> [Clients -> Windows \cup {None}]]
  BY <1>1, LookAwayTypes DEF HomeInv, UnlinkWindow
<1> HIDE DEF s
<1>5. \A t \in Sessions : Has(t)' = Has(t)
  BY <1>1, <1>2 DEF Has
<1>6. OneHome' /\ Furnished' /\ Peopled' /\ Focused'
  <2>1. \A t, u \in Sessions : t # u => (order'[t] \cup pen'[t]) \cap (order'[u] \cup pen'[u]) = {}
    BY <1>5 DEF HomeInv, OneHome, Has
  <2>2. \A t \in Sessions : order'[t] \cap pen'[t] = {}
    BY <1>2 DEF HomeInv, OneHome
  <2> QED BY <1>3, <1>5, <2>1, <2>2, MovedKeeps DEF UnlinkWindow
<1> QED BY <1>3, <1>4, <1>6 DEF HomeInv, TypeOK, UnlinkWindow, serving, panes, programs

LEMMA LinkWindowKeeps ==
  ASSUME HomeInv, NEW c \in Clients, NEW w \in Windows, NEW s \in Sessions, LinkWindow(c, w, s)
  PROVE  HomeInv'
<1> DEFINE o == on[c]
<1>1. o \in Sessions /\ w \in pen[o]
  BY DEF HomeInv, TypeOK, LinkWindow
<1>2. \A t \in Sessions : /\ order'[t] = IF t = s THEN order[s] \cup {w} ELSE order[t]
                          /\ pen'[t] = IF t = o THEN pen[o] \ {w} ELSE pen[t]
  BY DEF HomeInv, TypeOK, LinkWindow
<1>3. order' \in [Sessions -> SUBSET Windows] /\ pen' \in [Sessions -> SUBSET Windows]
  BY DEF HomeInv, TypeOK, LinkWindow
<1>4. looks' \in [Sessions -> [Clients -> Windows \cup {None}]]
  BY LookTypes DEF HomeInv, LinkWindow
<1> HIDE DEF o
<1>5. \A t \in Sessions : w \in Has(t) => t = o
  BY <1>1 DEF HomeInv, OneHome, Has
<1>6. \A t \in Sessions : /\ order'[t] \cup pen'[t] \subseteq Has(t) \cup {w}
                          /\ w \in order'[t] \cup pen'[t] => t = s
  BY <1>1, <1>2, <1>5 DEF Has, HomeInv, OneHome
<1>7. OneHome' /\ Furnished' /\ Peopled' /\ Focused'
  <2>1. \A t, u \in Sessions : t # u => (order'[t] \cup pen'[t]) \cap (order'[u] \cup pen'[u]) = {}
    BY <1>6 DEF HomeInv, OneHome, Has
  <2>2. \A t \in Sessions : order'[t] \cap pen'[t] = {}
    BY <1>1, <1>2, <1>5 DEF HomeInv, OneHome, Has
  <2>3. UNION {Has(t)' : t \in Sessions} \subseteq UNION {Has(t) : t \in Sessions}
    BY <1>1, <1>6 DEF Has
  <2> QED BY <1>3, <2>1, <2>2, <2>3, MovedKeeps DEF LinkWindow
<1> QED BY <1>3, <1>4, <1>7 DEF HomeInv, TypeOK, LinkWindow, serving, panes, programs

LEMMA MoveWindowToKeeps ==
  ASSUME HomeInv, NEW c \in Clients, NEW w \in Windows, NEW src \in Sessions, NEW s \in Sessions,
         MoveWindowTo(c, w, src, s)
  PROVE  HomeInv'
<1>1. src # s /\ w \in order[src]
  BY DEF MoveWindowTo
<1>2. \A t \in Sessions :
        order'[t] = IF t = src THEN order[src] \ {w} ELSE IF t = s THEN order[s] \cup {w} ELSE order[t]
  BY <1>1 DEF HomeInv, TypeOK, MoveWindowTo
<1>3. order' \in [Sessions -> SUBSET Windows] /\ pen' = pen
  BY DEF HomeInv, TypeOK, MoveWindowTo
<1>4. looks' \in [Sessions -> [Clients -> Windows \cup {None}]]
  <2>1. PICK to \in Away(src, {w}) : looks' = [looks EXCEPT ![src] = Turned(src, to), ![s][c] = w]
    BY DEF MoveWindowTo
  <2>2. Turned(src, to) \in [Clients -> Windows \cup {None}]
    BY TurnedTypes DEF HomeInv
  <2> QED BY <1>1, <2>1, <2>2 DEF HomeInv, TypeOK
<1>5. emptied' \subseteq Sessions
  BY DEF MoveWindowTo, Emptying, HomeInv, TypeOK
<1>6. \A t \in Sessions : /\ order'[t] \cup pen'[t] \subseteq Has(t) \cup {w}
                          /\ w \in order'[t] \cup pen'[t] => t = s
  BY <1>1, <1>2, <1>3 DEF Has, HomeInv, OneHome
<1>7. OneHome' /\ Furnished' /\ Peopled' /\ Focused'
  <2>1. \A t, u \in Sessions : t # u => (order'[t] \cup pen'[t]) \cap (order'[u] \cup pen'[u]) = {}
    BY <1>6 DEF HomeInv, OneHome, Has
  <2>2. \A t \in Sessions : order'[t] \cap pen'[t] = {}
    BY <1>1, <1>2, <1>3 DEF HomeInv, OneHome
  <2>3. UNION {Has(t)' : t \in Sessions} \subseteq UNION {Has(t) : t \in Sessions}
    BY <1>1, <1>6 DEF Has
  <2>4. pen' \in [Sessions -> SUBSET Windows]
    BY <1>3 DEF HomeInv, TypeOK
  <2> QED BY <1>3, <2>1, <2>2, <2>3, <2>4, MovedKeeps DEF MoveWindowTo
<1> QED BY <1>3, <1>4, <1>5, <1>7 DEF HomeInv, TypeOK, MoveWindowTo, serving, panes, programs

LEMMA BreakPaneKeeps ==
  ASSUME HomeInv, NEW c \in Clients, NEW d \in BOOLEAN, BreakPane(c, d)
  PROVE  HomeInv'
<1> USE DEF HomeInv
<1> DEFINE s == on[c]
<1>1. s \in Sessions
  BY DEF TypeOK
<1>2. PICK at \in Looking(s, c, order[s]) \ {None}, w \in Windows :
        /\ Cardinality(holds[at]) > 1 /\ w = made.windows + 1
        /\ made' = [made EXCEPT !.windows = w]
        /\ order' = [order EXCEPT ![s] = @ \cup {w}]
        /\ holds' = [holds EXCEPT ![at] = @ \ {active[at]}, ![w] = {active[at]}]
        /\ Refocus
        /\ IF d THEN UNCHANGED looks ELSE Look(s, c, w)
  BY DEF BreakPane
<1> DEFINE p == active[at]
<1>3. at \in Windows
  BY <1>1, <1>2, LookingTypes
<1>4. p \in holds[at] /\ p \in Panes
  <2>1. holds[at] # {}
    BY <1>2, FS_EmptySet
  <2> QED BY <1>3, <2>1 DEF Focused, TypeOK
<1>5. holds[at] \ {p} # {}
  <2> SUFFICES ASSUME holds[at] \ {p} = {} PROVE FALSE
    OBVIOUS
  <2>1. holds[at] = {p}
    BY <1>4
  <2>2. Cardinality({p}) = 1
    BY FS_Singleton
  <2> HIDE DEF p
  <2> QED BY <1>2, <2>1, <2>2
<1>6. made.windows \in Nat /\ \A t \in Sessions : w \notin Has(t)
  BY <1>2 DEF Furnished, TypeOK
<1>7. holds' \in [Windows -> SUBSET Panes]
      /\ \A v \in Windows : holds'[v] = IF v = w THEN {p} ELSE IF v = at THEN holds[at] \ {p} ELSE holds[v]
  BY <1>2, <1>3, <1>4 DEF TypeOK
<1>8. order' \in [Sessions -> SUBSET Windows]
      /\ \A t \in Sessions : order'[t] = IF t = s THEN order[s] \cup {w} ELSE order[t]
  BY <1>1, <1>2 DEF TypeOK
<1>9. UNCHANGED <<serving, pen, programs, emptied>>
  BY DEF BreakPane
<1>10. TypeOK'
  <2>1. looks' \in [Sessions -> [Clients -> Windows \cup {None}]]
    BY <1>1, <1>2, LookTypes DEF TypeOK
  <2>2. active' \in [Windows -> Panes \cup {None}]
    BY <1>2, <1>7, RefocusKeeps
  <2>3. made' \in [sessions : 1..MaxSessions, windows : 1..MaxWindows]
    BY <1>2 DEF TypeOK, Windows
  <2> QED BY <1>7, <1>8, <1>9, <2>1, <2>2, <2>3 DEF TypeOK, serving, programs
<1> HIDE DEF s, p
<1>11. OneHome'
  <2>1. \A u, v \in Windows : u # v => holds'[u] \cap holds'[v] = {}
    BY <1>3, <1>4, <1>7 DEF OneHome
  <2>2. \A t, u \in Sessions : t # u => (order'[t] \cup pen'[t]) \cap (order'[u] \cup pen'[u]) = {}
    BY <1>6, <1>8, <1>9 DEF OneHome, Has
  <2>3. \A t \in Sessions : order'[t] \cap pen'[t] = {}
    BY <1>6, <1>8, <1>9 DEF OneHome, Has
  <2> QED BY <2>1, <2>2, <2>3 DEF OneHome
<1>12. Furnished'
  <2> SUFFICES ASSUME NEW t \in Sessions, NEW v \in Has(t)' PROVE v <= made'.windows /\ holds'[v] # {}
    BY DEF Furnished
  <2>1. v \in Windows /\ (v = w \/ v \in Has(t)) /\ v \in Int
    BY <1>8, <1>9 DEF Has, TypeOK, Windows
  <2>2. made'.windows = w /\ w = made.windows + 1
    BY <1>2 DEF TypeOK
  <2>3. v <= made'.windows
    BY <1>6, <2>1, <2>2 DEF Furnished
  <2>4. holds'[v] # {}
    BY <1>5, <1>7, <2>1 DEF Furnished
  <2> QED BY <2>3, <2>4
<1>13. Peopled'
  BY <1>3, <1>4, <1>7, <1>9 DEF Peopled, programs
<1>14. Focused'
  BY <1>2, <1>7, RefocusKeeps
<1> QED BY <1>10, <1>11, <1>12, <1>13, <1>14

\* A pane that is moved is taken from the windows of the session that holds it,
\* and no other window has it.
LEMMA MovePaneKeeps ==
  ASSUME HomeInv, ~Across, NEW c \in Clients, NEW w \in Windows, NEW p \in Panes, NEW d \in BOOLEAN,
         MovePane(c, p, w, d)
  PROVE  HomeInv'
<1> USE DEF HomeInv
<1> DEFINE s == on[c]
           closing == {v \in Closing(s, {p}) : holds[v] # {}}
<1>1. s \in Sessions /\ w \in order[s] /\ s \in Holding(p) /\ p \notin holds[w] /\ program[p] # "none"
  BY DEF MovePane, TypeOK
<1>2. PICK from \in order[s] : p \in holds[from]
  BY <1>1 DEF Holding
<1>3. from \in Windows /\ \A v \in Windows : p \in holds[v] => v = from
  BY <1>1, <1>2 DEF OneHome, TypeOK
<1>4. holds' \in [Windows -> SUBSET Panes]
      /\ \A v \in Windows : holds'[v] = IF v = w THEN holds[w] \cup {p} ELSE holds[v] \ {p}
  <2>1. Without(s, {p}) \in [Windows -> SUBSET Panes]
        /\ \A v \in Windows : Without(s, {p})[v] = holds[v] \ {p}
    BY <1>2, <1>3 DEF Without, TypeOK
  <2>2. holds' = [Without(s, {p}) EXCEPT ![w] = @ \cup {p}]
    BY DEF MovePane
  <2> QED BY <1>1, <2>1, <2>2
<1>5. active' \in [Windows -> Panes \cup {None}] /\ Focused'
  <2>1. PICK heir \in Panes :
          /\ active' = [v \in Windows |-> IF v = w THEN p ELSE IF holds'[v] = {} THEN None
                                          ELSE IF active[v] = p THEN heir ELSE active[v]]
          /\ \A v \in Windows : active[v] = p /\ holds'[v] # {} => active'[v] \in holds'[v]
    BY DEF MovePane
  <2>2. active' \in [Windows -> Panes \cup {None}]
    BY <2>1 DEF TypeOK
  <2>3. Focused'
    BY <1>4, <2>1 DEF Focused
  <2> QED BY <2>2, <2>3
<1>6. order' \in [Sessions -> SUBSET Windows] /\ pen' = pen
      /\ \A t \in Sessions : order'[t] = IF t = s THEN order[s] \ closing ELSE order[t]
  BY <1>1 DEF MovePane, TypeOK
<1>7. looks' \in [Sessions -> [Clients -> Windows \cup {None}]]
  <2>1. CASE d
    BY <1>1, <2>1, LookAwayTypes DEF MovePane
  <2>2. CASE ~d
    <3>1. PICK to \in Away(s, closing) : looks' = [looks EXCEPT ![s] = [Turned(s, to) EXCEPT ![c] = w]]
      BY <2>2 DEF MovePane
    <3>2. Turned(s, to) \in [Clients -> Windows \cup {None}]
      BY <1>1, TurnedTypes
    <3> QED BY <1>1, <3>1, <3>2 DEF TypeOK
  <2> QED BY <2>1, <2>2
<1>8. TypeOK'
  <2>1. emptied' \subseteq Sessions
    BY <1>1 DEF MovePane, Emptying, TypeOK
  <2>2. UNCHANGED <<serving, pen, programs, made>>
    BY DEF MovePane
  <2> HIDE DEF s, closing
  <2> QED BY <1>4, <1>5, <1>6, <1>7, <2>1, <2>2 DEF TypeOK, serving, programs
<1> HIDE DEF s
<1>9. OneHome'
  <2>1. \A u, v \in Windows : u # v => holds'[u] \cap holds'[v] = {}
    BY <1>4 DEF OneHome
  <2>2. \A t \in Sessions : order'[t] \subseteq order[t]
    BY <1>6
  <2> QED BY <1>6, <2>1, <2>2 DEF OneHome
<1>10. Furnished'
  <2> SUFFICES ASSUME NEW t \in Sessions, NEW v \in Has(t)' PROVE v <= made'.windows /\ holds'[v] # {}
    BY DEF Furnished
  <2>1. v \in Windows /\ v \in Has(t) /\ made' = made
    BY <1>6 DEF Has, TypeOK, MovePane
  <2>2. v <= made'.windows /\ holds[v] # {}
    BY <2>1 DEF Furnished
  <2>3. CASE v = w \/ v # from
    BY <1>3, <1>4, <2>1, <2>2, <2>3
  <2>4. CASE v # w /\ v = from
    <3>1. t = s
      BY <1>1, <1>2, <2>1, <2>4 DEF OneHome, Has
    <3>2. v \notin closing
      BY <1>1, <1>2, <1>6, <2>4, <3>1 DEF Has, OneHome
    <3>3. ~(holds[v] \subseteq {p})
      BY <1>2, <2>2, <2>4, <3>2 DEF Closing
    <3> QED BY <1>4, <2>1, <2>2, <2>4, <3>3
  <2> QED BY <2>3, <2>4
<1>11. Peopled'
  <2>1. program' = program
    BY DEF MovePane, programs
  <2> QED BY <1>1, <1>4, <2>1 DEF Peopled
<1> QED BY <1>5, <1>8, <1>9, <1>10, <1>11

\* A program that is hung up, or ended, was there.
LEMMA HangUpTypes ==
  ASSUME TypeOK, NEW s \in Sessions, NEW gone, HangUp(s, gone)
  PROVE  /\ program' \in [Panes -> {"none", "running", "hungUp", "ended"}]
         /\ killedIn' \in [Panes -> Sessions \cup {None}]
         /\ \A p \in Panes : program[p] # "none" => program'[p] # "none"
BY DEF TypeOK, HangUp

LEMMA KillKeeps ==
  ASSUME HomeInv, NEW s \in Sessions, NEW gone, Kill(s, gone)
  PROVE  HomeInv'
<1>1. /\ program' \in [Panes -> {"none", "running", "hungUp", "ended"}]
      /\ killedIn' \in [Panes -> Sessions \cup {None}]
      /\ \A p \in Panes : program[p] # "none" => program'[p] # "none"
  BY HangUpTypes DEF Kill, HomeInv
<1>2. sessions' \subseteq Sessions /\ sessions' # {} /\ stopped' \in BOOLEAN /\ on' \in [Clients -> Sessions]
  <2>1. CASE EndIfEmpty(s)
    BY <2>1, EndIfEmptyTypes DEF HomeInv
  <2>2. CASE UNCHANGED serving
    BY <2>2 DEF HomeInv, TypeOK, serving
  <2> QED BY <2>1, <2>2 DEF Kill
<1>3. TakePanes(s, gone) /\ UNCHANGED <<pen, made>>
  BY DEF Kill
<1>4. /\ order' \in [Sessions -> SUBSET Windows] /\ holds' \in [Windows -> SUBSET Panes]
      /\ active' \in [Windows -> Panes \cup {None}]
      /\ looks' \in [Sessions -> [Clients -> Windows \cup {None}]]
      /\ emptied' \subseteq Sessions
      /\ OneHome' /\ Furnished' /\ Peopled' /\ Focused'
  BY <1>1, <1>3, TakePanesKeeps
<1> QED BY <1>1, <1>2, <1>3, <1>4 DEF HomeInv, TypeOK

LEMMA KillPaneKeeps ==
  ASSUME HomeInv, NEW p \in Panes, KillPane(p)
  PROVE  HomeInv'
<1>1. CASE \E s \in Holding(p) : Kill(s, {p})
  <2>1. PICK s \in Sessions : Kill(s, {p})
    BY <1>1 DEF Holding, HomeInv, TypeOK
  <2> QED BY <2>1, KillKeeps
<1>2. CASE /\ program' = [program EXCEPT ![p] = "hungUp"]
           /\ UNCHANGED <<serving, order, pen, panes, looks, killedIn, made, emptied>>
  <2>1. TypeOK'
    BY <1>2 DEF HomeInv, TypeOK, serving, panes
  <2>2. OneHome' /\ Furnished' /\ Focused'
    BY <1>2 DEF HomeInv, OneHome, Furnished, Has, Focused, panes
  <2>3. Peopled'
    BY <1>2 DEF HomeInv, TypeOK, Peopled, panes
  <2> QED BY <2>1, <2>2, <2>3 DEF HomeInv
<1> QED BY <1>1, <1>2 DEF KillPane

LEMMA KillWindowKeeps ==
  ASSUME HomeInv, NEW w \in Windows, KillWindow(w)
  PROVE  HomeInv'
<1>1. PICK s \in Sessions : Kill(s, holds[w])
  BY DEF KillWindow, HomeInv, TypeOK
<1> QED BY <1>1, KillKeeps

LEMMA KillSessionKeeps ==
  ASSUME HomeInv, NEW s \in Sessions, KillSession(s)
  PROVE  HomeInv'
<1> USE DEF HomeInv
<1> DEFINE gone == UNION {holds[w] : w \in order[s]}
<1>1. /\ program' \in [Panes -> {"none", "running", "hungUp", "ended"}]
      /\ killedIn' \in [Panes -> Sessions \cup {None}]
      /\ \A p \in Panes : program[p] # "none" => program'[p] # "none"
  BY HangUpTypes DEF KillSession
<1>2. sessions' \subseteq Sessions /\ sessions' # {} /\ stopped' \in BOOLEAN /\ on' \in [Clients -> Sessions]
  BY RemoveSessionTypes DEF KillSession
<1>3. holds' \in [Windows -> SUBSET Panes]
      /\ \A v \in Windows : holds'[v] \subseteq holds[v] /\ (v \notin order[s] => holds'[v] = holds[v])
  BY DEF KillSession, Without, TypeOK
<1>4. order' \in [Sessions -> SUBSET Windows] /\ emptied' \subseteq Sessions
      /\ \A t \in Sessions : order'[t] = IF t = s THEN {} ELSE order[t]
  BY DEF KillSession, TypeOK
<1>5. active' \in [Windows -> Panes \cup {None}] /\ Focused'
  BY <1>3, RefocusKeeps DEF KillSession
<1>6. UNCHANGED <<pen, looks, made>>
  BY DEF KillSession
<1>7. TypeOK'
  BY <1>1, <1>2, <1>3, <1>4, <1>5, <1>6 DEF TypeOK
<1>8. OneHome'
  BY <1>3, <1>4, <1>6 DEF OneHome
<1>9. Furnished'
  <2> SUFFICES ASSUME NEW t \in Sessions, NEW v \in Has(t)' PROVE v <= made'.windows /\ holds'[v] # {}
    BY DEF Furnished
  <2>1. v \in Windows /\ v \in Has(t) /\ v \notin order[s]
    BY <1>4, <1>6 DEF Has, TypeOK, OneHome
  <2> QED BY <1>3, <1>6, <2>1 DEF Furnished
<1>10. Peopled'
  BY <1>1, <1>3 DEF Peopled, TypeOK
<1> QED BY <1>5, <1>7, <1>8, <1>9, <1>10

LEMMA ProgramEndsKeeps ==
  ASSUME HomeInv, NEW p \in Panes, ProgramEnds(p)
  PROVE  HomeInv'
<1>1. /\ program' \in [Panes -> {"none", "running", "hungUp", "ended"}]
      /\ killedIn' \in [Panes -> Sessions \cup {None}]
      /\ \A q \in Panes : program[q] # "none" => program'[q] # "none"
  BY DEF ProgramEnds, HomeInv, TypeOK
<1>2. UNCHANGED <<pen, made>>
  BY DEF ProgramEnds
<1> DEFINE of == IF Holding(p) # {} THEN Holding(p) ELSE {killedIn[p]} \ {None}
<1>3. CASE UNCHANGED <<serving, order, panes, looks, emptied>>
  <2>1. TypeOK'
    BY <1>1, <1>2, <1>3 DEF HomeInv, TypeOK, serving, panes
  <2>2. OneHome' /\ Furnished' /\ Focused'
    BY <1>2, <1>3 DEF HomeInv, OneHome, Furnished, Has, Focused, panes
  <2>3. Peopled'
    BY <1>1, <1>3 DEF HomeInv, TypeOK, Peopled, panes
  <2> QED BY <2>1, <2>2, <2>3 DEF HomeInv
<1>4. CASE \E s \in of : TakePanes(s, {p}) /\ EndIfEmpty(s)
  <2>1. PICK s \in Sessions : TakePanes(s, {p}) /\ EndIfEmpty(s)
    BY <1>4 DEF HomeInv, TypeOK, Holding
  <2>2. sessions' \subseteq Sessions /\ sessions' # {} /\ stopped' \in BOOLEAN /\ on' \in [Clients -> Sessions]
    BY <2>1, EndIfEmptyTypes DEF HomeInv
  <2>3. /\ order' \in [Sessions -> SUBSET Windows] /\ holds' \in [Windows -> SUBSET Panes]
        /\ active' \in [Windows -> Panes \cup {None}]
        /\ looks' \in [Sessions -> [Clients -> Windows \cup {None}]]
        /\ emptied' \subseteq Sessions
        /\ OneHome' /\ Furnished' /\ Peopled' /\ Focused'
    BY <1>1, <1>2, <2>1, TakePanesKeeps
  <2> QED BY <1>1, <1>2, <2>2, <2>3 DEF HomeInv, TypeOK
<1> QED BY <1>3, <1>4 DEF ProgramEnds

LEMMA StutterKeeps ==
  ASSUME HomeInv, UNCHANGED vars
  PROVE  HomeInv'
BY DEF HomeInv, TypeOK, OneHome, Furnished, Has, Peopled, Focused, vars, serving, panes, programs

LEMMA HomeInductive ==
  ASSUME ~Across
  PROVE  Spec => []HomeInv
<1>1. HomeInv /\ [Next]_vars => HomeInv'
  <2> SUFFICES ASSUME HomeInv, [Next]_vars PROVE HomeInv'
    OBVIOUS
  <2>1. ASSUME NEW c \in Clients, Arrange(c) PROVE HomeInv'
    BY <2>1, NewWindowKeeps, NewSessionKeeps, SplitWindowKeeps, UnlinkWindowKeeps, LinkWindowKeeps,
       MoveWindowToKeeps, BreakPaneKeeps, MovePaneKeeps DEF Arrange
  <2>2. ASSUME NEW c \in Clients, LookElsewhere(c) PROVE HomeInv'
    BY <2>2, LooksKeep DEF LookElsewhere
  <2>3. CASE End
    BY <2>3, KillPaneKeeps, KillWindowKeeps, KillSessionKeeps, ProgramEndsKeeps DEF End
  <2>4. CASE UNCHANGED vars
    BY <2>4, StutterKeeps
  <2> QED BY <2>1, <2>2, <2>3, <2>4 DEF Next
<1> QED BY <1>1, HomeInit, PTL DEF Spec

-----------------------------------------------------------------------------
(* What the clients look at *)

\* A session not made yet shows nothing, and nobody looks into it.
Unmade ==
  \A s \in Sessions : s > made.sessions =>
    s \notin sessions /\ order[s] = {} /\ \A c \in Clients : looks[s][c] = None

LookInv == HomeInv /\ LooksAtItsOwn /\ Unmade

\* A session and its windows stay as they are for whoever looks at them.
LEMMA ShownKeeps ==
  ASSUME LookInv, sessions' \subseteq sessions, UNCHANGED <<order, looks, made>>, emptied \subseteq emptied'
  PROVE  LooksAtItsOwn' /\ Unmade'
BY DEF LookInv, LooksAtItsOwn, Unmade

\* Who looks at the one window that leaves an order looks at another one, unless
\* there is none.
LEMMA LookAwayKeeps ==
  ASSUME LookInv, NEW s \in Sessions, NEW v, NEW closing, closing \subseteq {v} \cap order[s],
         LookAway(s, closing),
         \A t \in Sessions : order'[t] = IF t = s THEN order[s] \ closing ELSE order[t],
         sessions' \subseteq sessions, UNCHANGED made,
         emptied \subseteq emptied' /\ (order'[s] = {} /\ closing # {} => s \in emptied')
  PROVE  LooksAtItsOwn' /\ Unmade'
<1> USE DEF LookInv, HomeInv
<1>1. PICK to \in Away(s, closing) : looks' = [looks EXCEPT ![s] = Turned(s, to)]
  BY DEF LookAway
<1>2. \A c \in Clients : looks[s][c] \in closing => to[c] \in Others(order[s], looks[s][c])
  BY DEF Away
<1>3. DOMAIN to = {c \in Clients : looks[s][c] \in closing}
  BY DEF Away
<1>4. \A t \in Sessions, c \in Clients :
        looks'[t][c] = IF t = s /\ looks[s][c] \in closing THEN to[c] ELSE looks[t][c]
  BY <1>1, <1>3 DEF Turned, TypeOK
<1>5. LooksAtItsOwn'
  <2> SUFFICES ASSUME NEW t \in sessions, NEW c \in Clients, t \notin emptied', t \in sessions'
               PROVE  looks'[t][c] \in order'[t] \cup {None}
    BY DEF LooksAtItsOwn
  <2>1. t \in Sessions /\ looks[t][c] \in order[t] \cup {None}
    BY DEF LooksAtItsOwn, TypeOK
  <2>2. CASE t = s /\ looks[s][c] \in closing
    <3>1. looks[s][c] = v /\ closing = {v} /\ order'[s] = order[s] \ {v} /\ order'[s] # {}
      BY <2>1, <2>2
    <3>2. to[c] \in order[s] \ {v}
      BY <1>2, <2>2, <3>1 DEF Others
    <3> QED BY <1>4, <2>1, <2>2, <3>1, <3>2
  <2>3. CASE ~(t = s /\ looks[s][c] \in closing)
    BY <1>4, <2>1, <2>3
  <2> QED BY <2>2, <2>3
<1>6. Unmade'
  <2> SUFFICES ASSUME NEW t \in Sessions, t > made.sessions
               PROVE  t \notin sessions' /\ order'[t] = {} /\ \A c \in Clients : looks'[t][c] = None
    BY DEF Unmade
  <2>1. t \notin sessions /\ order[t] = {} /\ \A c \in Clients : looks[t][c] = None
    BY DEF Unmade
  <2>2. \A c \in Clients : looks'[t][c] = looks[t][c]
    BY <1>4, <2>1
  <2> QED BY <2>1, <2>2
<1> QED BY <1>5, <1>6

\* The panes of one window, or one pane, leave no other window empty.
LEMMA OneCloses ==
  ASSUME HomeInv, NEW s \in Sessions, NEW w \in Windows, NEW gone \in SUBSET holds[w]
  PROVE  Closing(s, gone) \subseteq {w} \cap order[s]
BY DEF HomeInv, TypeOK, OneHome, Furnished, Has, Closing

LEMMA TakePanesLooks ==
  ASSUME LookInv, NEW s \in Sessions, NEW w \in Windows, NEW gone \in SUBSET holds[w],
         TakePanes(s, gone), sessions' \subseteq sessions, UNCHANGED made
  PROVE  LooksAtItsOwn' /\ Unmade'
<1>1. Closing(s, gone) \subseteq {w} \cap order[s]
  BY OneCloses DEF LookInv
<1>2. \A t \in Sessions : order'[t] = IF t = s THEN order[s] \ Closing(s, gone) ELSE order[t]
  BY DEF TakePanes, LookInv, HomeInv, TypeOK
<1>3. emptied \subseteq emptied' /\ (order'[s] = {} => s \in emptied')
  BY DEF TakePanes, Emptying
<1>4. LookAway(s, Closing(s, gone))
  BY DEF TakePanes
<1> QED BY <1>1, <1>2, <1>3, <1>4, LookAwayKeeps

\* No session comes with the end of one.
LEMMA RemoveSessionTakes ==
  ASSUME NEW s, RemoveSession(s) \/ EndIfEmpty(s) \/ UNCHANGED serving
  PROVE  sessions' \subseteq sessions
BY DEF RemoveSession, EndIfEmpty, serving

\* A client that turns to a window of the order looks at its own.
LEMMA TurnsTo ==
  ASSUME LookInv, NEW s \in sessions, NEW c \in Clients, NEW w, looks' = [looks EXCEPT ![s][c] = w],
         w \in order'[s] \cup {None},
         \A t \in Sessions : order[t] \subseteq order'[t] /\ (t # s => order'[t] = order[t]),
         sessions' = sessions, made'.sessions = made.sessions, emptied' = emptied
  PROVE  LooksAtItsOwn' /\ Unmade'
<1> USE DEF LookInv, HomeInv
<1>1. s \in Sessions /\ ~(s > made.sessions)
  BY DEF TypeOK, Unmade
<1>2. \A t \in Sessions, b \in Clients : looks'[t][b] = IF t = s /\ b = c THEN w ELSE looks[t][b]
  BY <1>1 DEF TypeOK
<1>3. LooksAtItsOwn'
  BY <1>2 DEF LooksAtItsOwn, TypeOK
<1>4. Unmade'
  BY <1>1, <1>2 DEF Unmade
<1> QED BY <1>3, <1>4

LEMMA NewWindowLooks ==
  ASSUME LookInv, NEW c \in Clients, NEW s \in Sessions, NEW p \in Panes, NEW d \in BOOLEAN,
         NewWindow(c, s, p, d)
  PROVE  LooksAtItsOwn' /\ Unmade'
<1> USE DEF LookInv, HomeInv
<1>1. PICK w \in Windows, at \in Looking(s, c, order[s]) :
        /\ CreateWindow(s, w, p)
        /\ made' = [made EXCEPT !.windows = w]
        /\ Look(s, c, IF d /\ at # None THEN at ELSE w)
  BY DEF NewWindow
<1>2. s \in sessions /\ sessions' = sessions /\ emptied' = emptied /\ made'.sessions = made.sessions
  BY <1>1 DEF NewWindow, CreateWindow, serving, TypeOK
<1>3. \A t \in Sessions : order'[t] = IF t = s THEN order[s] \cup {w} ELSE order[t]
  BY <1>1 DEF CreateWindow, TypeOK
<1> DEFINE to == IF d /\ at # None THEN at ELSE w
<1>4. looks' = [looks EXCEPT ![s][c] = to]
  BY <1>1 DEF Look
<1>5. CASE s \in emptied
  <2>1. \A t \in sessions : t # s => \A b \in Clients : looks'[t][b] = looks[t][b] /\ order'[t] = order[t]
    BY <1>3, <1>4 DEF TypeOK
  <2>2. LooksAtItsOwn'
    BY <1>2, <1>5, <2>1 DEF LooksAtItsOwn
  <2>3. s \in Sessions /\ ~(s > made.sessions)
    BY <1>2 DEF Unmade
  <2>4. \A t \in Sessions : t # s => \A b \in Clients : looks'[t][b] = looks[t][b]
    BY <1>4 DEF TypeOK
  <2> HIDE DEF to
  <2>5. Unmade'
    BY <1>2, <1>3, <2>3, <2>4 DEF Unmade
  <2> QED BY <2>2, <2>5
<1>6. CASE s \notin emptied
  <2>1. at \in order[s] \cup {None}
    BY <1>2, <1>6 DEF Looking, LooksAtItsOwn
  <2>2. to \in order'[s] \cup {None}
    BY <1>2, <1>3, <2>1
  <2> HIDE DEF to
  <2> QED BY <1>2, <1>3, <1>4, <2>2, TurnsTo
<1> QED BY <1>5, <1>6

LEMMA NewSessionLooks ==
  ASSUME LookInv, NEW c \in Clients, NEW p \in Panes, NEW d \in BOOLEAN, NewSession(c, p, d)
  PROVE  LooksAtItsOwn' /\ Unmade'
<1> USE DEF LookInv, HomeInv
<1> DEFINE s == made.sessions + 1
<1>1. s \in Sessions /\ made.sessions \in Nat /\ s > made.sessions
  BY DEF NewSession, TypeOK
<1>2. PICK w \in Windows :
        /\ CreateWindow(s, w, p)
        /\ made' = [sessions |-> s, windows |-> w]
        /\ Look(s, c, w)
  BY DEF NewSession
<1>3. sessions' = sessions \cup {s} /\ emptied' = emptied /\ made'.sessions = s
  BY <1>2 DEF NewSession, CreateWindow
<1>4. \A t \in Sessions : order'[t] = IF t = s THEN order[s] \cup {w} ELSE order[t]
  BY <1>2 DEF CreateWindow, TypeOK
<1>5. \A t \in Sessions, b \in Clients : looks'[t][b] = IF t = s /\ b = c THEN w ELSE looks[t][b]
  BY <1>1, <1>2 DEF Look, TypeOK
<1>6. s \notin sessions /\ \A b \in Clients : looks[s][b] = None
  BY <1>1 DEF Unmade
<1>7. \A t \in Sessions : t > s => t > made.sessions /\ t # s
  BY <1>1 DEF Sessions
<1> HIDE DEF s
<1>8. LooksAtItsOwn'
  <2> SUFFICES ASSUME NEW t \in sessions', NEW b \in Clients, t \notin emptied
               PROVE  looks'[t][b] \in order'[t] \cup {None}
    BY <1>3 DEF LooksAtItsOwn
  <2>1. CASE t = s
    BY <1>1, <1>4, <1>5, <1>6, <2>1
  <2>2. CASE t # s
    <3>1. t \in sessions /\ t \in Sessions
      BY <1>3, <2>2 DEF TypeOK
    <3> QED BY <1>4, <1>5, <2>2, <3>1 DEF LooksAtItsOwn
  <2> QED BY <2>1, <2>2
<1>9. Unmade'
  BY <1>3, <1>4, <1>5, <1>7 DEF Unmade
<1> QED BY <1>8, <1>9

LEMMA UnlinkWindowLooks ==
  ASSUME LookInv, NEW c \in Clients, NEW w \in Windows, UnlinkWindow(c, w)
  PROVE  LooksAtItsOwn' /\ Unmade'
<1> DEFINE s == on[c]
<1>1. s \in Sessions /\ {w} \subseteq {w} \cap order[s] /\ order[s] # {w}
  BY DEF LookInv, HomeInv, TypeOK, UnlinkWindow
<1>2. \A t \in Sessions : order'[t] = IF t = s THEN order[s] \ {w} ELSE order[t]
  BY DEF LookInv, HomeInv, TypeOK, UnlinkWindow
<1>3. LookAway(s, {w}) /\ UNCHANGED <<sessions, made, emptied>>
  BY DEF UnlinkWindow, serving
<1>4. order'[s] # {}
  BY <1>1, <1>2
<1> HIDE DEF s
<1> QED BY <1>1, <1>2, <1>3, <1>4, LookAwayKeeps

LEMMA LinkWindowLooks ==
  ASSUME LookInv, NEW c \in Clients, NEW w \in Windows, NEW s \in Sessions, LinkWindow(c, w, s)
  PROVE  LooksAtItsOwn' /\ Unmade'
<1>1. \A t \in Sessions : order'[t] = IF t = s THEN order[s] \cup {w} ELSE order[t]
  BY DEF LookInv, HomeInv, TypeOK, LinkWindow
<1>2. s \in sessions /\ looks' = [looks EXCEPT ![s][c] = w] /\ UNCHANGED <<sessions, made, emptied>>
  BY DEF LinkWindow, Look, serving
<1> QED BY <1>1, <1>2, TurnsTo

LEMMA MoveWindowToLooks ==
  ASSUME LookInv, NEW c \in Clients, NEW w \in Windows, NEW src \in Sessions, NEW s \in Sessions,
         MoveWindowTo(c, w, src, s)
  PROVE  LooksAtItsOwn' /\ Unmade'
<1> USE DEF LookInv, HomeInv
<1>1. src # s /\ w \in order[src] /\ s \in sessions /\ src \in sessions
      /\ sessions' = sessions /\ made' = made
  BY DEF MoveWindowTo, serving
<1>2. \A t \in Sessions :
        order'[t] = IF t = src THEN order[src] \ {w} ELSE IF t = s THEN order[s] \cup {w} ELSE order[t]
  BY <1>1 DEF TypeOK, MoveWindowTo
<1>3. PICK to \in Away(src, {w}) : looks' = [looks EXCEPT ![src] = Turned(src, to), ![s][c] = w]
  BY DEF MoveWindowTo
<1>4. \A b \in Clients : looks[src][b] = w => to[b] \in Others(order[src], w)
  BY DEF Away
<1>5. DOMAIN to = {b \in Clients : looks[src][b] \in {w}}
  BY DEF Away
<1>6. \A t \in Sessions, b \in Clients :
        looks'[t][b] = IF t = s /\ b = c THEN w
                       ELSE IF t = src /\ looks[src][b] = w THEN to[b] ELSE looks[t][b]
  BY <1>1, <1>3, <1>5 DEF Turned, TypeOK
<1>7. emptied \subseteq emptied' /\ (order'[src] = {} => src \in emptied')
  BY DEF MoveWindowTo, Emptying
<1>8. LooksAtItsOwn'
  <2> SUFFICES ASSUME NEW t \in sessions, NEW b \in Clients, t \notin emptied'
               PROVE  looks'[t][b] \in order'[t] \cup {None}
    BY <1>1 DEF LooksAtItsOwn
  <2>1. t \in Sessions /\ looks[t][b] \in order[t] \cup {None}
    BY <1>7 DEF LooksAtItsOwn, TypeOK
  <2>2. CASE t = src /\ looks[src][b] = w
    <3>1. to[b] \in order[src] \ {w}
      BY <1>1, <1>2, <1>4, <1>7, <2>1, <2>2 DEF Others
    <3> QED BY <1>1, <1>2, <1>6, <2>1, <2>2, <3>1
  <2>3. CASE ~(t = src /\ looks[src][b] = w)
    BY <1>1, <1>2, <1>6, <2>1, <2>3
  <2> QED BY <2>2, <2>3
<1>9. Unmade'
  <2> SUFFICES ASSUME NEW t \in Sessions, t > made.sessions
               PROVE  t \notin sessions' /\ order'[t] = {} /\ \A b \in Clients : looks'[t][b] = None
    BY <1>1 DEF Unmade
  <2>1. t # s /\ t # src
    BY <1>1 DEF Unmade
  <2> QED BY <1>1, <1>2, <1>6, <2>1 DEF Unmade
<1> QED BY <1>8, <1>9

LEMMA BreakPaneLooks ==
  ASSUME LookInv, NEW c \in Clients, NEW d \in BOOLEAN, BreakPane(c, d)
  PROVE  LooksAtItsOwn' /\ Unmade'
<1> USE DEF LookInv, HomeInv
<1> DEFINE s == on[c]
<1>1. PICK at \in Looking(s, c, order[s]) \ {None}, w \in Windows :
        /\ made' = [made EXCEPT !.windows = w]
        /\ order' = [order EXCEPT ![s] = @ \cup {w}]
        /\ IF d THEN UNCHANGED looks ELSE Look(s, c, w)
  BY DEF BreakPane
<1>2. s \in Sessions /\ order[s] # {}
  BY <1>1 DEF TypeOK, Looking
<1>3. UNCHANGED <<sessions, emptied>> /\ made'.sessions = made.sessions
  BY <1>1 DEF BreakPane, serving, TypeOK
<1>4. \A t \in Sessions : order'[t] = IF t = s THEN order[s] \cup {w} ELSE order[t]
  BY <1>1, <1>2 DEF TypeOK
<1>5. \A t \in Sessions, b \in Clients : looks'[t][b] = looks[t][b] \/ (t = s /\ looks'[t][b] = w)
  BY <1>1, <1>2 DEF Look, TypeOK
<1> HIDE DEF s
<1>6. LooksAtItsOwn'
  <2> SUFFICES ASSUME NEW t \in sessions, NEW b \in Clients, t \notin emptied
               PROVE  looks'[t][b] \in order'[t] \cup {None}
    BY <1>3 DEF LooksAtItsOwn
  <2>1. t \in Sessions /\ looks[t][b] \in order[t] \cup {None}
    BY DEF LooksAtItsOwn, TypeOK
  <2> QED BY <1>4, <1>5, <2>1
<1>7. Unmade'
  BY <1>2, <1>3, <1>4, <1>5 DEF Unmade
<1> QED BY <1>6, <1>7

LEMMA MovePaneLooks ==
  ASSUME LookInv, ~Across, NEW c \in Clients, NEW w \in Windows, NEW p \in Panes, NEW d \in BOOLEAN,
         MovePane(c, p, w, d)
  PROVE  LooksAtItsOwn' /\ Unmade'
<1> USE DEF LookInv, HomeInv
<1> DEFINE s == on[c]
           closing == {v \in Closing(s, {p}) : holds[v] # {}}
<1>1. s \in Sessions /\ s \in sessions /\ w \in order[s] /\ s \in Holding(p) /\ p \notin holds[w]
  BY DEF MovePane, TypeOK, Holding
<1>2. PICK from \in order[s] : p \in holds[from]
  BY <1>1 DEF Holding
<1>3. from \in Windows /\ {p} \in SUBSET holds[from]
  BY <1>1, <1>2 DEF TypeOK
<1>4. closing \subseteq {from} \cap order[s] /\ w \notin closing
  BY <1>1, <1>2, <1>3, OneCloses
<1>5. \A t \in Sessions : order'[t] = IF t = s THEN order[s] \ closing ELSE order[t]
  BY <1>1 DEF MovePane, TypeOK
<1>6. UNCHANGED <<sessions, made>> /\ emptied \subseteq emptied' /\ order'[s] # {}
  <2>1. w \in order'[s]
    BY <1>1, <1>4, <1>5
  <2> QED BY <2>1 DEF MovePane, serving, Emptying
<1>7. CASE d
  <2>1. LookAway(s, closing)
    BY <1>7 DEF MovePane
  <2> HIDE DEF closing, s
  <2> QED BY <1>1, <1>4, <1>5, <1>6, <2>1, LookAwayKeeps
<1>8. CASE ~d
  <2>1. PICK to \in Away(s, closing) : looks' = [looks EXCEPT ![s] = [Turned(s, to) EXCEPT ![c] = w]]
    BY <1>8 DEF MovePane
  <2>2. \A b \in Clients : looks[s][b] \in closing => to[b] \in Others(order[s], looks[s][b])
    BY DEF Away
  <2>3. DOMAIN to = {b \in Clients : looks[s][b] \in closing}
    BY DEF Away
  <2> HIDE DEF closing, s
  <2>4. \A t \in Sessions, b \in Clients :
          looks'[t][b] = IF t = s /\ b = c THEN w
                         ELSE IF t = s /\ looks[s][b] \in closing THEN to[b] ELSE looks[t][b]
    BY <1>1, <2>1, <2>3 DEF Turned, TypeOK
  <2>5. LooksAtItsOwn'
    <3> SUFFICES ASSUME NEW t \in sessions, NEW b \in Clients, t \notin emptied'
                 PROVE  looks'[t][b] \in order'[t] \cup {None}
      BY <1>6 DEF LooksAtItsOwn
    <3>1. t \in Sessions /\ looks[t][b] \in order[t] \cup {None}
      BY <1>6 DEF LooksAtItsOwn, TypeOK
    <3>2. CASE t = s /\ looks[s][b] \in closing
      <4>1. to[b] \in order[s] \ closing
        BY <1>4, <1>5, <1>6, <2>2, <3>1, <3>2 DEF Others
      <4> QED BY <1>1, <1>4, <1>5, <2>4, <3>1, <3>2, <4>1
    <3>3. CASE ~(t = s /\ looks[s][b] \in closing)
      BY <1>1, <1>4, <1>5, <2>4, <3>1, <3>3
    <3> QED BY <3>2, <3>3
  <2>6. Unmade'
    BY <1>1, <1>5, <1>6, <2>4 DEF Unmade
  <2> QED BY <2>5, <2>6
<1> QED BY <1>7, <1>8

LEMMA OthersLook ==
  ASSUME LookInv, NEW c \in Clients,
         \/ \E w \in Windows, p \in Panes, d \in BOOLEAN : SplitWindow(w, p, d)
         \/ LookElsewhere(c)
  PROVE  LooksAtItsOwn' /\ Unmade'
<1> USE DEF LookInv, HomeInv
<1>1. CASE \/ \E w \in Windows, p \in Panes, d \in BOOLEAN : SplitWindow(w, p, d)
           \/ \E w \in Windows, p \in Panes : SelectPane(w, p)
           \/ \E s \in Sessions : SwitchClient(c, s)
  BY <1>1, ShownKeeps DEF SplitWindow, SelectPane, SwitchClient, serving
<1>2. CASE \E w \in Windows : SelectWindow(c, w)
  <2>1. PICK w \in Windows : SelectWindow(c, w)
    BY <1>2
  <2>2. PICK s \in sessions : w \in order[s] /\ looks' = [looks EXCEPT ![s][c] = w]
    BY <2>1 DEF SelectWindow, Look
  <2> QED BY <2>1, <2>2, TurnsTo DEF SelectWindow
<1>3. CASE Draw(c)
  <2> DEFINE s == on[c]
  <2>1. s \in Sessions
    BY DEF TypeOK
  <2>2. PICK w \in order[s] : looks' = [looks EXCEPT ![s][c] = w]
    BY <1>3 DEF Draw, Looking
  <2>3. UNCHANGED <<sessions, order, made, emptied>>
    BY <1>3 DEF Draw, serving
  <2>4. \A t \in Sessions, b \in Clients : looks'[t][b] = looks[t][b] \/ (t = s /\ looks'[t][b] = w)
    BY <2>1, <2>2 DEF TypeOK
  <2> HIDE DEF s
  <2>5. LooksAtItsOwn'
    BY <2>2, <2>3, <2>4 DEF LooksAtItsOwn, TypeOK
  <2>6. Unmade'
    BY <2>1, <2>2, <2>3, <2>4 DEF Unmade
  <2> QED BY <2>5, <2>6
<1> QED BY <1>1, <1>2, <1>3 DEF LookElsewhere

LEMMA EndLooks ==
  ASSUME LookInv, End
  PROVE  LooksAtItsOwn' /\ Unmade'
<1> USE DEF LookInv, HomeInv
<1>1. ASSUME NEW s \in Sessions, NEW w \in Windows, NEW gone \in SUBSET holds[w], Kill(s, gone)
      PROVE  LooksAtItsOwn' /\ Unmade'
  <2>1. TakePanes(s, gone) /\ UNCHANGED made
    BY <1>1 DEF Kill
  <2>2. sessions' \subseteq sessions
    BY <1>1, RemoveSessionTakes DEF Kill
  <2> QED BY <1>1, <2>1, <2>2, TakePanesLooks
<1>2. CASE \E p \in Panes : KillPane(p)
  <2>1. PICK p \in Panes : KillPane(p)
    BY <1>2
  <2>2. CASE \E s \in Holding(p) : Kill(s, {p})
    <3>1. PICK s \in Sessions, w \in Windows : p \in holds[w] /\ Kill(s, {p})
      BY <2>2 DEF Holding, TypeOK
    <3> QED BY <1>1, <3>1
  <2>3. CASE UNCHANGED <<serving, order, looks, made, emptied>>
    BY <2>3, ShownKeeps DEF serving
  <2> QED BY <2>1, <2>2, <2>3 DEF KillPane
<1>3. CASE \E w \in Windows : KillWindow(w)
  <2>1. PICK w \in Windows, s \in Sessions : Kill(s, holds[w])
    BY <1>3 DEF KillWindow, TypeOK
  <2> QED BY <1>1, <2>1
<1>4. CASE \E s \in Sessions : KillSession(s)
  <2>1. PICK s \in Sessions : KillSession(s)
    BY <1>4
  <2>2. \A t \in Sessions : order'[t] = IF t = s THEN {} ELSE order[t]
    BY <2>1 DEF KillSession, TypeOK
  <2>3. UNCHANGED <<looks, made>> /\ emptied' = emptied \cup {s}
    BY <2>1 DEF KillSession
  <2>4. sessions' \subseteq sessions
    BY <2>1, RemoveSessionTakes DEF KillSession
  <2> QED BY <2>2, <2>3, <2>4 DEF LooksAtItsOwn, Unmade, TypeOK
<1>5. CASE \E p \in Panes : ProgramEnds(p)
  <2>1. PICK p \in Panes : ProgramEnds(p)
    BY <1>5
  <2>2. CASE UNCHANGED <<serving, order, panes, looks, emptied>>
    BY <2>1, <2>2, ShownKeeps DEF serving, ProgramEnds
  <2>3. CASE \E s \in Holding(p) : TakePanes(s, {p}) /\ EndIfEmpty(s)
    <3>1. PICK s \in Sessions, w \in Windows : p \in holds[w] /\ TakePanes(s, {p}) /\ EndIfEmpty(s)
      BY <2>3 DEF Holding, TypeOK
    <3>2. sessions' \subseteq sessions /\ UNCHANGED made
      BY <2>1, <3>1, RemoveSessionTakes DEF ProgramEnds
    <3> QED BY <3>1, <3>2, TakePanesLooks
  <2>4. CASE \E s \in {killedIn[p]} \ {None} : TakePanes(s, {p}) /\ EndIfEmpty(s)
    <3>1. PICK s \in Sessions : TakePanes(s, {p}) /\ EndIfEmpty(s)
      BY <2>4 DEF TypeOK
    <3>2. sessions' \subseteq sessions /\ UNCHANGED made
      BY <2>1, <3>1, RemoveSessionTakes DEF ProgramEnds
    <3>3. \E w \in Windows : Closing(s, {p}) \subseteq {w} \cap order[s]
      <4>1. CASE \E w \in Windows : p \in holds[w]
        BY <4>1, OneCloses
      <4>2. CASE ~\E w \in Windows : p \in holds[w]
        <5>1. Closing(s, {p}) = {}
          BY <4>2 DEF Closing, Furnished, Has, TypeOK
        <5>2. 1 \in Windows
          BY ArrangementAssumption DEF Windows
        <5> QED BY <5>1, <5>2
      <4> QED BY <4>1, <4>2
    <3>4. PICK w \in Windows : Closing(s, {p}) \subseteq {w} \cap order[s]
      BY <3>3
    <3>5. \A t \in Sessions : order'[t] = IF t = s THEN order[s] \ Closing(s, {p}) ELSE order[t]
      BY <3>1 DEF TakePanes, TypeOK
    <3>6. emptied \subseteq emptied' /\ (order'[s] = {} => s \in emptied') /\ LookAway(s, Closing(s, {p}))
      BY <3>1 DEF TakePanes, Emptying
    <3> QED BY <3>2, <3>4, <3>5, <3>6, LookAwayKeeps
  <2> QED BY <2>1, <2>2, <2>3, <2>4 DEF ProgramEnds
<1> QED BY <1>2, <1>3, <1>4, <1>5 DEF End

LEMMA LooksInit == Init => LooksAtItsOwn /\ Unmade
BY ArrangementAssumption DEF Init, LooksAtItsOwn, Unmade, Sessions, None

LEMMA LookInductive ==
  ASSUME ~Across
  PROVE  Spec => []LookInv
<1>1. LookInv /\ HomeInv' /\ [Next]_vars => LookInv'
  <2> SUFFICES ASSUME LookInv, HomeInv', [Next]_vars PROVE LooksAtItsOwn' /\ Unmade'
    BY DEF LookInv
  <2>1. ASSUME NEW c \in Clients, Arrange(c) PROVE LooksAtItsOwn' /\ Unmade'
    BY <2>1, NewWindowLooks, NewSessionLooks, UnlinkWindowLooks, LinkWindowLooks, MoveWindowToLooks,
       BreakPaneLooks, MovePaneLooks, OthersLook DEF Arrange
  <2>2. ASSUME NEW c \in Clients, LookElsewhere(c) PROVE LooksAtItsOwn' /\ Unmade'
    BY <2>2, OthersLook
  <2>3. CASE End
    BY <2>3, EndLooks
  <2>4. CASE UNCHANGED vars
    BY <2>4, ShownKeeps DEF vars, serving
  <2> QED BY <2>1, <2>2, <2>3, <2>4 DEF Next
<1>2. Init => LookInv
  BY HomeInit, LooksInit DEF LookInv
<1> QED BY <1>1, <1>2, HomeInductive, PTL DEF Spec

\* A pane is in one window and a window in one order or one pen, whatever
\* commands of whichever clients move, break, unlink and link them.
THEOREM PanesHaveOneHome ==
  ASSUME ~Across
  PROVE  Spec => []OneHome
BY HomeInductive, PTL DEF HomeInv

\* No window that a session shows is empty, and the focus of each is on a pane
\* of it: `remove_pane` leaves no window to a pane that went.
THEOREM FocusStays ==
  ASSUME ~Across
  PROVE  Spec => []FocusIsInPlace
<1>1. HomeInv => FocusIsInPlace
  BY DEF HomeInv, TypeOK, Furnished, Has, Focused, FocusIsInPlace
<1> QED BY <1>1, HomeInductive, PTL

\* In a session whose order was never empty each client looks at a window of the
\* order, or has not looked: who looks at a window that closes, moves or is
\* unlinked goes to another one (`remove_pane`, `unlink_window`, `move_window_to`).
THEOREM ClientsLookAtTheirOwn ==
  ASSUME ~Across
  PROVE  Spec => []LooksAtItsOwn
BY LookInductive, PTL DEF LookInv

\* The types of the sessions, their windows and their panes.
THEOREM TypesHold ==
  ASSUME ~Across
  PROVE  Spec => []TypeOK
BY HomeInductive, PTL DEF HomeInv

-----------------------------------------------------------------------------
(* Sessions go with their programs *)

\* A pane killed in a session is in no window until its program ends: nobody
\* can move it back into one.
KilledOut ==
  \A p \in Panes : killedIn[p] # None => program[p] = "hungUp" /\ \A w \in Windows : p \notin holds[w]

\* What holds what was held before, or a pane just made, brings no killed pane back.
LEMMA KilledStay ==
  ASSUME KilledOut, killedIn' = killedIn,
         \A p \in Panes : program[p] = "hungUp" => program'[p] = "hungUp",
         \A w \in Windows : \A p \in holds'[w] : program[p] = "none" \/ \E v \in Windows : p \in holds[v]
  PROVE  KilledOut'
BY DEF KilledOut

\* Panes that are hung up are out of the one window that had them.
LEMMA HangUpTakesOut ==
  ASSUME HomeInv, KilledOut, NEW s \in Sessions, NEW gone \in SUBSET Panes,
         \A p \in gone : \E w \in order[s] : p \in holds[w],
         holds' = Without(s, gone), HangUp(s, gone)
  PROVE  KilledOut' /\ \A p \in Panes : killedIn[p] # None => killedIn'[p] = killedIn[p]
<1> USE DEF HomeInv
<1>1. \A p \in gone : \E w \in Windows : /\ p \in holds[w] /\ w \in order[s]
                                         /\ \A v \in Windows : p \in holds[v] => v = w
  BY DEF TypeOK, OneHome
<1>2. \A w \in Windows : holds'[w] \subseteq holds[w] /\ (w \in order[s] => holds'[w] = holds[w] \ gone)
  BY DEF Without
<1>3. \A p \in gone : killedIn[p] = None /\ \A w \in Windows : p \notin holds'[w]
  BY <1>1, <1>2 DEF KilledOut
<1>4. \A p \in Panes : /\ killedIn'[p] = IF p \in gone /\ program[p] # "ended" THEN s ELSE killedIn[p]
                       /\ program'[p] = IF p \in gone /\ program[p] = "running" THEN "hungUp" ELSE program[p]
  BY DEF HangUp
<1>5. \A p \in gone : program[p] # "none"
  BY <1>1 DEF Peopled
<1>6. ASSUME NEW p \in Panes, killedIn'[p] # None
      PROVE  program'[p] = "hungUp" /\ \A w \in Windows : p \notin holds'[w]
  <2>1. CASE p \in gone
    <3>1. program[p] # "ended"
      BY <1>3, <1>4, <1>6, <2>1
    <3>2. program[p] \in {"running", "hungUp"}
      BY <1>5, <2>1, <3>1 DEF TypeOK
    <3> QED BY <1>3, <1>4, <2>1, <3>2
  <2>2. CASE p \notin gone
    <3>1. killedIn[p] # None /\ program'[p] = program[p]
      BY <1>4, <1>6, <2>2
    <3> QED BY <1>2, <3>1 DEF KilledOut
  <2> QED BY <2>1, <2>2
<1>7. \A p \in Panes : killedIn[p] # None => killedIn'[p] = killedIn[p]
  BY <1>3, <1>4
<1> QED BY <1>6, <1>7 DEF KilledOut

\* Every step that hangs up panes hangs up what the order of one session shows.
LEMMA Kills ==
  ASSUME HomeInv, \/ \E p \in Panes : KillPane(p) /\ killedIn' # killedIn
                  \/ \E w \in Windows : KillWindow(w)
                  \/ \E s \in Sessions : KillSession(s)
  PROVE  \E s \in Sessions, gone \in SUBSET Panes :
           /\ \A p \in gone : \E w \in order[s] : p \in holds[w]
           /\ holds' = Without(s, gone) /\ HangUp(s, gone)
<1> USE DEF HomeInv
<1>1. CASE \E p \in Panes : KillPane(p) /\ killedIn' # killedIn
  <2>1. PICK p \in Panes : KillPane(p) /\ killedIn' # killedIn
    BY <1>1
  <2>2. PICK s \in Holding(p) : Kill(s, {p})
    BY <2>1 DEF KillPane
  <2>3. s \in Sessions /\ \E w \in order[s] : p \in holds[w]
    BY <2>2 DEF Holding, TypeOK
  <2>4. holds' = Without(s, {p}) /\ HangUp(s, {p})
    BY <2>2 DEF Kill, TakePanes
  <2> QED BY <2>3, <2>4
<1>2. CASE \E w \in Windows : KillWindow(w)
  <2>1. PICK w \in Windows, s \in sessions : w \in order[s] /\ Kill(s, holds[w])
    BY <1>2 DEF KillWindow
  <2>2. s \in Sessions /\ holds[w] \in SUBSET Panes
    BY DEF TypeOK
  <2>3. holds' = Without(s, holds[w]) /\ HangUp(s, holds[w])
    BY <2>1 DEF Kill, TakePanes
  <2> QED BY <2>1, <2>2, <2>3
<1>3. CASE \E s \in Sessions : KillSession(s)
  <2>1. PICK s \in Sessions : KillSession(s)
    BY <1>3
  <2> DEFINE gone == UNION {holds[w] : w \in order[s]}
  <2>2. gone \in SUBSET Panes /\ \A p \in gone : \E w \in order[s] : p \in holds[w]
    BY DEF TypeOK
  <2>3. holds' = Without(s, gone) /\ HangUp(s, gone)
    BY <2>1 DEF KillSession
  <2> QED BY <2>2, <2>3
<1> QED BY <1>1, <1>2, <1>3

\* The arrangement of panes leaves killed ones out.
LEMMA ArrangeKeepsOut ==
  ASSUME HomeInv, ~Across, KilledOut, NEW c \in Clients, Arrange(c)
  PROVE  KilledOut' /\ killedIn' = killedIn
<1> USE DEF HomeInv
<1>1. ASSUME NEW p \in Panes, Fresh(p), Run(p), NEW w \in Windows, NEW more \in SUBSET Panes,
             holds' = [holds EXCEPT ![w] = more], more \subseteq holds[w] \cup {p}
      PROVE  KilledOut' /\ killedIn' = killedIn
  <2>1. \A q \in Panes : program[q] = "hungUp" => program'[q] = "hungUp"
    BY <1>1 DEF Run, Fresh, TypeOK
  <2>2. \A v \in Windows : \A q \in holds'[v] : program[q] = "none" \/ \E u \in Windows : q \in holds[u]
    BY <1>1 DEF Fresh, TypeOK
  <2> QED BY <1>1, <2>1, <2>2, KilledStay DEF Run
<1>2. CASE \E s \in Sessions, p \in Panes, d \in BOOLEAN : NewWindow(c, s, p, d)
  <2>1. PICK s \in Sessions, p \in Panes, d \in BOOLEAN : NewWindow(c, s, p, d)
    BY <1>2
  <2>2. PICK w \in Windows : CreateWindow(s, w, p)
    BY <2>1 DEF NewWindow
  <2>3. holds' = [holds EXCEPT ![w] = {p}] /\ {p} \in SUBSET Panes
    BY <2>2 DEF CreateWindow
  <2>4. Fresh(p) /\ Run(p)
    BY <2>1 DEF NewWindow
  <2> QED BY <1>1, <2>3, <2>4
<1>3. CASE \E p \in Panes, d \in BOOLEAN : NewSession(c, p, d)
  <2>1. PICK p \in Panes, d \in BOOLEAN : NewSession(c, p, d)
    BY <1>3
  <2>2. PICK w \in Windows : CreateWindow(made.sessions + 1, w, p)
    BY <2>1 DEF NewSession
  <2>3. holds' = [holds EXCEPT ![w] = {p}] /\ {p} \in SUBSET Panes
    BY <2>2 DEF CreateWindow
  <2>4. Fresh(p) /\ Run(p)
    BY <2>1 DEF NewSession
  <2> QED BY <1>1, <2>3, <2>4
<1>4. CASE \E w \in Windows, p \in Panes, d \in BOOLEAN : SplitWindow(w, p, d)
  <2>1. PICK w \in Windows, p \in Panes, d \in BOOLEAN : SplitWindow(w, p, d)
    BY <1>4
  <2>2. holds' = [holds EXCEPT ![w] = holds[w] \cup {p}] /\ holds[w] \cup {p} \in SUBSET Panes
    BY <2>1 DEF SplitWindow, TypeOK
  <2> QED BY <1>1, <2>1, <2>2 DEF SplitWindow
<1>5. ASSUME UNCHANGED programs, \A w \in Windows : \A p \in holds'[w] : \E v \in Windows : p \in holds[v]
      PROVE  KilledOut' /\ killedIn' = killedIn
  BY <1>5, KilledStay DEF programs
<1>6. CASE \E w \in Windows : UnlinkWindow(c, w)
  BY <1>5, <1>6 DEF UnlinkWindow, panes
<1>7. CASE \E w \in Windows, s \in Sessions : LinkWindow(c, w, s)
  BY <1>5, <1>7 DEF LinkWindow, panes
<1>8. CASE \E w \in Windows, src \in Sessions, s \in Sessions : MoveWindowTo(c, w, src, s)
  BY <1>5, <1>8 DEF MoveWindowTo, panes
<1>9. CASE \E d \in BOOLEAN : BreakPane(c, d)
  <2>1. PICK d \in BOOLEAN : BreakPane(c, d)
    BY <1>9
  <2>2. PICK at \in Looking(on[c], c, order[on[c]]) \ {None}, w \in Windows :
          /\ Cardinality(holds[at]) > 1
          /\ holds' = [holds EXCEPT ![at] = @ \ {active[at]}, ![w] = {active[at]}]
    BY <2>1 DEF BreakPane
  <2>3. at \in Windows
    BY <2>2, LookingTypes DEF TypeOK
  <2>4. active[at] \in holds[at]
    <3>1. holds[at] # {}
      BY <2>2, FS_EmptySet
    <3> QED BY <2>3, <3>1 DEF Focused
  <2>5. \A v \in Windows : \A p \in holds'[v] : \E u \in Windows : p \in holds[u]
    BY <2>2, <2>3, <2>4 DEF TypeOK
  <2> QED BY <1>5, <2>1, <2>5 DEF BreakPane
<1>10. CASE \E w \in Windows, p \in Panes, d \in BOOLEAN : MovePane(c, p, w, d)
  <2>1. PICK w \in Windows, p \in Panes, d \in BOOLEAN : MovePane(c, p, w, d)
    BY <1>10
  <2>2. \E v \in Windows : p \in holds[v]
    BY <2>1 DEF MovePane, Holding, TypeOK
  <2>3. holds' = [Without(on[c], {p}) EXCEPT ![w] = @ \cup {p}]
    BY <2>1 DEF MovePane
  <2>4. \A v \in Windows : holds'[v] \subseteq holds[v] \cup {p}
    BY <2>3 DEF Without
  <2>5. UNCHANGED programs
    BY <2>1 DEF MovePane
  <2> QED BY <1>5, <2>2, <2>4, <2>5
<1> QED BY <1>2, <1>3, <1>4, <1>6, <1>7, <1>8, <1>9, <1>10 DEF Arrange

\* The end of a program takes its pane, and the session it was killed in.
LEMMA EndsTake ==
  ASSUME HomeInv, KilledOut, NEW p \in Panes, ProgramEnds(p)
  PROVE  /\ KilledOut'
         /\ \A q \in Panes : killedIn'[q] = IF q = p THEN None ELSE killedIn[q]
         /\ killedIn[p] # None => TakePanes(killedIn[p], {p}) /\ EndIfEmpty(killedIn[p])
<1> USE DEF HomeInv
<1>1. \A q \in Panes : /\ killedIn'[q] = IF q = p THEN None ELSE killedIn[q]
                       /\ program'[q] = IF q = p THEN "ended" ELSE program[q]
  BY DEF ProgramEnds, TypeOK
<1>2. \A w \in Windows : holds'[w] \subseteq holds[w]
  <2>1. holds' = holds \/ \E s : TakePanes(s, {p})
    BY DEF ProgramEnds, panes
  <2> QED BY <2>1 DEF TakePanes, Without
<1>3. KilledOut'
  BY <1>1, <1>2 DEF KilledOut
<1>4. ASSUME killedIn[p] # None PROVE TakePanes(killedIn[p], {p}) /\ EndIfEmpty(killedIn[p])
  <2>1. Holding(p) = {}
    BY <1>4 DEF KilledOut, Holding, TypeOK
  <2> QED BY <1>4, <2>1 DEF ProgramEnds
<1> QED BY <1>1, <1>3, <1>4

LEMMA OutSteps ==
  ASSUME HomeInv, ~Across, KilledOut, [Next]_vars
  PROVE  KilledOut' /\ GoesWithItsPrograms
<1> USE DEF HomeInv
<1>1. ASSUME KilledOut', \A p \in Panes : killedIn[p] # None => killedIn'[p] = killedIn[p]
      PROVE  KilledOut' /\ GoesWithItsPrograms
  <2>1. None \notin sessions
    BY DEF TypeOK, Sessions, None
  <2> QED BY <1>1, <2>1 DEF GoesWithItsPrograms
<1>2. CASE \E c \in Clients : Arrange(c)
  BY <1>1, <1>2, ArrangeKeepsOut
<1>3. ASSUME UNCHANGED <<holds, killedIn>>, \A p \in Panes : program[p] = "hungUp" => program'[p] = "hungUp"
      PROVE  KilledOut' /\ GoesWithItsPrograms
  <2>1. KilledOut'
    BY <1>3 DEF KilledOut
  <2> QED BY <1>1, <1>3, <2>1
<1>4. CASE (\E c \in Clients : LookElsewhere(c)) \/ UNCHANGED vars
  BY <1>3, <1>4 DEF LookElsewhere, SelectPane, SelectWindow, Draw, SwitchClient, vars, panes, programs
<1>5. CASE \/ \E p \in Panes : KillPane(p) /\ killedIn' # killedIn
           \/ \E w \in Windows : KillWindow(w)
           \/ \E s \in Sessions : KillSession(s)
  BY <1>1, <1>5, Kills, HangUpTakesOut
<1>6. CASE \E p \in Panes : KillPane(p) /\ killedIn' = killedIn
  <2>1. PICK p \in Panes : KillPane(p) /\ killedIn' = killedIn
    BY <1>6
  <2>2. \A w \in Windows : holds'[w] \subseteq holds[w]
    <3>1. holds' = holds \/ \E s : TakePanes(s, {p})
      BY <2>1 DEF KillPane, Kill, panes
    <3> QED BY <3>1 DEF TakePanes, Without
  <2>3. \A q \in Panes : program[q] = "hungUp" => program'[q] = "hungUp"
    BY <2>1 DEF KillPane, Kill, HangUp, TypeOK
  <2>4. KilledOut'
    BY <2>1, <2>2, <2>3 DEF KilledOut
  <2> QED BY <1>1, <2>1, <2>4
<1>7. CASE \E p \in Panes : ProgramEnds(p)
  <2>1. PICK p \in Panes : ProgramEnds(p)
    BY <1>7
  <2>2. /\ KilledOut'
        /\ \A q \in Panes : killedIn'[q] = IF q = p THEN None ELSE killedIn[q]
        /\ killedIn[p] # None => TakePanes(killedIn[p], {p}) /\ EndIfEmpty(killedIn[p])
    BY <2>1, EndsTake
  <2> SUFFICES ASSUME NEW s \in sessions, order[s] = {}, NEW q \in Panes, killedIn[q] = s,
                      \A r \in Panes : killedIn'[r] # s
               PROVE  s \notin sessions' \/ stopped'
    BY <2>2 DEF GoesWithItsPrograms
  <2>3. q = p
    BY <2>2
  <2>4. s \in Sessions /\ s # None
    BY DEF TypeOK, Sessions, None
  <2>5. TakePanes(s, {p}) /\ EndIfEmpty(s)
    BY <2>2, <2>3, <2>4
  <2>6. order'[s] = {}
    BY <2>4, <2>5 DEF TakePanes, TypeOK
  <2>7. RemoveSession(s)
    BY <2>5, <2>6 DEF EndIfEmpty
  <2> QED BY <2>7 DEF RemoveSession
<1> QED BY <1>2, <1>4, <1>5, <1>6, <1>7 DEF Next, End

\* No step leaves a session on with nothing in it and nothing to wait for: a
\* session whose panes were killed goes with the program that was in the last of
\* them (`take_ended_pane`).
THEOREM SessionsGoWithTheirPrograms ==
  ASSUME ~Across
  PROVE  Spec => NoEmptySessionStays
<1>1. Init => KilledOut
  <2>1. \A p \in Panes : Init => killedIn[p] = None
    BY DEF Init
  <2> QED BY <2>1 DEF KilledOut
<1>2. HomeInv /\ KilledOut /\ [Next]_vars => KilledOut' /\ GoesWithItsPrograms
  BY OutSteps
<1>3. HomeInv /\ KilledOut /\ [Next]_vars => [GoesWithItsPrograms]_vars
  BY <1>2
<1> QED BY <1>1, <1>2, <1>3, HomeInductive, PTL DEF Spec, NoEmptySessionStays

-----------------------------------------------------------------------------
(* The order of a session's windows: what its lists are *)

\* Numbers that are some have a least one.
LEMMA Least ==
  ASSUME NEW T \in SUBSET Nat, T # {}
  PROVE  \E m \in T : \A i \in T : m <= i
<1> DEFINE R == {ss \in Nat \X Nat : ss[1] < ss[2]}
<1>1. IsWellFoundedOn(R, Nat)
  BY NatLessThanWellFounded DEF OpToRel
<1>2. \E m \in T : \A i \in T : <<i, m>> \notin R
  BY <1>1, WFMin
<1>3. \A i, m \in Nat : <<i, m>> \notin R => m <= i
  OBVIOUS
<1> QED BY <1>2, <1>3

\* A list of windows that holds none of them twice.
Listed(list) == list \in Seq(Numbered) /\ IsInjective(list)

\* Which of two places of a list comes first where it is sorted, and at which
\* place it lands.
Sooner(list, idx, i, j) == idx[list[i]] < idx[list[j]] \/ (idx[list[i]] = idx[list[j]] /\ i < j)
Place(list, idx, j) == Cardinality({i \in DOMAIN list : Sooner(list, idx, i, j)}) + 1

\* What a list is, for the leaves that need no more of it.
LEMMA ListIs ==
  ASSUME NEW list, Listed(list)
  PROVE  /\ list \in Seq(Numbered) /\ Len(list) \in Nat /\ DOMAIN list = 1..Len(list)
         /\ \A n \in 1..Len(list) : list[n] \in Numbered /\ list[n] \in In(list)
         /\ \A m, n \in 1..Len(list) : list[m] = list[n] => m = n
         /\ \A w \in In(list) : \E n \in 1..Len(list) : list[n] = w
         /\ In(list) \subseteq Numbered
BY DEF Listed, IsInjective, In, ToSet

\* `sorted` puts each at its place.
LEMMA SortedIs ==
  ASSUME NEW list, NEW idx
  PROVE  Sorted(list, idx) = [n \in DOMAIN list |-> list[CHOOSE j \in DOMAIN list : Place(list, idx, j) = n]]
BY DEF Sorted, Place, Sooner

\* Places are one to one, and in the order.
LEMMA PlacesAreOrdered ==
  ASSUME NEW list, Listed(list), NEW idx \in [Numbered -> Int]
  PROVE  /\ \A j \in 1..Len(list) : Place(list, idx, j) \in 1..Len(list)
         /\ \A i, j \in 1..Len(list) : Sooner(list, idx, i, j) => Place(list, idx, i) < Place(list, idx, j)
<1> DEFINE N == Len(list)
           Ahead(j) == {i \in 1..N : Sooner(list, idx, i, j)}
<1>0. N \in Nat /\ DOMAIN list = 1..N /\ \A n \in 1..N : idx[list[n]] \in Int
  BY ListIs
<1>1. IsFiniteSet(1..N) /\ Cardinality(1..N) = N
  BY <1>0, FS_Interval
<1>2. \A j \in 1..N : Place(list, idx, j) = Cardinality(Ahead(j)) + 1
  BY <1>0 DEF Place
<1>3. ASSUME NEW j \in 1..N PROVE Cardinality(Ahead(j)) \in Nat /\ Cardinality(Ahead(j)) < N /\ IsFiniteSet(Ahead(j))
  <2>1. Ahead(j) \in SUBSET ((1..N) \ {j}) /\ Ahead(j) \in SUBSET (1..N)
    BY <1>0 DEF Sooner
  <2>2. IsFiniteSet((1..N) \ {j}) /\ Cardinality((1..N) \ {j}) = N - 1
    BY <1>1, FS_RemoveElement
  <2>3. IsFiniteSet(Ahead(j)) /\ Cardinality(Ahead(j)) <= N - 1
    BY <2>1, <2>2, FS_Subset
  <2>4. Cardinality(Ahead(j)) \in Nat
    BY <2>3, FS_CardinalityType
  <2> HIDE DEF Ahead
  <2> QED BY <2>3, <2>4, <1>0
<1>4. ASSUME NEW i \in 1..N, NEW j \in 1..N, Sooner(list, idx, i, j)
      PROVE  Cardinality(Ahead(i)) < Cardinality(Ahead(j))
  <2>1. Ahead(i) \in SUBSET Ahead(j) /\ i \in Ahead(j) /\ i \notin Ahead(i)
    BY <1>0, <1>4 DEF Sooner
  <2>2. /\ Cardinality(Ahead(i)) <= Cardinality(Ahead(j))
        /\ Cardinality(Ahead(i)) = Cardinality(Ahead(j)) => Ahead(i) = Ahead(j)
    BY <2>1, <1>3, FS_Subset
  <2>3. Cardinality(Ahead(i)) \in Nat /\ Cardinality(Ahead(j)) \in Nat
    BY <1>3
  <2> HIDE DEF Ahead
  <2> QED BY <2>1, <2>2, <2>3
<1> HIDE DEF Ahead
<1>5. \A j \in 1..N : Place(list, idx, j) \in 1..N
  <2> SUFFICES ASSUME NEW j \in 1..N PROVE Place(list, idx, j) \in 1..N
    OBVIOUS
  <2>1. Cardinality(Ahead(j)) \in Nat /\ Cardinality(Ahead(j)) < N
    BY <1>3
  <2> QED BY <1>0, <1>2, <2>1
<1>6. \A i, j \in 1..N : Sooner(list, idx, i, j) => Place(list, idx, i) < Place(list, idx, j)
  <2> SUFFICES ASSUME NEW i \in 1..N, NEW j \in 1..N, Sooner(list, idx, i, j)
               PROVE  Place(list, idx, i) < Place(list, idx, j)
    OBVIOUS
  <2>1. Cardinality(Ahead(i)) \in Nat /\ Cardinality(Ahead(j)) \in Nat /\ Cardinality(Ahead(i)) < Cardinality(Ahead(j))
    BY <1>3, <1>4
  <2> QED BY <1>2, <2>1
<1> QED BY <1>5, <1>6

\* Each place is taken by one.
LEMMA PlacesAreTaken ==
  ASSUME NEW list, Listed(list), NEW idx \in [Numbered -> Int]
  PROVE  \A n \in 1..Len(list) : \E j \in 1..Len(list) : Place(list, idx, j) = n
<1> DEFINE N == Len(list)
           f == [j \in 1..N |-> Place(list, idx, j)]
<1>0. N \in Nat /\ \A n \in 1..N : idx[list[n]] \in Int
  BY ListIs
<1>1. f \in [1..N -> 1..N]
  BY PlacesAreOrdered
<1>2. \A i, j \in 1..N : i # j => f[i] # f[j]
  <2> SUFFICES ASSUME NEW i \in 1..N, NEW j \in 1..N, i # j PROVE f[i] # f[j]
    OBVIOUS
  <2>1. Sooner(list, idx, i, j) \/ Sooner(list, idx, j, i)
    BY <1>0 DEF Sooner
  <2>2. f[i] < f[j] \/ f[j] < f[i]
    BY <2>1, PlacesAreOrdered
  <2>3. f[i] \in Int /\ f[j] \in Int
    BY <1>0, <1>1
  <2> HIDE DEF f
  <2> QED BY <2>2, <2>3
<1>3. f \in Injection(1..N, 1..N)
  BY <1>1, <1>2 DEF Injection, IsInjective
<1>4. IsFiniteSet(1..N)
  BY <1>0, FS_Interval
<1>5. f \in Surjection(1..N, 1..N)
  BY <1>3, <1>4, FS_Injection
<1> QED BY <1>5 DEF Surjection

\* Which stands before which, in a list that holds nothing twice.
LEMMA StandsBefore ==
  ASSUME NEW list, Listed(list), NEW m \in 1..Len(list), NEW n \in 1..Len(list)
  PROVE  Before(list, list[m], list[n]) <=> m < n
<1>1. DOMAIN list = 1..Len(list) /\ \A i, j \in 1..Len(list) : list[i] = list[j] => i = j
  BY ListIs
<1> QED BY <1>1 DEF Before

\* Of two windows of a list one stands before the other.
LEMMA BeforeIsLinear ==
  ASSUME NEW list, Listed(list)
  PROVE  /\ \A t \in In(list) : ~Before(list, t, t)
         /\ \A t, u \in In(list) : t # u => Before(list, t, u) \/ Before(list, u, t)
         /\ \A t, u \in In(list) : ~(Before(list, t, u) /\ Before(list, u, t))
<1>0. Len(list) \in Nat
  BY ListIs
<1>1. ASSUME NEW t \in In(list), NEW u \in In(list)
      PROVE  /\ ~Before(list, t, t)
             /\ t # u => Before(list, t, u) \/ Before(list, u, t)
             /\ ~(Before(list, t, u) /\ Before(list, u, t))
  <2>1. PICK m \in 1..Len(list), n \in 1..Len(list) : list[m] = t /\ list[n] = u
    BY ListIs
  <2>2. /\ Before(list, t, u) <=> m < n
        /\ Before(list, u, t) <=> n < m
        /\ Before(list, t, t) <=> m < m
    BY <2>1, StandsBefore
  <2>3. m \in Nat /\ n \in Nat
    BY <1>0
  <2> QED BY <2>1, <2>2, <2>3
<1> QED BY <1>1

\* A list that is sorted again holds what it held, in the order of the index
\* and of the list before.
LEMMA SortedHolds ==
  ASSUME NEW list, Listed(list), NEW idx \in [Numbered -> Int]
  PROVE  /\ Listed(Sorted(list, idx)) /\ In(Sorted(list, idx)) = In(list) /\ Len(Sorted(list, idx)) = Len(list)
         /\ \A t, u \in In(list) :
              Before(Sorted(list, idx), t, u) <=>
                idx[t] < idx[u] \/ (idx[t] = idx[u] /\ Before(list, t, u))
<1> DEFINE N == Len(list)
           out == Sorted(list, idx)
           p(n) == CHOOSE j \in DOMAIN list : Place(list, idx, j) = n
<1>0. /\ N \in Nat /\ DOMAIN list = 1..N /\ In(list) \subseteq Numbered
      /\ \A n \in 1..N : list[n] \in Numbered /\ list[n] \in In(list)
      /\ \A m, n \in 1..N : list[m] = list[n] => m = n
      /\ \A w \in In(list) : \E n \in 1..N : list[n] = w
  BY ListIs
<1>1. out = [n \in DOMAIN list |-> list[p(n)]]
  BY SortedIs
<1>2. \A n \in 1..N : p(n) \in 1..N /\ Place(list, idx, p(n)) = n
  <2> SUFFICES ASSUME NEW n \in 1..N PROVE p(n) \in 1..N /\ Place(list, idx, p(n)) = n
    OBVIOUS
  <2>0. \A k \in 1..Len(list) : \E j \in 1..Len(list) : Place(list, idx, j) = k
    BY PlacesAreTaken
  <2>1. \E j \in DOMAIN list : Place(list, idx, j) = n
    BY <1>0, <2>0
  <2>2. p(n) \in DOMAIN list /\ Place(list, idx, p(n)) = n
    BY <2>1
  <2> QED BY <1>0, <2>2
<1>3. \A i, j \in 1..N : Sooner(list, idx, i, j) => Place(list, idx, i) < Place(list, idx, j)
  BY PlacesAreOrdered
<1>4. \A j \in 1..N : Place(list, idx, j) \in 1..N
  BY PlacesAreOrdered
<1> HIDE DEF p
<1>5. out \in Seq(Numbered) /\ Len(out) = N /\ DOMAIN out = 1..N
  BY <1>0, <1>1, <1>2
<1>6. Listed(out)
  <2>1. \A m, n \in 1..N : out[m] = out[n] => m = n
    <3> SUFFICES ASSUME NEW m \in 1..N, NEW n \in 1..N, out[m] = out[n] PROVE m = n
      OBVIOUS
    <3>1. list[p(m)] = list[p(n)]
      BY <1>1
    <3>2. p(m) = p(n)
      BY <3>1, <1>0, <1>2
    <3> QED BY <3>2, <1>2
  <2> QED BY <2>1, <1>5 DEF Listed, IsInjective
\* Where each of the list stands in the other.
<1>7. \A j \in 1..N : out[Place(list, idx, j)] = list[j]
  <2> SUFFICES ASSUME NEW j \in 1..N PROVE out[Place(list, idx, j)] = list[j]
    OBVIOUS
  <2> DEFINE n == Place(list, idx, j)
  <2>1. n \in 1..N /\ p(n) \in 1..N /\ Place(list, idx, p(n)) = n
    BY <1>2, <1>4
  <2>2. p(n) = j
    <3>1. Sooner(list, idx, p(n), j) \/ Sooner(list, idx, j, p(n)) \/ p(n) = j
      <4>1. idx[list[p(n)]] \in Int /\ idx[list[j]] \in Int
        BY <2>1, <1>0
      <4> HIDE DEF n
      <4> QED BY <4>1, <2>1, <1>0 DEF Sooner
    <3>2. n \in Int
      BY <2>1, <1>0
    <3> QED BY <3>1, <3>2, <2>1, <1>3
  <2> QED BY <2>1, <2>2, <1>1
<1>8. In(out) = In(list)
  <2>1. \A w \in In(out) : w \in In(list)
    <3>1. \A w \in In(out) : \E n \in 1..N : out[n] = w
      BY <1>5, <1>6, ListIs
    <3> QED BY <3>1, <1>0, <1>1, <1>2
  <2>2. \A w \in In(list) : w \in In(out)
    <3>1. \A n \in 1..N : out[n] \in In(out)
      BY <1>5, <1>6, ListIs
    <3> QED BY <3>1, <1>0, <1>4, <1>7
  <2> QED BY <2>1, <2>2
<1>9. ASSUME NEW t \in In(list), NEW u \in In(list)
      PROVE  Before(out, t, u) <=> idx[t] < idx[u] \/ (idx[t] = idx[u] /\ Before(list, t, u))
  <2>1. PICK i \in 1..N, j \in 1..N : list[i] = t /\ list[j] = u
    BY <1>0
  <2>2. Before(list, t, u) <=> i < j
    BY <2>1, StandsBefore
  <2>3. /\ Place(list, idx, i) \in 1..N /\ Place(list, idx, j) \in 1..N
        /\ out[Place(list, idx, i)] = t /\ out[Place(list, idx, j)] = u
    BY <2>1, <1>4, <1>7
  <2>4. Before(out, t, u) <=> Place(list, idx, i) < Place(list, idx, j)
    BY <2>3, <1>5, <1>6, StandsBefore
  <2>5. Place(list, idx, i) \in Int /\ Place(list, idx, j) \in Int /\ i \in Int /\ j \in Int
        /\ idx[t] \in Int /\ idx[u] \in Int
    BY <2>1, <2>3, <1>0
  <2>6. Sooner(list, idx, i, j) <=> idx[t] < idx[u] \/ (idx[t] = idx[u] /\ i < j)
    BY <2>1 DEF Sooner
  <2>7. Sooner(list, idx, j, i) <=> idx[u] < idx[t] \/ (idx[u] = idx[t] /\ j < i)
    BY <2>1 DEF Sooner
  <2>8. Sooner(list, idx, i, j) => Place(list, idx, i) < Place(list, idx, j)
    BY <1>3
  <2>9. Sooner(list, idx, j, i) => Place(list, idx, j) < Place(list, idx, i)
    BY <1>3
  <2> QED BY <2>2, <2>4, <2>5, <2>6, <2>7, <2>8, <2>9
<1> QED BY <1>5, <1>6, <1>8, <1>9

\* One more at the end.
LEMMA AppendHolds ==
  ASSUME NEW list, Listed(list), NEW w \in Numbered, w \notin In(list)
  PROVE  /\ Listed(Append(list, w)) /\ In(Append(list, w)) = In(list) \cup {w}
         /\ \A t, u \in In(list) : Before(Append(list, w), t, u) <=> Before(list, t, u)
<1> DEFINE N == Len(list)
           out == Append(list, w)
<1>0. /\ N \in Nat /\ DOMAIN list = 1..N /\ list \in Seq(Numbered)
      /\ \A n \in 1..N : list[n] \in Numbered /\ list[n] \in In(list)
      /\ \A m, n \in 1..N : list[m] = list[n] => m = n
      /\ \A v \in In(list) : \E n \in 1..N : list[n] = v
  BY ListIs
<1>1. /\ out \in Seq(Numbered) /\ Len(out) = N + 1 /\ DOMAIN out = 1..(N + 1)
      /\ out[N + 1] = w /\ \A n \in 1..N : out[n] = list[n]
  BY <1>0
<1> HIDE DEF out
<1>2. Listed(out)
  <2>1. \A m, n \in 1..(N + 1) : out[m] = out[n] => m = n
    <3> SUFFICES ASSUME NEW m \in 1..(N + 1), NEW n \in 1..(N + 1), out[m] = out[n] PROVE m = n
      OBVIOUS
    <3>1. (m \in 1..N \/ m = N + 1) /\ (n \in 1..N \/ n = N + 1)
      BY <1>0
    <3> QED BY <3>1, <1>0, <1>1
  <2> QED BY <1>1, <2>1 DEF Listed, IsInjective
<1>3. In(out) = In(list) \cup {w}
  <2>1. In(out) = {out[n] : n \in 1..(N + 1)} /\ In(list) = {list[n] : n \in 1..N}
    BY <1>0, <1>1 DEF In, ToSet
  <2>2. \A n \in 1..(N + 1) : n \in 1..N \/ n = N + 1
    BY <1>0
  <2>3. \A n \in 1..N : n \in 1..(N + 1)
    BY <1>0
  <2>4. N + 1 \in 1..(N + 1)
    BY <1>0
  <2> QED BY <2>1, <2>2, <2>3, <2>4, <1>1
<1>4. ASSUME NEW t \in In(list), NEW u \in In(list)
      PROVE  Before(out, t, u) <=> Before(list, t, u)
  <2>1. PICK i \in 1..N, j \in 1..N : list[i] = t /\ list[j] = u
    BY <1>0
  <2>2. i \in 1..Len(out) /\ j \in 1..Len(out) /\ out[i] = t /\ out[j] = u
    BY <2>1, <1>0, <1>1
  <2> QED BY <2>1, <2>2, <1>2, StandsBefore
<1> QED BY <1>2, <1>3, <1>4 DEF out

\* `list.remove` takes the first of what it finds.
LEMMA RemoveFirstIs ==
  ASSUME NEW s, NEW e, \E i \in 1..Len(s) : s[i] = e
  PROVE  RemoveFirst(s, e) = RemoveAt(s, Min({i \in 1..Len(s) : s[i] = e}))
<1> DEFINE I == {i \in 1..Len(s) : s[i] = e}
<1>1. SelectInSeq(s, LAMBDA v : v = e) = IF I # {} THEN Min(I) ELSE 0
  BY DEF SelectInSeq
<1>2. I # {}
  OBVIOUS
<1>3. RemoveFirst(s, e) = RemoveAt(s, SelectInSeq(s, LAMBDA v : v = e))
  BY DEF RemoveFirst
<1> QED BY <1>1, <1>2, <1>3

\* The least of one number.
LEMMA MinOfOne ==
  ASSUME NEW n \in Nat
  PROVE  Min({n}) = n
BY DEF Min

\* A window that leaves the list: the others stand as they stood.
LEMMA RemoveHolds ==
  ASSUME NEW list, Listed(list), NEW w \in In(list)
  PROVE  /\ Listed(RemoveFirst(list, w)) /\ In(RemoveFirst(list, w)) = In(list) \ {w}
         /\ \A t, u \in In(list) \ {w} : Before(RemoveFirst(list, w), t, u) <=> Before(list, t, u)
<1> DEFINE N == Len(list)
           out == RemoveFirst(list, w)
<1>0. /\ N \in Nat /\ DOMAIN list = 1..N /\ list \in Seq(Numbered)
      /\ \A n \in 1..N : list[n] \in Numbered /\ list[n] \in In(list)
      /\ \A m, n \in 1..N : list[m] = list[n] => m = n
      /\ \A v \in In(list) : \E n \in 1..N : list[n] = v
  BY ListIs
<1>1. PICK k \in 1..N : list[k] = w
  BY <1>0
<1>2. out = SubSeq(list, 1, k - 1) \o SubSeq(list, k + 1, N)
  <2>1. {i \in 1..N : list[i] = w} = {k}
    BY <1>0, <1>1
  <2>2. k \in Nat
    BY <1>0
  <2>3. Min({i \in 1..N : list[i] = w}) = k
    BY <2>1, <2>2, MinOfOne
  <2>4. \E i \in 1..N : list[i] = w
    BY <1>1
  <2>5. out = RemoveAt(list, Min({i \in 1..N : list[i] = w}))
    BY <2>4, RemoveFirstIs
  <2> HIDE DEF out
  <2> QED BY <2>3, <2>5 DEF RemoveAt
<1> DEFINE from(n) == IF n < k THEN n ELSE n + 1
           to(i) == IF i < k THEN i ELSE i - 1
<1> HIDE DEF out
<1>3. out \in Seq(Numbered) /\ Len(out) = N - 1 /\ \A n \in 1..(N - 1) : out[n] = list[from(n)]
  <2>1. k - 1 \in Nat /\ k \in Nat /\ k + 1 \in Int /\ N - k \in Nat
    BY <1>0
  <2>2. \A i \in 1..(k - 1) : list[i] \in Numbered
    BY <1>0, <2>1
  <2>3. \A i \in (k + 1)..N : list[i] \in Numbered
    BY <1>0, <2>1
  <2> DEFINE a == SubSeq(list, 1, k - 1)
             b == SubSeq(list, k + 1, N)
  <2>4. a \in Seq(Numbered) /\ Len(a) = k - 1 /\ \A i \in 1..(k - 1) : a[i] = list[i]
    <3>1. /\ a \in Seq(Numbered) /\ Len(a) = IF 1 <= k - 1 THEN (k - 1) - 1 + 1 ELSE 0
          /\ \A i \in 1..((k - 1) - 1 + 1) : a[i] = list[1 + i - 1]
      BY <2>1, <2>2, SubSeqProperties
    <3>2. Len(a) = k - 1
      BY <3>1, <2>1
    <3>3. \A i \in 1..(k - 1) : i \in 1..((k - 1) - 1 + 1) /\ 1 + i - 1 = i
      BY <2>1
    <3> HIDE DEF a
    <3> QED BY <3>1, <3>2, <3>3
  <2>5. b \in Seq(Numbered) /\ Len(b) = N - k /\ \A i \in 1..(N - k) : b[i] = list[i + k]
    <3>1. /\ b \in Seq(Numbered) /\ Len(b) = IF k + 1 <= N THEN N - (k + 1) + 1 ELSE 0
          /\ \A i \in 1..(N - (k + 1) + 1) : b[i] = list[(k + 1) + i - 1]
      BY <1>0, <2>1, <2>3, SubSeqProperties
    <3>2. Len(b) = N - k
      <4>1. \A x, y \in Nat : x - y \in Nat => (IF y + 1 <= x THEN x - (y + 1) + 1 ELSE 0) = x - y
        OBVIOUS
      <4>2. (IF k + 1 <= N THEN N - (k + 1) + 1 ELSE 0) = N - k
        BY <1>0, <2>1, <4>1
      <4> QED BY <3>1, <4>2
    <3>3. \A i \in 1..(N - k) : i \in 1..(N - (k + 1) + 1) /\ (k + 1) + i - 1 = i + k
      BY <1>0, <2>1
    <3> HIDE DEF b
    <3> QED BY <3>1, <3>2, <3>3
  <2> HIDE DEF a, b
  <2>6. /\ a \o b \in Seq(Numbered) /\ Len(a \o b) = Len(a) + Len(b)
        /\ \A i \in 1..(Len(a) + Len(b)) : (a \o b)[i] = IF i <= Len(a) THEN a[i] ELSE b[i - Len(a)]
    BY <2>4, <2>5, ConcatProperties
  <2>7. out = a \o b
    BY <1>2 DEF a, b
  <2>8. Len(a) + Len(b) = N - 1
    BY <1>0, <2>1, <2>4, <2>5
  <2>9. \A n \in 1..(N - 1) : out[n] = list[from(n)]
    <3> SUFFICES ASSUME NEW n \in 1..(N - 1) PROVE out[n] = list[from(n)]
      OBVIOUS
    <3>1. n \in Nat \ {0} /\ n <= N - 1
      BY <1>0
    <3>2. CASE n < k
      <4>1. n \in 1..(k - 1) /\ n <= Len(a)
        BY <3>1, <3>2, <2>1, <2>4
      <4> QED BY <4>1, <3>2, <2>4, <2>6, <2>7, <2>8
    <3>3. CASE ~(n < k)
      <4>1. ~(n <= Len(a)) /\ n - Len(a) \in 1..(N - k) /\ (n - Len(a)) + k = n + 1
        BY <1>0, <3>1, <3>3, <2>1, <2>4
      <4> QED BY <4>1, <3>3, <2>5, <2>6, <2>7, <2>8
    <3> QED BY <3>2, <3>3
  <2> QED BY <2>6, <2>7, <2>8, <2>9
<1>4. DOMAIN out = 1..(N - 1)
  BY <1>3
<1>5. \A n \in 1..(N - 1) : from(n) \in 1..N /\ from(n) # k /\ to(from(n)) = n
  BY <1>0
<1>6. \A i \in 1..N : i # k => to(i) \in 1..(N - 1) /\ from(to(i)) = i
  BY <1>0
<1>7. \A i, j \in 1..N : i # k /\ j # k => (to(i) < to(j) <=> i < j)
  BY <1>0
<1>11. \A i \in 1..N : i # k => out[to(i)] = list[i]
  BY <1>3, <1>6
<1> HIDE DEF from, to
<1>8. Listed(out)
  <2>1. \A m, n \in 1..(N - 1) : out[m] = out[n] => m = n
    <3> SUFFICES ASSUME NEW m \in 1..(N - 1), NEW n \in 1..(N - 1), out[m] = out[n] PROVE m = n
      OBVIOUS
    <3>1. list[from(m)] = list[from(n)]
      BY <1>3
    <3>2. from(m) = from(n)
      BY <3>1, <1>0, <1>5
    <3> QED BY <3>2, <1>5
  <2> QED BY <2>1, <1>3, <1>4 DEF Listed, IsInjective
<1>9. In(out) = In(list) \ {w}
  <2>1. In(out) = {out[n] : n \in 1..(N - 1)} /\ In(list) = {list[n] : n \in 1..N}
    BY <1>0, <1>4 DEF In, ToSet
  <2>2. \A n \in 1..(N - 1) : out[n] \in In(list) /\ out[n] # w
    BY <1>0, <1>1, <1>3, <1>5
  <2>3. \A v \in In(list) \ {w} : v \in In(out)
    <3> SUFFICES ASSUME NEW v \in In(list) \ {w} PROVE v \in In(out)
      OBVIOUS
    <3>1. PICK i \in 1..N : list[i] = v
      BY <1>0
    <3>2. i # k /\ to(i) \in 1..(N - 1) /\ out[to(i)] = v
      BY <3>1, <1>1, <1>6, <1>11
    <3> QED BY <3>2, <2>1
  <2> QED BY <2>1, <2>2, <2>3
<1>10. ASSUME NEW t \in In(list) \ {w}, NEW u \in In(list) \ {w}
       PROVE  Before(out, t, u) <=> Before(list, t, u)
  <2>1. PICK i \in 1..N, j \in 1..N : list[i] = t /\ list[j] = u
    BY <1>0
  <2>2. i # k /\ j # k
    BY <2>1, <1>1
  <2>3. /\ to(i) \in 1..Len(out) /\ to(j) \in 1..Len(out)
        /\ out[to(i)] = t /\ out[to(j)] = u
    BY <2>1, <2>2, <1>3, <1>6, <1>11
  <2>4. Before(out, t, u) <=> to(i) < to(j)
    BY <2>3, <1>8, StandsBefore
  <2>5. Before(list, t, u) <=> i < j
    BY <2>1, StandsBefore
  <2> QED BY <2>2, <2>4, <2>5, <1>7
<1> QED BY <1>8, <1>9, <1>10 DEF out

-----------------------------------------------------------------------------
(* The order of a session's windows: what room and numbers make of the indexes *)

\* A list that stands in the order of its indexes.
Ordered(list, idx) == \A t, u \in In(list) : Before(list, t, u) => idx[t] <= idx[u]

\* `make_room_at`: which windows it moves.
Latest(list, idx, w) == \A n, m \in DOMAIN list : list[n] = w /\ n < m => idx[list[m]] # idx[w]
Runs(list, idx, i, k) == \A j \in i..k : \E w \in In(list) : idx[w] = j
Moves(list, idx, i, w) == w \in In(list) /\ idx[w] >= i /\ Latest(list, idx, w) /\ Runs(list, idx, i, idx[w])

\* What makes room keeps the order, and where no index is shared leaves the
\* index to nobody.
LEMMA RoomHolds ==
  ASSUME NEW list, Listed(list), NEW idx \in [Numbered -> Nat], NEW i \in Nat
  PROVE  /\ MakeRoom(list, idx, i) \in [Numbered -> Nat]
         /\ Ordered(list, idx) => Ordered(list, MakeRoom(list, idx, i))
         /\ Apart(list, idx) => /\ Apart(list, MakeRoom(list, idx, i))
                                /\ \A v \in In(list) : MakeRoom(list, idx, i)[v] # i
<1> DEFINE r == MakeRoom(list, idx, i)
<1>0. /\ Len(list) \in Nat /\ DOMAIN list = 1..Len(list) /\ In(list) \subseteq Numbered
      /\ \A m, n \in 1..Len(list) : list[m] = list[n] => m = n
      /\ \A n \in 1..Len(list) : list[n] \in In(list)
      /\ \A w \in In(list) : \E n \in 1..Len(list) : list[n] = w
  BY ListIs
<1>1. r = [w \in Numbered |-> IF Moves(list, idx, i, w) THEN idx[w] + 1 ELSE idx[w]]
  BY DEF MakeRoom, Moves, Latest, Runs
<1>2. r \in [Numbered -> Nat]
  BY <1>1
<1>3. \A w \in In(list) : idx[w] \in Nat /\ r[w] = IF Moves(list, idx, i, w) THEN idx[w] + 1 ELSE idx[w]
  BY <1>0, <1>1
<1> HIDE DEF r
<1>4. ASSUME Ordered(list, idx), NEW t \in In(list), NEW u \in In(list), Before(list, t, u)
      PROVE  r[t] <= r[u]
  <2>1. idx[t] <= idx[u] /\ idx[u] <= r[u] /\ idx[t] \in Nat /\ idx[u] \in Nat
    BY <1>3, <1>4 DEF Ordered
  <2>2. CASE Moves(list, idx, i, t)
    <3>1. idx[u] # idx[t]
      BY <1>4, <2>2 DEF Moves, Latest, Before
    <3>2. r[t] = idx[t] + 1 /\ r[u] \in Nat
      BY <1>0, <1>2, <1>3, <2>2
    <3> QED BY <2>1, <3>1, <3>2
  <2>3. CASE ~Moves(list, idx, i, t)
    <3>1. r[t] = idx[t] /\ r[u] \in Nat
      BY <1>0, <1>2, <1>3, <2>3
    <3> QED BY <2>1, <3>1
  <2> QED BY <2>2, <2>3
<1>5. ASSUME Apart(list, idx), NEW w \in In(list)
      PROVE  Latest(list, idx, w)
  <2> SUFFICES ASSUME NEW n \in 1..Len(list), NEW m \in 1..Len(list), list[n] = w, n < m PROVE idx[list[m]] # idx[w]
    BY <1>0 DEF Latest
  <2>1. list[m] \in In(list) /\ list[m] # w
    BY <1>0
  <2> QED BY <2>1, <1>5 DEF Apart
<1>6. ASSUME Apart(list, idx), NEW v \in In(list), NEW w \in In(list), Moves(list, idx, i, v), idx[w] = idx[v] + 1
      PROVE  Moves(list, idx, i, w)
  <2>0. idx[v] \in Nat /\ idx[w] \in Nat /\ idx[v] >= i
    BY <1>3, <1>6 DEF Moves
  <2>1. Runs(list, idx, i, idx[w])
    <3> SUFFICES ASSUME NEW j \in i..idx[w] PROVE \E x \in In(list) : idx[x] = j
      BY DEF Runs
    <3>1. j \in i..idx[v] \/ j = idx[w]
      BY <2>0, <1>6
    <3> QED BY <3>1, <1>6 DEF Moves, Runs
  <2>2. Latest(list, idx, w) /\ idx[w] >= i
    BY <2>0, <1>5, <1>6
  <2> QED BY <2>1, <2>2, <1>6 DEF Moves
<1>7. ASSUME Apart(list, idx)
      PROVE  Apart(list, r)
  <2> SUFFICES ASSUME NEW v \in In(list), NEW w \in In(list), v # w, r[v] = r[w] PROVE FALSE
    BY DEF Apart
  <2>1. idx[v] # idx[w] /\ idx[v] \in Nat /\ idx[w] \in Nat
    BY <1>3, <1>7 DEF Apart
  <2>2. /\ r[v] = IF Moves(list, idx, i, v) THEN idx[v] + 1 ELSE idx[v]
        /\ r[w] = IF Moves(list, idx, i, w) THEN idx[w] + 1 ELSE idx[w]
    BY <1>3
  <2>3. CASE Moves(list, idx, i, v) /\ ~Moves(list, idx, i, w)
    <3>1. idx[w] = idx[v] + 1
      BY <2>2, <2>3
    <3> QED BY <2>3, <3>1, <1>6, <1>7
  <2>4. CASE Moves(list, idx, i, w) /\ ~Moves(list, idx, i, v)
    <3>1. idx[v] = idx[w] + 1
      BY <2>2, <2>4
    <3> QED BY <2>4, <3>1, <1>6, <1>7
  <2>5. CASE Moves(list, idx, i, w) /\ Moves(list, idx, i, v)
    <3>1. idx[v] + 1 = idx[w] + 1
      BY <2>2, <2>5
    <3> QED BY <2>1, <3>1
  <2> QED BY <2>1, <2>2, <2>3, <2>4, <2>5
<1>8. ASSUME Apart(list, idx), NEW v \in In(list)
      PROVE  r[v] # i
  <2>1. idx[v] \in Nat /\ r[v] = IF Moves(list, idx, i, v) THEN idx[v] + 1 ELSE idx[v]
    BY <1>3
  <2>2. CASE Moves(list, idx, i, v)
    BY <2>1, <2>2 DEF Moves
  <2>3. CASE idx[v] = i
    <3>1. Runs(list, idx, i, idx[v])
      <4> SUFFICES ASSUME NEW j \in i..idx[v] PROVE idx[v] = j
        BY DEF Runs
      <4> QED BY <2>3
    <3>2. Moves(list, idx, i, v)
      BY <2>1, <2>3, <3>1, <1>5, <1>8 DEF Moves
    <3> QED BY <2>2, <3>2
  <2> QED BY <2>1, <2>2, <2>3
<1> QED BY <1>2, <1>4, <1>7, <1>8 DEF Ordered, r

\* What is numbered again keeps the order, and has an index each.
LEMMA RenumberedHolds ==
  ASSUME NEW list, Listed(list), NEW idx \in [Numbered -> Nat]
  PROVE  /\ Renumbered(list, idx) \in [Numbered -> Nat]
         /\ Ordered(list, idx) => Ordered(list, Renumbered(list, idx))
         /\ Apart(list, Renumbered(list, idx))
<1> DEFINE r == Renumbered(list, idx)
           sorted == Sorted(list, idx)
           at(w) == CHOOSE n \in DOMAIN list : sorted[n] = w
<1>0. DOMAIN list = 1..Len(list) /\ Len(list) \in Nat /\ In(list) \subseteq Numbered
  BY ListIs
<1>1. /\ Listed(sorted) /\ In(sorted) = In(list) /\ Len(sorted) = Len(list)
      /\ \A t, u \in In(list) :
           Before(sorted, t, u) <=> idx[t] < idx[u] \/ (idx[t] = idx[u] /\ Before(list, t, u))
  <2>1. idx \in [Numbered -> Int]
    OBVIOUS
  <2> QED BY <2>1, SortedHolds
<1>2. r = [w \in Numbered |-> IF w \in In(list) THEN Base + at(w) - 1 ELSE idx[w]]
  BY DEF Renumbered
<1> HIDE DEF sorted
<1>3. ASSUME NEW w \in In(list)
      PROVE  at(w) \in 1..Len(list) /\ sorted[at(w)] = w
  <2>1. \E n \in 1..Len(sorted) : sorted[n] = w
    BY <1>1, ListIs
  <2>2. \E n \in DOMAIN list : sorted[n] = w
    BY <1>0, <1>1, <2>1
  <2>3. at(w) \in DOMAIN list /\ sorted[at(w)] = w
    BY <2>2
  <2> HIDE DEF at
  <2> QED BY <2>3, <1>0
<1> HIDE DEF at
<1>4. \A w \in In(list) : r[w] = Base + at(w) - 1 /\ at(w) \in Nat \ {0}
  BY <1>0, <1>2, <1>3
<1>5. r \in [Numbered -> Nat]
  <2>1. \A w \in In(list) : Base + at(w) - 1 \in Nat
    BY <1>4, WindowOrderAssumption
  <2> QED BY <2>1, <1>2
<1>6. ASSUME NEW t \in In(list), NEW u \in In(list)
      PROVE  Before(sorted, t, u) <=> r[t] < r[u]
  <2>1. Before(sorted, t, u) <=> at(t) < at(u)
    <3>1. at(t) \in 1..Len(sorted) /\ at(u) \in 1..Len(sorted) /\ sorted[at(t)] = t /\ sorted[at(u)] = u
      BY <1>1, <1>3
    <3> QED BY <3>1, <1>1, StandsBefore
  <2>2. at(t) \in Nat /\ at(u) \in Nat /\ r[t] = Base + at(t) - 1 /\ r[u] = Base + at(u) - 1
    BY <1>4
  <2> QED BY <2>1, <2>2, WindowOrderAssumption
<1>7. ASSUME Ordered(list, idx), NEW t \in In(list), NEW u \in In(list), Before(list, t, u)
      PROVE  r[t] <= r[u]
  <2>1. idx[t] <= idx[u] /\ idx[t] \in Nat /\ idx[u] \in Nat
    BY <1>0, <1>7 DEF Ordered
  <2>2. Before(sorted, t, u)
    BY <2>1, <1>1, <1>7
  <2>3. r[t] < r[u] /\ r[t] \in Nat /\ r[u] \in Nat
    BY <1>0, <1>5, <1>6, <2>2
  <2> HIDE DEF r
  <2> QED BY <2>3
<1>8. ASSUME NEW t \in In(list), NEW u \in In(list), t # u
      PROVE  r[t] # r[u]
  <2>1. Before(sorted, t, u) \/ Before(sorted, u, t)
    BY <1>1, <1>8, BeforeIsLinear
  <2>2. r[t] \in Nat /\ r[u] \in Nat
    BY <1>0, <1>5
  <2> HIDE DEF r
  <2> QED BY <1>6, <2>1, <2>2
<1> HIDE DEF r
<1>9. Apart(list, r) /\ (Ordered(list, idx) => Ordered(list, r))
  BY <1>7, <1>8 DEF Apart, Ordered
<1> QED BY <1>5, <1>9 DEF r

\* What closes its gaps or leaves them keeps the order and who is apart.
LEMMA CloseHolds ==
  ASSUME NEW list, Listed(list), NEW idx \in [Numbered -> Nat]
  PROVE  /\ ClosesUp(list, idx) \in [Numbered -> Nat]
         /\ Ordered(list, idx) => Ordered(list, ClosesUp(list, idx))
         /\ Apart(list, idx) => Apart(list, ClosesUp(list, idx))
BY RenumberedHolds DEF ClosesUp

\* No window at an index is no window with it.
LEMMA AtIsEmpty ==
  ASSUME NEW list, Listed(list), NEW idx, NEW i
  PROVE  /\ At(list, idx, i) = {} <=> \A v \in In(list) : idx[v] # i
         /\ At(list, idx, i) \subseteq In(list)
<1>0. /\ Len(list) \in Nat /\ DOMAIN list = 1..Len(list)
      /\ \A n \in 1..Len(list) : list[n] \in In(list)
      /\ \A w \in In(list) : \E n \in 1..Len(list) : list[n] = w
  BY ListIs
<1>1. At(list, idx, i) = {list[n] : n \in {m \in 1..Len(list) : idx[list[m]] = i /\ \A k \in 1..(m - 1) : idx[list[k]] # i}}
  BY <1>0 DEF At
<1>2. ASSUME NEW v \in In(list), idx[v] = i
      PROVE  At(list, idx, i) # {}
  <2> DEFINE T == {m \in 1..Len(list) : idx[list[m]] = i}
  <2>1. T \in SUBSET Nat /\ T # {}
    BY <1>0, <1>2
  <2>2. PICK m \in T : \A k \in T : m <= k
    <3> HIDE DEF T
    <3> QED BY <2>1, Least
  <2>3. ASSUME NEW k \in 1..(m - 1) PROVE idx[list[k]] # i
    <3>1. k \in 1..Len(list) /\ ~(m <= k)
      BY <1>0, <2>2
    <3> QED BY <2>2, <3>1
  <2>4. m \in {x \in 1..Len(list) : idx[list[x]] = i /\ \A k \in 1..(x - 1) : idx[list[k]] # i}
    BY <2>2, <2>3
  <2>5. list[m] \in At(list, idx, i)
    BY <1>1, <2>4
  <2> QED BY <2>5
<1>3. ASSUME NEW v \in At(list, idx, i) PROVE v \in In(list) /\ idx[v] = i
  <2>1. PICK n \in 1..Len(list) : idx[list[n]] = i /\ v = list[n]
    BY <1>1
  <2> QED BY <2>1, <1>0
<1> QED BY <1>2, <1>3

\* There is a free index among one more than there are windows.
LEMMA LowestFreeHolds ==
  ASSUME NEW list, Listed(list), NEW idx \in [Numbered -> Nat]
  PROVE  LowestFree(list, idx) \in Nat /\ \A v \in In(list) : idx[v] # LowestFree(list, idx)
<1> DEFINE Few == Base..(Base + MaxNumbered)
           Free == {i \in Few : At(list, idx, i) = {}}
           f == [i \in Few |-> CHOOSE v \in In(list) : idx[v] = i]
<1>0. /\ Base \in Nat /\ MaxNumbered \in Nat \ {0} /\ Numbered = 1..MaxNumbered /\ In(list) \subseteq Numbered
      /\ \A i \in Few : i \in Nat
  BY ListIs, WindowOrderAssumption DEF Numbered
<1>1. \A i \in Few : At(list, idx, i) = {} <=> \A v \in In(list) : idx[v] # i
  BY AtIsEmpty
<1>2. Free # {}
  <2> SUFFICES ASSUME Free = {} PROVE FALSE
    OBVIOUS
  <2>1. \A i \in Few : \E v \in In(list) : idx[v] = i
    BY <1>1
  <2>2. \A i \in Few : f[i] \in In(list) /\ idx[f[i]] = i
    BY <2>1
  <2> HIDE DEF f
  <2>3. f \in [Few -> Numbered]
    BY <1>0, <2>2 DEF f
  <2>4. f \in Injection(Few, Numbered)
    BY <2>2, <2>3 DEF Injection, IsInjective
  <2>5. IsFiniteSet(Numbered) /\ Cardinality(Numbered) = MaxNumbered
    BY <1>0, FS_Interval
  <2>6. Cardinality(Few) = MaxNumbered + 1
    <3>1. Base + MaxNumbered \in Int /\ Base \in Int /\ ~(Base > Base + MaxNumbered) /\ (Base + MaxNumbered) - Base + 1 = MaxNumbered + 1
      BY <1>0
    <3> QED BY <3>1, FS_Interval
  <2>7. Cardinality(Few) <= Cardinality(Numbered)
    BY <2>4, <2>5, FS_Injection
  <2> QED BY <1>0, <2>5, <2>6, <2>7
<1>3. \E i \in Few : At(list, idx, i) = {} /\ \A j \in Base..(i - 1) : At(list, idx, j) # {}
  <2>1. Free \in SUBSET Nat
    BY <1>0
  <2>2. PICK i \in Free : \A j \in Free : i <= j
    <3> HIDE DEF Free
    <3> QED BY <1>2, <2>1, Least
  <2>3. ASSUME NEW j \in Base..(i - 1) PROVE At(list, idx, j) # {}
    <3>1. j \in Few /\ ~(i <= j)
      BY <1>0, <2>2
    <3> QED BY <2>2, <3>1
  <2> QED BY <2>2, <2>3
<1>4. LowestFree(list, idx) \in Few /\ At(list, idx, LowestFree(list, idx)) = {}
  BY <1>3 DEF LowestFree
<1> HIDE DEF Few
<1> QED BY <1>0, <1>1, <1>4

\* The greatest of the indexes of a list.
LEMMA GreatestIs ==
  ASSUME NEW S \in SUBSET Nat, S # {}, NEW bound \in Nat, \A x \in S : x <= bound
  PROVE  Max(S) \in S /\ \A x \in S : x <= Max(S)
<1> DEFINE T == {bound - x : x \in S}
<1>0. \A x \in S : x \in Nat /\ bound - x \in Nat
  OBVIOUS
<1>1. T \in SUBSET Nat /\ T # {}
  <2>1. T \subseteq Nat
    BY <1>0
  <2>2. PICK x \in S : TRUE
    OBVIOUS
  <2>3. bound - x \in T
    OBVIOUS
  <2> QED BY <2>1, <2>3
<1>2. PICK m \in T : \A i \in T : m <= i
  <2> HIDE DEF T
  <2> QED BY <1>1, Least
<1>3. PICK x \in S : m = bound - x
  BY <1>2
<1>4. \A y \in S : x >= y
  <2> SUFFICES ASSUME NEW y \in S PROVE x >= y
    OBVIOUS
  <2>1. bound - y \in T
    OBVIOUS
  <2>2. bound - x <= bound - y
    BY <1>2, <1>3, <2>1
  <2>3. x \in Nat /\ y \in Nat
    OBVIOUS
  <2> QED BY <2>2, <2>3
<1>5. Max(S) \in S /\ \A y \in S : Max(S) >= y
  BY <1>4 DEF Max
<1>6. \A y \in S : y \in Nat
  OBVIOUS
<1> QED BY <1>5, <1>6

-----------------------------------------------------------------------------
(* The order of a session's windows: what the commands do *)

\* What every command finds, and leaves.
OrderInv ==
  /\ Listed(windows) /\ index \in [Numbered -> Nat] /\ renumbers \in BOOLEAN
  /\ Ordered(windows, index)
  /\ \A w \in Numbered : index[w] <= MaxIndex

\* The others of a list stay as they stood where one of them is put elsewhere.
LEMMA PlacedHolds ==
  ASSUME NEW list, Listed(list), NEW w \in In(list), NEW i \in Nat, NEW idx \in [Numbered -> Nat],
         \A t, u \in In(list) \ {w} : Before(list, t, u) => idx[t] <= idx[u],
         NEW put \in [Numbered -> Nat], \A v \in Numbered : put[v] = IF v = w THEN i ELSE idx[v]
  PROVE  /\ Listed(Sorted(list, put)) /\ In(Sorted(list, put)) = In(list)
         /\ Ordered(Sorted(list, put), put)
         /\ \A t, u \in In(list) \ {w} : Before(list, t, u) <=> Before(Sorted(list, put), t, u)
         /\ (\A t, u \in In(list) \ {w} : t # u => idx[t] # idx[u]) /\ (\A t \in In(list) \ {w} : idx[t] # i)
              => Apart(Sorted(list, put), put)
<1> DEFINE out == Sorted(list, put)
<1>0. In(list) \subseteq Numbered
  BY ListIs
<1>1. put \in [Numbered -> Int] /\ \A v \in Numbered : put[v] = IF v = w THEN i ELSE idx[v]
  OBVIOUS
<1>2. /\ Listed(out) /\ In(out) = In(list)
      /\ \A t, u \in In(list) :
           Before(out, t, u) <=> put[t] < put[u] \/ (put[t] = put[u] /\ Before(list, t, u))
  <2>1. put \in [Numbered -> Int]
    BY <1>1
  <2> QED BY <2>1, SortedHolds
<1> HIDE DEF out
<1>3. Ordered(out, put)
  <2> SUFFICES ASSUME NEW t \in In(list), NEW u \in In(list), Before(out, t, u) PROVE put[t] <= put[u]
    BY <1>2 DEF Ordered
  <2>1. put[t] \in Nat /\ put[u] \in Nat
    BY <1>0, <1>1
  <2> QED BY <1>2, <2>1
<1>4. ASSUME NEW t \in In(list) \ {w}, NEW u \in In(list) \ {w}
      PROVE  Before(list, t, u) <=> Before(out, t, u)
  <2>1. put[t] = idx[t] /\ put[u] = idx[u] /\ idx[t] \in Nat /\ idx[u] \in Nat
    BY <1>0, <1>1
  <2>2. Before(out, t, u) <=> idx[t] < idx[u] \/ (idx[t] = idx[u] /\ Before(list, t, u))
    BY <1>2, <2>1
  <2>3. /\ Before(list, t, u) => idx[t] <= idx[u]
        /\ Before(list, u, t) => idx[u] <= idx[t]
    OBVIOUS
  <2>4. /\ t # u => Before(list, t, u) \/ Before(list, u, t)
        /\ ~(Before(list, t, u) /\ Before(list, u, t))
    BY BeforeIsLinear
  <2>5. idx[t] < idx[u] => t # u
    BY <2>1
  <2> QED BY <2>1, <2>2, <2>3, <2>4, <2>5
<1>5. ASSUME \A t, u \in In(list) \ {w} : t # u => idx[t] # idx[u], \A t \in In(list) \ {w} : idx[t] # i
      PROVE  Apart(out, put)
  <2> SUFFICES ASSUME NEW t \in In(list), NEW u \in In(list), t # u PROVE put[t] # put[u]
    BY <1>2 DEF Apart
  <2>1. put[t] = (IF t = w THEN i ELSE idx[t]) /\ put[u] = (IF u = w THEN i ELSE idx[u])
    BY <1>0, <1>1
  <2> QED BY <2>1, <1>5
<1> QED BY <1>1, <1>2, <1>3, <1>4, <1>5 DEF out

\* What every command does to the order.
Rearranges ==
  /\ Listed(windows') /\ index' \in [Numbered -> Nat] /\ Ordered(windows', index')
  /\ OthersStay
  /\ (\E w \in Numbered, i \in Indexes : Link(w, i)) \/ (Apart(windows, index) => Apart(windows', index'))

\* Putting a window somewhere, where what it is put among has room for it.
LEMMA PutRearranges ==
  ASSUME OrderInv, NEW w \in Numbered, NEW i \in Nat, NEW idx \in [Numbered -> Nat], Put(w, i, idx),
         Ordered(windows, idx),
         \/ \E k \in Indexes : Link(w, k)
         \/ Apart(windows, index) => Apart(windows, idx) /\ \A v \in In(windows) \ {w} : idx[v] # i
  PROVE  Rearranges
<1> DEFINE list == IF w \in In(windows) THEN windows ELSE Append(windows, w)
           put == [idx EXCEPT ![w] = i]
<1>0. Listed(windows) /\ index' = put /\ windows' = Sorted(list, put)
  BY DEF Put, OrderInv
<1>3. /\ Listed(list) /\ In(list) = In(windows) \cup {w} /\ w \in In(list)
      /\ \A t, u \in In(windows) : Before(list, t, u) <=> Before(windows, t, u)
  BY <1>0, AppendHolds
<1> HIDE DEF list, put
<1>7. put \in [Numbered -> Nat] /\ \A v \in Numbered : put[v] = IF v = w THEN i ELSE idx[v]
  BY DEF put
<1>4. In(list) \ {w} = In(windows) \ {w}
  BY <1>3
<1>5. \A t, u \in In(list) \ {w} : Before(list, t, u) => idx[t] <= idx[u]
  BY <1>3, <1>4 DEF Ordered
<1>6. /\ Listed(windows') /\ In(windows') = In(list)
      /\ Ordered(windows', index')
      /\ \A t, u \in In(list) \ {w} : Before(list, t, u) <=> Before(windows', t, u)
      /\ (\A t, u \in In(list) \ {w} : t # u => idx[t] # idx[u]) /\ (\A t \in In(list) \ {w} : idx[t] # i)
           => Apart(windows', index')
  <2>1. /\ Listed(Sorted(list, put)) /\ In(Sorted(list, put)) = In(list)
        /\ Ordered(Sorted(list, put), put)
        /\ \A t, u \in In(list) \ {w} : Before(list, t, u) <=> Before(Sorted(list, put), t, u)
        /\ (\A t, u \in In(list) \ {w} : t # u => idx[t] # idx[u]) /\ (\A t \in In(list) \ {w} : idx[t] # i)
             => Apart(Sorted(list, put), put)
    BY <1>3, <1>5, <1>7, PlacedHolds
  <2> QED BY <1>0, <2>1
<1>1. /\ Listed(windows') /\ In(windows') = In(windows) \cup {w}
      /\ index' \in [Numbered -> Nat] /\ Ordered(windows', index')
      /\ \A t, u \in In(windows) \ {w} : Before(windows, t, u) <=> Before(windows', t, u)
      /\ Apart(windows, idx) /\ (\A v \in In(windows) \ {w} : idx[v] # i) => Apart(windows', index')
  BY <1>0, <1>3, <1>4, <1>6, <1>7 DEF Apart
<1>2. OthersStay
  <2>1. In(windows) \ {w, w} = In(windows') \ {w, w} /\ In(windows) \ {w, w} = In(windows) \ {w}
    BY <1>1
  <2>2. \A t, u \in In(windows) \ {w, w} : Before(windows, t, u) <=> Before(windows', t, u)
    BY <1>1, <2>1
  <2> QED BY <2>1, <2>2 DEF OthersStay
<1> QED BY <1>1, <1>2 DEF Rearranges

\* An index that a command names.
LEMMA IndexesAreNat == \A i \in Indexes : i \in Nat
BY WindowOrderAssumption DEF Indexes

\* `new-window`, `move-window` and `link-window`.
LEMMA InsertRearranges ==
  ASSUME OrderInv, NEW w \in Numbered, NEW i \in Indexes,
         Insert(w, i) \/ MoveAmong(w, i) \/ Move(w, i) \/ Link(w, i)
  PROVE  Rearranges
<1>0. Listed(windows) /\ index \in [Numbered -> Nat] /\ Ordered(windows, index) /\ i \in Nat
  BY IndexesAreNat DEF OrderInv
<1>1. CASE Insert(w, i) \/ MoveAmong(w, i)
  <2> DEFINE idx == MakeRoom(windows, index, i)
  <2>1. Put(w, i, idx)
    BY <1>1 DEF Insert, MoveAmong
  <2>2. /\ idx \in [Numbered -> Nat] /\ Ordered(windows, idx)
        /\ Apart(windows, index) => Apart(windows, idx) /\ \A v \in In(windows) : idx[v] # i
    BY <1>0, RoomHolds
  <2> HIDE DEF idx
  <2> QED BY <1>0, <2>1, <2>2, PutRearranges
<1>2. CASE Move(w, i)
  <2>1. \A v \in In(windows) : index[v] # i
    BY <1>0, <1>2, AtIsEmpty DEF Move
  <2> QED BY <1>0, <1>2, <2>1, PutRearranges DEF Move
<1>3. CASE Link(w, i)
  BY <1>0, <1>3, PutRearranges DEF Link
<1> QED BY <1>1, <1>2, <1>3

\* `break-pane` takes a free index.
LEMMA BreakOffRearranges ==
  ASSUME OrderInv, NEW w \in Numbered, BreakOff(w)
  PROVE  Rearranges
<1>0. Listed(windows) /\ index \in [Numbered -> Nat] /\ Ordered(windows, index)
  BY DEF OrderInv
<1>1. LowestFree(windows, index) \in Nat /\ \A v \in In(windows) : index[v] # LowestFree(windows, index)
  BY <1>0, LowestFreeHolds
<1> QED BY <1>0, <1>1, PutRearranges DEF BreakOff

\* A window that comes after the last one has an index of its own.
LEMMA LinkAfterRearranges ==
  ASSUME OrderInv, NEW w \in Numbered, LinkAfter(w)
  PROVE  Rearranges
<1>0. Listed(windows) /\ index \in [Numbered -> Nat] /\ Ordered(windows, index) /\ In(windows) \subseteq Numbered
  BY ListIs DEF OrderInv
<1>1. CASE windows = << >>
  <2>1. In(windows) = {}
    BY <1>1 DEF In, ToSet
  <2> QED BY <1>0, <1>1, <2>1, PutRearranges, WindowOrderAssumption DEF LinkAfter
<1>2. CASE windows # << >>
  <2> DEFINE S == {index[v] : v \in In(windows)}
  <2>1. S \in SUBSET Nat /\ S # {} /\ \A x \in S : x <= MaxIndex
    <3>1. windows[1] \in In(windows)
      <4>1. 1 \in 1..Len(windows)
        BY <1>0, <1>2, EmptySeq DEF Listed
      <4> QED BY <1>0, <4>1, ListIs
    <3> QED BY <1>0, <3>1 DEF OrderInv
  <2>2. Max(S) \in S /\ \A x \in S : x <= Max(S)
    <3> HIDE DEF S
    <3> QED BY <2>1, GreatestIs, WindowOrderAssumption
  <2>3. Max(S) + 1 \in Nat /\ \A v \in In(windows) : index[v] # Max(S) + 1
    <3>1. \A v \in In(windows) : index[v] \in S
      OBVIOUS
    <3> DEFINE top == Max(S)
    <3>2. top \in Nat /\ \A v \in In(windows) : index[v] \in Nat /\ index[v] <= top
      <4>1. top \in S /\ \A x \in S : x <= top
        BY <2>2
      <4> HIDE DEF top, S
      <4> QED BY <2>1, <3>1, <4>1
    <3> HIDE DEF top, S
    <3>3. top + 1 \in Nat /\ \A v \in In(windows) : index[v] # top + 1
      BY <3>2
    <3> QED BY <3>3 DEF top
  <2>4. Put(w, Max(S) + 1, index)
    BY <1>2 DEF LinkAfter
  <2> HIDE DEF S
  <2> QED BY <1>0, <2>3, <2>4, PutRearranges
<1> QED BY <1>1, <1>2

\* `move-window -k`: one leaves, the gap closes or not, and one takes its place.
LEMMA MoveOverRearranges ==
  ASSUME OrderInv, NEW w \in Numbered, NEW i \in Indexes, MoveOver(w, i)
  PROVE  Rearranges
<1>0. Listed(windows) /\ index \in [Numbered -> Nat] /\ Ordered(windows, index) /\ In(windows) \subseteq Numbered /\ i \in Nat
  BY ListIs, IndexesAreNat DEF OrderInv
<1>1. PICK v \in At(windows, index, i) \ {w} :
        LET list == RemoveFirst(windows, v)
            idx == [MakeRoom(list, ClosesUp(list, index), i) EXCEPT ![w] = i]
        IN index' = idx /\ windows' = Sorted(list, idx)
  BY DEF MoveOver
<1> DEFINE list == RemoveFirst(windows, v)
           closed == ClosesUp(list, index)
           roomy == MakeRoom(list, closed, i)
           put == [roomy EXCEPT ![w] = i]
<1>2. index' = put /\ windows' = Sorted(list, put) /\ v # w /\ v \in In(windows) /\ w \in In(windows) /\ v \in Numbered
  BY <1>0, <1>1, AtIsEmpty DEF MoveOver
<1>3. /\ Listed(list) /\ In(list) = In(windows) \ {v}
      /\ \A t, u \in In(windows) \ {v} : Before(list, t, u) <=> Before(windows, t, u)
  BY <1>0, <1>2, RemoveHolds
<1> HIDE DEF list
<1>4. Ordered(list, index) /\ (Apart(windows, index) => Apart(list, index))
  BY <1>0, <1>3 DEF Ordered, Apart
<1>5. closed \in [Numbered -> Nat] /\ Ordered(list, closed) /\ (Apart(windows, index) => Apart(list, closed))
  BY <1>0, <1>3, <1>4, CloseHolds
<1> HIDE DEF closed
<1>6. /\ roomy \in [Numbered -> Nat] /\ Ordered(list, roomy)
      /\ Apart(windows, index) => Apart(list, roomy) /\ \A t \in In(list) : roomy[t] # i
  BY <1>0, <1>3, <1>5, RoomHolds
<1> HIDE DEF roomy
<1>7. \A t, u \in In(list) \ {w} : Before(list, t, u) => roomy[t] <= roomy[u]
  BY <1>6 DEF Ordered
<1>8. w \in In(list)
  BY <1>2, <1>3
<1>12. put \in [Numbered -> Nat] /\ \A t \in Numbered : put[t] = IF t = w THEN i ELSE roomy[t]
  BY <1>0, <1>6
<1> HIDE DEF put
<1>9. /\ Listed(windows') /\ In(windows') = In(list) /\ Ordered(windows', index')
      /\ \A t, u \in In(list) \ {w} : Before(list, t, u) <=> Before(windows', t, u)
      /\ (\A t, u \in In(list) \ {w} : t # u => roomy[t] # roomy[u]) /\ (\A t \in In(list) \ {w} : roomy[t] # i)
           => Apart(windows', index')
  <2>1. /\ Listed(Sorted(list, put)) /\ In(Sorted(list, put)) = In(list)
        /\ Ordered(Sorted(list, put), put)
        /\ \A t, u \in In(list) \ {w} : Before(list, t, u) <=> Before(Sorted(list, put), t, u)
        /\ (\A t, u \in In(list) \ {w} : t # u => roomy[t] # roomy[u]) /\ (\A t \in In(list) \ {w} : roomy[t] # i)
             => Apart(Sorted(list, put), put)
    BY <1>0, <1>3, <1>6, <1>7, <1>8, <1>12, PlacedHolds
  <2> QED BY <1>2, <2>1
<1>10. OthersStay
  <2>1. In(windows) \ {v, w} = In(windows') \ {v, w} /\ In(windows) \ {v, w} = In(list) \ {w}
    BY <1>3, <1>9
  <2>2. \A t, u \in In(windows) \ {v, w} : Before(windows, t, u) <=> Before(windows', t, u)
    BY <1>3, <1>9, <2>1
  <2> QED BY <1>2, <2>1, <2>2 DEF OthersStay
<1>11. Apart(windows, index) => Apart(windows', index')
  BY <1>6, <1>9 DEF Apart
<1> QED BY <1>2, <1>9, <1>10, <1>11, <1>12 DEF Rearranges

\* `swap-window` trades two indexes.
LEMMA SwapRearranges ==
  ASSUME OrderInv, NEW v \in Numbered, NEW w \in Numbered, Swap(v, w)
  PROVE  Rearranges
<1>0. Listed(windows) /\ index \in [Numbered -> Nat] /\ Ordered(windows, index) /\ In(windows) \subseteq Numbered
  BY ListIs DEF OrderInv
<1>1. /\ v \in In(windows) /\ w \in In(windows) /\ v # w
      /\ index' = [index EXCEPT ![v] = index[w], ![w] = index[v]] /\ windows' = Sorted(windows, index')
  BY DEF Swap
<1>2. /\ index' \in [Numbered -> Nat] /\ index' \in [Numbered -> Int]
      /\ \A t \in Numbered : index'[t] = IF t = w THEN index[v] ELSE IF t = v THEN index[w] ELSE index[t]
  BY <1>0, <1>1
<1>3. /\ Listed(windows') /\ In(windows') = In(windows)
      /\ \A t, u \in In(windows) :
           Before(windows', t, u) <=> index'[t] < index'[u] \/ (index'[t] = index'[u] /\ Before(windows, t, u))
  <2>1. /\ Listed(Sorted(windows, index')) /\ In(Sorted(windows, index')) = In(windows)
        /\ \A t, u \in In(windows) :
             Before(Sorted(windows, index'), t, u) <=> index'[t] < index'[u] \/ (index'[t] = index'[u] /\ Before(windows, t, u))
    BY <1>0, <1>2, SortedHolds
  <2>2. windows' = Sorted(windows, index')
    BY <1>1
  <2> QED BY <2>1, <2>2
<1>4. Ordered(windows', index')
  <2> SUFFICES ASSUME NEW t \in In(windows), NEW u \in In(windows), Before(windows', t, u) PROVE index'[t] <= index'[u]
    BY <1>3 DEF Ordered
  <2>1. index'[t] \in Nat /\ index'[u] \in Nat
    BY <1>0, <1>2
  <2> QED BY <1>3, <2>1
<1>5. ASSUME NEW t \in In(windows) \ {v, w}, NEW u \in In(windows) \ {v, w}
      PROVE  Before(windows, t, u) <=> Before(windows', t, u)
  <2>1. index'[t] = index[t] /\ index'[u] = index[u] /\ index[t] \in Nat /\ index[u] \in Nat
    BY <1>0, <1>2
  <2>2. Before(windows', t, u) <=> index[t] < index[u] \/ (index[t] = index[u] /\ Before(windows, t, u))
    BY <1>3, <2>1
  <2>3. /\ Before(windows, t, u) => index[t] <= index[u]
        /\ Before(windows, u, t) => index[u] <= index[t]
    BY <1>0 DEF Ordered
  <2>4. /\ t # u => Before(windows, t, u) \/ Before(windows, u, t)
        /\ ~(Before(windows, t, u) /\ Before(windows, u, t))
    BY <1>0, BeforeIsLinear
  <2>5. index[t] < index[u] => t # u
    BY <2>1
  <2> QED BY <2>1, <2>2, <2>3, <2>4, <2>5
<1>6. OthersStay
  BY <1>3, <1>5 DEF OthersStay
<1>7. Apart(windows, index) => Apart(windows', index')
  <2> SUFFICES ASSUME Apart(windows, index), NEW t \in In(windows), NEW u \in In(windows), t # u
               PROVE  index'[t] # index'[u]
    BY <1>3 DEF Apart
  <2>1. /\ index'[t] = IF t = w THEN index[v] ELSE IF t = v THEN index[w] ELSE index[t]
        /\ index'[u] = IF u = w THEN index[v] ELSE IF u = v THEN index[w] ELSE index[u]
    BY <1>0, <1>2
  <2> QED BY <1>1, <2>1 DEF Apart
<1> QED BY <1>2, <1>3, <1>4, <1>6, <1>7 DEF Rearranges

\* A window that closes or is unlinked.
LEMMA LeaveRearranges ==
  ASSUME OrderInv, NEW w \in Numbered, NEW closes \in BOOLEAN, Leave(w, closes)
  PROVE  Rearranges
<1>0. Listed(windows) /\ index \in [Numbered -> Nat] /\ Ordered(windows, index)
  BY DEF OrderInv
<1> DEFINE list == RemoveFirst(windows, w)
<1>1. w \in In(windows) /\ windows' = list /\ index' = IF closes THEN ClosesUp(list, index) ELSE index
  BY DEF Leave
<1>2. /\ Listed(list) /\ In(list) = In(windows) \ {w}
      /\ \A t, u \in In(windows) \ {w} : Before(list, t, u) <=> Before(windows, t, u)
  BY <1>0, <1>1, RemoveHolds
<1> HIDE DEF list
<1>3. Ordered(list, index) /\ (Apart(windows, index) => Apart(list, index))
  BY <1>0, <1>2 DEF Ordered, Apart
<1>4. /\ index' \in [Numbered -> Nat] /\ Ordered(list, index')
      /\ Apart(windows, index) => Apart(list, index')
  BY <1>0, <1>1, <1>2, <1>3, CloseHolds
<1>5. OthersStay
  <2>1. In(windows) \ {w, w} = In(windows') \ {w, w} /\ In(windows) \ {w, w} = In(windows) \ {w}
    BY <1>1, <1>2
  <2> QED BY <1>1, <1>2, <2>1 DEF OthersStay
<1> QED BY <1>1, <1>2, <1>4, <1>5 DEF Rearranges

\* One window at `base-index` is in order.
LEMMA OrderInvAtFirst == OrderInit => OrderInv
<1> SUFFICES ASSUME OrderInit PROVE OrderInv
  OBVIOUS
<1>1. windows = <<1>> /\ 1 \in Numbered /\ index \in [Numbered -> Nat] /\ \A w \in Numbered : index[w] <= MaxIndex
  BY WindowOrderAssumption DEF OrderInit, Numbered
<1>2. DOMAIN windows = {1}
  BY <1>1
<1>3. Listed(windows)
  BY <1>1, <1>2 DEF Listed, IsInjective
<1>4. Ordered(windows, index)
  <2>1. \A t, u : ~Before(windows, t, u)
    BY <1>2 DEF Before
  <2> QED BY <2>1 DEF Ordered
<1> QED BY <1>1, <1>3, <1>4 DEF OrderInv, OrderInit

\* Nothing moves where nothing is done.
LEMMA StandingStillKeeps ==
  ASSUME OrderInv, UNCHANGED <<windows, index>>
  PROVE  Rearranges
<1>1. In(windows) \subseteq Numbered /\ 1 \in Numbered
  BY ListIs, WindowOrderAssumption DEF OrderInv, Numbered
<1>2. OthersStay
  BY <1>1 DEF OthersStay
<1> QED BY <1>2 DEF OrderInv, Rearranges

\* Every command rearranges and no more.
LEMMA CommandsRearrange ==
  ASSUME OrderInv, [OrderNext]_orderVars
  PROVE  Rearranges
<1>1. CASE OrderNext
  <2>1. ASSUME NEW w \in Numbered, NEW i \in Indexes,
               Insert(w, i) \/ Move(w, i) \/ MoveAmong(w, i) \/ MoveOver(w, i) \/ Link(w, i)
        PROVE  Rearranges
    BY <2>1, InsertRearranges, MoveOverRearranges
  <2>2. ASSUME NEW w \in Numbered, BreakOff(w) \/ LinkAfter(w) \/ Close(w) \/ Unlink(w)
        PROVE  Rearranges
    BY <2>2, BreakOffRearranges, LinkAfterRearranges, LeaveRearranges DEF Close, Unlink
  <2>3. ASSUME NEW v \in Numbered, NEW w \in Numbered, Swap(v, w)
        PROVE  Rearranges
    BY <2>3, SwapRearranges
  <2>4. CASE SetRenumbers
    BY <2>4, StandingStillKeeps DEF SetRenumbers
  <2> QED BY <1>1, <2>1, <2>2, <2>3, <2>4 DEF OrderNext
<1>2. CASE UNCHANGED orderVars
  BY <1>2, StandingStillKeeps DEF orderVars
<1> QED BY <1>1, <1>2

\* What every command finds is what it leaves.
LEMMA OrderInvHolds == OrderSpec => []OrderInv
<1>1. OrderInv /\ [OrderNext]_orderVars => OrderInv'
  <2> SUFFICES ASSUME OrderInv, [OrderNext]_orderVars PROVE OrderInv'
    OBVIOUS
  <2>1. Rearranges
    BY CommandsRearrange
  <2>2. renumbers' \in BOOLEAN
    BY DEF OrderInv, OrderNext, Insert, Move, MoveAmong, MoveOver, Link, BreakOff, LinkAfter, Close, Unlink, Leave, Swap,
           SetRenumbers, orderVars
  <2>3. \A w \in Numbered : index'[w] <= MaxIndex
    BY DEF OrderInv, OrderNext, orderVars
  <2> QED BY <2>1, <2>2, <2>3 DEF Rearranges, OrderInv
<1> QED BY <1>1, OrderInvAtFirst, PTL DEF OrderSpec

\* The types of the order and its indexes; the list holds no window twice.
THEOREM OrderTypesHold == OrderSpec => []OrderTypeOK
<1>1. OrderInv => OrderTypeOK
  <2> SUFFICES ASSUME OrderInv PROVE OrderTypeOK
    OBVIOUS
  <2>1. index \in [Numbered -> Indexes]
    BY WindowOrderAssumption DEF OrderInv, Indexes
  <2> QED BY <2>1 DEF OrderInv, OrderTypeOK, Listed
<1> QED BY <1>1, OrderInvHolds, PTL

\* The list stands in the order of its indexes after every command, for any
\* number of windows, any base-index and any indexes a command names: what
\* next-window walks is what the status line and the targets number.
THEOREM WindowsStandInOrder == OrderSpec => []ListIsInOrder
<1>1. OrderInv => ListIsInOrder
  <2> SUFFICES ASSUME OrderInv, NEW m \in DOMAIN windows, NEW n \in DOMAIN windows, m < n
               PROVE  index[windows[m]] <= index[windows[n]]
    BY DEF ListIsInOrder
  <2>1. Before(windows, windows[m], windows[n])
    BY DEF Before
  <2>2. windows[m] \in In(windows) /\ windows[n] \in In(windows)
    BY DEF In, ToSet
  <2> QED BY <2>1, <2>2 DEF OrderInv, Ordered
<1> QED BY <1>1, OrderInvHolds, PTL

\* No command but link-window gives two windows one index: the run that
\* `make_room_at` moves ends at a gap, and `renumber` counts each place once.
THEOREM IndexesStayApart == OrderSpec => OnlyLinkSharesAnIndex
<1>1. OrderInv /\ [OrderNext]_orderVars => IndexStaysApart
  BY CommandsRearrange DEF Rearranges, IndexStaysApart
<1> QED BY <1>1, OrderInvHolds, PTL DEF OrderSpec, OnlyLinkSharesAnIndex

\* But for two windows that a command moves, trades or closes, every window
\* keeps its neighbours, though making room and renumbering change their indexes.
THEOREM NeighboursStay == OrderSpec => OthersStayInOrder
<1>1. OrderInv /\ [OrderNext]_orderVars => OthersStay
  BY CommandsRearrange DEF Rearranges
<1> QED BY <1>1, OrderInvHolds, PTL DEF OrderSpec, OthersStayInOrder
===============================================================================
