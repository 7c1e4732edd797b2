------------------------------ MODULE WindowOrder ------------------------------
(***************************************************************************)
(* The windows of one session in their order: the list that the status     *)
(* line shows and next-window walks, and the number each window is called  *)
(* by.  The commands that make, move, insert, swap, link, unlink and close *)
(* a window keep the two together.  Arrangement says which windows there   *)
(* are and who looks at them.                                              *)
(***************************************************************************)
EXTENDS Integers, Sequences, SequencesExt

CONSTANTS
  MaxNumbered,  \* windows there are, in the order or out of it
  MaxIndex,     \* the highest index a window is given
  Base          \* base-index

ASSUME WindowOrderAssumption ==
  /\ MaxNumbered \in Nat \ {0} /\ Base \in Nat /\ MaxIndex \in Nat /\ Base <= MaxIndex

Numbered == 1..MaxNumbered
Indexes == 0..MaxIndex

VARIABLES
  windows,    \* `Arrangement.windows`: the order, as a list
  index,      \* per window: its index, kept while it is out of the order
  renumbers   \* renumber-windows

orderVars == <<windows, index, renumbers>>

OrderTypeOK ==
  /\ windows \in Seq(Numbered) /\ IsInjective(windows)
  /\ index \in [Numbered -> Indexes]
  /\ renumbers \in BOOLEAN

OrderInit ==
  /\ windows = <<1>>
  /\ index = [w \in Numbered |-> Base]
  /\ renumbers \in BOOLEAN

-----------------------------------------------------------------------------

In(list) == ToSet(list)

Sorted_NotAgain(list, idx) == list

\* `sorted(..., key=index)`, which leaves windows of one index as they stand.
Sorted(list, idx) ==
  LET before(i, j) == idx[list[i]] < idx[list[j]] \/ (idx[list[i]] = idx[list[j]] /\ i < j)
      place(j) == Cardinality({i \in DOMAIN list : before(i, j)}) + 1
  IN [n \in DOMAIN list |-> list[CHOOSE j \in DOMAIN list : place(j) = n]]

\* `get_window_by_index`: the first window of the list with that index.
At(list, idx, i) == {list[n] : n \in {m \in DOMAIN list :
                       idx[list[m]] = i /\ \A k \in 1..(m - 1) : idx[list[k]] # i}}

MakeRoom_MovesOne(list, idx, i) ==
  [w \in Numbered |-> IF w \in In(list) /\ idx[w] = i THEN idx[w] + 1 ELSE idx[w]]

\* `make_room_at`: the run of windows from i up moves up by one, and of two
\* windows with one index only the later one in the list.
MakeRoom(list, idx, i) ==
  LET latest(w) == \A n, m \in DOMAIN list : list[n] = w /\ n < m => idx[list[m]] # idx[w]
      runs(k) == \A j \in i..k : \E w \in In(list) : idx[w] = j
  IN [w \in Numbered |->
        IF w \in In(list) /\ idx[w] >= i /\ latest(w) /\ runs(idx[w]) THEN idx[w] + 1 ELSE idx[w]]

\* `lowest_free_index`.
LowestFree(list, idx) ==
  CHOOSE i \in Base..(Base + MaxNumbered) :
    /\ At(list, idx, i) = {}
    /\ \A j \in Base..(i - 1) : At(list, idx, j) # {}

Renumbered_ByAge(list, idx) ==
  [w \in Numbered |-> IF w \in In(list) THEN Base + Cardinality({v \in In(list) : v < w}) ELSE idx[w]]

\* `renumber`: from `base-index` up, in the order of the list.
Renumbered(list, idx) ==
  LET sorted == Sorted(list, idx)
  IN [w \in Numbered |-> IF w \in In(list) THEN Base + (CHOOSE n \in DOMAIN list : sorted[n] = w) - 1 ELSE idx[w]]

ClosesUp(list, idx) == IF renumbers THEN Renumbered(list, idx) ELSE idx

\* w is put in the order at i, or moved there.
Put(w, i, idx) ==
  LET list == IF w \in In(windows) THEN windows ELSE Append(windows, w)
      put == [idx EXCEPT ![w] = i]
  IN index' = put /\ windows' = Sorted(list, put)

-----------------------------------------------------------------------------

\* `new-window`, and `move-window` of another session's window with `-a` or
\* `-b`: w lands at i, and what is there makes room.
Insert(w, i) ==
  /\ w \notin In(windows)
  /\ Put(w, i, MakeRoom(windows, index, i))
  /\ UNCHANGED renumbers

\* `break-pane`.
BreakOff(w) ==
  /\ w \notin In(windows)
  /\ Put(w, LowestFree(windows, index), index)
  /\ UNCHANGED renumbers

\* `move-window` to an index, which is refused when it is taken.
Move(w, i) ==
  /\ At(windows, index, i) = {}
  /\ Put(w, i, index)
  /\ UNCHANGED renumbers

\* `move-window -a` and `-b` inside the session.
MoveAmong(w, i) ==
  /\ w \in In(windows) /\ At(windows, index, i) # {w}
  /\ Put(w, i, MakeRoom(windows, index, i))
  /\ UNCHANGED renumbers

\* `move-window -k`: what is at i closes, and w takes its place.
MoveOver(w, i) ==
  /\ w \in In(windows)
  /\ \E v \in At(windows, index, i) \ {w} :
       LET list == RemoveFirst(windows, v)
           idx == [MakeRoom(list, ClosesUp(list, index), i) EXCEPT ![w] = i]
       IN index' = idx /\ windows' = Sorted(list, idx)
  /\ UNCHANGED renumbers

\* `swap-window`.
Swap(v, w) ==
  /\ {v, w} \subseteq In(windows) /\ v # w
  /\ index' = [index EXCEPT ![v] = index[w], ![w] = index[v]]
  /\ windows' = Sorted(windows, index')
  /\ UNCHANGED renumbers

\* `link-window` at an index, which is not refused when it is taken.
Link(w, i) == Put(w, i, index) /\ UNCHANGED renumbers

\* A window that comes with no index: after the last one.
LinkAfter(w) ==
  /\ w \notin In(windows)
  /\ Put(w, IF windows = << >> THEN Base ELSE Max({index[v] : v \in In(windows)}) + 1, index)
  /\ UNCHANGED renumbers

Leave(w, closes) ==
  LET list == RemoveFirst(windows, w) IN
  /\ w \in In(windows)
  /\ windows' = list
  /\ index' = IF closes THEN ClosesUp(list, index) ELSE index
  /\ UNCHANGED renumbers

\* A window that closes, or leaves for another session.
Close(w) == Leave(w, TRUE)

\* `unlink-window`, which refuses the last one.
Unlink(w) == Len(windows) > 1 /\ Leave(w, FALSE)

\* `set-option renumber-windows`, which renumbers nothing.
SetRenumbers == renumbers' = ~renumbers /\ UNCHANGED <<windows, index>>

OrderNext ==
  /\ \/ \E w \in Numbered, i \in Indexes :
          Insert(w, i) \/ Move(w, i) \/ MoveAmong(w, i) \/ MoveOver(w, i) \/ Link(w, i)
     \/ \E w \in Numbered : BreakOff(w) \/ LinkAfter(w) \/ Close(w) \/ Unlink(w)
     \/ \E v, w \in Numbered : Swap(v, w)
     \/ SetRenumbers
  /\ \A w \in Numbered : index'[w] <= MaxIndex

OrderSpec == OrderInit /\ [][OrderNext]_orderVars

-----------------------------------------------------------------------------

\* The list stands in the order of its indexes after every command:
\* next-window and the status line walk the list, and a target names an index.
ListIsInOrder ==
  \A m, n \in DOMAIN windows : m < n => index[windows[m]] <= index[windows[n]]

\* An index names one window: no command but link-window puts a window where
\* another one is, whatever gaps there are and however a close renumbers.
Apart(list, idx) == \A v, w \in In(list) : v # w => idx[v] # idx[w]
IndexStaysApart ==
  Apart(windows, index) => Apart(windows', index') \/ \E w \in Numbered, i \in Indexes : Link(w, i)
OnlyLinkSharesAnIndex == [][IndexStaysApart]_orderVars

\* A window that makes room keeps its neighbours: but for the window a command
\* moves and the one it trades with or closes, the list stays as it stood.
Before(list, t, u) == \E m, n \in DOMAIN list : m < n /\ list[m] = t /\ list[n] = u
OthersStay ==
  \E v, w \in Numbered :
    /\ In(windows) \ {v, w} = In(windows') \ {v, w}
    /\ \A t, u \in In(windows) \ {v, w} : Before(windows, t, u) <=> Before(windows', t, u)
OthersStayInOrder == [][OthersStay]_orderVars

=============================================================================
