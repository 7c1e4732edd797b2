------------------------------ MODULE StreamTail ------------------------------
(***************************************************************************)
(* What one output stream of a job promises its readers: the tail of what   *)
(* was written, under offsets that never move, and to each reader every     *)
(* byte it follows, once, unless it fell off the tail before it was read.   *)
(*                                                                          *)
(* Bytes are numbered from 1, and an offset is the number of the last byte  *)
(* before it.                                                               *)
(***************************************************************************)
EXTENDS Naturals

CONSTANTS
  Keep,       \* bytes of the tail that are kept
  Readers     \* who may follow the stream

VARIABLES
  end,        \* bytes written
  dropped,    \* bytes that fell off the front
  base,       \* per reader: where it started
  offset,     \* per reader: how far it read
  seen        \* per reader: the bytes it was given

vars == <<end, dropped, base, offset, seen>>

Init ==
  /\ end = 0 /\ dropped = 0
  /\ base = [r \in Readers |-> 0]
  /\ offset = [r \in Readers |-> 0]
  /\ seen = [r \in Readers |-> {}]

\* A piece of n bytes lands at the end, and the head falls off past the cap.
Land(n) ==
  /\ end' = end + n
  /\ dropped' = IF end + n > dropped + Keep THEN end + n - Keep ELSE dropped
  /\ UNCHANGED <<base, offset, seen>>

\* A reader starts at the end, as one who tails, before it was given anything.
Join(r) ==
  /\ seen[r] = {} /\ base[r] = offset[r]
  /\ base' = [base EXCEPT ![r] = end]
  /\ offset' = [offset EXCEPT ![r] = end]
  /\ UNCHANGED <<end, dropped, seen>>

\* A reader is given what the tail holds past its offset.
Read(r) ==
  /\ seen' = [seen EXCEPT ![r] = @ \cup {b \in dropped + 1..end : b > offset[r]}]
  /\ offset' = [offset EXCEPT ![r] = end]
  /\ UNCHANGED <<end, dropped, base>>

Next ==
  \/ \E n \in Nat \ {0} : Land(n)
  \/ \E r \in Readers : Join(r) \/ Read(r)

Spec == Init /\ [][Next]_vars

-----------------------------------------------------------------------------
TypeOK ==
  /\ end \in Nat /\ dropped \in 0..end
  /\ base \in [Readers -> Nat] /\ offset \in [Readers -> Nat]
  /\ seen \in [Readers -> SUBSET Nat]
  /\ \A r \in Readers : base[r] <= offset[r] /\ offset[r] <= end

\* Nothing falls off before the tail is full, and no more than the cap is kept.
TailIsTheLast == end - dropped <= Keep /\ (dropped > 0 => end - dropped = Keep)

\* What a reader passed without being given it had fallen off.
OnlyTheDroppedIsMissed ==
  \A r \in Readers : \A b \in base[r] + 1..offset[r] : b \in seen[r] \/ b <= dropped

\* A reader is given nothing from before it joined, and nothing past its offset.
SeenIsPast == \A r \in Readers : seen[r] \subseteq base[r] + 1..offset[r]
===============================================================================
