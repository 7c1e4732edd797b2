-------------------------- MODULE PipeWrites_proofs --------------------------
(***************************************************************************)
(* Whatever the writers, their packets and the room of the kernel: the turn  *)
(* is one writer's, it is never lost, sound goes first, nobody sleeps over   *)
(* an empty socket, and the far end can read what goes out.                 *)
(***************************************************************************)
EXTENDS PipeWrites, FiniteSetTheorems, TLAPS

\* Where the writers stand.
AtType == at \in [Writers -> Places]

TurnInv == AtType /\ OneTurn

\* A turn that is passed on is given to one writer that waits, or is free when
\* none does; who passed it on holds it no more.
LEMMA PassedOn ==
  ASSUME NEW w \in Writers, NEW how \in {"sent", "cut", "refused"}, TurnInv,
         \A v \in Writers : at[v] \in Holding => v = w,
         at[w] # "waiting", Release(w, how)
  PROVE  TurnInv'
<1>1. CASE Waiting = {} /\ held' = FALSE /\ at' = [at EXCEPT ![w] = how]
  <2>1. AtType'
    BY <1>1 DEF TurnInv, AtType, Places, Over
  <2>2. \A v \in Writers : at'[v] \notin Holding /\ at'[v] # "waiting"
    BY <1>1 DEF TurnInv, AtType, Holding, Waiting
  <2> QED
    BY <1>1, <2>1, <2>2 DEF TurnInv, OneTurn, Waiting
<1>2. CASE \E u \in FirstOf(NextQueue) : held' = TRUE /\ at' = [at EXCEPT ![w] = how, ![u] = "handed"]
  <2> PICK u \in FirstOf(NextQueue) : held' = TRUE /\ at' = [at EXCEPT ![w] = how, ![u] = "handed"]
    BY <1>2
  <2>1. u \in Writers /\ at[u] = "waiting" /\ u # w
    BY DEF FirstOf, NextQueue, Waiting
  <2>2. AtType'
    BY <2>1 DEF TurnInv, AtType, Places, Over, Holding
  <2>3. \A v \in Writers : at'[v] \in Holding <=> v = u
    BY <2>1 DEF TurnInv, AtType, Holding
  <2> QED
    BY <2>1, <2>2, <2>3 DEF TurnInv, OneTurn
<1> QED
  BY <1>1, <1>2 DEF Release

\* A writer that has the turn, or takes it while it is free, and goes on to hold it.
LEMMA StillHeld ==
  ASSUME NEW w \in Writers, NEW how \in {"offered", "thread", "parked"}, TurnInv,
         \A v \in Writers : at[v] \in Holding => v = w,
         held' = TRUE, at' = [at EXCEPT ![w] = how]
  PROVE  TurnInv'
<1>1. AtType'
  BY DEF TurnInv, AtType, Places, Holding
<1>2. \A v \in Writers : at'[v] \in Holding <=> v = w
  BY DEF TurnInv, AtType, Holding
<1> QED
  BY <1>1, <1>2 DEF TurnInv, OneTurn

\* A write with the turn keeps it or passes it on.
LEMMA Sends ==
  ASSUME NEW w \in Writers, NEW o, TurnInv,
         \A v \in Writers : at[v] \in Holding => v = w,
         at[w] # "waiting", Send(w, o)
  PROVE  TurnInv'
<1>1. CASE SendBreaks(w, o)
  BY <1>1, PassedOn DEF SendBreaks
<1>2. CASE SendEnds(w, o)
  BY <1>2, PassedOn DEF SendEnds
<1>3. CASE SendParks(w, o)
  BY <1>3, StillHeld DEF SendParks
<1> QED
  BY <1>1, <1>2, <1>3 DEF Send

LEMMA Compresses ==
  ASSUME NEW w \in Writers, NEW o, TurnInv,
         \A v \in Writers : at[v] \in Holding => v = w,
         at[w] # "waiting", Compress(w, o)
  PROVE  TurnInv'
<1>1. CASE at' = [at EXCEPT ![w] = "offered"] /\ held' = TRUE
  BY <1>1, StillHeld
<1>2. CASE Send(w, o)
  BY <1>2, Sends
<1> QED
  BY <1>1, <1>2 DEF Compress

\* A write that starts takes a free turn, waits, or is refused.
LEMMA Writes ==
  ASSUME NEW w \in Writers, TurnInv, at[w] \in {"unsent", "started"}, Write(w)
  PROVE  TurnInv'
<1>1. CASE at' = [at EXCEPT ![w] = "refused"] /\ held' = held
  <2>1. AtType'
    BY <1>1 DEF TurnInv, AtType, Places, Over
  <2>2. \A v \in Writers : /\ at'[v] \in Holding <=> at[v] \in Holding
                           /\ at'[v] = "waiting" <=> at[v] = "waiting"
    BY <1>1 DEF TurnInv, AtType, Holding
  <2> QED
    BY <1>1, <2>1, <2>2 DEF TurnInv, OneTurn, Waiting
<1>2. CASE ~held /\ Compress(w, outstanding + Size(w))
  <2>1. \A v \in Writers : at[v] \in Holding => v = w
    BY <1>2 DEF TurnInv, OneTurn
  <2> QED
    BY <1>2, <2>1, Compresses
<1>3. CASE held /\ at' = [at EXCEPT ![w] = "waiting"] /\ held' = held
  <2>1. AtType'
    BY <1>3 DEF TurnInv, AtType, Places
  <2>2. \A v \in Writers : at'[v] \in Holding <=> at[v] \in Holding
    BY <1>3 DEF TurnInv, AtType, Holding
  <2> QED
    BY <1>3, <2>1, <2>2 DEF TurnInv, OneTurn
<1> QED
  BY <1>1, <1>2, <1>3 DEF Write

\* Nothing of the turn changes.
LEMMA TurnStays ==
  ASSUME TurnInv, UNCHANGED <<at, held>>
  PROVE  TurnInv'
BY DEF TurnInv, AtType, OneTurn, Waiting

\* One writer moves between places that neither wait nor hold the turn.
LEMMA TurnOfOthers ==
  ASSUME NEW w \in Writers, TurnInv, held' = held,
         at[w] \notin Holding, NEW how \in {"started", "cut"}, at' = [at EXCEPT ![w] = how]
  PROVE  TurnInv'
<1>1. AtType'
  BY DEF TurnInv, AtType, Places, Over
<1>2. \A v \in Writers : /\ at'[v] \in Holding <=> at[v] \in Holding
                         /\ at'[v] = "waiting" => at[v] = "waiting"
  BY DEF TurnInv, AtType, Holding
<1> QED
  BY <1>1, <1>2 DEF TurnInv, OneTurn, Waiting

\* Every step of a writer keeps the turn in order.
LEMMA WriterSteps ==
  ASSUME TurnInv, NEW w \in Writers, Spawn(w) \/ Direct(w) \/ TaskStep(w) \/ CallerGoes(w)
  PROVE  TurnInv'
<1>0. at[w] \in Holding => \A v \in Writers : at[v] \in Holding => v = w
  BY DEF TurnInv, OneTurn
<1>1. CASE Spawn(w)
  BY <1>1, TurnOfOthers DEF Spawn, Holding
<1>2. CASE Direct(w)
  BY <1>2, Writes DEF Direct
<1>3. CASE Start(w)
  BY <1>3, Writes DEF Start
<1>4. CASE TurnComes(w)
  BY <1>0, <1>4, Compresses DEF TurnComes, Holding
<1>5. CASE ThreadStarts(w)
  <2>1. held
    BY <1>5 DEF ThreadStarts, TurnInv, OneTurn, Holding
  <2>2. \A v \in Writers : at[v] \in Holding => v = w
    BY <1>0, <1>5 DEF ThreadStarts, Holding
  <2>3. AtType'
    BY <1>5 DEF ThreadStarts, TurnInv, AtType, Places, Holding
  <2>4. \A v \in Writers : at'[v] \in Holding <=> v = w
    BY <1>5, <2>2 DEF ThreadStarts, TurnInv, AtType, Holding
  <2> QED
    BY <1>5, <2>1, <2>3, <2>4 DEF ThreadStarts, TurnInv, OneTurn
<1>6. CASE ThreadEnds(w)
  BY <1>0, <1>6, Sends DEF ThreadEnds, Holding
<1>7. CASE Writable(w)
  BY <1>0, <1>7, Sends DEF Writable, Holding
<1>8. CASE CutWaiting(w)
  BY <1>8, TurnOfOthers DEF CutWaiting, Holding
<1>9. CASE CutInTurn(w)
  BY <1>0, <1>9, PassedOn DEF CutInTurn, Holding
<1>10. CASE CallerGoes(w)
  BY <1>10, TurnStays DEF CallerGoes
<1> QED
  BY <1>1, <1>2, <1>3, <1>4, <1>5, <1>6, <1>7, <1>8, <1>9, <1>10 DEF TaskStep

\* Every step keeps the turn in order.
LEMMA TurnKept ==
  ASSUME TurnInv, [Next]_vars
  PROVE  TurnInv'
<1>1. CASE \E w \in Writers : Spawn(w) \/ Direct(w) \/ TaskStep(w) \/ CallerGoes(w)
  BY <1>1, WriterSteps
<1>2. CASE \E d \in Drainers : Drain(d)
  BY <1>2, TurnStays DEF Drain
<1>3. CASE Close \/ ScopeEnds \/ Reads \/ Goes
  BY <1>3, TurnStays DEF Close, ScopeEnds, Reads, Goes
<1>4. CASE UNCHANGED vars
  BY <1>4, TurnStays DEF vars
<1> QED
  BY <1>1, <1>2, <1>3, <1>4 DEF Next

\* No two writers have the turn, and nobody waits for a turn that nobody has.
THEOREM TurnIsOnes == Spec => []OneTurn
<1>1. Init => TurnInv
  BY DEF Init, TurnInv, AtType, OneTurn, Waiting, Places, Holding
<1>2. TurnInv /\ [Next]_vars => TurnInv'
  BY TurnKept
<1>3. TurnInv => OneTurn
  BY DEF TurnInv
<1> QED
  BY <1>1, <1>2, <1>3, PTL DEF Spec

-----------------------------------------------------------------------------
(* Sound goes first.                                                        *)

\* The pieces left are numbers.
LeftType == left \in [Writers -> Int] /\ room \in Int

LEMMA LeftStaysTyped ==
  ASSUME LeftType, [Next]_vars
  PROVE  LeftType'
<1>1. ASSUME NEW w \in Writers, NEW o, Send(w, o) PROVE LeftType'
  <2>1. CASE SendBreaks(w, o)
    BY <2>1 DEF SendBreaks, LeftType
  <2>2. CASE SendEnds(w, o)
    BY <2>2 DEF SendEnds, LeftType
  <2>3. CASE SendParks(w, o)
    BY <2>3 DEF SendParks, LeftType
  <2> QED
    BY <1>1, <2>1, <2>2, <2>3 DEF Send
<1>2. ASSUME NEW w \in Writers, NEW o, Compress(w, o) PROVE LeftType'
  BY <1>1, <1>2 DEF Compress, stream, LeftType
<1>3. ASSUME NEW w \in Writers, Write(w) PROVE LeftType'
  BY <1>2, <1>3 DEF Write, stream, LeftType
<1>4. ASSUME NEW w \in Writers, Spawn(w) \/ Direct(w) \/ TaskStep(w) \/ CallerGoes(w) PROVE LeftType'
  <2>1. CASE Direct(w) \/ Start(w)
    BY <1>3, <2>1 DEF Direct, Start
  <2>2. CASE TurnComes(w)
    BY <1>2, <2>2 DEF TurnComes
  <2>3. CASE ThreadEnds(w) \/ Writable(w)
    BY <1>1, <2>3 DEF ThreadEnds, Writable
  <2>4. CASE Spawn(w) \/ ThreadStarts(w) \/ CutWaiting(w) \/ CutInTurn(w) \/ CallerGoes(w)
    BY <2>4 DEF Spawn, ThreadStarts, CutWaiting, CutInTurn, CallerGoes, stream, LeftType
  <2> QED
    BY <1>4, <2>1, <2>2, <2>3, <2>4 DEF TaskStep
<1>5. CASE \E d \in Drainers : Drain(d)
  BY <1>5 DEF Drain, stream, LeftType
<1>6. CASE Close \/ ScopeEnds \/ Goes \/ UNCHANGED vars
  BY <1>6 DEF Close, ScopeEnds, Goes, vars, stream, LeftType
<1>7. CASE Reads
  BY <1>7, PipeAssumption DEF Reads, LeftType
<1> QED
  BY <1>4, <1>5, <1>6, <1>7 DEF Next

\* A turn that is passed on while sound waits goes to sound.
LEMMA PassedToSound ==
  ASSUME TurnInv, NEW w \in Writers, NEW how \in {"sent", "cut", "refused"}, Release(w, how),
         NEW v \in Writers \ Urgent, at[v] \notin Holding, at'[v] \in Holding
  PROVE  Waiting \intersect Urgent = {}
<1>1. CASE at' = [at EXCEPT ![w] = how]
  BY <1>1 DEF TurnInv, AtType, Holding
<1>2. CASE \E u \in FirstOf(NextQueue) : at' = [at EXCEPT ![w] = how, ![u] = "handed"]
  <2> PICK u \in FirstOf(NextQueue) : at' = [at EXCEPT ![w] = how, ![u] = "handed"]
    BY <1>2
  <2>1. u = v
    BY DEF TurnInv, AtType, Holding, FirstOf, NextQueue, Waiting
  <2> QED
    BY <2>1 DEF FirstOf, NextQueue
<1> QED
  BY <1>1, <1>2 DEF Release

LEMMA SendsYield ==
  ASSUME TurnInv, LeftType, NEW w \in Writers, NEW o, Send(w, o), NEW v \in Writers \ Urgent,
         at[w] \in Holding \/ Waiting = {}
  PROVE  YieldsToSound(v)
<1> SUFFICES ASSUME at[v] \notin Holding, at'[v] \in Holding \/ left'[v] # left[v], Waiting # {}
             PROVE  Waiting \intersect Urgent = {}
  BY DEF YieldsToSound
<1>1. v # w
  OBVIOUS
<1>2. left'[v] = left[v]
  BY <1>1 DEF Send, SendBreaks, SendEnds, SendParks, LeftType
<1>3. at'[v] \in Holding
  BY <1>2
<1>4. CASE SendBreaks(w, o) \/ SendEnds(w, o)
  BY <1>3, <1>4, PassedToSound DEF SendBreaks, SendEnds
<1>5. CASE SendParks(w, o)
  BY <1>1, <1>3, <1>5 DEF SendParks, TurnInv, AtType
<1> QED
  BY <1>4, <1>5 DEF Send

LEMMA CompressesYield ==
  ASSUME TurnInv, LeftType, NEW w \in Writers, NEW o, Compress(w, o), NEW v \in Writers \ Urgent,
         at[w] \in Holding \/ Waiting = {}
  PROVE  YieldsToSound(v)
<1>1. CASE at' = [at EXCEPT ![w] = "offered"] /\ UNCHANGED stream
  BY <1>1 DEF YieldsToSound, stream, TurnInv, AtType
<1>2. CASE Send(w, o)
  BY <1>2, SendsYield
<1> QED
  BY <1>1, <1>2 DEF Compress

LEMMA WritesYield ==
  ASSUME TurnInv, LeftType, NEW w \in Writers, Write(w), NEW v \in Writers \ Urgent
  PROVE  YieldsToSound(v)
<1>1. CASE ~held /\ Compress(w, outstanding + Size(w))
  BY <1>1, CompressesYield DEF TurnInv, OneTurn
<1>2. CASE UNCHANGED stream /\ \E how \in {"refused", "waiting"} : at' = [at EXCEPT ![w] = how]
  BY <1>2 DEF YieldsToSound, stream, TurnInv, AtType, Holding
<1> QED
  BY <1>1, <1>2 DEF Write

\* While sound waits, nothing but sound gets the turn.
THEOREM SoundIsFirst == Spec => SoundGoesFirst
<1>1. Init => TurnInv /\ LeftType
  BY PipeAssumption DEF Init, TurnInv, AtType, OneTurn, Waiting, Places, Holding, LeftType, Size
<1>2. TurnInv /\ LeftType /\ [Next]_vars => TurnInv' /\ LeftType'
  BY LeftStaysTyped, TurnKept
<1>3. TurnInv /\ LeftType /\ [Next]_vars => [\A w \in Writers \ Urgent : YieldsToSound(w)]_vars
  <2> SUFFICES ASSUME TurnInv, LeftType, Next, NEW v \in Writers \ Urgent PROVE YieldsToSound(v)
    OBVIOUS
  <2>1. ASSUME NEW w \in Writers, Spawn(w) \/ Direct(w) \/ TaskStep(w) \/ CallerGoes(w)
        PROVE  YieldsToSound(v)
    <3>1. CASE Direct(w) \/ Start(w)
      BY <3>1, WritesYield DEF Direct, Start
    <3>2. CASE TurnComes(w)
      BY <3>2, CompressesYield DEF TurnComes, Holding
    <3>3. CASE ThreadEnds(w) \/ Writable(w)
      BY <3>3, SendsYield DEF ThreadEnds, Writable, Holding
    <3>4. CASE CutInTurn(w)
      <4>1. left' = left /\ Release(w, "cut")
        BY <3>4 DEF CutInTurn, stream
      <4> QED
        BY <4>1, PassedToSound DEF YieldsToSound
    <3>5. CASE Spawn(w) \/ ThreadStarts(w) \/ CutWaiting(w) \/ CallerGoes(w)
      BY <3>5 DEF Spawn, ThreadStarts, CutWaiting, CallerGoes, stream, YieldsToSound, TurnInv, AtType, Holding
    <3> QED
      BY <2>1, <3>1, <3>2, <3>3, <3>4, <3>5 DEF TaskStep
  <2>2. CASE (\E d \in Drainers : Drain(d)) \/ Close \/ ScopeEnds \/ Reads \/ Goes
    BY <2>2 DEF Drain, Close, ScopeEnds, Reads, Goes, stream, YieldsToSound
  <2> QED
    BY <2>1, <2>2 DEF Next
<1> QED
  BY <1>1, <1>2, <1>3, PTL DEF Spec, SoundGoesFirst

-----------------------------------------------------------------------------
(* Nobody sleeps over an empty socket.                                      *)

Weight(S) == Cardinality(S) + Cardinality(S \intersect Long)

\* What is counted is what waits, and who sleeps has something to wait for.
DrainInv ==
  /\ outstanding = Weight(Pending)
  /\ sleeping # {} => outstanding # 0 /\ ~closed

LEMMA Weighs ==
  ASSUME NEW S \in SUBSET Writers
  PROVE  Weight(S) \in Nat
<1>1. IsFiniteSet(S) /\ IsFiniteSet(S \intersect Long)
  BY PipeAssumption, FS_Subset
<1> QED
  BY <1>1, FS_CardinalityType DEF Weight

\* A packet that comes weighs what its pieces are.
LEMMA WeightOfOneMore ==
  ASSUME NEW S \in SUBSET Writers, NEW w \in Writers, w \notin S
  PROVE  Weight(S \union {w}) = Weight(S) + Size(w)
<1>1. IsFiniteSet(S) /\ IsFiniteSet(S \intersect Long)
  BY PipeAssumption, FS_Subset
<1>2. Cardinality(S) \in Nat /\ Cardinality(S \intersect Long) \in Nat
  BY <1>1, FS_CardinalityType
<1>3. Cardinality(S \union {w}) = Cardinality(S) + 1
  BY <1>1, FS_AddElement
<1>4. CASE w \in Long
  <2>1. (S \union {w}) \intersect Long = (S \intersect Long) \union {w}
    BY <1>4
  <2>2. Cardinality((S \union {w}) \intersect Long) = Cardinality(S \intersect Long) + 1
    BY <1>1, <2>1, FS_AddElement
  <2> QED
    BY <1>2, <1>3, <1>4, <2>2 DEF Weight, Size
<1>5. CASE w \notin Long
  <2>1. (S \union {w}) \intersect Long = S \intersect Long
    BY <1>5
  <2>2. Cardinality((S \union {w}) \intersect Long) = Cardinality(S \intersect Long)
    BY <2>1
  <2>3. Size(w) = 1
    BY <1>5 DEF Size
  <2> QED
    BY <1>2, <1>3, <2>2, <2>3 DEF Weight
<1> QED
  BY <1>4, <1>5

\* And one that goes takes it away again.
LEMMA WeightOfOneLess ==
  ASSUME NEW S \in SUBSET Writers, NEW w \in S
  PROVE  Weight(S \ {w}) = Weight(S) - Size(w)
<1>1. (S \ {w}) \union {w} = S
  OBVIOUS
<1>2. Weight(S) = Weight(S \ {w}) + Size(w)
  BY <1>1, WeightOfOneMore
<1> QED
  BY <1>2, Weighs DEF Size

\* A write that is over: what it weighed is taken off, and who sleeps is woken
\* when that was the last of it.
LEMMA OneLess ==
  ASSUME DrainInv, NEW w \in Writers, NEW broken \in BOOLEAN,
         Pending' = (Pending \union {w}) \ {w}, Left(w, Weight(Pending \union {w}), broken)
  PROVE  DrainInv'
<1> DEFINE S == Pending \union {w}
<1>1. S \in SUBSET Writers /\ w \in S
  BY DEF Pending
<1>2. Weight(S) \in Nat
  BY <1>1, Weighs
<1>3. Weight(S \ {w}) = Weight(S) - Size(w)
  BY <1>1, WeightOfOneLess
<1>4. outstanding' = Weight(Pending')
  BY <1>3 DEF Left
<1>5. ASSUME sleeping' # {} PROVE outstanding' # 0 /\ ~closed'
  <2>1. Weight(S) # Size(w) /\ ~broken /\ sleeping' = sleeping
    BY <1>5 DEF Left, Wake
  <2>2. outstanding' # 0
    BY <1>2, <2>1 DEF Left, Size
  <2>3. ~closed'
    BY <1>5, <2>1 DEF Left, DrainInv
  <2> QED
    BY <2>2, <2>3
<1>6. (Weight(Pending))' = Weight(Pending')
  BY DEF Weight
<1> QED
  BY <1>4, <1>5, <1>6 DEF DrainInv

\* A write that goes on is counted, and nobody is woken.
LEMMA OneMore ==
  ASSUME DrainInv, NEW w \in Writers, Pending' = Pending \union {w},
         outstanding' = Weight(Pending \union {w}), closed' = closed, sleeping' = sleeping
  PROVE  DrainInv'
<1>1. Pending \in SUBSET Writers /\ Pending \union {w} \in SUBSET Writers
  BY DEF Pending
<1>2. Weight(Pending) \in Nat
  BY <1>1, Weighs
<1>3. CASE w \in Pending
  <2>1. Pending \union {w} = Pending
    BY <1>3
  <2> QED
    BY <2>1 DEF DrainInv, Weight
<1>4. CASE w \notin Pending
  <2>1. outstanding' = Weight(Pending) + Size(w)
    BY <1>1, <1>4, WeightOfOneMore
  <2>2. outstanding' # 0
    BY <1>2, <2>1 DEF Size
  <2> QED
    BY <2>2 DEF DrainInv, Weight
<1> QED
  BY <1>3, <1>4

\* Nothing that is counted changes.
LEMMA CountStays ==
  ASSUME DrainInv, Pending' = Pending, outstanding' = outstanding,
         (closed' = closed /\ sleeping' = sleeping) \/ sleeping' = {}
         \/ (outstanding # 0 /\ ~closed /\ closed' = closed)
  PROVE  DrainInv'
BY DEF DrainInv, Weight

\* Where one writer goes, the rest of what waits waits on.
LEMMA WaitsOn ==
  ASSUME AtType, NEW w \in Writers, NEW how \in Places, at' = [at EXCEPT ![w] = how]
  PROVE  Pending' = IF how \in Holding \union {"waiting"} THEN Pending \union {w} ELSE Pending \ {w}
BY DEF Pending, AtType

LEMMA ReleaseWaitsOn ==
  ASSUME AtType, NEW w \in Writers, NEW how \in Over, Release(w, how), at[w] # "waiting"
  PROVE  Pending' = (Pending \union {w}) \ {w}
<1>1. CASE at' = [at EXCEPT ![w] = how]
  BY <1>1, WaitsOn DEF Places, Over, Holding, Pending, AtType
<1>2. CASE \E u \in FirstOf(NextQueue) : at' = [at EXCEPT ![w] = how, ![u] = "handed"]
  <2> PICK u \in FirstOf(NextQueue) : at' = [at EXCEPT ![w] = how, ![u] = "handed"]
    BY <1>2
  <2>1. u \in Writers /\ at[u] = "waiting" /\ u # w
    BY DEF FirstOf, NextQueue, Waiting
  <2>2. \A v \in Writers : at'[v] = IF v = u THEN "handed" ELSE IF v = w THEN how ELSE at[v]
    BY <2>1 DEF AtType
  <2> QED
    BY <2>1, <2>2 DEF Pending, Over, Holding
<1> QED
  BY <1>1, <1>2 DEF Release

LEMMA SendsCount ==
  ASSUME AtType, DrainInv, NEW w \in Writers, at[w] # "waiting",
         Send(w, Weight(Pending \union {w}))
  PROVE  DrainInv'
<1> DEFINE o == Weight(Pending \union {w})
<1>1. CASE SendBreaks(w, o)
  BY <1>1, ReleaseWaitsOn, OneLess DEF SendBreaks, Over
<1>2. CASE SendEnds(w, o)
  BY <1>2, ReleaseWaitsOn, OneLess DEF SendEnds, Over
<1>3. CASE SendParks(w, o)
  <2>1. Pending' = Pending \union {w}
    BY <1>3, WaitsOn DEF SendParks, Places, Holding
  <2> QED
    BY <1>3, <2>1, OneMore DEF SendParks
<1> QED
  BY <1>1, <1>2, <1>3 DEF Send

LEMMA CompressesCount ==
  ASSUME AtType, DrainInv, NEW w \in Writers, at[w] # "waiting",
         Compress(w, Weight(Pending \union {w}))
  PROVE  DrainInv'
<1> DEFINE o == Weight(Pending \union {w})
<1>1. CASE /\ at' = [at EXCEPT ![w] = "offered"] /\ outstanding' = o
           /\ closed' = closed /\ sleeping' = sleeping
  <2>1. Pending' = Pending \union {w}
    BY <1>1, WaitsOn DEF Places, Holding
  <2> QED
    BY <1>1, <2>1, OneMore
<1>2. CASE Send(w, o)
  BY <1>2, SendsCount
<1> QED
  BY <1>1, <1>2 DEF Compress

LEMMA WritesCount ==
  ASSUME AtType, DrainInv, NEW w \in Writers, at[w] \in {"unsent", "started"}, Write(w)
  PROVE  DrainInv'
<1>1. Pending \in SUBSET Writers /\ w \notin Pending
  BY DEF Pending, Holding
<1>2. outstanding + Size(w) = Weight(Pending \union {w})
  BY <1>1, WeightOfOneMore DEF DrainInv
<1>3. CASE at' = [at EXCEPT ![w] = "refused"] /\ Wake(TRUE) /\ UNCHANGED outstanding
  <2>1. Pending' = Pending \ {w}
    BY <1>3, WaitsOn DEF Places, Over, Holding
  <2>2. Pending' = Pending
    BY <1>1, <2>1
  <2> QED
    BY <1>3, <2>2, CountStays DEF Wake
<1>4. CASE Compress(w, outstanding + Size(w))
  BY <1>2, <1>4, CompressesCount
<1>5. CASE /\ at' = [at EXCEPT ![w] = "waiting"] /\ outstanding' = outstanding + Size(w)
           /\ closed' = closed /\ sleeping' = sleeping
  <2>1. Pending' = Pending \union {w}
    BY <1>5, WaitsOn DEF Places
  <2> QED
    BY <1>2, <1>5, <2>1, OneMore
<1> QED
  BY <1>3, <1>4, <1>5 DEF Write

LEMMA CountKept ==
  ASSUME TurnInv, DrainInv, [Next]_vars
  PROVE  DrainInv'
<1>1. ASSUME NEW w \in Writers, Spawn(w) \/ Direct(w) \/ TaskStep(w) \/ CallerGoes(w)
      PROVE  DrainInv'
  <2>0. AtType
    BY DEF TurnInv
  <2>1. CASE Direct(w) \/ Start(w)
    BY <2>0, <2>1, WritesCount DEF Direct, Start
  <2>2. ASSUME at[w] \in Holding PROVE outstanding = Weight(Pending \union {w})
    <3>1. Pending \union {w} = Pending
      BY <2>2 DEF Pending
    <3> QED
      BY <3>1 DEF DrainInv
  <2>3. CASE TurnComes(w)
    BY <2>0, <2>2, <2>3, CompressesCount DEF TurnComes, Holding
  <2>4. CASE ThreadEnds(w) \/ Writable(w)
    BY <2>0, <2>2, <2>4, SendsCount DEF ThreadEnds, Writable, Holding
  <2>5. CASE CutInTurn(w)
    <3>1. at[w] \in Holding /\ at[w] # "waiting"
      BY <2>5 DEF CutInTurn, Holding
    <3>2. Pending' = (Pending \union {w}) \ {w}
      BY <2>0, <2>5, <3>1, ReleaseWaitsOn DEF CutInTurn, Over
    <3>3. Left(w, Weight(Pending \union {w}), FALSE)
      BY <2>2, <2>5, <3>1 DEF CutInTurn
    <3> QED
      BY <3>2, <3>3, OneLess
  <2>6. CASE CutWaiting(w)
    <3>1. Pending \union {w} = Pending
      BY <2>6 DEF CutWaiting, Pending
    <3>2. Pending' = (Pending \union {w}) \ {w}
      BY <2>0, <2>6, <3>1, WaitsOn DEF CutWaiting, Places, Over, Holding
    <3>3. Left(w, Weight(Pending \union {w}), FALSE)
      BY <2>6, <3>1 DEF CutWaiting, DrainInv
    <3> QED
      BY <3>2, <3>3, OneLess
  <2>7. CASE ThreadStarts(w)
    <3>1. Pending' = Pending
      BY <2>0, <2>7, WaitsOn DEF ThreadStarts, Places, Holding, Pending
    <3> QED
      BY <2>7, <3>1, CountStays DEF ThreadStarts
  <2>8. CASE Spawn(w)
    <3>1. Pending' = Pending
      BY <2>0, <2>8, WaitsOn DEF Spawn, Places, Holding, Pending
    <3> QED
      BY <2>8, <3>1, CountStays DEF Spawn
  <2>9. CASE CallerGoes(w)
    BY <2>9, CountStays DEF CallerGoes, Pending
  <2> QED
    BY <1>1, <2>1, <2>3, <2>4, <2>5, <2>6, <2>7, <2>8, <2>9 DEF TaskStep
<1>2. ASSUME NEW d \in Drainers, Drain(d) PROVE DrainInv'
  <2>1. Pending' = Pending
    BY <1>2 DEF Drain, Pending
  <2> QED
    BY <1>2, <2>1, CountStays DEF Drain
<1>3. CASE Close
  BY <1>3, CountStays DEF Close, Wake, Pending
<1>4. CASE ScopeEnds \/ Reads \/ Goes \/ UNCHANGED vars
  BY <1>4, CountStays DEF ScopeEnds, Reads, Goes, vars, Pending
<1> QED
  BY <1>1, <1>2, <1>3, <1>4 DEF Next

\* The count never leaks, and who waits for an empty socket is woken by it.
THEOREM DrainersAreWoken == Spec => []NoDrainerOversleeps
<1>1. Init => TurnInv /\ DrainInv
  <2> SUFFICES ASSUME Init PROVE TurnInv /\ DrainInv
    OBVIOUS
  <2>1. TurnInv
    BY DEF Init, TurnInv, AtType, OneTurn, Waiting, Places, Holding
  <2>2. Pending = {} /\ Pending \intersect Long = {}
    BY DEF Init, Pending, Holding
  <2>3. Weight(Pending) = 0
    BY <2>2, FS_EmptySet DEF Weight
  <2> QED
    BY <2>1, <2>3 DEF Init, DrainInv
<1>2. TurnInv /\ DrainInv /\ [Next]_vars => TurnInv' /\ DrainInv'
  BY TurnKept, CountKept
<1>3. DrainInv => NoDrainerOversleeps
  BY DEF DrainInv, NoDrainerOversleeps, Weight
<1> QED
  BY <1>1, <1>2, <1>3, PTL DEF Spec

-----------------------------------------------------------------------------
(* The far end can read what goes out.                                      *)

Put(w) == \E i \in DOMAIN squeezed : squeezed[i] = w

\* What the readable stream rests on: where a writer stands says what of its
\* packet is out, and what the packet is.
StreamType ==
  /\ AtType
  /\ left \in [Writers -> Nat] /\ room \in 0..Room
  /\ out \in Seq(Writers) /\ squeezed \in Seq(Writers)
  /\ enc \in [Writers -> {"json", "msgpack"}]
  /\ zstd \in BOOLEAN /\ closed \in BOOLEAN /\ cut \subseteq Writers

\* A packet is whole on the wire when its write ended well, and what went out or
\* into the compressor is of a writer that had the turn.
PacketInv ==
  /\ \A w \in Writers : left[w] = 0 <=> at[w] = "sent"
  /\ \A w \in Writers : at[w] = "sent" => WentOut(w)
  /\ \A w \in Writers : WentOut(w) \/ Put(w) => at[w] \in {"parked"} \union Over

\* A write fails on a connection that closes, but for a foreign one that is cut.
FailInv ==
  /\ \A w \in cut : closed \/ w \in Foreign
  /\ \A w \in Writers : at[w] = "refused" => closed
  /\ \A w \in Writers : at[w] = "cut" => closed \/ w \in Foreign

\* What is written in which format, and what goes through the compressor.
FormatInv ==
  /\ \A w \in Writers : at[w] = "started" => w \in Spawned
  /\ \A w \in Writers : at[w] # "unsent" => at[Wire] # "unsent"
  /\ encode = IF at[Wire] = "unsent" THEN "json" ELSE "msgpack"
  /\ \A w \in Writers : at[w] # "unsent" => enc[w] = IF w = Wire THEN "json" ELSE "msgpack"
  /\ zstd <=> Zip /\ at[Wire] = "sent"
  /\ \A w \in Writers : at[w] \in {"offered", "thread"} => zstd
  /\ ~Put(Wire)
  /\ \A w \in Writers : at[w] = "parked" /\ w # Wire => (Put(w) <=> zstd)

\* A piece behind the `wire` packet, and a foreign one that is not.
Behind(i) == out[i] # Wire /\ \E k \in 1..(i - 1) : out[k] = Wire
Ahead == \E i \in DOMAIN out : out[i] \in Foreign /\ ~Behind(i)

\* Nothing is out, waits or has the turn before the `wire` packet, unless a
\* foreign packet jumped it.
FirstInv ==
  /\ Len(out) = 0 => room = Room
  /\ Room = 0 => Len(out) = 0
  /\ \/ Ahead \/ closed \/ Room = 0
     \/ at[Wire] \notin {"unsent", "started", "waiting", "handed"}
     \/ /\ at[Wire] \in {"unsent", "started"} /\ Len(out) = 0
        /\ \A w \in Writers : at[w] \in {"unsent", "started"}

\* The pieces of a packet are together, and nothing is behind half a packet.
WholeInv ==
  \A i, j \in DOMAIN out : i < j /\ out[i] # out[j] =>
     out[i] \in Torn \/ (left[out[i]] = 0 /\ \A k \in DOMAIN out : k >= j => out[k] # out[i])

\* Nor is anything behind a gap in the stream of the compressor.
ZipInv ==
  /\ \A i, j \in DOMAIN squeezed : i # j => squeezed[i] # squeezed[j]
  /\ \A i, j \in DOMAIN squeezed : i < j /\ WentOut(squeezed[j]) =>
       squeezed[i] \in Torn \/ left[squeezed[i]] = 0

\* All but the `wire` packet is behind it, and compressed if it says so.
AfterInv == Ahead \/ \A i \in DOMAIN out : out[i] # Wire => Behind(i) /\ (Put(out[i]) <=> Zip)

ReadInv == StreamType /\ PacketInv /\ FailInv /\ FormatInv /\ FirstInv /\ WholeInv /\ ZipInv /\ AfterInv

-----------------------------------------------------------------------------
\* A stream with n more pieces of w at its end.
Grows(s, t, n, w) ==
  /\ t \in Seq(Writers) /\ Len(t) = Len(s) + n
  /\ \A i \in 1..Len(s) : t[i] = s[i]
  /\ \A i \in (Len(s) + 1)..(Len(s) + n) : t[i] = w

LEMMA PiecesGrow ==
  ASSUME NEW s \in Seq(Writers), NEW n \in Nat, NEW w \in Writers
  PROVE  Grows(s, s \o [i \in 1..n |-> w], n, w)
<1> DEFINE p == [i \in 1..n |-> w]
<1>1. p \in Seq(Writers) /\ Len(p) = n
  OBVIOUS
<1>2. \A i \in 1..n : p[i] = w
  OBVIOUS
<1> HIDE DEF p
<1>3. s \o p \in Seq(Writers) /\ Len(s \o p) = Len(s) + n /\ Len(s) \in Nat
  BY <1>1
<1>4. \A i \in 1..Len(s) : (s \o p)[i] = s[i]
  BY <1>1
<1>5. \A i \in (Len(s) + 1)..(Len(s) + n) : (s \o p)[i] = p[i - Len(s)] /\ i - Len(s) \in 1..n
  BY <1>1, <1>3
<1>6. \A i \in (Len(s) + 1)..(Len(s) + n) : (s \o p)[i] = w
  BY <1>2, <1>5
<1> QED BY <1>3, <1>4, <1>6 DEF Grows, p

LEMMA OneGrows ==
  ASSUME NEW s \in Seq(Writers), NEW w \in Writers
  PROVE  Grows(s, Append(s, w), 1, w)
BY DEF Grows

\* What one writer's step does to where the writers stand: one who waited may be
\* handed the turn.
Moves(w, how) ==
  /\ at' \in [Writers -> Places]
  /\ at'[w] = how
  /\ \A v \in Writers \ {w} : at'[v] = at[v] \/ (at[v] = "waiting" /\ at'[v] = "handed")

LEMMA OneMoves ==
  ASSUME AtType, NEW w \in Writers, NEW how \in Places, at' = [at EXCEPT ![w] = how]
  PROVE  Moves(w, how)
BY DEF AtType, Moves

LEMMA ReleaseMoves ==
  ASSUME AtType, NEW w \in Writers, NEW how \in Over, at[w] # "waiting", Release(w, how)
  PROVE  Moves(w, how)
<1>0. how \in Places /\ "handed" \in Places
  BY DEF Places, Holding
<1>1. CASE at' = [at EXCEPT ![w] = how]
  BY <1>0, <1>1, OneMoves
<1>2. CASE \E u \in FirstOf(NextQueue) : at' = [at EXCEPT ![w] = how, ![u] = "handed"]
  <2> PICK u \in FirstOf(NextQueue) : at' = [at EXCEPT ![w] = how, ![u] = "handed"]
    BY <1>2
  <2>1. u \in Writers /\ at[u] = "waiting" /\ u # w
    BY DEF FirstOf, NextQueue, Waiting
  <2> QED BY <1>0, <2>1 DEF AtType, Moves
<1> QED BY <1>1, <1>2 DEF Release

\* A writer that may write, how its packet is encoded, and what the compressor
\* took of it.
Ready(w) ==
  /\ at[w] \in {"unsent", "started", "handed", "thread", "parked"}
  /\ \A v \in Writers : at[v] \in Holding => v = w
  /\ at[w] = "unsent" => at[Wire] # "unsent" /\ (w \in Foreign \/ at[Wire] # "started")
  /\ at[w] = "started" => \A v \in Writers : v < w => at[v] # "started"
Encodes(w) ==
  /\ encode' = encode
  /\ \/ enc' = enc /\ at[w] # "unsent"
     \/ enc' = [enc EXCEPT ![w] = encode] /\ at[w] = "unsent"
Zips(w) ==
  \/ squeezed' = squeezed /\ (w # Wire => (Put(w) <=> zstd))
  \/ squeezed' = Append(squeezed, w) /\ zstd /\ ~Put(w)

\* The two ways a write goes on: n more pieces are out.
Sent(w, n) ==
  /\ ~closed /\ closed' = closed
  /\ Grows(out, out', n, w)
  /\ n <= room /\ n <= left[w] /\ n \in Nat
  /\ \A v \in Writers : left'[v] = IF v = w THEN left[w] - n ELSE left[v]
  /\ \/ /\ n = left[w] /\ Moves(w, "sent") /\ room' = room - n
        /\ zstd' = (zstd \/ (Zip /\ w = Wire))
     \/ /\ n = room /\ n < left[w] /\ Moves(w, "parked") /\ room' = 0
        /\ zstd' = zstd
\* A write with the turn breaks, or puts some pieces out.
LEMMA SendCases ==
  ASSUME StreamType, PacketInv, NEW w \in Writers, Ready(w), NEW o, Send(w, o)
  PROVE  \/ /\ UNCHANGED <<left, room, out, zstd>> /\ closed' = TRUE /\ Moves(w, "refused")
         \/ \E n \in Nat : Sent(w, n) /\ left' \in [Writers -> Nat]
<1>1. AtType /\ at[w] # "waiting" /\ left[w] \in Nat /\ room \in Nat /\ out \in Seq(Writers)
  BY PipeAssumption DEF StreamType, Ready
<1>2. CASE SendBreaks(w, o)
  <2>1. Moves(w, "refused")
    BY <1>1, <1>2, ReleaseMoves DEF SendBreaks, Over
  <2> QED BY <1>2, <2>1 DEF SendBreaks, Left
<1>3. CASE SendEnds(w, o)
  <2>1. Moves(w, "sent")
    BY <1>1, <1>3, ReleaseMoves DEF SendEnds, Over
  <2>2. Grows(out, out', left[w], w)
    BY <1>1, <1>3, PiecesGrow DEF SendEnds
  <2>3. closed' = closed
    BY <1>3 DEF SendEnds, Left, StreamType
  <2>4. left' \in [Writers -> Nat] /\ \A v \in Writers : left'[v] = IF v = w THEN left[w] - left[w] ELSE left[v]
    BY <1>1, <1>3 DEF SendEnds, StreamType
  <2>5. ~closed /\ left[w] <= room /\ room' = room - left[w] /\ zstd' = (zstd \/ (Zip /\ w = Wire))
    BY <1>1, <1>3 DEF SendEnds
  <2>6. Sent(w, left[w])
    BY <1>1, <2>1, <2>2, <2>3, <2>4, <2>5 DEF Sent
  <2> QED BY <1>1, <2>4, <2>6
<1>4. CASE SendParks(w, o)
  <2>1. Moves(w, "parked")
    BY <1>1, <1>4, OneMoves DEF SendParks, Places, Holding
  <2>2. Grows(out, out', room, w)
    BY <1>1, <1>4, PiecesGrow DEF SendParks
  <2>3. closed' = closed
    BY <1>4 DEF SendParks
  <2>4. left' \in [Writers -> Nat] /\ \A v \in Writers : left'[v] = IF v = w THEN left[w] - room ELSE left[v]
    BY <1>1, <1>4 DEF SendParks, StreamType
  <2>5. Sent(w, room)
    BY <1>1, <1>4, <2>1, <2>2, <2>3, <2>4 DEF SendParks, Sent
  <2> QED BY <1>1, <2>4, <2>5
<1> QED BY <1>2, <1>3, <1>4 DEF Send

\* What was out or compressed still is.
LEMMA GrownKeeps ==
  ASSUME StreamType, NEW w \in Writers, NEW n \in Nat, Grows(out, out', n, w)
  PROVE  /\ DOMAIN out = 1..Len(out) /\ DOMAIN out' = 1..(Len(out) + n) /\ Len(out) \in Nat
         /\ \A i \in DOMAIN out : i \in DOMAIN out' /\ out'[i] = out[i] /\ out[i] \in Writers
         /\ \A i \in DOMAIN out' : i \in DOMAIN out \/ (out'[i] = w /\ i > Len(out) /\ n > 0)
         /\ \A v : WentOut(v) => WentOut(v)'
         /\ \A v : WentOut(v)' => WentOut(v) \/ (v = w /\ n > 0)
         /\ n > 0 => WentOut(w)'
<1>1. DOMAIN out = 1..Len(out) /\ Len(out) \in Nat /\ \A i \in 1..Len(out) : out[i] \in Writers
  BY DEF StreamType
<1>2. DOMAIN out' = 1..(Len(out) + n)
  BY DEF Grows
<1>3. \A i \in DOMAIN out : i \in DOMAIN out' /\ out'[i] = out[i] /\ out[i] \in Writers
  BY <1>1, <1>2 DEF Grows
<1>4. \A i \in DOMAIN out' : i \in DOMAIN out \/ (out'[i] = w /\ i > Len(out) /\ n > 0)
  BY <1>1, <1>2 DEF Grows
<1>5. n > 0 => WentOut(w)'
  <2>1. n > 0 => Len(out) + 1 \in (Len(out) + 1)..(Len(out) + n) /\ Len(out) + 1 \in DOMAIN out'
    BY <1>1, <1>2
  <2> QED BY <2>1 DEF Grows, WentOut
<1> QED BY <1>1, <1>2, <1>3, <1>4, <1>5 DEF WentOut

\* And so of the compressor.
LEMMA ZippedKeeps ==
  ASSUME StreamType, NEW w \in Writers, Zips(w)
  PROVE  /\ squeezed' \in Seq(Writers) /\ DOMAIN squeezed = 1..Len(squeezed) /\ Len(squeezed) \in Nat
         /\ \A i \in DOMAIN squeezed : i \in DOMAIN squeezed' /\ squeezed'[i] = squeezed[i]
         /\ \A i \in DOMAIN squeezed' :
              i \in DOMAIN squeezed \/ (squeezed'[i] = w /\ i = Len(squeezed) + 1 /\ zstd /\ ~Put(w))
         /\ \A i \in DOMAIN squeezed' : i \in Nat /\ squeezed'[i] \in Writers
         /\ \A v : Put(v) => Put(v)'
         /\ \A v : Put(v)' => Put(v) \/ (v = w /\ zstd)
         /\ w # Wire => (Put(w)' <=> zstd)
<1>1. CASE squeezed' = squeezed /\ (w # Wire => (Put(w) <=> zstd))
  BY <1>1 DEF StreamType, Put
<1>2. CASE squeezed' = Append(squeezed, w) /\ zstd /\ ~Put(w)
  <2>1. Grows(squeezed, squeezed', 1, w)
    BY <1>2, OneGrows DEF StreamType
  <2>2. DOMAIN squeezed = 1..Len(squeezed) /\ Len(squeezed) \in Nat
        /\ DOMAIN squeezed' = 1..(Len(squeezed) + 1) /\ squeezed' \in Seq(Writers)
    BY <2>1 DEF Grows, StreamType
  <2>3. \A i \in DOMAIN squeezed' : i \in Nat /\ squeezed'[i] \in Writers
    BY <2>2
  <2>4. \A i \in DOMAIN squeezed : i \in DOMAIN squeezed' /\ squeezed'[i] = squeezed[i]
    BY <2>1, <2>2 DEF Grows
  <2>5. \A i \in DOMAIN squeezed' : i \in DOMAIN squeezed \/ (squeezed'[i] = w /\ i = Len(squeezed) + 1)
    BY <2>1, <2>2 DEF Grows
  <2>6. Len(squeezed) + 1 \in DOMAIN squeezed' /\ squeezed'[Len(squeezed) + 1] = w
    BY <2>1, <2>2 DEF Grows
  <2> QED BY <1>2, <2>2, <2>3, <2>4, <2>5, <2>6 DEF Put
<1> QED BY <1>1, <1>2 DEF Zips

\* Where the others stand when a writer has the turn: none has part of a packet
\* out but one that failed.
LEMMA OthersAreWhole ==
  ASSUME StreamType, PacketInv, FailInv, ~closed, NEW w \in Writers, Ready(w),
         NEW v \in Writers, v # w, WentOut(v) \/ Put(v)
  PROVE  at[v] \in {"sent", "cut"} /\ (v \in Torn \/ left[v] = 0)
<1>1. at[v] # "parked"
  BY DEF Ready, Holding
<1>2. at[v] \in {"sent", "cut"}
  BY <1>1 DEF PacketInv, FailInv, Over
<1>3. CASE at[v] = "sent"
  BY <1>3 DEF PacketInv
<1>4. CASE at[v] = "cut"
  BY <1>4 DEF FailInv, Torn, Put
<1> QED BY <1>2, <1>3, <1>4

\* What was torn stays torn, and what was whole stays whole.
LEMMA TornStays ==
  ASSUME NEW w \in Writers, at[w] # "cut", NEW how, Moves(w, how),
         \A v : WentOut(v) => WentOut(v)', \A v : Put(v) => Put(v)'
  PROVE  \A v \in Torn : v \in Torn'
<1>1. \A v \in Foreign : v \in Writers
  BY PipeAssumption
<1>2. \A v \in Writers : at[v] = "cut" => at'[v] = "cut"
  BY DEF Moves
<1>3. \A v \in Torn : WentOut(v)' \/ Put(v)'
  BY DEF Torn, Put
<1> QED BY <1>1, <1>2, <1>3 DEF Torn, Put

\* More of a packet goes out: it is not in the middle of another one.
LEMMA SentWhole ==
  ASSUME ReadInv, NEW w \in Writers, Ready(w), Zips(w), NEW n \in Nat, Sent(w, n)
  PROVE  WholeInv'
<1> USE DEF ReadInv
<1>1. Grows(out, out', n, w) /\ ~closed /\ \E how : Moves(w, how)
  BY DEF Sent
<1>2. /\ DOMAIN out = 1..Len(out) /\ Len(out) \in Nat
      /\ \A i \in DOMAIN out : i \in DOMAIN out' /\ out'[i] = out[i] /\ out[i] \in Writers
      /\ \A i \in DOMAIN out' : i \in DOMAIN out \/ (out'[i] = w /\ i > Len(out))
      /\ DOMAIN out' \subseteq Nat
  BY <1>1, GrownKeeps
<1>3. \A v \in Torn : v \in Torn'
  BY <1>1, GrownKeeps, ZippedKeeps, TornStays DEF Ready
<1>4. left[w] # 0
  BY DEF PacketInv, Ready
<1>5. \A v \in Writers : v # w => left'[v] = left[v]
  BY DEF Sent
<1> SUFFICES ASSUME NEW i \in DOMAIN out', NEW j \in DOMAIN out', i < j, out'[i] # out'[j]
             PROVE  \/ out'[i] \in Torn'
                    \/ left'[out'[i]] = 0 /\ \A k \in DOMAIN out' : k >= j => out'[k] # out'[i]
  BY DEF WholeInv
<1>6. CASE j \in DOMAIN out
  <2>1. i \in DOMAIN out
    BY <1>2, <1>6
  <2>2. out[i] \in Torn \/ (left[out[i]] = 0 /\ \A k \in DOMAIN out : k >= j => out[k] # out[i])
    BY <1>2, <1>6, <2>1 DEF WholeInv
  <2> QED BY <1>2, <1>3, <1>4, <1>5, <2>1, <2>2
<1>7. CASE j \notin DOMAIN out
  <2>1. out'[j] = w /\ j > Len(out) /\ i \in DOMAIN out /\ out'[i] = out[i] /\ out[i] \in Writers /\ out[i] # w
    BY <1>2, <1>7
  <2>2. WentOut(out[i])
    BY <2>1 DEF WentOut
  <2>3. out[i] \in Torn \/ left[out[i]] = 0
    BY <1>1, <2>1, <2>2, OthersAreWhole
  <2>4. \A k \in DOMAIN out' : k >= j => out'[k] = w
    BY <1>2, <2>1
  <2> QED BY <1>3, <1>5, <2>1, <2>3, <2>4
<1> QED BY <1>6, <1>7

\* Nor before what the compressor took earlier.
LEMMA SentInOrder ==
  ASSUME ReadInv, NEW w \in Writers, Ready(w), Zips(w), NEW n \in Nat, Sent(w, n)
  PROVE  ZipInv'
<1> USE DEF ReadInv
<1>1. Grows(out, out', n, w) /\ ~closed /\ \E how : Moves(w, how)
  BY DEF Sent
<1>2. /\ \A v : WentOut(v) => WentOut(v)'
      /\ \A v : WentOut(v)' => WentOut(v) \/ v = w
  BY <1>1, GrownKeeps
<1>3. \A v \in Torn : v \in Torn'
  BY <1>1, GrownKeeps, ZippedKeeps, TornStays DEF Ready
<1>4. left[w] # 0
  BY DEF PacketInv, Ready
<1>5. \A v \in Writers : v # w => left'[v] = left[v]
  BY DEF Sent
<1>6. /\ DOMAIN squeezed = 1..Len(squeezed) /\ Len(squeezed) \in Nat
      /\ \A i \in DOMAIN squeezed : i \in DOMAIN squeezed' /\ squeezed'[i] = squeezed[i]
      /\ \A i \in DOMAIN squeezed' :
           i \in DOMAIN squeezed \/ (squeezed'[i] = w /\ i = Len(squeezed) + 1 /\ ~Put(w))
      /\ \A i \in DOMAIN squeezed' : i \in Nat /\ squeezed'[i] \in Writers
  BY ZippedKeeps
<1>7. \A i \in DOMAIN squeezed : Put(squeezed[i])
  BY DEF Put
<1>8. \A i, j \in DOMAIN squeezed' : i # j => squeezed'[i] # squeezed'[j]
  BY <1>6, <1>7 DEF ZipInv
<1>9. ASSUME NEW i \in DOMAIN squeezed', NEW j \in DOMAIN squeezed', i < j, WentOut(squeezed[j])'
      PROVE  squeezed'[i] \in Torn' \/ left'[squeezed'[i]] = 0
  <2>1. i \in DOMAIN squeezed /\ squeezed'[i] = squeezed[i] /\ squeezed[i] \in Writers
    BY <1>6, <1>9
  <2>2. CASE j \in DOMAIN squeezed /\ WentOut(squeezed[j])
    <3>1. squeezed[i] \in Torn \/ left[squeezed[i]] = 0
      BY <1>9, <2>1, <2>2 DEF ZipInv
    <3> QED BY <1>3, <1>4, <1>5, <2>1, <3>1
  <2>3. CASE squeezed'[j] = w
    <3>0. i # j
      BY <1>6, <1>9
    <3>1. squeezed[i] # w
      BY <1>8, <3>0, <2>1, <2>3
    <3>2. squeezed[i] \in Torn \/ left[squeezed[i]] = 0
      BY <1>1, <1>7, <2>1, <3>1, OthersAreWhole
    <3> QED BY <1>3, <1>5, <2>1, <3>1, <3>2
  <2> QED BY <1>2, <1>6, <1>9, <2>2, <2>3
<1> QED BY <1>8, <1>9 DEF ZipInv
\* When the first piece goes out the `wire` packet's is it, or a foreign one's.
LEMMA FirstOut ==
  ASSUME ReadInv, TurnInv, ~closed, NEW w \in Writers, Ready(w), Room > 0, ~Ahead, w # Wire
  PROVE  \/ at[Wire] = "sent" /\ \E k \in DOMAIN out : out[k] = Wire
         \/ w \in Foreign /\ Len(out) = 0
<1> USE DEF ReadInv
<1>0. Wire \in Writers /\ Wire \notin Foreign /\ (\A v \in Spawned : Wire <= v) /\ Writers \subseteq Nat
  BY PipeAssumption
<1>1. CASE at[Wire] \notin {"unsent", "started", "waiting", "handed"}
  <2>1. at[Wire] \notin Holding
    BY <1>0 DEF Ready
  <2>2. at[Wire] \notin {"cut", "refused"}
    BY <1>0 DEF FailInv
  <2>3. at[Wire] \in Places
    BY <1>0 DEF StreamType, AtType
  <2>4. at[Wire] = "sent"
    BY <1>1, <2>1, <2>2, <2>3 DEF Places, Over
  <2> QED BY <1>0, <2>4 DEF PacketInv, WentOut
<1>2. CASE /\ at[Wire] \in {"unsent", "started"} /\ Len(out) = 0
           /\ \A v \in Writers : at[v] \in {"unsent", "started"}
  <2>1. ASSUME w \notin Foreign PROVE FALSE
    <3>1. at[w] = "started"
      BY <1>2, <2>1 DEF Ready
    <3>2. at[Wire] = "started"
      BY <1>2, <3>1 DEF FormatInv
    <3>3. w \in Spawned
      BY <3>1 DEF FormatInv
    <3>4. Wire < w
      BY <1>0, <3>3
    <3> QED BY <1>0, <3>1, <3>2, <3>4 DEF Ready
  <2> QED BY <1>2, <2>1
<1>3. Room # 0
  BY PipeAssumption
<1> QED BY <1>1, <1>2, <1>3 DEF FirstInv

\* What jumped the `wire` packet has jumped it for good.
LEMMA AheadStays ==
  ASSUME StreamType, NEW w \in Writers, NEW n \in Nat, Grows(out, out', n, w)
  PROVE  /\ \A i \in DOMAIN out : Behind(i)' <=> Behind(i)
         /\ Ahead => Ahead'
<1>1. /\ DOMAIN out = 1..Len(out) /\ Len(out) \in Nat
      /\ \A i \in DOMAIN out : i \in DOMAIN out' /\ out'[i] = out[i]
  BY GrownKeeps
<1>2. \A i \in DOMAIN out : \A k \in 1..(i - 1) : k \in DOMAIN out
  BY <1>1
<1>3. \A i \in DOMAIN out : Behind(i)' <=> Behind(i)
  BY <1>1, <1>2 DEF Behind
<1> QED BY <1>1, <1>3 DEF Ahead

\* Nor ahead of the `wire` packet.
LEMMA SentAfter ==
  ASSUME ReadInv, TurnInv, NEW w \in Writers, Ready(w), Zips(w), NEW n \in Nat, Sent(w, n)
  PROVE  AfterInv'
<1> USE DEF ReadInv
<1>1. Grows(out, out', n, w) /\ ~closed /\ n <= room
  BY DEF Sent
<1>2. /\ DOMAIN out = 1..Len(out) /\ Len(out) \in Nat /\ DOMAIN out' = 1..(Len(out) + n)
      /\ \A i \in DOMAIN out : i \in DOMAIN out' /\ out'[i] = out[i] /\ out[i] \in Writers
      /\ \A i \in DOMAIN out' : i \in DOMAIN out \/ (out'[i] = w /\ i > Len(out) /\ n > 0)
  BY <1>1, GrownKeeps
<1>3. /\ \A i \in DOMAIN out : Behind(i)' <=> Behind(i)
      /\ Ahead => Ahead'
  BY <1>1, AheadStays
<1> SUFFICES ASSUME ~Ahead, ~Ahead', NEW i \in DOMAIN out', NEW v \in Writers, v = out'[i], v # Wire
             PROVE  Behind(i)' /\ (Put(v)' <=> Zip)
  <2>1. \A i \in DOMAIN out' : out'[i] \in Writers
    BY <1>2
  <2> QED BY <1>3, <2>1 DEF AfterInv, Put
<1>4. CASE i \in DOMAIN out
  <2>1. Behind(i) /\ (Put(v) <=> Zip)
    BY <1>2, <1>4 DEF AfterInv
  <2>2. Put(v)' <=> Put(v)
    <3>1. CASE v # w
      BY <3>1, ZippedKeeps
    <3>2. CASE v = w
      <4>1. Put(v)' <=> zstd
        BY <3>2, ZippedKeeps
      <4>2. WentOut(v)
        BY <1>2, <1>4 DEF WentOut
      <4>3. at[w] = "parked"
        BY <3>2, <4>2 DEF PacketInv, Ready, Over
      <4>4. Put(v) <=> zstd
        BY <3>2, <4>3 DEF FormatInv
      <4> QED BY <4>1, <4>4
    <3> QED BY <3>1, <3>2
  <2> QED BY <1>3, <1>4, <2>1, <2>2
<1>5. CASE i \notin DOMAIN out
  <2>1. v = w /\ i > Len(out) /\ n > 0 /\ i \in Nat
    BY <1>2, <1>5
  <2>2. Room > 0
    BY <1>1, <2>1, PipeAssumption DEF StreamType
  <2>3. CASE w \in Foreign /\ Len(out) = 0
    <3>1. \A k \in 1..(i - 1) : k \in DOMAIN out'
      BY <1>2
    <3>2. \A k \in DOMAIN out' : out'[k] = w
      BY <1>2, <2>3
    <3>3. ~Behind(i)'
      BY <2>1, <3>1, <3>2 DEF Behind
    <3> QED BY <2>1, <2>3, <3>2, <3>3 DEF Ahead
  <2>4. CASE at[Wire] = "sent" /\ \E k \in DOMAIN out : out[k] = Wire
    <3>1. PICK k \in DOMAIN out : out[k] = Wire
      BY <2>4
    <3>2. k \in 1..(i - 1) /\ out'[k] = Wire
      BY <1>2, <2>1, <3>1
    <3>3. Behind(i)'
      BY <3>2 DEF Behind
    <3>4. Put(v)' <=> zstd
      BY <2>1, ZippedKeeps
    <3>5. zstd <=> Zip
      BY <2>4 DEF FormatInv
    <3> QED BY <3>3, <3>4, <3>5
  <2> QED BY <1>1, <2>1, <2>2, <2>3, <2>4, FirstOut
<1> QED BY <1>4, <1>5

\* The first of it is the `wire` packet's own.
LEMMA SentFirst ==
  ASSUME ReadInv, TurnInv, NEW w \in Writers, Ready(w), NEW n \in Nat, Sent(w, n)
  PROVE  FirstInv'
<1> USE DEF ReadInv
<1>0. Wire \in Writers /\ Wire \notin Foreign /\ Room \in Nat
  BY PipeAssumption
<1>1. Grows(out, out', n, w) /\ ~closed /\ n <= room /\ n <= left[w] /\ room \in 0..Room /\ left[w] \in Nat
  BY DEF Sent, StreamType
<1>2. /\ DOMAIN out = 1..Len(out) /\ Len(out) \in Nat /\ DOMAIN out' = 1..(Len(out) + n)
      /\ \A i \in DOMAIN out' : i \in DOMAIN out \/ (out'[i] = w /\ i > Len(out) /\ n > 0)
      /\ n > 0 => WentOut(w)'
  BY <1>1, GrownKeeps
<1>3. Ahead => Ahead'
  BY <1>1, AheadStays
<1>4. Len(out') = Len(out) + n
  BY <1>1 DEF Grows
<1>5. left[w] > 0
  BY <1>1 DEF PacketInv, Ready
<1>6. n = left[w] \/ (n = room /\ room' = 0)
  BY DEF Sent
<1>7. Len(out') = 0 => room' = Room
  BY <1>0, <1>1, <1>2, <1>4, <1>5, <1>6 DEF FirstInv
<1>8. Room = 0 => Len(out') = 0
  BY <1>0, <1>1, <1>2, <1>4 DEF FirstInv
<1>9. \/ Ahead' \/ Room = 0
      \/ at'[Wire] \notin {"unsent", "started", "waiting", "handed"}
  <2> SUFFICES ASSUME ~Ahead, Room > 0 PROVE Ahead' \/ at'[Wire] \notin {"unsent", "started", "waiting", "handed"}
    BY <1>0, <1>3
  <2>1. CASE w = Wire
    BY <2>1 DEF Sent, Moves
  <2>2. CASE w # Wire /\ at[Wire] = "sent"
    BY <1>0, <2>2 DEF Sent, Moves
  <2>3. CASE w # Wire /\ w \in Foreign /\ Len(out) = 0
    <3>1. n > 0
      BY <1>0, <1>1, <1>5, <1>6, <2>3 DEF FirstInv
    <3>2. 1 \in DOMAIN out' /\ out'[1] = w
      BY <1>2, <2>3, <3>1
    <3>3. ~Behind(1)'
      BY DEF Behind
    <3> QED BY <2>3, <3>2, <3>3 DEF Ahead
  <2> QED BY <1>1, <2>1, <2>2, <2>3, FirstOut
<1> QED BY <1>7, <1>8, <1>9 DEF FirstInv

LEMMA SentFormat ==
  ASSUME ReadInv, NEW w \in Writers, Ready(w), Encodes(w), Zips(w), NEW n \in Nat, Sent(w, n)
  PROVE  FormatInv'
<1> USE DEF ReadInv
<1>0. Wire \in Writers /\ at \in [Writers -> Places]
  BY PipeAssumption DEF StreamType, AtType
<1>1. /\ \A v : Put(v)' => Put(v) \/ (v = w /\ zstd)
      /\ \A v : Put(v) => Put(v)'
      /\ w # Wire => (Put(w)' <=> zstd)
  BY ZippedKeeps
<1>2. PICK how \in {"sent", "parked"} : /\ Moves(w, how)
                                       /\ zstd' = (zstd \/ (how = "sent" /\ Zip /\ w = Wire))
  BY DEF Sent, StreamType
<1>3. \A v \in Writers \ {w} : at'[v] = at[v] \/ (at[v] = "waiting" /\ at'[v] = "handed")
  BY <1>2 DEF Moves
<1>4. at'[w] = how
  BY <1>2 DEF Moves
<1>5. w # Wire => zstd' = zstd
  BY <1>2 DEF StreamType
<1>6. zstd => w # Wire
  BY DEF FormatInv, Ready
<1>7. \A v \in Writers : at'[v] = "started" => v \in Spawned
  BY <1>3, <1>4 DEF FormatInv
<1>8. at[Wire] # "unsent" /\ at'[Wire] # "unsent"
  BY <1>0, <1>3, <1>4 DEF FormatInv, Ready
<1>9. encode' = "msgpack"
  BY <1>8 DEF FormatInv, Encodes
<1>10. \A v \in Writers : at'[v] # "unsent" => enc'[v] = IF v = Wire THEN "json" ELSE "msgpack"
  <2> SUFFICES ASSUME NEW v \in Writers, at'[v] # "unsent"
               PROVE  enc'[v] = IF v = Wire THEN "json" ELSE "msgpack"
    OBVIOUS
  <2>1. CASE v # w
    BY SMTT(30), <1>3, <2>1 DEF FormatInv, Encodes, StreamType
  <2>2. CASE v = w /\ at[w] = "unsent"
    BY <1>8, <1>9, <2>2 DEF Encodes, StreamType
  <2>3. CASE v = w /\ at[w] # "unsent"
    BY <2>3 DEF FormatInv, Encodes
  <2> QED BY <2>1, <2>2, <2>3
<1>11. zstd' <=> Zip /\ at'[Wire] = "sent"
  <2>1. CASE w = Wire
    BY <1>2, <1>4, <2>1 DEF FormatInv, Ready
  <2>2. CASE w # Wire
    BY <1>0, <1>3, <1>5, <2>2 DEF FormatInv
  <2> QED BY <2>1, <2>2
<1>12. \A v \in Writers : at'[v] \in {"offered", "thread"} => zstd'
  BY <1>2, <1>3, <1>4 DEF FormatInv
<1>13. ~Put(Wire)'
  BY <1>0, <1>1, <1>6 DEF FormatInv
<1>14. \A v \in Writers : at'[v] = "parked" /\ v # Wire => (Put(v)' <=> zstd')
  <2> SUFFICES ASSUME NEW v \in Writers, at'[v] = "parked", v # Wire PROVE Put(v)' <=> zstd'
    OBVIOUS
  <2>1. CASE v = w
    BY <1>1, <1>5, <2>1
  <2>2. CASE v # w
    BY <1>3, <2>2 DEF Ready, Holding
  <2> QED BY <2>1, <2>2
<1> QED BY <1>7, <1>8, <1>9, <1>10, <1>11, <1>12, <1>13, <1>14 DEF FormatInv

LEMMA SentPackets ==
  ASSUME ReadInv, NEW w \in Writers, Ready(w), Zips(w), NEW n \in Nat, Sent(w, n)
  PROVE  PacketInv'
<1> USE DEF ReadInv
<1>1. Grows(out, out', n, w) /\ n <= left[w] /\ left[w] \in Nat /\ left[w] # 0
  BY DEF Sent, StreamType, PacketInv, Ready
<1>2. /\ \A v : WentOut(v) => WentOut(v)'
      /\ \A v : WentOut(v)' => WentOut(v) \/ v = w
      /\ n > 0 => WentOut(w)'
      /\ \A v : Put(v)' => Put(v) \/ v = w
  BY <1>1, GrownKeeps, ZippedKeeps
<1>3. \/ n = left[w] /\ Moves(w, "sent")
      \/ n < left[w] /\ Moves(w, "parked")
  BY DEF Sent
<1>4. \A v \in Writers \ {w} : at'[v] = at[v] \/ (at[v] = "waiting" /\ at'[v] = "handed")
  BY <1>3 DEF Moves
<1>5. \A v \in Writers \ {w} : left'[v] = left[v]
  BY DEF Sent
<1>6. left'[w] = left[w] - n
  BY DEF Sent
<1>7. \A v \in Writers : left'[v] = 0 <=> at'[v] = "sent"
  <2> SUFFICES ASSUME NEW v \in Writers PROVE left'[v] = 0 <=> at'[v] = "sent"
    OBVIOUS
  <2>1. CASE v = w
    BY <1>1, <1>3, <1>6, <2>1 DEF Moves
  <2>2. CASE v # w
    BY <1>4, <1>5, <2>2 DEF PacketInv
  <2> QED BY <2>1, <2>2
<1>8. \A v \in Writers : at'[v] = "sent" => WentOut(v)'
  BY <1>1, <1>2, <1>3, <1>4 DEF PacketInv, Moves
<1>9. \A v \in Writers : WentOut(v)' \/ Put(v)' => at'[v] \in {"parked"} \union Over
  <2> SUFFICES ASSUME NEW v \in Writers, WentOut(v)' \/ Put(v)' PROVE at'[v] \in {"parked"} \union Over
    OBVIOUS
  <2>1. CASE v = w
    BY <1>3, <2>1 DEF Moves, Over
  <2>2. CASE v # w
    BY <1>2, <1>4, <2>2 DEF PacketInv, Over
  <2> QED BY <2>1, <2>2
<1> QED BY <1>7, <1>8, <1>9 DEF PacketInv

LEMMA SentFails ==
  ASSUME ReadInv, NEW w \in Writers, cut' = cut, NEW n \in Nat, Sent(w, n)
  PROVE  FailInv'
BY DEF ReadInv, FailInv, Sent, Moves

LEMMA SentTypes ==
  ASSUME ReadInv, NEW w \in Writers, Ready(w), Encodes(w), Zips(w), cut' = cut, NEW n \in Nat,
         Sent(w, n), left' \in [Writers -> Nat]
  PROVE  StreamType'
<1> USE DEF ReadInv
<1>1. room' \in 0..Room
  BY PipeAssumption DEF Sent, StreamType
<1>2. squeezed' \in Seq(Writers)
  BY ZippedKeeps
<1>3. out' \in Seq(Writers) /\ at' \in [Writers -> Places] /\ zstd' \in BOOLEAN /\ closed' \in BOOLEAN
  BY DEF Sent, Grows, Moves, StreamType
<1>4. encode \in {"json", "msgpack"}
  BY DEF FormatInv
<1>5. enc' \in [Writers -> {"json", "msgpack"}]
  BY <1>4 DEF Encodes, StreamType
<1> QED BY <1>1, <1>2, <1>3, <1>5 DEF StreamType, AtType

\* A step that puts nothing on the wire: where one writer goes and what must
\* hold for it to go there.
Quiet(w, how) ==
  /\ Moves(w, how) /\ UNCHANGED <<left, room, out, zstd, cut>>
  /\ closed' \in BOOLEAN /\ (closed => closed')
  /\ \/ squeezed' = squeezed
     \/ squeezed' = Append(squeezed, w) /\ zstd /\ ~Put(w) /\ how = "refused"
  /\ at[w] \notin Over
  /\ \/ how = "refused" /\ closed'
     \/ how = "cut" /\ w \in cut /\ at[w] \notin {"unsent", "started"}
     \/ how = "started"
     \/ how \in {"offered", "thread"} /\ zstd /\ at[w] \in {"unsent", "started", "handed", "offered"}
     \/ how = "waiting" /\ held /\ at[w] \in {"unsent", "started"}
  /\ \/ /\ how = "started" /\ w \in Spawned /\ at[w] = "unsent"
        /\ \A v \in Spawned : v < w => at[v] # "unsent"
        /\ enc' = [enc EXCEPT ![w] = encode] /\ encode' = IF w = Wire THEN "msgpack" ELSE encode
     \/ how # "started" /\ Encodes(w) /\ (at[w] = "unsent" => at[Wire] # "unsent")

\* Such a step leaves what was out, and what was torn.
LEMMA QuietOthers ==
  ASSUME ReadInv, NEW w \in Writers, NEW how, Quiet(w, how)
  PROVE  /\ \A v : WentOut(v)' <=> WentOut(v)
         /\ \A v : Put(v) => Put(v)'
         /\ \A v : Put(v)' => Put(v) \/ (v = w /\ how = "refused" /\ zstd /\ ~WentOut(w))
         /\ \A v \in Torn : v \in Torn'
         /\ squeezed' \in Seq(Writers)
         /\ \A i \in DOMAIN squeezed : i \in DOMAIN squeezed' /\ squeezed'[i] = squeezed[i]
         /\ \A i \in DOMAIN squeezed' : /\ i \in Nat
                                        /\ \/ i \in DOMAIN squeezed
                                           \/ /\ \A k \in DOMAIN squeezed : k < i /\ squeezed[k] # w
                                              /\ squeezed'[i] = w /\ ~WentOut(w) /\ i = Len(squeezed) + 1
<1> USE DEF ReadInv
<1>0. Wire \in Writers
  BY PipeAssumption
<1>1. \A v : WentOut(v)' <=> WentOut(v)
  BY DEF Quiet, WentOut
<1>2. ASSUME zstd, ~Put(w) PROVE ~WentOut(w)
  <2>1. w # Wire => at[w] # "parked"
    BY <1>2 DEF FormatInv
  <2>2. w = Wire => at[w] = "sent"
    BY <1>2 DEF FormatInv
  <2>3. at[w] \notin Over
    BY DEF Quiet
  <2> QED BY <2>1, <2>2, <2>3 DEF PacketInv, Over
<1>3. /\ DOMAIN squeezed = 1..Len(squeezed) /\ Len(squeezed) \in Nat
      /\ squeezed \in Seq(Writers)
  BY DEF StreamType
<1>4. CASE squeezed' = squeezed
  <2>1. \A v : Put(v)' <=> Put(v)
    BY <1>4 DEF Put
  <2>2. \A v \in Torn : v \in Torn'
    <3>1. at[w] # "cut"
      BY DEF Quiet, Over
    <3> QED BY <1>1, <2>1, <3>1, TornStays DEF Quiet
  <2>3. \A i \in DOMAIN squeezed' : i \in Nat /\ i \in DOMAIN squeezed
    BY <1>3, <1>4
  <2> QED BY <1>1, <1>3, <1>4, <2>1, <2>2, <2>3
<1>5. CASE squeezed' = Append(squeezed, w) /\ zstd /\ ~Put(w) /\ how = "refused"
  <2>1. Zips(w)
    BY <1>5 DEF Zips
  <2>2. /\ squeezed' \in Seq(Writers)
        /\ \A i \in DOMAIN squeezed : i \in DOMAIN squeezed' /\ squeezed'[i] = squeezed[i]
        /\ \A i \in DOMAIN squeezed' : i \in DOMAIN squeezed \/ (squeezed'[i] = w /\ i = Len(squeezed) + 1)
        /\ \A i \in DOMAIN squeezed' : i \in Nat
        /\ \A v : Put(v) => Put(v)'
        /\ \A v : Put(v)' => Put(v) \/ v = w
    BY <2>1, ZippedKeeps
  <2>3. \A v \in Torn : v \in Torn'
    <3>1. at[w] # "cut"
      BY DEF Quiet, Over
    <3> QED BY <1>1, <2>2, <3>1, TornStays DEF Quiet
  <2>4. \A k \in DOMAIN squeezed : k < Len(squeezed) + 1 /\ squeezed[k] # w
    BY <1>3, <1>5 DEF Put
  <2> QED BY <1>1, <1>2, <1>5, <2>2, <2>3, <2>4
<1> QED BY <1>4, <1>5 DEF Quiet

\* And keeps the stream readable.
LEMMA QuietKeeps ==
  ASSUME ReadInv, TurnInv, NEW w \in Writers, NEW how, Quiet(w, how)
  PROVE  ReadInv'
<1> USE DEF ReadInv
<1>0. Wire \in Writers /\ Wire \in Spawned /\ (\A v \in Spawned : Wire <= v) /\ Writers \subseteq Nat /\ Wire \notin Foreign
  BY PipeAssumption
<1>1. /\ \A v : WentOut(v)' <=> WentOut(v)
      /\ \A v : Put(v) => Put(v)'
      /\ \A v : Put(v)' => Put(v) \/ (v = w /\ how = "refused" /\ zstd /\ ~WentOut(w))
      /\ \A v \in Torn : v \in Torn'
      /\ squeezed' \in Seq(Writers)
  BY QuietOthers
<1>2. at'[w] = how /\ \A v \in Writers \ {w} : at'[v] = at[v] \/ (at[v] = "waiting" /\ at'[v] = "handed")
  BY DEF Quiet, Moves
<1>3. how \notin {"sent", "parked", "unsent"} /\ at[w] \notin {"sent", "cut", "refused"}
  BY DEF Quiet, Over
<1>4. StreamType'
  <2>1. encode \in {"json", "msgpack"}
    BY DEF FormatInv
  <2>2. enc' \in [Writers -> {"json", "msgpack"}]
    BY <2>1 DEF Quiet, Encodes, StreamType
  <2> QED BY <1>1, <2>2 DEF Quiet, Moves, StreamType, AtType
<1>5. PacketInv'
  <2>1. \A v \in Writers : at'[v] = "sent" <=> at[v] = "sent"
    BY <1>2, <1>3
  <2>2. left' = left
    BY DEF Quiet
  <2>3. ASSUME NEW v \in Writers, WentOut(v)' \/ Put(v)' PROVE at'[v] \in {"parked"} \union Over
    <3>1. CASE v # w
      BY <1>1, <1>2, <2>3, <3>1 DEF PacketInv, Over
    <3>2. CASE v = w /\ how = "refused"
      BY <1>2, <3>2 DEF Over
    <3>3. CASE v = w /\ how # "refused"
      <4>1. at[w] = "parked"
        BY <1>1, <1>3, <2>3, <3>3 DEF PacketInv, Over
      <4>2. how = "cut"
        BY <3>3, <4>1 DEF Quiet
      <4> QED BY <1>2, <3>3, <4>2 DEF Over
    <3> QED BY <3>1, <3>2, <3>3
  <2> QED BY <1>1, <2>1, <2>2, <2>3 DEF PacketInv
<1>6. FailInv'
  <2>1. cut' = cut /\ (closed => closed')
    BY DEF Quiet
  <2>2. how = "refused" => closed'
    BY DEF Quiet
  <2>3. how = "cut" => w \in cut
    BY DEF Quiet
  <2> QED BY <1>2, <2>1, <2>2, <2>3 DEF FailInv
<1>7. FormatInv'
  <2>1. CASE how = "started"
    <3>1. /\ w \in Spawned /\ at[w] = "unsent" /\ \A v \in Spawned : v < w => at[v] # "unsent"
          /\ enc' = [enc EXCEPT ![w] = encode] /\ encode' = IF w = Wire THEN "msgpack" ELSE encode
          /\ zstd' = zstd
      BY <2>1 DEF Quiet
    <3>2. w # Wire => at[Wire] # "unsent"
      <4>1. w # Wire => Wire < w
        BY <1>0, <3>1
      <4> QED BY <1>0, <3>1, <4>1
    <3>3. at'[Wire] # "unsent" /\ encode' = "msgpack"
      BY <1>0, <1>2, <2>1, <3>1, <3>2 DEF FormatInv
    <3>4. \A v \in Writers : at'[v] = "started" => v \in Spawned
      BY <1>2, <3>1 DEF FormatInv
    <3>5. \A v \in Writers : at'[v] # "unsent" => enc'[v] = IF v = Wire THEN "json" ELSE "msgpack"
      <4> SUFFICES ASSUME NEW v \in Writers, at'[v] # "unsent"
                   PROVE  enc'[v] = IF v = Wire THEN "json" ELSE "msgpack"
        OBVIOUS
      <4>1. CASE v = w
        BY <3>1, <3>2, <4>1 DEF FormatInv, StreamType
      <4>2. CASE v # w
        BY <1>2, <3>1, <4>2 DEF FormatInv, StreamType
      <4> QED BY <4>1, <4>2
    <3>6. at'[Wire] = "sent" <=> at[Wire] = "sent"
      BY <1>0, <1>2, <1>3
    <3>7. \A v \in Writers : /\ at'[v] \in {"offered", "thread"} => at[v] = at'[v]
                             /\ at'[v] = "parked" => at[v] = "parked"
      BY <1>2, <2>1
    <3>8. \A v : Put(v)' <=> Put(v)
      BY <1>1, <2>1
    <3> QED BY <3>1, <3>3, <3>4, <3>5, <3>6, <3>7, <3>8 DEF FormatInv
  <2>2. CASE how # "started"
    <3>1. Encodes(w) /\ (at[w] = "unsent" => at[Wire] # "unsent") /\ zstd' = zstd
      BY <2>2 DEF Quiet
    <3>2. at[Wire] # "unsent" <=> at'[Wire] # "unsent"
      BY <1>0, <1>2, <1>3, <3>1
    <3>3. at[w] # "unsent" => at[Wire] # "unsent"
      BY DEF FormatInv
    <3>4. at'[Wire] # "unsent" /\ encode' = "msgpack"
      BY <3>1, <3>2, <3>3 DEF FormatInv, Encodes
    <3>5. \A v \in Writers : at'[v] = "started" => v \in Spawned
      BY <1>2, <2>2 DEF FormatInv
    <3>6. \A v \in Writers : at'[v] # "unsent" => enc'[v] = IF v = Wire THEN "json" ELSE "msgpack"
      <4> SUFFICES ASSUME NEW v \in Writers, at'[v] # "unsent"
                   PROVE  enc'[v] = IF v = Wire THEN "json" ELSE "msgpack"
        OBVIOUS
      <4>1. CASE v = w /\ at[w] = "unsent"
        BY <3>1, <3>4, <4>1 DEF Encodes, StreamType
      <4>2. CASE v = w /\ at[w] # "unsent"
        BY <3>1, <4>2 DEF FormatInv, Encodes
      <4>3. CASE v # w
        BY <1>2, <3>1, <4>3 DEF FormatInv, Encodes, StreamType
      <4> QED BY <4>1, <4>2, <4>3
    <3>7. at'[Wire] = "sent" <=> at[Wire] = "sent"
      BY <1>0, <1>2, <1>3
    <3>8. how \in {"offered", "thread"} => zstd
      BY DEF Quiet
    <3>9. \A v \in Writers : at'[v] \in {"offered", "thread"} => zstd
      BY <1>2, <3>8 DEF FormatInv
    <3>10. ~Put(Wire)'
      <4>1. zstd => at[Wire] = "sent"
        BY DEF FormatInv
      <4> QED BY <1>1, <1>3, <4>1 DEF FormatInv
    <3>11. \A v \in Writers : at'[v] = "parked" /\ v # Wire => (Put(v)' <=> zstd)
      BY <1>1, <1>2, <1>3 DEF FormatInv
    <3> QED BY <3>1, <3>4, <3>5, <3>6, <3>7, <3>9, <3>10, <3>11 DEF FormatInv
  <2> QED BY <2>1, <2>2
<1>8. FirstInv'
  <2>1. out' = out /\ room' = room /\ (closed => closed')
    BY DEF Quiet
  <2>2. Ahead' <=> Ahead
    BY <2>1 DEF Ahead, Behind
  <2>3. ASSUME at[Wire] \notin {"unsent", "started", "waiting", "handed"}
        PROVE  at'[Wire] \notin {"unsent", "started", "waiting", "handed"}
    BY <1>0, <1>2, <2>3 DEF Quiet
  <2>4. ASSUME \A v \in Writers : at[v] \in {"unsent", "started"}
        PROVE  closed' \/ how = "started"
    <3>1. ~zstd
      BY <1>0, <2>4 DEF FormatInv
    <3>2. ~held
      BY <2>4 DEF TurnInv, OneTurn, Holding
    <3> QED BY <2>4, <3>1, <3>2 DEF Quiet
  <2>5. ASSUME \A v \in Writers : at[v] \in {"unsent", "started"}, how = "started"
        PROVE  \A v \in Writers : at'[v] \in {"unsent", "started"}
    BY <1>2, <2>5
  <2> QED BY <1>0, <2>1, <2>2, <2>3, <2>4, <2>5 DEF FirstInv
<1>9. WholeInv'
  BY <1>1 DEF WholeInv, Quiet
<1>10. ZipInv'
  <2>1. /\ \A i \in DOMAIN squeezed : i \in DOMAIN squeezed' /\ squeezed'[i] = squeezed[i]
        /\ \A i \in DOMAIN squeezed' : /\ i \in Nat
                                       /\ \/ i \in DOMAIN squeezed
                                          \/ /\ \A k \in DOMAIN squeezed : k < i /\ squeezed[k] # w
                                             /\ squeezed'[i] = w /\ ~WentOut(w) /\ i = Len(squeezed) + 1
    BY QuietOthers
  <2>2. \A i, j \in DOMAIN squeezed' : i # j => squeezed'[i] # squeezed'[j]
    BY <2>1 DEF ZipInv
  <2>3. ASSUME NEW i \in DOMAIN squeezed', NEW j \in DOMAIN squeezed', i < j, WentOut(squeezed[j])'
        PROVE  squeezed'[i] \in Torn' \/ left'[squeezed'[i]] = 0
    <3>1. WentOut(squeezed'[j])
      BY <2>3 DEF WentOut, Quiet
    <3>2. j \in DOMAIN squeezed
      BY <2>1, <3>1
    <3>3. i \in DOMAIN squeezed
      BY <2>1, <2>3, <3>2
    <3>4. squeezed[i] \in Torn \/ left[squeezed[i]] = 0
      BY <2>1, <2>3, <3>1, <3>2, <3>3 DEF ZipInv
    <3> QED BY <1>1, <2>1, <3>3, <3>4 DEF Quiet
  <2> QED BY <2>2, <2>3 DEF ZipInv
<1>11. AfterInv'
  <2>1. out' = out /\ \A i \in DOMAIN out : WentOut(out[i])
    BY DEF Quiet, WentOut
  <2>2. Ahead' <=> Ahead
    BY <2>1 DEF Ahead, Behind
  <2>3. \A i \in DOMAIN out : Behind(i)' <=> Behind(i)
    BY <2>1 DEF Behind
  <2>4. \A v : WentOut(v) => (Put(v)' <=> Put(v))
    BY <1>1
  <2>5. \A i \in DOMAIN out : Put(out[i])' <=> Put(out[i])
    BY <2>1, <2>4 DEF Put
  <2> QED BY <2>1, <2>2, <2>3, <2>5 DEF AfterInv
<1> QED BY <1>4, <1>5, <1>6, <1>7, <1>8, <1>9, <1>10, <1>11

\* Nothing of the writers changes: the far end reads or goes, the connection
\* closes, scopes are cancelled, a drainer looks.
LEMMA StillKeeps ==
  ASSUME ReadInv, UNCHANGED <<at, left, out, squeezed, zstd, enc, encode>>,
         closed' \in BOOLEAN, closed => closed', room' = room \/ room' = Room,
         cut' \subseteq Writers, \A w \in cut' : closed' \/ w \in Foreign
  PROVE  ReadInv'
<1> USE DEF ReadInv
<1>1. /\ \A v : WentOut(v)' <=> WentOut(v)
      /\ \A v : Put(v)' <=> Put(v)
      /\ \A i : Behind(i)' <=> Behind(i)
      /\ Torn' = Torn
  BY DEF WentOut, Put, Behind, Torn
<1>2. Ahead' <=> Ahead
  BY <1>1 DEF Ahead
<1>3. StreamType'
  BY PipeAssumption DEF StreamType, AtType
<1>4. PacketInv' /\ FailInv' /\ FormatInv'
  BY <1>1 DEF PacketInv, FailInv, FormatInv
<1>5. FirstInv'
  BY <1>2 DEF FirstInv
<1>6. WholeInv' /\ ZipInv'
  <2>1. WholeInv'
    BY <1>1 DEF WholeInv
  <2>2. \A i, j \in DOMAIN squeezed' : i < j /\ WentOut(squeezed[j])' => squeezed[i] \in Torn' \/ left[squeezed[i]] = 0
    BY <1>1 DEF ZipInv, WentOut
  <2> QED BY <2>1, <2>2 DEF ZipInv
<1>7. AfterInv'
  <2>1. \A i : Put(out[i])' <=> Put(out[i])
    BY DEF Put
  <2> QED BY <1>1, <1>2, <2>1 DEF AfterInv
<1> QED BY <1>3, <1>4, <1>5, <1>6, <1>7

\* A write with the turn, as far as its next await.
LEMMA SendReads ==
  ASSUME ReadInv, TurnInv, NEW w \in Writers, NEW o, Ready(w), Encodes(w), Zips(w), cut' = cut, Send(w, o)
  PROVE  ReadInv'
<1> USE DEF ReadInv
<1>1. ASSUME NEW n \in Nat, Sent(w, n), left' \in [Writers -> Nat] PROVE ReadInv'
  BY <1>1, SentWhole, SentInOrder, SentAfter, SentFirst, SentFormat, SentPackets, SentFails, SentTypes
<1>2. CASE UNCHANGED <<left, room, out, zstd>> /\ closed' = TRUE /\ Moves(w, "refused")
  <2>1. \/ squeezed' = squeezed
        \/ squeezed' = Append(squeezed, w) /\ zstd /\ ~Put(w)
    BY DEF Zips
  <2>2. at[w] \notin Over /\ (at[w] = "unsent" => at[Wire] # "unsent")
    BY DEF Ready, Over
  <2>3. Quiet(w, "refused")
    BY <1>2, <2>1, <2>2 DEF Quiet
  <2> QED BY <2>3, QuietKeeps
<1> QED BY <1>1, <1>2, SendCases

LEMMA CompressReads ==
  ASSUME ReadInv, TurnInv, NEW w \in Writers, NEW o, Ready(w), Encodes(w), cut' = cut,
         at[w] \in {"unsent", "started", "handed"}, Compress(w, o)
  PROVE  ReadInv'
<1> USE DEF ReadInv
<1>1. ~Put(w)
  BY DEF PacketInv, Over
<1>2. CASE /\ zstd /\ at' = [at EXCEPT ![w] = "offered"] /\ UNCHANGED <<stream, closed>>
  <2>1. Moves(w, "offered")
    BY <1>2, OneMoves DEF StreamType, Places, Holding
  <2>2. at[w] \notin Over /\ (at[w] = "unsent" => at[Wire] # "unsent")
    BY DEF Ready, Over
  <2>3. Quiet(w, "offered")
    BY <1>2, <2>1, <2>2 DEF Quiet, stream, StreamType
  <2> QED BY <2>3, QuietKeeps
<1>3. CASE squeezed' = (IF zstd THEN Append(squeezed, w) ELSE squeezed) /\ Send(w, o)
  <2>1. Zips(w)
    BY <1>1, <1>3 DEF Zips
  <2> QED BY <1>3, <2>1, SendReads
<1> QED BY <1>2, <1>3 DEF Compress

LEMMA WriteReads ==
  ASSUME ReadInv, TurnInv, NEW w \in Writers, at[w] \in {"unsent", "started"}, Encodes(w), cut' = cut,
         at[w] = "unsent" => at[Wire] # "unsent" /\ (w \in Foreign \/ at[Wire] # "started"),
         at[w] = "started" => \A v \in Writers : v < w => at[v] # "started",
         Write(w)
  PROVE  ReadInv'
<1> USE DEF ReadInv
<1>0. at[w] \notin Over
  BY DEF Over
<1>1. CASE at' = [at EXCEPT ![w] = "refused"] /\ closed' = TRUE /\ UNCHANGED stream
  <2>1. Moves(w, "refused")
    BY <1>1, OneMoves DEF StreamType, Places, Over
  <2>2. Quiet(w, "refused")
    BY <1>0, <1>1, <2>1 DEF Quiet, stream
  <2> QED BY <2>2, QuietKeeps
<1>2. CASE ~held /\ Compress(w, outstanding + Size(w))
  <2>1. \A v \in Writers : at[v] \notin Holding
    BY <1>2 DEF TurnInv, OneTurn
  <2>2. Ready(w)
    BY <2>1 DEF Ready
  <2> QED BY <1>2, <2>2, CompressReads
<1>3. CASE held /\ at' = [at EXCEPT ![w] = "waiting"] /\ UNCHANGED <<stream, closed>>
  <2>1. Moves(w, "waiting")
    BY <1>3, OneMoves DEF StreamType, Places
  <2>2. Quiet(w, "waiting")
    BY <1>0, <1>3, <2>1 DEF Quiet, stream, StreamType
  <2> QED BY <2>2, QuietKeeps
<1> QED BY <1>1, <1>2, <1>3 DEF Write

LEMMA WriterReads ==
  ASSUME ReadInv, TurnInv, NEW w \in Writers, Spawn(w) \/ Direct(w) \/ TaskStep(w) \/ CallerGoes(w)
  PROVE  ReadInv'
<1> USE DEF ReadInv
<1>0. /\ at[w] \in Holding => \A v \in Writers : at[v] \in Holding => v = w
      /\ w # Wire \/ w \notin Foreign
  BY PipeAssumption DEF TurnInv, OneTurn
<1>1. CASE Spawn(w)
  <2>1. Moves(w, "started")
    BY <1>1, OneMoves DEF Spawn, StreamType, Places
  <2>2. Quiet(w, "started")
    BY <1>1, <2>1 DEF Spawn, Quiet, stream, Over, StreamType
  <2> QED BY <2>2, QuietKeeps
<1>2. CASE Direct(w)
  <2>1. Encodes(w) /\ cut' = cut /\ at[w] = "unsent" /\ Write(w)
    BY <1>2 DEF Direct, Encodes
  <2>2. at[Wire] # "unsent" /\ (w \in Foreign \/ at[Wire] # "started")
    BY <1>2 DEF Direct
  <2> QED BY <2>1, <2>2, WriteReads
<1>3. CASE Start(w)
  <2>1. Encodes(w) /\ cut' = cut /\ at[w] = "started" /\ Write(w)
    BY <1>3 DEF Start, Encodes
  <2>2. \A v \in Writers : v < w => at[v] # "started"
    BY <1>3 DEF Start
  <2> QED BY <2>1, <2>2, WriteReads
<1>4. CASE TurnComes(w)
  <2>1. Ready(w) /\ Encodes(w) /\ cut' = cut /\ at[w] = "handed"
    BY <1>0, <1>4 DEF TurnComes, Ready, Encodes, Holding
  <2> QED BY <1>4, <2>1, CompressReads DEF TurnComes
<1>5. CASE ThreadStarts(w)
  <2>1. Moves(w, "thread")
    BY <1>5, OneMoves DEF ThreadStarts, StreamType, Places, Holding
  <2>2. zstd
    BY <1>5 DEF ThreadStarts, FormatInv
  <2>3. Quiet(w, "thread")
    BY <1>5, <2>1, <2>2 DEF ThreadStarts, Quiet, stream, Over, Encodes, StreamType
  <2> QED BY <2>3, QuietKeeps
<1>6. CASE ThreadEnds(w)
  <2>1. Ready(w) /\ Encodes(w) /\ cut' = cut
    BY <1>0, <1>6 DEF ThreadEnds, Ready, Encodes, Holding
  <2>2. zstd /\ ~Put(w)
    BY <1>6 DEF ThreadEnds, FormatInv, PacketInv, Over
  <2>3. Zips(w)
    BY <1>6, <2>2 DEF ThreadEnds, Zips
  <2> QED BY <1>6, <2>1, <2>3, SendReads DEF ThreadEnds
<1>7. CASE Writable(w)
  <2>1. Ready(w) /\ Encodes(w) /\ cut' = cut
    BY <1>0, <1>7 DEF Writable, Ready, Encodes, Holding
  <2>2. w # Wire => (Put(w) <=> zstd)
    BY <1>7 DEF Writable, FormatInv
  <2>3. Zips(w)
    BY <1>7, <2>2 DEF Writable, Zips
  <2> QED BY <1>7, <2>1, <2>3, SendReads DEF Writable
<1>8. CASE CutWaiting(w)
  <2>1. Moves(w, "cut")
    BY <1>8, OneMoves DEF CutWaiting, StreamType, Places, Over
  <2>2. closed' = closed
    BY <1>8 DEF CutWaiting, Left, StreamType
  <2>3. Quiet(w, "cut")
    BY <1>8, <2>1, <2>2 DEF CutWaiting, Quiet, stream, Over, Encodes, StreamType
  <2> QED BY <2>3, QuietKeeps
<1>9. CASE CutInTurn(w)
  <2>1. Moves(w, "cut")
    BY <1>9, ReleaseMoves DEF CutInTurn, StreamType, Over
  <2>2. closed' = closed
    BY <1>9 DEF CutInTurn, Left, StreamType
  <2>3. w \in cut /\ at[w] \in {"handed", "offered", "parked"} /\ UNCHANGED <<stream, cut, enc, encode>>
    BY <1>9 DEF CutInTurn
  <2>4. Quiet(w, "cut")
    BY <2>1, <2>2, <2>3 DEF Quiet, stream, Over, Encodes, StreamType
  <2> QED BY <2>4, QuietKeeps
<1>10. CASE CallerGoes(w)
  <2>1. \A v \in cut' : closed' \/ v \in Foreign
    BY <1>10 DEF CallerGoes, FailInv
  <2>2. cut' \subseteq Writers /\ closed' = closed /\ closed \in BOOLEAN
    BY <1>10 DEF CallerGoes, StreamType
  <2> QED BY <1>10, <2>1, <2>2, StillKeeps DEF CallerGoes, stream
<1> QED BY <1>1, <1>2, <1>3, <1>4, <1>5, <1>6, <1>7, <1>8, <1>9, <1>10 DEF TaskStep

LEMMA ReadKept ==
  ASSUME ReadInv, TurnInv, [Next]_vars
  PROVE  ReadInv'
<1> USE DEF ReadInv
<1>0. closed \in BOOLEAN /\ cut \subseteq Writers /\ \A w \in cut : closed \/ w \in Foreign
  BY DEF StreamType, FailInv
<1>1. CASE \E w \in Writers : Spawn(w) \/ Direct(w) \/ TaskStep(w) \/ CallerGoes(w)
  BY <1>1, WriterReads
<1>2. CASE \E d \in Drainers : Drain(d)
  BY <1>0, <1>2, StillKeeps DEF Drain, stream
<1>3. CASE Close
  BY <1>0, <1>3, StillKeeps DEF Close, stream
<1>4. CASE ScopeEnds
  BY <1>0, <1>4, StillKeeps DEF ScopeEnds, stream
<1>5. CASE Reads
  BY <1>0, <1>5, StillKeeps DEF Reads
<1>6. CASE Goes
  BY <1>0, <1>6, StillKeeps DEF Goes, stream
<1>7. CASE UNCHANGED vars
  BY <1>0, <1>7, StillKeeps DEF vars
<1> QED BY <1>1, <1>2, <1>3, <1>4, <1>5, <1>6, <1>7 DEF Next

\* Where the pieces are whole, a piece is behind the whole `wire` packet when it
\* is not of it and one of it came before.
LEMMA BehindIsBefore ==
  ASSUME ReadInv, NEW i \in DOMAIN out
  PROVE  WentBefore(Wire, i) <=> Behind(i)
<1> USE DEF ReadInv
<1>1. DOMAIN out = 1..Len(out) /\ Len(out) \in Nat
  BY DEF StreamType
<1>2. ASSUME WentBefore(Wire, i) PROVE Behind(i)
  <2>1. i \in i..Len(out)
    BY <1>1
  <2> QED BY <1>2, <2>1 DEF WentBefore, Behind
<1>3. ASSUME Behind(i) PROVE WentBefore(Wire, i)
  <2>1. PICK k \in 1..(i - 1) : out[k] = Wire
    BY <1>3 DEF Behind
  <2>2. k \in DOMAIN out /\ k < i /\ out[i] # Wire
    BY <1>1, <1>3, <2>1 DEF Behind
  <2>3. Wire \notin Torn
    BY PipeAssumption DEF Torn
  <2>4. left[Wire] = 0 /\ \A m \in DOMAIN out : m >= i => out[m] # Wire
    BY <2>1, <2>2, <2>3 DEF WholeInv
  <2>5. \A m \in i..Len(out) : m \in DOMAIN out /\ m >= i
    BY <1>1
  <2> QED BY <2>1, <2>4, <2>5 DEF WentBefore
<1> QED BY <1>2, <1>3

LEMMA ReadableThen ==
  ASSUME ReadInv
  PROVE  FarEndCanRead
<1> USE DEF ReadInv
<1>1. DOMAIN out = 1..Len(out) /\ Len(out) \in Nat
  BY DEF StreamType
<1>2. ASSUME NEW i \in DOMAIN out, NEW j \in DOMAIN out, i < j, out[i] # out[j]
      PROVE  out[i] \in Torn \/ WentBefore(out[i], j)
  <2>1. i \in 1..(j - 1) /\ \A m \in j..Len(out) : m \in DOMAIN out /\ m >= j
    BY <1>1, <1>2
  <2> QED BY <1>2, <2>1 DEF WholeInv, WentBefore
<1>3. ASSUME NEW i \in DOMAIN squeezed, NEW j \in DOMAIN squeezed, i < j, WentOut(squeezed[j])
      PROVE  squeezed[i] \in Torn \/ left[squeezed[i]] = 0
  BY <1>3 DEF ZipInv
<1>4. Jumped <=> Ahead
  BY BehindIsBefore DEF Jumped, Ahead
<1>5. ASSUME ~Ahead, NEW i \in DOMAIN out
      PROVE  /\ (enc[out[i]] = "msgpack") = WentBefore(Wire, i)
             /\ (\E k \in DOMAIN squeezed : squeezed[k] = out[i]) = (Zip /\ WentBefore(Wire, i))
  <2>1. out[i] \in Writers /\ WentOut(out[i])
    BY <1>1, <1>5 DEF StreamType, WentOut
  <2>2. enc[out[i]] = IF out[i] = Wire THEN "json" ELSE "msgpack"
    BY <2>1 DEF PacketInv, FormatInv, Over
  <2>3. WentBefore(Wire, i) <=> out[i] # Wire
    <3>1. out[i] # Wire => Behind(i)
      BY <1>5 DEF AfterInv
    <3> QED BY <1>5, <3>1, BehindIsBefore DEF Behind
  <2>4. Put(out[i]) <=> Zip /\ out[i] # Wire
    BY <1>5 DEF AfterInv, FormatInv
  <2>5. WentBefore(Wire, i) \in BOOLEAN /\ Zip \in BOOLEAN
    BY PipeAssumption DEF WentBefore
  <2> QED BY <2>2, <2>3, <2>4, <2>5 DEF Put
<1> QED BY <1>2, <1>3, <1>4, <1>5 DEF FarEndCanRead

\* What goes out can be read at the far end, whatever the writers are and whoever
\* is cut where: packets whole and in turn, the compressed stream without a gap,
\* each packet in the format agreed on by then, but for foreign packets.
THEOREM WhatGoesOutIsRead == Spec => []FarEndCanRead
<1>1. Init => TurnInv /\ ReadInv
  <2> SUFFICES ASSUME Init PROVE TurnInv /\ ReadInv
    OBVIOUS
  <2>1. TurnInv
    BY DEF Init, TurnInv, AtType, OneTurn, Waiting, Places, Holding
  <2>2. DOMAIN out = {} /\ DOMAIN squeezed = {} /\ Len(out) = 0
    BY DEF Init
  <2>3. StreamType
    <3>1. \A w \in Writers : Size(w) \in Nat
      BY DEF Size
    <3>2. left \in [Writers -> Nat] /\ enc \in [Writers -> {"json", "msgpack"}]
      BY <3>1 DEF Init
    <3>3. out \in Seq(Writers) /\ squeezed \in Seq(Writers)
      BY DEF Init
    <3>4. room \in 0..Room
      BY PipeAssumption DEF Init
    <3> QED BY <2>1, <3>2, <3>3, <3>4 DEF Init, TurnInv, StreamType
  <2>4. PacketInv /\ FailInv /\ FormatInv /\ FirstInv
    BY <2>2, PipeAssumption DEF Init, PacketInv, FailInv, FormatInv, FirstInv, WentOut, Put, Size
  <2>5. WholeInv /\ ZipInv /\ AfterInv
    BY <2>2 DEF WholeInv, ZipInv, AfterInv
  <2> QED BY <2>1, <2>3, <2>4, <2>5 DEF ReadInv
<1>2. TurnInv /\ ReadInv /\ [Next]_vars => TurnInv' /\ ReadInv'
  BY TurnKept, ReadKept
<1>3. ReadInv => FarEndCanRead
  BY ReadableThen
<1> QED BY <1>1, <1>2, <1>3, PTL DEF Spec
=============================================================================
