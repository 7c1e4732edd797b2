--------------------------- MODULE JobStream_proofs ---------------------------
(***************************************************************************)
(* Proofs about JobStream, for every cap, piece size, number of bytes and   *)
(* set of readers: its chunks implement the tail that StreamTail promises,  *)
(* so each reader is given every byte it follows, once and in order, unless *)
(* it fell off; and no reader sleeps over output or over the end.           *)
(***************************************************************************)
EXTENDS JobStream, TLAPS, SequenceTheorems, WellFoundedInduction

-----------------------------------------------------------------------------
(* Chunks in a row. *)

\* The least of a set of numbers.
LEMMA Least ==
  ASSUME NEW T \in SUBSET Nat, T # {}
  PROVE  \E m \in T : \A i \in T : m <= i
<1> DEFINE R == {ss \in Nat \X Nat : ss[1] < ss[2]}
<1>1. IsWellFoundedOn(R, Nat)
  BY NatLessThanWellFounded DEF OpToRel
<1>2. \E m \in T : \A i \in T : <<i, m>> \notin R
  BY <1>1, WFMin
<1>3. \A i, m \in Nat : <<i, m>> \notin R => m <= i
  OBVIOUS
<1> QED BY <1>2, <1>3

\* The bytes past a, in a row.
Row(a, m) == [i \in 1..m |-> a + i]

\* A row and the row after it are one row.
LEMMA RowsJoin ==
  ASSUME NEW a \in Nat, NEW m \in Nat, NEW l \in Nat
  PROVE  Row(a, m) \o Row(a + m, l) = Row(a, m + l)
<1>1. Row(a, m) \in Seq(Nat) /\ Row(a + m, l) \in Seq(Nat) /\ Row(a, m + l) \in Seq(Nat)
  BY DEF Row
<1>2. Len(Row(a, m)) = m /\ Len(Row(a + m, l)) = l /\ Len(Row(a, m + l)) = m + l
  BY DEF Row
<1> DEFINE s == Row(a, m)
           t == Row(a + m, l)
           j == s \o t
<1>2a. \A i \in 1..m : s[i] = a + i
  BY DEF Row
<1>2b. \A i \in 1..l : t[i] = a + m + i
  BY DEF Row
<1>2c. \A i \in 1..(m + l) : Row(a, m + l)[i] = a + i
  BY DEF Row
<1>2d. s \in Seq(Nat) /\ t \in Seq(Nat) /\ Len(s) = m /\ Len(t) = l
  BY <1>1, <1>2
<1> HIDE DEF s, t
<1>3. /\ j \in Seq(Nat) /\ Len(j) = m + l
      /\ \A i \in 1..(m + l) : j[i] = IF i <= m THEN s[i] ELSE t[i - m]
  BY <1>2d, ConcatProperties
<1> HIDE DEF j
<1>4. \A i \in 1..(m + l) : j[i] = a + i
  <2> TAKE i \in 1..(m + l)
  <2>1. CASE i <= m
    <3>1. i \in 1..m /\ j[i] = s[i]
      BY <2>1, <1>3
    <3> QED BY <3>1, <1>2a
  <2>2. CASE i > m
    <3>1. i - m \in 1..l /\ j[i] = t[i - m]
      BY <2>2, <1>3
    <3> QED BY <3>1, <1>2b
  <2> QED BY <2>1, <2>2
<1>5. j = Row(a, m + l)
  BY <1>1, <1>2, <1>2c, <1>3, <1>4, SeqEqual
<1> QED BY <1>5 DEF j, s, t

\* Pieces that lie one after the other.
Chunk == [start : Nat, len : Nat \ {0}]
ChunksJoin(cs) == \A k \in 1..(Len(cs) - 1) : cs[k + 1].start = EndOf(cs[k])

\* What a sequence of chunks is made of.
LEMMA ChunkTypes ==
  ASSUME NEW cs \in Seq(Chunk)
  PROVE  /\ Len(cs) \in Nat
         /\ \A k \in 1..Len(cs) : cs[k].start \in Nat /\ cs[k].len \in Nat \ {0}
<1>1. \A k \in 1..Len(cs) : cs[k] \in Chunk
  BY ElementOfSeq
<1> QED BY <1>1 DEF Chunk

\* Chunks that lie one after the other end one after the other.
LEMMA EndsGrow ==
  ASSUME NEW cs \in Seq(Chunk), ChunksJoin(cs), NEW g \in 1..Len(cs), NEW from \in Nat,
         EndOf(cs[g]) > from
  PROVE  \A k \in g..Len(cs) : EndOf(cs[k]) > from
<1> DEFINE T == {k \in g..Len(cs) : EndOf(cs[k]) <= from}
<1>0. \A k \in 1..Len(cs) : cs[k].start \in Nat /\ cs[k].len \in Nat \ {0}
  BY ChunkTypes
<1>1. ASSUME T # {} PROVE FALSE
  <2>0. T \in SUBSET Nat
    BY ChunkTypes
  <2>1. PICK m \in T : \A i \in T : m <= i
    BY <1>1, <2>0, Least
  <2>1a. m \in g..Len(cs) /\ EndOf(cs[m]) <= from
    BY <2>1
  <2>2. m > g /\ m \in Nat /\ m - 1 \in g..Len(cs) /\ m - 1 \in 1..(Len(cs) - 1)
    <3>1. Len(cs) \in Nat /\ g \in Nat /\ m \in Nat
      BY <2>1a, ChunkTypes
    <3>2. EndOf(cs[g]) \in Nat
      BY <1>0 DEF EndOf
    <3>3. m # g
      BY <2>1a, <3>2
    <3> QED BY <2>1a, <3>1, <3>3
  <2>3. EndOf(cs[m - 1]) > from
    <3>1. m - 1 \in 1..Len(cs) /\ ~(m <= m - 1)
      BY <2>2, ChunkTypes
    <3>2. EndOf(cs[m - 1]) \in Nat
      BY SMTT(30), <3>1, <1>0 DEF EndOf
    <3>3. ~(EndOf(cs[m - 1]) <= from)
      BY <2>1, <2>2, <3>1
    <3> QED BY <3>2, <3>3
  <2>4. cs[m].start = EndOf(cs[m - 1])
    <3>1. cs[(m - 1) + 1].start = EndOf(cs[m - 1])
      BY <2>2 DEF ChunksJoin
    <3> QED BY <3>1, <2>2
  <2>5. m \in 1..Len(cs) /\ m - 1 \in 1..Len(cs)
    BY <2>1a, <2>2
  <2> QED BY <2>1a, <2>3, <2>4, <2>5, <1>0 DEF EndOf
<1>2. \A k \in g..Len(cs) : EndOf(cs[k]) \in Nat
  BY <1>0 DEF EndOf
<1> QED BY <1>1, <1>2

\* What is joined of such chunks is a row.
LEMMA ChunksAreRows ==
  ASSUME NEW cs \in Seq(Chunk), cs # << >>, ChunksJoin(cs)
  PROVE  /\ EndOf(cs[Len(cs)]) > cs[1].start
         /\ FlattenSeq([k \in 1..Len(cs) |-> BytesOf(cs[k])]) = Row(cs[1].start, EndOf(cs[Len(cs)]) - cs[1].start)
<1> DEFINE n == Len(cs)
           a == cs[1].start
           seqs == [k \in 1..n |-> BytesOf(cs[k])]
           F(f) == [i \in 1..Len(seqs) |-> IF i = 1 THEN seqs[i] ELSE f[i - 1] \o seqs[i]]
           g == [k \in 1..n |-> Row(a, EndOf(cs[k]) - a)]
           h == CHOOSE f : f = F(f)
<1>0. n \in Nat \ {0} /\ 1 \in 1..n /\ a \in Nat
  BY ChunkTypes, EmptySeq
<1>1. \A k \in 1..n : cs[k].start \in Nat /\ cs[k].len \in Nat \ {0} /\ EndOf(cs[k]) \in Nat
  BY ChunkTypes DEF EndOf
<1>2. Len(seqs) = n /\ \A k \in 1..n : seqs[k] = Row(cs[k].start, cs[k].len)
  BY <1>0 DEF BytesOf, Row
<1>3. \A k \in 1..n : EndOf(cs[k]) > a
  <2>1. EndOf(cs[1]) > a
    BY <1>0, <1>1 DEF EndOf
  <2> QED BY <2>1, <1>0, EndsGrow
<1> HIDE DEF seqs
\* One more chunk is a longer row.
<1>4. \A i \in 1..n : i # 1 => Row(a, EndOf(cs[i - 1]) - a) \o seqs[i] = Row(a, EndOf(cs[i]) - a)
  <2> TAKE i \in 1..n
  <2> HAVE i # 1
  <2>1. i - 1 \in 1..n /\ cs[i].start = EndOf(cs[i - 1])
    <3>1. i - 1 \in 1..(n - 1) /\ i = (i - 1) + 1
      BY <1>0
    <3> QED BY <3>1 DEF ChunksJoin
  <2> DEFINE m == EndOf(cs[i - 1]) - a
  <2>1a. EndOf(cs[i - 1]) \in Nat /\ EndOf(cs[i - 1]) > a /\ cs[i].len \in Nat
    BY <2>1, <1>1, <1>3
  <2>1b. EndOf(cs[i]) = EndOf(cs[i - 1]) + cs[i].len
    BY <2>1, <1>1 DEF EndOf
  <2>2. m \in Nat /\ cs[i].start = a + m /\ EndOf(cs[i]) - a = m + cs[i].len
    BY <2>1, <2>1a, <2>1b, <1>0
  <2> HIDE DEF m
  <2>3. Row(a, m) \o Row(a + m, cs[i].len) = Row(a, m + cs[i].len)
    BY <2>2, <1>0, <1>1, RowsJoin
  <2> QED BY <2>2, <2>3, <1>2 DEF m
<1>5. seqs[1] = Row(a, EndOf(cs[1]) - a)
  BY <1>0, <1>1, <1>2 DEF EndOf
<1>6. g = F(g)
  <2>1. \A i \in 1..n : g[i] = IF i = 1 THEN seqs[i] ELSE g[i - 1] \o seqs[i]
    <3> TAKE i \in 1..n
    <3>1. CASE i = 1
      BY <3>1, <1>5
    <3>2. CASE i # 1
      <4>1. i - 1 \in 1..n
        BY <3>2, <1>0
      <4> QED BY <3>2, <4>1, <1>4
    <3> QED BY <3>1, <3>2
  <2> QED BY <2>1, <1>2
<1>7. h = F(h)
  BY <1>6
<1>8. FlattenSeq(seqs) = h[n]
  BY <1>0, <1>2 DEF FlattenSeq
<1> HIDE DEF h, g
<1>9. \A i \in 1..n : h[i] = Row(a, EndOf(cs[i]) - a)
  <2> DEFINE T == {k \in 1..n : h[k] # Row(a, EndOf(cs[k]) - a)}
  <2>1. ASSUME T # {} PROVE FALSE
    <3>0. T \in SUBSET Nat
      BY <1>0
    <3>1. PICK m \in T : \A i \in T : m <= i
      BY <2>1, <3>0, Least
    <3>2. m # 1
      BY <3>1, <1>0, <1>2, <1>5, <1>7
    <3>3. m - 1 \in 1..n /\ m - 1 \notin T
      BY <3>1, <3>2
    <3>4. h[m] = h[m - 1] \o seqs[m]
      BY <3>1, <3>2, <1>2, <1>7
    <3> QED BY <3>1, <3>2, <3>3, <3>4, <1>4
  <2> QED BY <2>1
<1> QED BY <1>0, <1>3, <1>8, <1>9 DEF seqs

\* Some chunks in front end at an offset or before it, and the next one after it.
LEMMA GoneIs ==
  ASSUME NEW cs \in Seq(Chunk), NEW from \in Nat
  PROVE  /\ Gone(cs, from) \in 0..Len(cs)
         /\ \A k \in 1..Gone(cs, from) : EndOf(cs[k]) <= from
         /\ Gone(cs, from) < Len(cs) => EndOf(cs[Gone(cs, from) + 1]) > from
<1> DEFINE T == {k \in 1..Len(cs) : EndOf(cs[k]) > from}
           G(g) == /\ \A k \in 1..g : EndOf(cs[k]) <= from
                   /\ g < Len(cs) => EndOf(cs[g + 1]) > from
<1>1. \A k \in 1..Len(cs) : EndOf(cs[k]) \in Nat
  BY ChunkTypes DEF EndOf
<1>2. Len(cs) \in Nat /\ T \in SUBSET Nat
  BY ChunkTypes
<1>3. \E g \in 0..Len(cs) : G(g)
  <2>1. CASE T = {}
    <3>1. G(Len(cs))
      BY <2>1, <1>1, <1>2
    <3> QED BY <3>1, <1>2
  <2>2. CASE T # {}
    <3>1. PICK m \in T : \A i \in T : m <= i
      BY <2>2, <1>2, Least
    <3>2. m \in 1..Len(cs) /\ EndOf(cs[m]) > from /\ m - 1 \in 0..Len(cs) /\ (m - 1) + 1 = m
      BY <3>1, <1>2
    <3>3. \A k \in 1..(m - 1) : k \in 1..Len(cs) /\ k \notin T
      BY <3>1, <3>2, <1>2
    <3>4. \A k \in 1..(m - 1) : EndOf(cs[k]) <= from
      BY <3>3, <1>1
    <3> QED BY <3>2, <3>4
  <2> QED BY <2>1, <2>2
<1>4. Gone(cs, from) = CHOOSE g \in 0..Len(cs) : G(g)
  BY DEF Gone
<1> HIDE DEF G
<1>5. Gone(cs, from) \in 0..Len(cs) /\ G(Gone(cs, from))
  BY <1>3, <1>4
<1> QED BY <1>5 DEF G

\* Chunks in a row that reach past an offset hold a row past it.
LEMMA PastIs ==
  ASSUME NEW cs \in Seq(Chunk), cs # << >>, ChunksJoin(cs), NEW from \in Nat,
         from < EndOf(cs[Len(cs)])
  PROVE  /\ Past(cs, from) \in Seq(Chunk) /\ Past(cs, from) # << >> /\ ChunksJoin(Past(cs, from))
         /\ Past(cs, from)[1].start = IF from > cs[1].start THEN from ELSE cs[1].start
         /\ EndOf(Past(cs, from)[Len(Past(cs, from))]) = EndOf(cs[Len(cs)])
<1> DEFINE n == Len(cs)
           g == Gone(cs, from)
           p == Past(cs, from)
<1>0. n \in Nat \ {0} /\ 1 \in 1..n /\ n \in 1..n
  BY ChunkTypes, EmptySeq
<1>1. \A k \in 1..n : cs[k].start \in Nat /\ cs[k].len \in Nat \ {0} /\ EndOf(cs[k]) \in Nat
  BY ChunkTypes DEF EndOf
<1>2. g \in 0..n /\ (\A k \in 1..g : EndOf(cs[k]) <= from) /\ (g < n => EndOf(cs[g + 1]) > from)
  BY GoneIs
<1>3. g < n
  <2>1. g # n
    BY <1>0, <1>1, <1>2
  <2> QED BY <2>1, <1>0, <1>2
<1>4. p = [k \in 1..(n - g) |-> Cut(cs[g + k], from)] /\ n - g \in Nat \ {0}
  BY <1>0, <1>2, <1>3 DEF Past
<1> HIDE DEF g, p
<1>5. \A k \in 1..(n - g) : g + k \in 1..n /\ EndOf(cs[g + k]) > from
  <2>1. g + 1 \in 1..n /\ EndOf(cs[g + 1]) > from
    BY <1>0, <1>2, <1>3
  <2>2. \A k \in (g + 1)..n : EndOf(cs[k]) > from
    BY <2>1, EndsGrow
  <2> TAKE k \in 1..(n - g)
  <2>3. g + k \in (g + 1)..n /\ g + k \in 1..n
    BY <1>0, <1>2, <1>3
  <2> QED BY <2>2, <2>3
<1>6. \A k \in 1..(n - g) :
        /\ Cut(cs[g + k], from) \in Chunk /\ EndOf(Cut(cs[g + k], from)) = EndOf(cs[g + k])
        /\ Cut(cs[g + k], from).start = IF from > cs[g + k].start THEN from ELSE cs[g + k].start
  <2> TAKE k \in 1..(n - g)
  <2> DEFINE c == cs[g + k]
  <2>1. c.start \in Nat /\ c.len \in Nat /\ EndOf(c) \in Nat /\ EndOf(c) > from /\ EndOf(c) > c.start
    BY <1>1, <1>5 DEF EndOf
  <2> HIDE DEF c
  <2>2. Cut(c, from) \in Chunk /\ EndOf(Cut(c, from)) = EndOf(c)
    BY SMTT(30), <2>1 DEF Cut, Chunk, EndOf
  <2>3. Cut(c, from).start = IF from > c.start THEN from ELSE c.start
    BY DEF Cut
  <2> QED BY <2>2, <2>3 DEF c
<1>7. Len(p) = n - g /\ \A k \in 1..(n - g) : p[k] = Cut(cs[g + k], from)
  BY <1>4
<1>8. p \in Seq(Chunk) /\ p # << >>
  BY SMTT(30), <1>4, <1>6
<1>9. ChunksJoin(p)
  <2> SUFFICES ASSUME NEW k \in 1..(n - g - 1) PROVE p[k + 1].start = EndOf(p[k])
    BY <1>7 DEF ChunksJoin
  <2>1. k \in 1..(n - g) /\ k + 1 \in 1..(n - g) /\ g + k \in 1..(n - 1) /\ g + (k + 1) = (g + k) + 1
    BY <1>2, <1>3, <1>0
  <2>2. cs[(g + k) + 1].start = EndOf(cs[g + k])
    BY <2>1 DEF ChunksJoin
  <2>3. cs[g + (k + 1)].start = EndOf(cs[g + k]) /\ EndOf(cs[g + k]) > from
    BY <2>1, <2>2, <1>5
  <2>3a. EndOf(cs[g + k]) \in Nat
    BY <2>1, <1>1, <1>5
  <2>4. Cut(cs[g + (k + 1)], from).start = EndOf(cs[g + k])
    BY <2>1, <2>3, <2>3a, <1>6
  <2>5. EndOf(p[k]) = EndOf(cs[g + k])
    BY <2>1, <1>6, <1>7
  <2>6. p[k + 1] = Cut(cs[g + (k + 1)], from)
    BY <2>1, <1>7
  <2> QED BY <2>4, <2>5, <2>6
<1>10. p[1].start = IF from > cs[1].start THEN from ELSE cs[1].start
  <2>1. 1 \in 1..(n - g)
    BY <1>4
  <2>2. p[1].start = IF from > cs[g + 1].start THEN from ELSE cs[g + 1].start
    BY <2>1, <1>6, <1>7
  <2>3. CASE g = 0
    BY <2>2, <2>3
  <2>4. CASE g # 0
    <3>1. g \in 1..(n - 1) /\ g \in 1..n /\ g \in 1..g /\ 1 \in 1..g /\ g + 1 \in 1..n
      BY <2>4, <1>2, <1>3, <1>0
    <3>2. cs[g + 1].start = EndOf(cs[g]) /\ EndOf(cs[g]) <= from /\ EndOf(cs[1]) <= from
      BY <3>1, <1>2 DEF ChunksJoin
    <3>3. EndOf(cs[1]) > cs[1].start /\ EndOf(cs[1]) \in Nat /\ cs[1].start \in Nat /\ cs[g + 1].start \in Nat
      BY SMTT(30), <1>0, <1>1, <3>1 DEF EndOf
    <3>4. from > cs[1].start
      BY <3>2, <3>3
    <3> QED BY <2>2, <3>2, <3>3, <3>4
  <2> QED BY <2>3, <2>4
<1>11. EndOf(p[Len(p)]) = EndOf(cs[n])
  <2>1. n - g \in 1..(n - g) /\ g + (n - g) = n
    BY <1>4, <1>2, <1>0
  <2>2. EndOf(Cut(cs[g + (n - g)], from)) = EndOf(cs[g + (n - g)])
    BY <2>1, <1>6
  <2> QED BY <2>1, <2>2, <1>7
<1> QED BY <1>8, <1>9, <1>10, <1>11 DEF p

\* Chunks that end at an offset or before it hold nothing past it.
LEMMA PastTheEnd ==
  ASSUME NEW cs \in Seq(Chunk), cs # << >>, NEW from \in Nat, from >= EndOf(cs[Len(cs)]), ChunksJoin(cs)
  PROVE  Past(cs, from) = << >>
<1> DEFINE n == Len(cs)
           g == Gone(cs, from)
<1>0. n \in Nat \ {0} /\ n \in 1..n
  BY ChunkTypes, EmptySeq
<1>1. \A k \in 1..n : EndOf(cs[k]) \in Nat
  BY ChunkTypes DEF EndOf
<1>2. g \in 0..n /\ (g < n => EndOf(cs[g + 1]) > from)
  BY GoneIs
<1>3. g = n
  <2> SUFFICES ASSUME g < n PROVE FALSE
    BY <1>0, <1>2
  <2>1. g + 1 \in 1..n /\ EndOf(cs[g + 1]) > from /\ n \in (g + 1)..n
    BY <1>0, <1>2
  <2>2. EndOf(cs[n]) > from
    BY <2>1, EndsGrow
  <2> QED BY <2>2, <1>0, <1>1
<1>4. Past(cs, from) = [k \in 1..(n - g) |-> Cut(cs[g + k], from)]
  BY DEF Past
<1> HIDE DEF g
<1>5. n - g = 0
  BY <1>3, <1>0
<1> QED BY <1>4, <1>5

-----------------------------------------------------------------------------
(* The state of the tails and of the readers. *)

\* Where a reader's task may stand, and the types of the variables.
States == {"away", "parked", "woken", "cut", "done"}

TypeOK ==
  /\ chunks \in [Streams -> Seq(Chunk)] /\ kept \in [Streams -> Nat] /\ dropped \in [Streams -> Nat]
  /\ jobDone \in BOOLEAN
  /\ at \in [Readers -> States] /\ hint \in [Readers -> BOOLEAN]
  /\ base \in [Readers -> [Streams -> Nat]] /\ offset \in [Readers -> [Streams -> Nat]]
  /\ got \in [Readers -> [Streams -> Seq(Nat)]]
  /\ said \in [Readers -> {"nothing", "exit", "still"}]
  /\ late \in [Followers -> BOOLEAN] /\ held \in [Viewers -> BOOLEAN] /\ alive \in [Viewers -> BOOLEAN]

\* The chunks of a stream lie one after the other, from what fell off to the
\* end, and are gone only from a stream that had none.
TailOf(s) ==
  /\ ChunksJoin(chunks[s]) /\ kept[s] <= Keep
  /\ IF chunks[s] = << >>
       THEN kept[s] = 0 /\ dropped[s] = 0
       ELSE chunks[s][1].start = dropped[s] /\ EndOf(chunks[s][Len(chunks[s])]) = End(s)
TailInv == \A s \in Streams : TailOf(s)

\* A reader was given bytes up to its offset, each once and in their order, and
\* none before it follows.
Ascends(bytes) == \A i, j \in 1..Len(bytes) : i < j => bytes[i] < bytes[j]
TakenOf(r, s) ==
  /\ base[r][s] <= offset[r][s] /\ offset[r][s] <= End(s)
  /\ at[r] = "away" => got[r][s] = << >> /\ base[r][s] = offset[r][s]
  /\ \A i \in 1..Len(got[r][s]) : got[r][s][i] <= offset[r][s]
  /\ Ascends(got[r][s])
TakenInv == \A r \in Readers, s \in Streams : TakenOf(r, s)

\* Where a read starts: `max(offset, chunks[0][0])`.
Later(a, b) == IF a > b THEN a ELSE b

\* `Job.read` gives the row from the offset, or from what fell off, to the end.
LEMMA NewerIs ==
  ASSUME TypeOK, NEW s \in Streams, TailOf(s), NEW from \in Nat, from <= End(s)
  PROVE  /\ Newer(s, from) = Row(Later(from, dropped[s]), End(s) - Later(from, dropped[s]))
         /\ Later(from, dropped[s]) \in Nat /\ Later(from, dropped[s]) <= End(s)
         /\ OffsetPast(s, from) = End(s)
<1> DEFINE cs == chunks[s]
           p == Past(cs, from)
           a == Later(from, dropped[s])
<1>0. cs \in Seq(Chunk) /\ kept[s] \in Nat /\ dropped[s] \in Nat /\ End(s) \in Nat /\ dropped[s] <= End(s)
  BY DEF TypeOK, End
<1>1. a \in Nat /\ a <= End(s)
  BY <1>0 DEF Later
<1>2. OffsetPast(s, from) = End(s)
  BY <1>0 DEF OffsetPast, TailOf, End
<1>3. Newer(s, from) = FlattenSeq([k \in 1..Len(p) |-> BytesOf(p[k])])
  BY DEF Newer
<1>4. Row(End(s), 0) = << >> /\ Len(<< >>) = 0
  BY DEF Row
<1>5. FlattenSeq([k \in 1..Len(<< >>) |-> BytesOf(<< >>[k])]) = << >>
  <2>1. [k \in 1..Len(<< >>) |-> BytesOf(<< >>[k])] = << >>
    BY <1>4
  <2> QED BY <2>1, <1>4 DEF FlattenSeq
<1> HIDE DEF p
<1>6. CASE p = << >> /\ a = End(s)
  <2>1. Newer(s, from) = << >>
    BY <1>3, <1>5, <1>6
  <2>2. End(s) - a = 0
    BY <1>6, <1>0
  <2> QED BY <1>1, <1>2, <1>4, <1>6, <2>1, <2>2
<1>7. CASE p \in Seq(Chunk) /\ p # << >> /\ ChunksJoin(p) /\ p[1].start = a /\ EndOf(p[Len(p)]) = End(s)
  BY <1>1, <1>2, <1>3, <1>7, ChunksAreRows
<1>8. CASE cs = << >>
  <2>1. from = 0 /\ dropped[s] = 0 /\ End(s) = 0
    BY <1>8, <1>0 DEF TailOf, End
  <2>2. p = << >>
    <3>1. Gone(cs, from) \in 0..Len(cs) /\ Len(cs) = 0
      BY <1>0, <1>8, GoneIs
    <3>2. Len(cs) - Gone(cs, from) = 0
      BY <3>1
    <3> QED BY <3>2 DEF p, Past
  <2> QED BY <2>1, <2>2, <1>6 DEF Later
<1>9. CASE cs # << >>
  <2>1. ChunksJoin(cs) /\ cs[1].start = dropped[s] /\ EndOf(cs[Len(cs)]) = End(s)
    BY <1>9 DEF TailOf
  <2>2. CASE from >= End(s)
    <3>1. p = << >>
      BY <2>1, <2>2, <1>0, <1>9, PastTheEnd DEF p
    <3>2. a = End(s)
      BY <2>2, <1>0 DEF Later
    <3> QED BY <3>1, <3>2, <1>6
  <2>3. CASE from < End(s)
    <3>1. /\ p \in Seq(Chunk) /\ p # << >> /\ ChunksJoin(p)
          /\ p[1].start = IF from > cs[1].start THEN from ELSE cs[1].start
          /\ EndOf(p[Len(p)]) = EndOf(cs[Len(cs)])
      BY <2>1, <2>3, <1>0, <1>9, PastIs DEF p
    <3>2. p[1].start = a
      BY <2>1, <3>1 DEF Later
    <3> QED BY <3>1, <3>2, <2>1, <1>7
  <2> QED BY <2>2, <2>3, <1>0
<1> QED BY <1>8, <1>9

\* A piece that lands lengthens the tail, and what is over falls off its front.
LEMMA LandKeepsTails ==
  ASSUME TypeOK, TailInv, NEW s \in Streams, NEW n \in Sizes, Land(s, n)
  PROVE  /\ chunks' \in [Streams -> Seq(Chunk)] /\ kept' \in [Streams -> Nat] /\ dropped' \in [Streams -> Nat]
         /\ TailInv'
         /\ End(s)' = End(s) + n /\ \A t \in Streams \ {s} : End(t)' = End(t) /\ dropped'[t] = dropped[t]
         /\ dropped'[s] = IF End(s) + n > dropped[s] + Keep THEN End(s) + n - Keep ELSE dropped[s]
<1> DEFINE c == [start |-> End(s), len |-> n]
           cs == Append(chunks[s], c)
           over == Overflow(kept[s] + n)
           ds == Trimmed(cs, over)
<1>0. /\ n \in Nat \ {0} /\ Keep \in Nat \ {0} /\ kept[s] \in Nat /\ kept[s] <= Keep /\ dropped[s] \in Nat
      /\ End(s) = kept[s] + dropped[s] /\ End(s) \in Nat /\ chunks[s] \in Seq(Chunk)
  BY StreamAssumption DEF TypeOK, TailInv, TailOf, End
<1>1. over \in Nat /\ over < kept[s] + n /\ kept[s] + n - over <= Keep
  BY <1>0 DEF Overflow
<1>1a. over = IF End(s) + n > dropped[s] + Keep THEN kept[s] + n - Keep ELSE 0
  BY <1>0 DEF Overflow
<1>2. c \in Chunk /\ c.start = End(s) /\ EndOf(c) = End(s) + n
  BY <1>0 DEF Chunk, EndOf
<1> HIDE DEF c
<1> DEFINE m == Len(chunks[s])
<1>3. m \in Nat /\ (chunks[s] # << >> => m > 0) /\ (m = 0 => chunks[s] = << >>)
  BY <1>0, EmptySeq
<1>4. /\ cs \in Seq(Chunk) /\ Len(cs) = m + 1 /\ cs[m + 1] = c
      /\ \A k \in 1..m : cs[k] = chunks[s][k]
  BY <1>0, <1>2
<1> HIDE DEF cs, over
<1>5. cs # << >>
  BY <1>3, <1>4, EmptySeq
<1>6. ChunksJoin(cs)
  <2> SUFFICES ASSUME NEW k \in 1..m PROVE cs[k + 1].start = EndOf(cs[k])
    BY <1>3, <1>4 DEF ChunksJoin
  <2>1. CASE k < m
    <3>1. k \in 1..(m - 1) /\ k + 1 \in 1..m
      BY <2>1, <1>3
    <3>2. chunks[s][k + 1].start = EndOf(chunks[s][k])
      BY <3>1 DEF TailInv, TailOf, ChunksJoin
    <3> QED BY <3>1, <3>2, <1>4
  <2>2. CASE k = m
    <3>1. chunks[s] # << >>
      BY <2>2, <1>3, EmptySeq
    <3>2. EndOf(chunks[s][m]) = End(s)
      BY <3>1 DEF TailInv, TailOf
    <3> QED BY <2>2, <3>2, <1>2, <1>4
  <2> QED BY <2>1, <2>2, <1>3
<1>7. Head(cs) = cs[1] /\ cs[1].start = dropped[s] /\ EndOf(cs[Len(cs)]) = End(s) + n
  <2>1. CASE m = 0
    <3>1. chunks[s] = << >> /\ 1 = m + 1
      BY <2>1, <1>3
    <3>2. End(s) = dropped[s]
      BY <3>1, <1>0 DEF TailInv, TailOf
    <3> QED BY <3>1, <3>2, <1>2, <1>4
  <2>2. CASE m > 0
    <3>1. 1 \in 1..m /\ chunks[s] # << >>
      BY <2>2, <1>3, EmptySeq
    <3>2. chunks[s][1].start = dropped[s]
      BY <3>1 DEF TailInv, TailOf
    <3> QED BY <3>1, <3>2, <1>2, <1>4
  <2> QED BY <2>1, <2>2, <1>3
<1>8. /\ ds \in Seq(Chunk) /\ ds # << >> /\ ChunksJoin(ds)
      /\ ds[1].start = dropped[s] + over /\ EndOf(ds[Len(ds)]) = End(s) + n
  <2> DEFINE from == dropped[s] + over
  <2>1. from \in Nat /\ from < End(s) + n /\ (from > dropped[s] \/ from = dropped[s])
    <3>1. End(s) + n = (kept[s] + n) + dropped[s]
      BY <1>0
    <3>2. kept[s] + n \in Nat /\ dropped[s] \in Nat
      BY <1>0
    <3> QED BY <1>1, <3>1, <3>2
  <2>2. ds = Past(cs, from)
    BY <1>7 DEF Trimmed
  <2> HIDE DEF from, ds
  <2>3. /\ ds \in Seq(Chunk) /\ ds # << >> /\ ChunksJoin(ds)
        /\ ds[1].start = IF from > cs[1].start THEN from ELSE cs[1].start
        /\ EndOf(ds[Len(ds)]) = EndOf(cs[Len(cs)])
    BY <2>1, <2>2, <1>4, <1>5, <1>6, <1>7, PastIs
  <2>4. ds[1].start = from
    BY <2>1, <2>3, <1>7
  <2> QED BY <2>3, <2>4, <1>7 DEF from
<1>9. /\ chunks' = [chunks EXCEPT ![s] = ds]
      /\ kept' = [kept EXCEPT ![s] = @ + n - over]
      /\ dropped' = [dropped EXCEPT ![s] = @ + over]
  BY DEF Land, ds, cs, c, over
<1> HIDE DEF ds
<1>10. /\ chunks' \in [Streams -> Seq(Chunk)] /\ chunks'[s] = ds
       /\ \A t \in Streams \ {s} : chunks'[t] = chunks[t]
  BY <1>8, <1>9 DEF TypeOK
<1>11. /\ kept' \in [Streams -> Nat] /\ kept'[s] = kept[s] + n - over
       /\ \A t \in Streams \ {s} : kept'[t] = kept[t]
  BY <1>0, <1>1, <1>9 DEF TypeOK
<1>12. /\ dropped' \in [Streams -> Nat] /\ dropped'[s] = dropped[s] + over
       /\ \A t \in Streams \ {s} : dropped'[t] = dropped[t]
  BY <1>0, <1>1, <1>9 DEF TypeOK
<1>13. End(s)' = End(s) + n /\ \A t \in Streams \ {s} : End(t)' = End(t)
  <2>1. End(s)' = kept'[s] + dropped'[s] /\ over \in Int /\ n \in Int
    BY <1>0, <1>1 DEF End
  <2>2. End(s)' = End(s) + n
    BY <2>1, <1>0, <1>11, <1>12
  <2>3. \A t \in Streams \ {s} : End(t)' = End(t)
    BY <1>11, <1>12 DEF End
  <2> QED BY <2>2, <2>3
<1>14. TailInv'
  <2>1. TailOf(s)'
    BY <1>0, <1>1, <1>8, <1>10, <1>11, <1>12, <1>13 DEF TailOf
  <2>2. \A t \in Streams \ {s} : TailOf(t)'
    BY <1>10, <1>11, <1>12, <1>13 DEF TailInv, TailOf
  <2> QED BY <2>1, <2>2 DEF TailInv
<1>15. dropped'[s] = IF End(s) + n > dropped[s] + Keep THEN End(s) + n - Keep ELSE dropped[s]
  BY <1>0, <1>1a, <1>12
<1> QED BY <1>10, <1>11, <1>12, <1>13, <1>14, <1>15

-----------------------------------------------------------------------------
(* What an action does to one reader. *)

\* The effects that an action has on a reader: none on what it reads by, that it
\* joins at the ends, or that it takes all that is new.
Untouched(r) ==
  /\ at'[r] = "away" => at[r] = "away"
  /\ \A s \in Streams : base'[r][s] = base[r][s] /\ offset'[r][s] = offset[r][s] /\ got'[r][s] = got[r][s]
Joins(r) ==
  /\ at[r] = "away" /\ at'[r] # "away"
  /\ \A s \in Streams : base'[r][s] = End(s) /\ offset'[r][s] = End(s) /\ got'[r][s] = got[r][s]
Takes(r) ==
  /\ at'[r] # "away"
  /\ \A s \in Streams :
       /\ base'[r][s] = base[r][s] /\ offset'[r][s] = End(s)
       /\ got'[r][s] = got[r][s] \o Newer(s, offset[r][s])
Only(r) == Joins(r) \/ Takes(r) \/ Untouched(r)

\* The types of what a turn may change.
TypesOfTurns ==
  /\ jobDone' \in BOOLEAN
  /\ at' \in [Readers -> States] /\ hint' \in [Readers -> BOOLEAN]
  /\ base' \in [Readers -> [Streams -> Nat]] /\ offset' \in [Readers -> [Streams -> Nat]]
  /\ got' \in [Readers -> [Streams -> Seq(Nat)]]
  /\ said' \in [Readers -> {"nothing", "exit", "still"}]
  /\ late' \in [Followers -> BOOLEAN] /\ held' \in [Viewers -> BOOLEAN] /\ alive' \in [Viewers -> BOOLEAN]

\* What the readers go by is what it was, and one of them at most moves.
Turn(r) ==
  /\ TypesOfTurns /\ UNCHANGED streamVars
  /\ Only(r) /\ \A q \in Readers \ {r} : Untouched(q)

\* The inductive invariant of the tails.
Sound == TypeOK /\ TailInv /\ TakenInv

\* What a reader takes is a sequence of bytes, and leaves it at the end.
LEMMA NewerType ==
  ASSUME Sound, NEW r \in Readers, NEW s \in Streams
  PROVE  Newer(s, offset[r][s]) \in Seq(Nat) /\ OffsetPast(s, offset[r][s]) = End(s) /\ End(s) \in Nat
<1>1. TypeOK /\ TailOf(s) /\ offset[r][s] \in Nat /\ offset[r][s] <= End(s)
  BY DEF Sound, TypeOK, TailInv, TakenInv, TakenOf
<1>2. End(s) \in Nat
  BY DEF Sound, TypeOK, End
<1>3. \A a, m \in Nat : Row(a, m) \in Seq(Nat)
  BY DEF Row
<1> DEFINE a == Later(offset[r][s], dropped[s])
<1>4. /\ Newer(s, offset[r][s]) = Row(a, End(s) - a) /\ a \in Nat /\ a <= End(s)
      /\ OffsetPast(s, offset[r][s]) = End(s)
  BY <1>1, NewerIs
<1> HIDE DEF a
<1>5. End(s) - a \in Nat
  BY <1>2, <1>4
<1> QED BY <1>2, <1>3, <1>4, <1>5

\* `_feed_new` and `_drain` take all that is new of both streams.
LEMMA EmitTakes ==
  ASSUME Sound, NEW r \in Readers, Emit(r)
  PROVE  /\ got' \in [Readers -> [Streams -> Seq(Nat)]] /\ offset' \in [Readers -> [Streams -> Nat]]
         /\ \A s \in Streams : offset'[r][s] = End(s) /\ got'[r][s] = got[r][s] \o Newer(s, offset[r][s])
         /\ \A q \in Readers \ {r} : offset'[q] = offset[q] /\ got'[q] = got[q]
<1>1. \A s \in Streams : /\ Newer(s, offset[r][s]) \in Seq(Nat) /\ got[r][s] \in Seq(Nat)
                         /\ OffsetPast(s, offset[r][s]) = End(s) /\ End(s) \in Nat
  BY NewerType DEF Sound, TypeOK
<1> DEFINE g == [s \in Streams |-> got[r][s] \o Newer(s, offset[r][s])]
           o == [s \in Streams |-> OffsetPast(s, offset[r][s])]
<1>2. g \in [Streams -> Seq(Nat)] /\ o \in [Streams -> Nat]
  BY <1>1
<1>3. \A s \in Streams : o[s] = End(s) /\ g[s] = got[r][s] \o Newer(s, offset[r][s])
  BY <1>1
<1>4. got' = [got EXCEPT ![r] = g] /\ offset' = [offset EXCEPT ![r] = o]
  BY DEF Emit
<1> HIDE DEF g, o
<1> QED BY <1>2, <1>3, <1>4 DEF Sound, TypeOK

\* `poke` wakes those that sleep, and no other moves.
LEMMA PokeWakes ==
  ASSUME Sound, NEW rs, Poke(rs)
  PROVE  /\ at' \in [Readers -> States] /\ hint' \in [Readers -> BOOLEAN]
         /\ \A r \in Readers : at'[r] = IF r \in rs /\ at[r] = "parked" THEN "woken" ELSE at[r]
<1>1. /\ at' = [r \in Readers |-> IF r \in rs /\ at[r] = "parked" THEN "woken" ELSE at[r]]
      /\ hint' = [r \in Readers |-> hint[r] \/ (r \in rs /\ at[r] \in {"woken", "cut"})]
  BY DEF Poke
<1>2. at' \in [Readers -> States]
  BY <1>1 DEF Sound, TypeOK, States
<1>3. hint' \in [Readers -> BOOLEAN]
  BY <1>1 DEF Sound, TypeOK
<1> QED BY <1>1, <1>2, <1>3

\* A reader that waits for a hint sleeps or takes one.
LEMMA ReceiveParks ==
  ASSUME Sound, NEW r \in Readers, Receive(r)
  PROVE  /\ at' \in [Readers -> States] /\ hint' \in [Readers -> BOOLEAN]
         /\ at'[r] \in {"woken", "parked"}
         /\ \A q \in Readers \ {r} : at'[q] = at[q]
BY DEF Sound, TypeOK, States, Receive

\* A reader that leaves is done, with its words.
LEMMA LeaveEnds ==
  ASSUME Sound, NEW r \in Readers, NEW words \in {"nothing", "exit", "still"}, Leave(r, words)
  PROVE  /\ at' \in [Readers -> States] /\ hint' \in [Readers -> BOOLEAN]
         /\ said' \in [Readers -> {"nothing", "exit", "still"}]
         /\ at'[r] = "done" /\ said'[r] = words
         /\ \A q \in Readers \ {r} : at'[q] = at[q] /\ said'[q] = said[q]
BY DEF Sound, TypeOK, States, Leave

\* Whatever `tail-job` does, it joins, takes everything new, or reads nothing.
LEMMA FollowersTurn ==
  ASSUME Sound, NEW f \in Followers, Follow(f)
  PROVE  Turn(f)
<1>0. f \in Readers
  BY DEF Readers
<1> USE DEF Turn, TypesOfTurns
<1>1. CASE FollowStarts(f)
  <2>1. \A s \in Streams : End(s) \in Nat
    BY DEF Sound, TypeOK, End
  <2> DEFINE e == [s \in Streams |-> End(s)]
  <2>2. e \in [Streams -> Nat] /\ \A s \in Streams : e[s] = End(s)
    BY <2>1
  <2>3. base' = [base EXCEPT ![f] = e] /\ offset' = [offset EXCEPT ![f] = e]
    BY <1>1 DEF FollowStarts
  <2> HIDE DEF e
  <2>4. /\ base' \in [Readers -> [Streams -> Nat]] /\ offset' \in [Readers -> [Streams -> Nat]]
        /\ \A s \in Streams : base'[f][s] = End(s) /\ offset'[f][s] = End(s)
        /\ \A q \in Readers \ {f} : base'[q] = base[q] /\ offset'[q] = offset[q]
    BY <2>2, <2>3, <1>0 DEF Sound, TypeOK
  <2>5. /\ at[f] = "away" /\ UNCHANGED <<streamVars, jobDone, got, flagVars>>
        /\ IF jobDone THEN Leave(f, "exit") ELSE Receive(f) /\ UNCHANGED said
    BY <1>1 DEF FollowStarts
  <2>6. /\ at' \in [Readers -> States] /\ hint' \in [Readers -> BOOLEAN] /\ at'[f] # "away"
        /\ said' \in [Readers -> {"nothing", "exit", "still"}]
        /\ \A q \in Readers \ {f} : at'[q] = at[q]
    BY <2>5, <1>0, ReceiveParks, LeaveEnds DEF Sound, TypeOK
  <2>7. TypesOfTurns /\ UNCHANGED streamVars
    BY <2>4, <2>5, <2>6 DEF Sound, TypeOK, flagVars
  <2>8. Joins(f)
    BY <2>4, <2>5, <2>6 DEF Joins
  <2>9. \A q \in Readers \ {f} : Untouched(q)
    BY <2>4, <2>5, <2>6 DEF Untouched
  <2> QED BY <2>7, <2>8, <2>9 DEF Only
<1>2. CASE FollowDrains(f)
  <2>1. /\ Emit(f) /\ UNCHANGED <<streamVars, jobDone, base, flagVars>>
        /\ \/ jobDone /\ Leave(f, IF late[f] THEN "still" ELSE "exit")
           \/ ~jobDone /\ late[f] /\ Leave(f, "still")
           \/ ~jobDone /\ ~late[f] /\ Receive(f) /\ UNCHANGED said
    BY <1>2 DEF FollowDrains
  <2>2. /\ at' \in [Readers -> States] /\ hint' \in [Readers -> BOOLEAN] /\ at'[f] # "away"
        /\ said' \in [Readers -> {"nothing", "exit", "still"}]
        /\ \A q \in Readers \ {f} : at'[q] = at[q]
    BY <2>1, <1>0, ReceiveParks, LeaveEnds DEF Sound, TypeOK
  <2>3. /\ got' \in [Readers -> [Streams -> Seq(Nat)]] /\ offset' \in [Readers -> [Streams -> Nat]]
        /\ \A s \in Streams : offset'[f][s] = End(s) /\ got'[f][s] = got[f][s] \o Newer(s, offset[f][s])
        /\ \A q \in Readers \ {f} : offset'[q] = offset[q] /\ got'[q] = got[q]
    BY <2>1, <1>0, EmitTakes
  <2>4. TypesOfTurns /\ UNCHANGED streamVars
    BY <2>1, <2>2, <2>3 DEF Sound, TypeOK, flagVars
  <2>5. Takes(f)
    BY <2>1, <2>2, <2>3 DEF Takes
  <2>6. \A q \in Readers \ {f} : Untouched(q)
    BY <2>1, <2>2, <2>3 DEF Untouched
  <2> QED BY <2>4, <2>5, <2>6 DEF Only
<1>3. CASE TimeOut(f)
  <2>1. /\ late' = [late EXCEPT ![f] = TRUE]
        /\ at' = [at EXCEPT ![f] = IF @ = "parked" THEN "cut" ELSE @]
        /\ UNCHANGED <<streamVars, jobDone, hint, readVars, said, held, alive>>
    BY <1>3 DEF TimeOut
  <2>2. late' \in [Followers -> BOOLEAN] /\ at' \in [Readers -> States]
    BY <2>1 DEF Sound, TypeOK, States
  <2>3. TypesOfTurns /\ UNCHANGED streamVars
    BY <2>1, <2>2 DEF Sound, TypeOK, readVars
  <2>4. \A q \in Readers : Untouched(q)
    BY <2>1 DEF Untouched, Sound, TypeOK, readVars
  <2> QED BY <2>3, <2>4, <1>0 DEF Only
<1>4. CASE FollowCut(f)
  <2>1. Leave(f, "still") /\ UNCHANGED <<streamVars, jobDone, readVars, flagVars>>
    BY <1>4 DEF FollowCut
  <2>2. /\ at' \in [Readers -> States] /\ hint' \in [Readers -> BOOLEAN] /\ at'[f] # "away"
        /\ said' \in [Readers -> {"nothing", "exit", "still"}]
        /\ \A q \in Readers \ {f} : at'[q] = at[q]
    BY <2>1, <1>0, LeaveEnds
  <2>3. TypesOfTurns /\ UNCHANGED streamVars
    BY <2>1, <2>2 DEF Sound, TypeOK, readVars, flagVars
  <2>4. \A q \in Readers : Untouched(q)
    BY <2>1, <2>2 DEF Untouched, readVars
  <2> QED BY <2>3, <2>4, <1>0 DEF Only
<1> QED BY <1>1, <1>2, <1>3, <1>4 DEF Follow

\* So does the pane that views the job.
LEMMA ViewersTurn ==
  ASSUME Sound, NEW v \in Viewers, View(v)
  PROVE  Turn(v)
<1>0. v \in Readers
  BY DEF Readers
<1> USE DEF Turn, TypesOfTurns
\* A turn of the task emits everything or nothing, and goes on or ends.
<1>1. ASSUME UNCHANGED <<streamVars, jobDone, base, flagVars>>,
             Emit(v) \/ UNCHANGED <<got, offset>>,
             Leave(v, "exit") \/ Leave(v, "nothing") \/ (Receive(v) /\ UNCHANGED said)
      PROVE  Turn(v)
  <2>2. /\ at' \in [Readers -> States] /\ hint' \in [Readers -> BOOLEAN] /\ at'[v] # "away"
        /\ said' \in [Readers -> {"nothing", "exit", "still"}]
        /\ \A q \in Readers \ {v} : at'[q] = at[q]
    BY <1>1, <1>0, ReceiveParks, LeaveEnds DEF Sound, TypeOK
  <2>3. CASE Emit(v)
    <3>1. /\ got' \in [Readers -> [Streams -> Seq(Nat)]] /\ offset' \in [Readers -> [Streams -> Nat]]
          /\ \A s \in Streams : offset'[v][s] = End(s) /\ got'[v][s] = got[v][s] \o Newer(s, offset[v][s])
          /\ \A q \in Readers \ {v} : offset'[q] = offset[q] /\ got'[q] = got[q]
      BY <2>3, <1>0, EmitTakes
    <3>2. TypesOfTurns /\ UNCHANGED streamVars
      BY <1>1, <2>2, <3>1 DEF Sound, TypeOK, flagVars
    <3>3. Takes(v)
      BY <1>1, <2>2, <3>1 DEF Takes
    <3>4. \A q \in Readers \ {v} : Untouched(q)
      BY <1>1, <2>2, <3>1 DEF Untouched
    <3> QED BY <3>2, <3>3, <3>4 DEF Only
  <2>4. CASE UNCHANGED <<got, offset>>
    <3>1. TypesOfTurns /\ UNCHANGED streamVars
      BY <1>1, <2>2, <2>4 DEF Sound, TypeOK, flagVars
    <3>2. \A q \in Readers : Untouched(q)
      BY <1>1, <2>2, <2>4 DEF Untouched
    <3> QED BY <3>1, <3>2, <1>0 DEF Only
  <2> QED BY <1>1, <2>3, <2>4
<1>2. CASE ViewStarts(v)
  BY <1>1, <1>2 DEF ViewStarts
<1>3. CASE ViewFeeds(v)
  BY <1>1, <1>3 DEF ViewFeeds, ViewTurn
<1>4. CASE ViewKilled(v)
  <2>1. /\ alive' = [alive EXCEPT ![v] = FALSE]
        /\ UNCHANGED <<at, hint>> \/ Poke({v})
        /\ UNCHANGED <<streamVars, jobDone, readVars, said, late, held>>
    BY <1>4 DEF ViewKilled
  <2>2. /\ at' \in [Readers -> States] /\ hint' \in [Readers -> BOOLEAN]
        /\ \A r \in Readers : at'[r] = "away" => at[r] = "away"
    BY <2>1, PokeWakes DEF Sound, TypeOK
  <2>3. TypesOfTurns /\ UNCHANGED streamVars
    BY <2>1, <2>2 DEF Sound, TypeOK, readVars
  <2>4. \A q \in Readers : Untouched(q)
    BY <2>1, <2>2 DEF Untouched, readVars
  <2> QED BY <2>3, <2>4, <1>0 DEF Only
<1>5. CASE ViewSuspended(v) \/ ViewResumed(v)
  <2>1. /\ held' \in [Viewers -> BOOLEAN]
        /\ UNCHANGED <<streamVars, jobDone, at, hint, readVars, said, late, alive>>
    BY <1>5 DEF ViewSuspended, ViewResumed, Sound, TypeOK
  <2>2. TypesOfTurns /\ UNCHANGED streamVars
    BY <2>1 DEF Sound, TypeOK, readVars
  <2>3. \A q \in Readers : Untouched(q)
    BY <2>1 DEF Untouched, readVars
  <2> QED BY <2>2, <2>3, <1>0 DEF Only
<1> QED BY <1>2, <1>3, <1>4, <1>5 DEF View

-----------------------------------------------------------------------------
(* Every step keeps the tails in a row and the readers in order. *)

\* A job starts with no output and no reader.
LEMMA SoundAtFirst == Init => Sound
<1> SUFFICES ASSUME Init PROVE Sound
  OBVIOUS
<1>0. << >> \in Seq(Chunk) /\ << >> \in Seq(Nat) /\ Len(<< >>) = 0 /\ Keep \in Nat
  BY EmptySeq, StreamAssumption
<1>1. TypeOK
  BY <1>0 DEF Init, TypeOK, States
<1>2. TailInv
  BY <1>0 DEF Init, TailInv, TailOf, ChunksJoin
<1>3. TakenInv
  <2> SUFFICES ASSUME NEW r \in Readers, NEW s \in Streams PROVE TakenOf(r, s)
    BY DEF TakenInv
  <2>1. base[r][s] = 0 /\ offset[r][s] = 0 /\ got[r][s] = << >> /\ End(s) = 0
    BY DEF Init, End
  <2> QED BY <2>1, <1>0 DEF TakenOf, Ascends
<1> QED BY <1>1, <1>2, <1>3 DEF Sound

\* What a reader takes lies past all that it was given.
LEMMA TakesKeeps ==
  ASSUME Sound, NEW r \in Readers, NEW s \in Streams, TypesOfTurns, UNCHANGED streamVars, Takes(r)
  PROVE  TakenOf(r, s)'
<1> DEFINE new == Newer(s, offset[r][s])
           old == got[r][s]
           all == got'[r][s]
           a == Later(offset[r][s], dropped[s])
           e == End(s)
<1>1. TailOf(s) /\ offset[r][s] \in Nat /\ offset[r][s] <= End(s) /\ End(s) \in Nat /\ old \in Seq(Nat) /\ base[r][s] \in Nat
  BY DEF Sound, TypeOK, TailInv, TakenInv, TakenOf, End
<1>2. new = Row(a, e - a) /\ a \in Nat /\ a <= e /\ offset[r][s] <= a
  <2>1. offset[r][s] <= a
    BY <1>1 DEF Later, Sound, TypeOK
  <2> QED BY <2>1, <1>1, NewerIs DEF Sound
<1>3. new \in Seq(Nat) /\ Len(new) = e - a /\ \A i \in 1..(e - a) : new[i] = a + i
  BY <1>1, <1>2 DEF Row
<1>4. all = old \o new /\ offset'[r][s] = e /\ base'[r][s] = base[r][s] /\ at'[r] # "away"
  BY DEF Takes
<1>5. End(s)' = e
  BY DEF streamVars, End
<1>6. /\ base[r][s] <= offset[r][s] /\ (\A i \in 1..Len(old) : old[i] <= offset[r][s]) /\ Ascends(old)
  BY DEF Sound, TakenInv, TakenOf
<1> HIDE DEF new, old, all, a, e
<1>7. /\ Len(all) = Len(old) + Len(new) /\ Len(old) \in Nat
      /\ \A i \in 1..(Len(old) + Len(new)) : all[i] = IF i <= Len(old) THEN old[i] ELSE new[i - Len(old)]
  BY <1>1, <1>3, <1>4, ConcatProperties
<1>8. \A i \in 1..Len(old) : i \in 1..Len(all) /\ all[i] = old[i] /\ old[i] \in Nat /\ old[i] <= a
  <2> TAKE i \in 1..Len(old)
  <2>1. i \in 1..(Len(old) + Len(new)) /\ i <= Len(old)
    BY <1>1, <1>2, <1>3, <1>7 DEF e
  <2>2. old[i] \in Nat
    BY <1>1, ElementOfSeq
  <2> QED BY <2>1, <2>2, <1>1, <1>2, <1>6, <1>7
<1>9. \A i \in 1..Len(all) : i > Len(old) => all[i] = a + (i - Len(old)) /\ i - Len(old) \in 1..(e - a)
  <2> TAKE i \in 1..Len(all)
  <2> HAVE i > Len(old)
  <2>0. e \in Nat
    BY <1>1 DEF e
  <2>1. i - Len(old) \in 1..(e - a) /\ i \in 1..(Len(old) + Len(new)) /\ ~(i <= Len(old))
    BY <1>1, <1>2, <1>3, <1>7, <2>0
  <2> QED BY <2>1, <1>3, <1>7
<1>10. \A i \in 1..Len(all) : all[i] <= e
  <2> TAKE i \in 1..Len(all)
  <2>0. e \in Nat
    BY <1>1 DEF e
  <2>1. CASE i <= Len(old)
    <3>1. i \in 1..Len(old)
      BY <2>1, <1>7
    <3> QED BY <3>1, <2>0, <1>2, <1>8
  <2>2. CASE i > Len(old)
    BY <2>0, <2>2, <1>2, <1>9, <1>7
  <2> QED BY <2>1, <2>2, <1>7
<1>11. Ascends(all)
  <2> SUFFICES ASSUME NEW i \in 1..Len(all), NEW j \in 1..Len(all), i < j PROVE all[i] < all[j]
    BY DEF Ascends
  <2>0. e \in Nat
    BY <1>1 DEF e
  <2>1. CASE j <= Len(old)
    <3>1. i \in 1..Len(old) /\ j \in 1..Len(old)
      BY <2>1, <1>7
    <3>2. old[i] < old[j]
      BY <3>1, <1>6 DEF Ascends
    <3> QED BY <3>1, <3>2, <1>8
  <2>2. CASE i <= Len(old) /\ j > Len(old)
    <3>1. i \in 1..Len(old)
      BY <2>2, <1>7
    <3>2. all[i] <= a /\ all[i] \in Nat
      BY <3>1, <1>8
    <3>3. all[j] = a + (j - Len(old)) /\ j - Len(old) \in 1..(e - a)
      BY <2>2, <1>9
    <3> QED BY <3>2, <3>3, <1>2
  <2>3. CASE i > Len(old)
    <3>1. /\ all[i] = a + (i - Len(old)) /\ all[j] = a + (j - Len(old))
          /\ i - Len(old) \in Int /\ j - Len(old) \in Int /\ i - Len(old) < j - Len(old)
      BY <2>3, <1>7, <1>9
    <3> QED BY <3>1, <1>2
  <2> QED BY <2>1, <2>2, <2>3, <1>7
<1>12. base[r][s] <= e
  BY <1>1, <1>6 DEF e
<1>13. offset'[r][s] <= End(s)' /\ base'[r][s] <= offset'[r][s]
  BY <1>1, <1>4, <1>5, <1>12 DEF e
<1> QED BY <1>4, <1>5, <1>10, <1>11, <1>13 DEF TakenOf, all

\* A reader that stays put stays in order while the stream grows.
LEMMA UntouchedKeeps ==
  ASSUME Sound, NEW r \in Readers, NEW s \in Streams, Untouched(r), End(s)' \in Nat, End(s) <= End(s)'
  PROVE  TakenOf(r, s)'
<1>1. TakenOf(r, s) /\ offset[r][s] \in Nat /\ End(s) \in Nat
  BY DEF Sound, TypeOK, TakenInv, End
<1>2. base'[r][s] = base[r][s] /\ offset'[r][s] = offset[r][s] /\ got'[r][s] = got[r][s]
  BY DEF Untouched
<1>3. offset'[r][s] <= End(s)'
  BY <1>1, <1>2 DEF TakenOf
<1> QED BY <1>1, <1>2, <1>3 DEF TakenOf, Untouched

\* A reader that joins was given nothing.
LEMMA JoinsKeeps ==
  ASSUME Sound, NEW r \in Readers, NEW s \in Streams, Joins(r), UNCHANGED streamVars
  PROVE  TakenOf(r, s)'
<1>1. TakenOf(r, s) /\ End(s) \in Nat
  BY DEF Sound, TypeOK, TakenInv, End
<1>2. got[r][s] = << >> /\ Len(<< >>) = 0
  BY <1>1 DEF TakenOf, Joins
<1>3. base'[r][s] = End(s) /\ offset'[r][s] = End(s) /\ got'[r][s] = << >> /\ at'[r] # "away" /\ End(s)' = End(s)
  BY <1>2 DEF Joins, streamVars, End
<1> QED BY <1>1, <1>2, <1>3 DEF TakenOf, Ascends

\* What the readers do keeps the state sound.
LEMMA TurnKeeps ==
  ASSUME Sound, NEW r \in Readers, Turn(r)
  PROVE  Sound'
<1>1. TypeOK'
  BY DEF Sound, TypeOK, Turn, TypesOfTurns, streamVars
<1>2. TailInv'
  BY DEF Sound, TailInv, TailOf, Turn, streamVars, End
<1>3. \A s \in Streams : End(s)' \in Nat /\ End(s) <= End(s)'
  BY DEF Sound, TypeOK, Turn, streamVars, End
<1>4. TakenInv'
  <2> SUFFICES ASSUME NEW q \in Readers, NEW s \in Streams PROVE TakenOf(q, s)'
    BY DEF TakenInv
  <2>1. Untouched(q) \/ (q = r /\ (Joins(r) \/ Takes(r)))
    BY DEF Turn, Only
  <2> QED BY <2>1, <1>3, UntouchedKeeps, JoinsKeeps, TakesKeeps DEF Turn
<1> QED BY <1>1, <1>2, <1>4 DEF Sound

\* What the job does wakes the readers and moves none.
Calls == /\ at' \in [Readers -> States] /\ hint' \in [Readers -> BOOLEAN]
         /\ \A r \in Readers : at'[r] = IF at[r] = "parked" THEN "woken" ELSE at[r]

\* `land`: the tail grows, and every reader hears of it.
LEMMA LandIs ==
  ASSUME Sound, NEW s \in Streams, NEW n \in Sizes, Land(s, n)
  PROVE  /\ Calls /\ Sound' /\ \A r \in Readers : Untouched(r)
         /\ UNCHANGED <<jobDone, readVars, said, flagVars>>
         /\ n \in Nat \ {0} /\ End(s)' = End(s) + n
         /\ \A t \in Streams \ {s} : End(t)' = End(t) /\ dropped'[t] = dropped[t]
         /\ dropped'[s] = IF End(s) + n > dropped[s] + Keep THEN End(s) + n - Keep ELSE dropped[s]
<1>1. Poke(Readers) /\ UNCHANGED <<jobDone, readVars, said, flagVars>>
  BY DEF Land
<1>2. Calls
  BY <1>1, PokeWakes DEF Calls
<1>3. \A r \in Readers : Untouched(r)
  BY <1>1, <1>2 DEF Calls, Untouched, readVars
<1>4. n \in Nat \ {0} /\ \A t \in Streams : End(t) \in Nat
  BY StreamAssumption DEF Sound, TypeOK, End
<1>5. /\ chunks' \in [Streams -> Seq(Chunk)] /\ kept' \in [Streams -> Nat] /\ dropped' \in [Streams -> Nat]
      /\ TailInv'
      /\ End(s)' = End(s) + n /\ \A t \in Streams \ {s} : End(t)' = End(t) /\ dropped'[t] = dropped[t]
  BY LandKeepsTails DEF Sound
<1>6. dropped'[s] = IF End(s) + n > dropped[s] + Keep THEN End(s) + n - Keep ELSE dropped[s]
  BY LandKeepsTails DEF Sound
<1>7. TypeOK'
  BY <1>1, <1>2, <1>5 DEF Sound, TypeOK, Calls, readVars, flagVars
<1>8. TakenInv'
  <2> SUFFICES ASSUME NEW q \in Readers, NEW t \in Streams PROVE TakenOf(q, t)'
    BY DEF TakenInv
  <2>1. End(t)' \in Nat /\ End(t) <= End(t)'
    <3>1. CASE t = s
      <4>1. End(t)' = kept'[t] + dropped'[t] /\ End(s)' = kept'[s] + dropped'[s]
        BY DEF End
      <4> QED BY <4>1, <3>1, <1>4, <1>5
    <3>2. CASE t # s
      BY <3>2, <1>4, <1>5
    <3> QED BY <3>1, <3>2
  <2> QED BY <2>1, <1>3, UntouchedKeeps
<1> QED BY <1>1, <1>2, <1>3, <1>4, <1>5, <1>6, <1>7, <1>8 DEF Sound

\* `_finish`: every reader hears of the end.
LEMMA FinishIs ==
  ASSUME Sound, Finish
  PROVE  /\ Calls /\ Sound' /\ (\A r \in Readers : Untouched(r)) /\ UNCHANGED streamVars
         /\ UNCHANGED <<readVars, said, flagVars>>
<1>1. Poke(Readers) /\ jobDone' = TRUE /\ UNCHANGED <<streamVars, readVars, said, flagVars>>
  BY DEF Finish
<1>2. Calls
  BY <1>1, PokeWakes DEF Calls
<1>3. \A r \in Readers : Untouched(r)
  BY <1>1, <1>2 DEF Calls, Untouched, readVars
<1>4. TypeOK'
  BY <1>1, <1>2 DEF Sound, TypeOK, Calls, streamVars, readVars, flagVars
<1>5. TailInv'
  BY <1>1 DEF Sound, TailInv, TailOf, streamVars, End
<1>6. \A s \in Streams : End(s)' \in Nat /\ End(s) <= End(s)'
  BY <1>1 DEF Sound, TypeOK, streamVars, End
<1>7. TakenInv'
  BY <1>3, <1>6, UntouchedKeeps DEF TakenInv
<1> QED BY <1>1, <1>2, <1>3, <1>4, <1>5, <1>7 DEF Sound

\* Where nothing changes everything stays sound.
LEMMA StutterKeeps ==
  ASSUME Sound, UNCHANGED vars
  PROVE  Sound' /\ UNCHANGED streamVars /\ \A r \in Readers : Untouched(r)
<1>1. UNCHANGED <<chunks, kept, dropped, jobDone, at, hint, base, offset, got, said, late, held, alive>>
  BY DEF vars, streamVars, readVars, flagVars
<1>2. TypeOK'
  BY <1>1 DEF Sound, TypeOK
<1>3. TailInv'
  BY <1>1 DEF Sound, TailInv, TailOf, End
<1>4. \A r \in Readers : Untouched(r)
  BY <1>1 DEF Untouched
<1>5. \A s \in Streams : End(s)' \in Nat /\ End(s) <= End(s)'
  BY <1>1 DEF Sound, TypeOK, End
<1>6. TakenInv'
  BY <1>4, <1>5, UntouchedKeeps DEF TakenInv
<1> QED BY <1>1, <1>2, <1>3, <1>4, <1>6 DEF Sound, streamVars

\* The state is sound after every step.
LEMMA SoundKeeps == Sound /\ [Next]_vars => Sound'
<1> SUFFICES ASSUME Sound, [Next]_vars PROVE Sound'
  OBVIOUS
<1>1. \A r \in Readers : Turn(r) => Sound'
  BY TurnKeeps
<1>2. Followers \subseteq Readers /\ Viewers \subseteq Readers
  BY DEF Readers
<1> QED BY <1>1, <1>2, LandIs, FinishIs, FollowersTurn, ViewersTurn, StutterKeeps DEF Next

-----------------------------------------------------------------------------
(* Nobody sleeps over output, and the end comes last. *)

\* The state is sound in every behavior.
LEMMA SoundAlways == Spec => []Sound
BY SoundAtFirst, SoundKeeps, PTL DEF Spec

\* ... and the readers that sleep.
StreamInv == Sound /\ SleepersMissNothing

\* A reader that parks has read all there is of a job that runs.
LEMMA SleepersKeep == StreamInv /\ [Next]_vars => SleepersMissNothing'
<1> SUFFICES ASSUME StreamInv, [Next]_vars, NEW r \in Readers, at'[r] = "parked"
             PROVE  /\ ~jobDone'
                    /\ IF r \in Viewers THEN alive'[r] ELSE \A s \in Streams : offset'[r][s] = kept'[s] + dropped'[s]
  BY DEF SleepersMissNothing, End
<1>0. /\ Sound /\ Followers \cap Viewers = {} /\ at[r] \in States
      /\ (\A s \in Streams : End(s) = kept[s] + dropped[s])
      /\ at[r] = "parked" =>
           /\ ~jobDone
           /\ IF r \in Viewers THEN alive[r] ELSE \A s \in Streams : offset[r][s] = kept[s] + dropped[s]
  BY StreamAssumption DEF StreamInv, SleepersMissNothing, Sound, TypeOK, End
\* A reader whose task did not run stands where it stood.
<1>1. ASSUME at'[r] = at[r], offset'[r] = offset[r], UNCHANGED <<streamVars, jobDone>>,
             r \in Viewers => alive'[r] = alive[r]
      PROVE  /\ ~jobDone'
             /\ IF r \in Viewers THEN alive'[r] ELSE \A s \in Streams : offset'[r][s] = kept'[s] + dropped'[s]
  BY <1>0, <1>1 DEF streamVars
\* A reader that runs parks in the turn in which it read everything.
<1>2. ASSUME ~jobDone, UNCHANGED <<streamVars, jobDone, flagVars>>,
             IF r \in Viewers THEN alive[r] ELSE \A s \in Streams : offset'[r][s] = End(s)
      PROVE  /\ ~jobDone'
             /\ IF r \in Viewers THEN alive'[r] ELSE \A s \in Streams : offset'[r][s] = kept'[s] + dropped'[s]
  BY <1>0, <1>2 DEF streamVars, flagVars
<1>3. ASSUME NEW s \in Streams, NEW n \in Sizes, Land(s, n) PROVE FALSE
  BY <1>0, <1>3, LandIs DEF Calls
<1>4. CASE Finish
  BY <1>0, <1>4, FinishIs DEF Calls
<1>5. ASSUME NEW f \in Followers, Follow(f), r # f
      PROVE  at'[r] = at[r] /\ offset'[r] = offset[r] /\ UNCHANGED <<streamVars, jobDone, alive>>
  <2>1. CASE FollowStarts(f)
    BY <2>1, <1>0, <1>5 DEF FollowStarts, Receive, Leave, Sound, TypeOK, flagVars
  <2>2. CASE FollowDrains(f)
    BY <2>2, <1>0, <1>5 DEF FollowDrains, Receive, Leave, Emit, Sound, TypeOK, flagVars
  <2>3. CASE TimeOut(f)
    BY <2>3, <1>0, <1>5 DEF TimeOut, Sound, TypeOK, readVars
  <2>4. CASE FollowCut(f)
    BY <2>4, <1>0, <1>5 DEF FollowCut, Leave, Sound, TypeOK, readVars, flagVars
  <2> QED BY <2>1, <2>2, <2>3, <2>4, <1>5 DEF Follow
<1>6. ASSUME r \in Followers, Follow(r)
      PROVE  ~jobDone /\ UNCHANGED <<streamVars, jobDone, flagVars>> /\ \A s \in Streams : offset'[r][s] = End(s)
  <2>1. CASE FollowStarts(r)
    BY <2>1, <1>0 DEF FollowStarts, Leave, Sound, TypeOK
  <2>2. CASE FollowDrains(r)
    <3>1. Emit(r) /\ UNCHANGED <<streamVars, jobDone, flagVars>>
      BY <2>2 DEF FollowDrains
    <3>2. ~jobDone
      BY <2>2, <1>0 DEF FollowDrains, Leave, Sound, TypeOK
    <3> QED BY <3>1, <3>2, <1>0, EmitTakes
  <2>3. CASE TimeOut(r)
    BY <2>3, <1>0 DEF TimeOut, Sound, TypeOK
  <2>4. CASE FollowCut(r)
    BY <2>4, <1>0 DEF FollowCut, Leave, Sound, TypeOK
  <2> QED BY <2>1, <2>2, <2>3, <2>4, <1>6 DEF Follow
<1>7. ASSUME NEW v \in Viewers, View(v), r # v
      PROVE  at'[r] = at[r] /\ offset'[r] = offset[r] /\ UNCHANGED <<streamVars, jobDone>>
             /\ (r \in Viewers => alive'[r] = alive[r])
  <2>1. CASE ViewStarts(v)
    BY <2>1, <1>0, <1>7 DEF ViewStarts, Receive, Leave, Emit, Sound, TypeOK, flagVars
  <2>2. CASE ViewFeeds(v)
    BY <2>2, <1>0, <1>7 DEF ViewFeeds, ViewTurn, Receive, Leave, Emit, Sound, TypeOK, flagVars
  <2>3. CASE ViewKilled(v)
    BY <2>3, <1>0, <1>7 DEF ViewKilled, Poke, Sound, TypeOK, readVars
  <2>4. CASE ViewSuspended(v) \/ ViewResumed(v)
    BY <2>4, <1>0, <1>7 DEF ViewSuspended, ViewResumed, readVars
  <2> QED BY <2>1, <2>2, <2>3, <2>4, <1>7 DEF View
<1>8. ASSUME r \in Viewers, View(r)
      PROVE  ~jobDone' /\ alive'[r]
  <2>1. CASE ViewStarts(r)
    BY <2>1, <1>0, <1>8 DEF ViewStarts, Leave, Sound, TypeOK, flagVars
  <2>2. CASE ViewFeeds(r)
    BY <2>2, <1>0, <1>8 DEF ViewFeeds, ViewTurn, Leave, Sound, TypeOK, flagVars
  <2>3. CASE ViewKilled(r)
    BY <2>3, <1>0, <1>8 DEF ViewKilled, Poke, Sound, TypeOK
  <2>4. CASE ViewSuspended(r) \/ ViewResumed(r)
    BY <2>4, <1>0, <1>8 DEF ViewSuspended, ViewResumed
  <2> QED BY <2>1, <2>2, <2>3, <2>4, <1>8 DEF View
<1>9. CASE UNCHANGED vars
  BY <1>1, <1>9 DEF vars, readVars, flagVars
<1>10. CASE \E f \in Followers : Follow(f)
  <2>1. PICK f \in Followers : Follow(f)
    BY <1>10
  <2>2. CASE r = f
    <3>1. r \in Followers /\ r \notin Viewers
      BY <2>2, <1>0
    <3> QED BY <2>1, <2>2, <3>1, <1>2, <1>6
  <2>3. CASE r # f
    BY <2>1, <2>3, <1>1, <1>5
  <2> QED BY <2>2, <2>3
<1>11. CASE \E v \in Viewers : View(v)
  <2>1. PICK v \in Viewers : View(v)
    BY <1>11
  <2>2. CASE r = v
    BY <2>1, <2>2, <1>8
  <2>3. CASE r # v
    BY <2>1, <2>3, <1>1, <1>7
  <2> QED BY <2>2, <2>3
<1> QED BY <1>3, <1>4, <1>9, <1>10, <1>11 DEF Next

\* A parked follower has all the output of a job that runs, and a parked viewer is
\* of a job that runs: no hint of `poke` is lost between a drain and a sleep.
THEOREM NobodySleepsOverOutput == Spec => []SleepersMissNothing
<1>1. Init => StreamInv
  BY SoundAtFirst DEF StreamInv, SleepersMissNothing, Init
<1>2. StreamInv /\ [Next]_vars => StreamInv'
  BY SoundKeeps, SleepersKeep DEF StreamInv
<1>3. StreamInv => SleepersMissNothing
  BY DEF StreamInv
<1> QED BY <1>1, <1>2, <1>3, PTL DEF Spec

\* Who says the exit code has shown both streams to their end, unless it is a
\* viewer that is held: `_drain` and `_follow` look at `is_done` after they read.
THEOREM OutputComesBeforeTheEnd == Spec => TheEndComesLast
<1> DEFINE SaidLast(r) == said'[r] = "exit" /\ said[r] # "exit" =>
                        \/ r \in Viewers /\ held[r]
                        \/ \A s \in Streams : offset'[r][s] = End(s)
<1>1. ASSUME Sound, [Next]_vars, NEW r \in Readers PROVE SaidLast(r)
  <2>0. SUFFICES ASSUME said'[r] = "exit", said[r] # "exit", ~(r \in Viewers /\ held[r])
                 PROVE  \A s \in Streams : offset'[r][s] = End(s)
    OBVIOUS
  <2>1. ASSUME NEW f \in Followers, Follow(f) PROVE \A s \in Streams : offset'[r][s] = End(s)
    <3>0. CASE r # f
      BY <3>0, <2>0, <2>1, <1>1 DEF Follow, FollowStarts, FollowDrains, TimeOut, FollowCut, Leave, Sound, TypeOK
    <3>1. CASE r = f
      <4>1. CASE FollowStarts(r)
        BY <4>1, <1>1 DEF FollowStarts, Sound, TypeOK
      <4>2. CASE FollowDrains(r)
        BY <4>2, <1>1, EmitTakes DEF FollowDrains
      <4>3. CASE TimeOut(r) \/ FollowCut(r)
        BY <4>3, <2>0, <1>1 DEF TimeOut, FollowCut, Leave, Sound, TypeOK
      <4> QED BY <4>1, <4>2, <4>3, <3>1, <2>1 DEF Follow
    <3> QED BY <3>0, <3>1
  <2>2. ASSUME NEW v \in Viewers, View(v) PROVE \A s \in Streams : offset'[r][s] = End(s)
    <3>0. r = v
      BY <2>0, <2>2, <1>1 DEF View, ViewStarts, ViewFeeds, ViewTurn, ViewKilled, ViewSuspended, ViewResumed,
                              Leave, Sound, TypeOK
    <3>1. CASE ViewStarts(r)
      BY <3>1, <1>1, EmitTakes DEF ViewStarts
    <3>2. CASE ViewFeeds(r)
      <4>1. Emit(r)
        BY <3>0, <3>2, <2>0, <1>1 DEF ViewFeeds, ViewTurn, Leave, Sound, TypeOK
      <4> QED BY <4>1, <1>1, EmitTakes
    <3>3. CASE ViewKilled(r) \/ ViewSuspended(r) \/ ViewResumed(r)
      BY <3>3, <2>0 DEF ViewKilled, ViewSuspended, ViewResumed
    <3> QED BY <3>0, <3>1, <3>2, <3>3, <2>2 DEF View
  <2>3. CASE (\E s \in Streams, n \in Sizes : Land(s, n)) \/ Finish \/ UNCHANGED vars
    BY <2>0, <2>3 DEF Land, Finish, vars
  <2> QED BY <1>1, <2>1, <2>2, <2>3 DEF Next
<1>2. Sound /\ [Next]_vars => [\A r \in Readers : SaidLast(r)]_vars
  BY <1>1
<1>3. Spec => [][\A r \in Readers : SaidLast(r)]_vars
  BY <1>2, SoundAlways, PTL DEF Spec
<1> QED BY <1>3 DEF TheEndComesLast

-----------------------------------------------------------------------------
(* The steps of the code are steps of the promised tail. *)

\* The bytes of a row are those between its ends.
LEMMA RowHolds ==
  ASSUME NEW a \in Nat, NEW m \in Nat
  PROVE  Range(Row(a, m)) = a + 1..a + m
<1>1. Range(Row(a, m)) = {a + i : i \in 1..m}
  BY DEF Range, Row
<1>2. \A b \in a + 1..a + m : b - a \in 1..m /\ b = a + (b - a)
  OBVIOUS
<1> QED BY <1>1, <1>2

\* Joined pieces hold the bytes of each.
LEMMA JoinedHolds ==
  ASSUME NEW s \in Seq(Nat), NEW t \in Seq(Nat)
  PROVE  Range(s \o t) = Range(s) \cup Range(t)
<1> DEFINE j == s \o t
<1>1. /\ j \in Seq(Nat) /\ Len(j) = Len(s) + Len(t) /\ Len(s) \in Nat /\ Len(t) \in Nat
      /\ \A i \in 1..(Len(s) + Len(t)) : j[i] = IF i <= Len(s) THEN s[i] ELSE t[i - Len(s)]
  BY ConcatProperties
<1>2. DOMAIN s = 1..Len(s) /\ DOMAIN t = 1..Len(t) /\ DOMAIN j = 1..(Len(s) + Len(t))
  BY <1>1
<1> HIDE DEF j
<1>3. \A x \in Range(j) : x \in Range(s) \/ x \in Range(t)
  <2> SUFFICES ASSUME NEW i \in 1..(Len(s) + Len(t)) PROVE j[i] \in Range(s) \/ j[i] \in Range(t)
    BY <1>2 DEF Range
  <2>1. CASE i <= Len(s)
    <3>1. i \in 1..Len(s) /\ j[i] = s[i]
      BY <2>1, <1>1
    <3> QED BY <3>1, <1>2 DEF Range
  <2>2. CASE i > Len(s)
    <3>1. i - Len(s) \in 1..Len(t) /\ j[i] = t[i - Len(s)]
      BY <2>2, <1>1
    <3> QED BY <3>1, <1>2 DEF Range
  <2> QED BY <2>1, <2>2, <1>1
<1>4. \A i \in 1..Len(s) : s[i] \in Range(j)
  <2> TAKE i \in 1..Len(s)
  <2>1. i \in 1..(Len(s) + Len(t)) /\ j[i] = s[i]
    BY <1>1
  <2> QED BY <2>1, <1>2 DEF Range
<1>5. \A i \in 1..Len(t) : t[i] \in Range(j)
  <2> TAKE i \in 1..Len(t)
  <2>1. Len(s) + i \in 1..(Len(s) + Len(t)) /\ ~(Len(s) + i <= Len(s)) /\ (Len(s) + i) - Len(s) = i
    BY <1>1
  <2>2. j[Len(s) + i] = t[i]
    BY <2>1, <1>1
  <2> QED BY <2>1, <2>2, <1>2 DEF Range
<1>6. Range(s) \subseteq Range(j) /\ Range(t) \subseteq Range(j)
  BY <1>2, <1>4, <1>5 DEF Range
<1> QED BY <1>3, <1>6 DEF j

\* `land` and `_trim` land a piece on the promised tail, and leave the other one.
LEMMA LandMaps ==
  ASSUME Sound, NEW s \in Streams, NEW n \in Sizes, Land(s, n)
  PROVE  \A t \in Streams : TailStep(t)
<1>1. /\ (\A r \in Readers : Untouched(r)) /\ n \in Nat \ {0} /\ End(s)' = End(s) + n
      /\ \A t \in Streams \ {s} : End(t)' = End(t) /\ dropped'[t] = dropped[t]
  BY LandIs
<1>2. dropped'[s] = IF End(s) + n > dropped[s] + Keep THEN End(s) + n - Keep ELSE dropped[s]
  BY LandIs
<1>3. \A t \in Streams : /\ [r \in Readers |-> base[r][t]]' = [r \in Readers |-> base[r][t]]
                         /\ [r \in Readers |-> offset[r][t]]' = [r \in Readers |-> offset[r][t]]
                         /\ [r \in Readers |-> Range(got[r][t])]' = [r \in Readers |-> Range(got[r][t])]
  BY <1>1 DEF Untouched
<1>4. TailStep(s)
  <2>1. Stream(s)!Land(n)
    BY <1>1, <1>2, <1>3 DEF Stream!Land
  <2> QED BY <2>1 DEF TailStep
<1>5. \A t \in Streams \ {s} : TailStep(t)
  <2> TAKE t \in Streams \ {s}
  <2>1. UNCHANGED Stream(t)!vars
    BY <1>1, <1>3 DEF Stream!vars
  <2> QED BY <2>1 DEF TailStep
<1> QED BY <1>4, <1>5

\* Where no reader moves and no piece lands the promised tails stand still.
LEMMA StayMaps ==
  ASSUME UNCHANGED streamVars, \A r \in Readers : Untouched(r), NEW s \in Streams
  PROVE  TailStep(s)
<1>1. /\ [r \in Readers |-> base[r][s]]' = [r \in Readers |-> base[r][s]]
      /\ [r \in Readers |-> offset[r][s]]' = [r \in Readers |-> offset[r][s]]
      /\ [r \in Readers |-> Range(got[r][s])]' = [r \in Readers |-> Range(got[r][s])]
  BY DEF Untouched
<1>2. End(s)' = End(s) /\ dropped'[s] = dropped[s]
  BY DEF streamVars, End
<1>3. UNCHANGED Stream(s)!vars
  BY <1>1, <1>2 DEF Stream!vars
<1> QED BY <1>3 DEF TailStep

\* A turn of a reader joins it, gives it what is new, or moves nothing.
LEMMA TurnMaps ==
  ASSUME Sound, NEW r \in Readers, Turn(r), NEW s \in Streams
  PROVE  TailStep(s)
<1> DEFINE Base == [q \in Readers |-> base[q][s]]
           Offset == [q \in Readers |-> offset[q][s]]
           Seen == [q \in Readers |-> Range(got[q][s])]
<1>0. /\ Base' = [q \in Readers |-> base'[q][s]] /\ Offset' = [q \in Readers |-> offset'[q][s]]
      /\ Seen' = [q \in Readers |-> Range(got'[q][s])]
  OBVIOUS
<1>1. End(s)' = End(s) /\ dropped'[s] = dropped[s] /\ UNCHANGED streamVars
  BY DEF Turn, streamVars, End
<1>2. \A q \in Readers \ {r} : base'[q][s] = base[q][s] /\ offset'[q][s] = offset[q][s] /\ got'[q][s] = got[q][s]
  BY DEF Turn, Untouched
<1>3. TakenOf(r, s) /\ TailOf(s)
  BY DEF Sound, TakenInv, TailInv
<1>4. CASE Untouched(r)
  BY <1>1, <1>4, StayMaps DEF Turn
<1>5. CASE Joins(r)
  <2>1. got[r][s] = << >> /\ base[r][s] = offset[r][s]
    BY <1>3, <1>5 DEF TakenOf, Joins
  <2>2. base'[r][s] = End(s) /\ offset'[r][s] = End(s) /\ got'[r][s] = got[r][s]
    BY <1>5 DEF Joins
  <2>3. Seen[r] = {} /\ Base[r] = Offset[r]
    BY <2>1 DEF Range
  <2>4. Base' = [Base EXCEPT ![r] = End(s)] /\ Offset' = [Offset EXCEPT ![r] = End(s)] /\ Seen' = Seen
    BY <2>2, <1>0, <1>2
  <2>5. Stream(s)!Join(r)
    BY <2>3, <2>4, <1>1 DEF Stream!Join
  <2> QED BY <2>5 DEF TailStep
<1>6. CASE Takes(r)
  <2> DEFINE from == offset[r][s]
             a == Later(from, dropped[s])
             fresh == {b \in dropped[s] + 1..End(s) : b > from}
  <2>1. from \in Nat /\ from <= End(s) /\ dropped[s] \in Nat /\ End(s) \in Nat /\ got[r][s] \in Seq(Nat) /\ TypeOK
    BY <1>3 DEF TakenOf, Sound, TypeOK, End
  <2>2. Newer(s, from) = Row(a, End(s) - a) /\ a \in Nat /\ a <= End(s) /\ Newer(s, from) \in Seq(Nat)
    BY <2>1, <1>3, NewerIs, NewerType
  <2>3. Range(Newer(s, from)) = a + 1..End(s)
    <3>1. End(s) - a \in Nat /\ a + (End(s) - a) = End(s)
      BY <2>1, <2>2
    <3> HIDE DEF a
    <3>2. Range(Row(a, End(s) - a)) = a + 1..a + (End(s) - a)
      BY <3>1, <2>2, RowHolds
    <3> QED BY <3>1, <3>2, <2>2
  <2>4. fresh = a + 1..End(s)
    BY <2>1 DEF Later
  <2>5. base'[r][s] = base[r][s] /\ offset'[r][s] = End(s) /\ got'[r][s] = got[r][s] \o Newer(s, from)
    BY <1>6 DEF Takes
  <2>6. Range(got'[r][s]) = Range(got[r][s]) \cup fresh
    BY <2>1, <2>2, <2>3, <2>4, <2>5, JoinedHolds
  <2> HIDE DEF fresh
  <2>7. /\ Seen' = [Seen EXCEPT ![r] = @ \cup fresh]
        /\ Offset' = [Offset EXCEPT ![r] = End(s)] /\ Base' = Base
    BY <2>5, <2>6, <1>0, <1>2
  <2>8. Offset[r] = from
    OBVIOUS
  <2>9. Stream(s)!Read(r)
    BY <2>7, <2>8, <1>1 DEF Stream!Read, fresh
  <2> QED BY <2>9 DEF TailStep
<1> QED BY <1>4, <1>5, <1>6 DEF Turn, Only

\* Every step of the code is a step of both promised tails, or moves nothing.
LEMMA StepMaps == Sound /\ [Next]_vars => \A s \in Streams : TailStep(s)
<1> SUFFICES ASSUME Sound, [Next]_vars PROVE \A s \in Streams : TailStep(s)
  OBVIOUS
<1>1. Followers \subseteq Readers /\ Viewers \subseteq Readers
  BY DEF Readers
<1>2. \A f \in Followers : Follow(f) => \A s \in Streams : TailStep(s)
  BY <1>1, FollowersTurn, TurnMaps
<1>3. \A v \in Viewers : View(v) => \A s \in Streams : TailStep(s)
  BY <1>1, ViewersTurn, TurnMaps
<1> QED BY <1>2, <1>3, LandMaps, FinishIs, StutterKeeps, StayMaps DEF Next

\* A new job starts where the promised tail starts.
LEMMA InitMaps ==
  ASSUME Init, NEW s \in Streams
  PROVE  Stream(s)!Init
<1>1. End(s) = 0 /\ dropped[s] = 0
  BY DEF Init, End
<1>2. \A r \in Readers : base[r][s] = 0 /\ offset[r][s] = 0 /\ Range(got[r][s]) = {}
  BY DEF Init, Range
<1> QED BY <1>1, <1>2 DEF Stream!Init

\* The chunks of `land`, `_trim` and `Job.read` implement the tail of StreamTail,
\* for both streams and all their readers at once.
THEOREM ChunksKeepThePromise == Spec => StreamsAreTails
<1>1. Init => \A s \in Streams : Stream(s)!Init
  BY InitMaps
<1>2. Sound /\ [Next]_vars => [\A s \in Streams : TailStep(s)]_vars
  BY StepMaps
<1>3. Spec => [][\A s \in Streams : TailStep(s)]_vars
  BY <1>2, SoundAlways, PTL DEF Spec
<1>4. Spec => \A s \in Streams : Stream(s)!Init
  BY <1>1, PTL DEF Spec
<1> QED BY <1>3, <1>4 DEF StreamsAreTails

-----------------------------------------------------------------------------
(* What the promise gives. *)

\* A stream of a job, seen through its offsets, behaves as StreamTail does.
THEOREM EachStreamIsATail ==
  ASSUME NEW s \in Streams
  PROVE  Spec => Stream(s)!Spec
<1>1. Init => Stream(s)!Init
  BY InitMaps
<1>2. Sound /\ [Next]_vars => [Stream(s)!Next]_(Stream(s)!vars)
  <2> SUFFICES ASSUME Sound, [Next]_vars PROVE [Stream(s)!Next]_(Stream(s)!vars)
    OBVIOUS
  <2>1. TailStep(s)
    BY StepMaps
  <2>2. Sizes \subseteq Nat \ {0}
    BY StreamAssumption
  <2> QED BY <2>1, <2>2 DEF TailStep, Stream!Next
<1> QED BY <1>1, <1>2, SoundAlways, PTL DEF Spec, Stream!Spec

\* The promise, reader by reader.
Promise(s) ==
  /\ End(s) - dropped[s] <= Keep /\ (dropped[s] > 0 => End(s) - dropped[s] = Keep)
  /\ \A r \in Readers : \A b \in base[r][s] + 1..offset[r][s] : b \in Range(got[r][s]) \/ b <= dropped[s]
  /\ \A r \in Readers : Range(got[r][s]) \subseteq base[r][s] + 1..offset[r][s]

\* The promise holds of a new job.
LEMMA PromiseAtFirst ==
  ASSUME NEW s \in Streams, Stream(s)!Init, Sound
  PROVE  Promise(s)
<1>1. /\ End(s) = 0 /\ dropped[s] = 0
      /\ \A q \in Readers : base[q][s] = 0 /\ offset[q][s] = 0 /\ Range(got[q][s]) = {}
  BY DEF Stream!Init
<1> QED BY <1>1, StreamAssumption DEF Promise

\* A piece that lands keeps the promise.
LEMMA LandKeepsIt ==
  ASSUME NEW s \in Streams, Sound, Promise(s), NEW n \in Nat \ {0}, Stream(s)!Land(n)
  PROVE  Promise(s)'
<1>1. End(s) \in Nat /\ dropped[s] \in Nat /\ Keep \in Nat \ {0}
  BY StreamAssumption DEF Sound, TypeOK, End
<1>2. /\ End(s)' = End(s) + n
      /\ dropped'[s] = IF End(s) + n > dropped[s] + Keep THEN End(s) + n - Keep ELSE dropped[s]
      /\ \A q \in Readers : base'[q][s] = base[q][s] /\ offset'[q][s] = offset[q][s]
                            /\ Range(got'[q][s]) = Range(got[q][s])
  BY DEF Stream!Land
<1>3. dropped'[s] \in Nat /\ dropped[s] <= dropped'[s]
  BY <1>1, <1>2 DEF Promise
<1>4. \A q \in Readers : base[q][s] \in Nat /\ offset[q][s] \in Nat
  BY DEF Sound, TypeOK
<1> QED BY <1>1, <1>2, <1>3, <1>4 DEF Promise

\* A reader that joins keeps the promise.
LEMMA JoinKeepsIt ==
  ASSUME NEW s \in Streams, Sound, Promise(s), NEW r \in Readers, Stream(s)!Join(r)
  PROVE  Promise(s)'
<1>1. End(s) \in Nat /\ dropped[s] \in Nat
  BY DEF Sound, TypeOK, End
<1>2. /\ End(s)' = End(s) /\ dropped'[s] = dropped[s] /\ Range(got[r][s]) = {}
      /\ \A q \in Readers : /\ base'[q][s] = IF q = r THEN End(s) ELSE base[q][s]
                            /\ offset'[q][s] = IF q = r THEN End(s) ELSE offset[q][s]
                            /\ Range(got'[q][s]) = Range(got[q][s])
  BY DEF Stream!Join
<1> QED BY <1>1, <1>2 DEF Promise

\* A reader that reads keeps the promise.
LEMMA ReadKeepsIt ==
  ASSUME NEW s \in Streams, Sound, Promise(s), NEW r \in Readers, Stream(s)!Read(r)
  PROVE  Promise(s)'
<1>1. /\ End(s) \in Nat /\ dropped[s] \in Nat
      /\ base[r][s] \in Nat /\ offset[r][s] \in Nat /\ base[r][s] <= offset[r][s] /\ offset[r][s] <= End(s)
  BY DEF Sound, TypeOK, TakenInv, TakenOf, End
<1> DEFINE fresh == {b \in dropped[s] + 1..End(s) : b > offset[r][s]}
<1>2. /\ End(s)' = End(s) /\ dropped'[s] = dropped[s]
      /\ \A q \in Readers : base'[q][s] = base[q][s]
      /\ \A q \in Readers : offset'[q][s] = IF q = r THEN End(s) ELSE offset[q][s]
      /\ \A q \in Readers \ {r} : Range(got'[q][s]) = Range(got[q][s])
      /\ Range(got'[r][s]) = Range(got[r][s]) \cup fresh
  BY DEF Stream!Read
<1>3. \A b \in base[r][s] + 1..End(s) : b \in Range(got'[r][s]) \/ b <= dropped[s]
  <2> TAKE b \in base[r][s] + 1..End(s)
  <2>1. CASE b <= offset[r][s]
    BY <2>1, <1>1, <1>2 DEF Promise
  <2>2. CASE b > offset[r][s] /\ b > dropped[s]
    BY <2>2, <1>1, <1>2
  <2> QED BY <2>1, <2>2, <1>1
<1>4. Range(got'[r][s]) \subseteq base[r][s] + 1..End(s)
  BY <1>1, <1>2 DEF Promise
<1> HIDE DEF fresh
<1> QED BY <1>1, <1>2, <1>3, <1>4 DEF Promise

\* The promise holds in every behavior.
LEMMA PromiseHolds ==
  ASSUME NEW s \in Streams
  PROVE  Spec => []Promise(s)
<1>1. Sound /\ Promise(s) /\ [Next]_vars => Promise(s)'
  <2> SUFFICES ASSUME Sound, Promise(s), [Next]_vars PROVE Promise(s)'
    OBVIOUS
  <2>1. TailStep(s)
    BY StepMaps
  <2>2. Sizes \subseteq Nat \ {0}
    BY StreamAssumption
  <2>3. CASE UNCHANGED Stream(s)!vars
    <3>1. /\ End(s)' = End(s) /\ dropped'[s] = dropped[s]
          /\ \A q \in Readers : base'[q][s] = base[q][s] /\ offset'[q][s] = offset[q][s]
                                /\ Range(got'[q][s]) = Range(got[q][s])
      BY <2>3 DEF Stream!vars
    <3> QED BY <3>1 DEF Promise
  <2> QED BY <2>1, <2>2, <2>3, LandKeepsIt, JoinKeepsIt, ReadKeepsIt DEF TailStep
<1>2. Init => Promise(s)
  BY InitMaps, PromiseAtFirst, SoundAtFirst
<1> QED BY <1>1, <1>2, SoundAlways, PTL DEF Spec

\* A reader that passed a byte was given it, or the byte had fallen off the tail:
\* offsets that never move are enough to drain by.
THEOREM ReadersMissOnlyTheDropped ==
  ASSUME NEW s \in Streams
  PROVE  Spec => []Stream(s)!OnlyTheDroppedIsMissed
<1>1. Promise(s) => Stream(s)!OnlyTheDroppedIsMissed
  BY DEF Promise, Stream!OnlyTheDroppedIsMissed
<1> QED BY <1>1, PromiseHolds, PTL

\* What is kept is the last of what was written, and all of it until the cap.
THEOREM TheTailIsTheLast ==
  ASSUME NEW s \in Streams
  PROVE  Spec => []Stream(s)!TailIsTheLast
<1>1. Promise(s) => Stream(s)!TailIsTheLast
  BY DEF Promise, Stream!TailIsTheLast
<1> QED BY <1>1, PromiseHolds, PTL

\* A reader is given nothing from before it joined and nothing past its offset.
THEOREM ReadersSeeThePast ==
  ASSUME NEW s \in Streams
  PROVE  Spec => []Stream(s)!SeenIsPast
<1>1. Promise(s) => Stream(s)!SeenIsPast
  BY DEF Promise, Stream!SeenIsPast
<1> QED BY <1>1, PromiseHolds, PTL

\* A reader is given each byte once, and in the order in which it was written.
EmittedInOrder == \A r \in Readers, s \in Streams : Ascends(got[r][s])
THEOREM EachByteOnce == Spec => []EmittedInOrder
<1>1. Sound => EmittedInOrder
  BY DEF Sound, TakenInv, TakenOf, EmittedInOrder
<1> QED BY <1>1, SoundAlways, PTL
================================================================================
