----------------------------- MODULE CableProofs ------------------------------
(***************************************************************************)
(* The cables: their variables keep their types, no buffer overflows, a    *)
(* parallel port is taken for the cable that is there, and a device is     *)
(* used without a handle only after a failure was told.                    *)
(*                                                                         *)
(* First what the scripts, folds and buffers are made of, then the         *)
(* inductive invariant part by part, then that every step keeps each part, *)
(* and the theorems at the end.                                            *)
(***************************************************************************)
EXTENDS Cables, SequenceTheorems, InductionFacts, TLAPS

------------------------------------------------------------------------------
(***************************************************************************)
(* Sequences: what the operators that build the scripts return.            *)
(***************************************************************************)
LEMMA ConcatIn ==
  ASSUME NEW S, NEW a \in Seq(S), NEW b \in Seq(S)
  PROVE  a \o b \in Seq(S)
BY ConcatProperties

LEMMA TailIn ==
  ASSUME NEW S, NEW s \in Seq(S), s # <<>>
  PROVE  /\ Tail(s) \in Seq(S) /\ Head(s) \in S /\ Len(Tail(s)) = Len(s) - 1
         /\ \A x \in 1..Len(Tail(s)) : Tail(s)[x] = s[x + 1]
BY HeadTailProperties

LEMMA AppendIn ==
  ASSUME NEW S, NEW s \in Seq(S), NEW e \in S
  PROVE  /\ Append(s, e) \in Seq(S) /\ Len(Append(s, e)) = Len(s) + 1
         /\ Append(s, e)[Len(s) + 1] = e /\ \A x \in 1..Len(s) : Append(s, e)[x] = s[x]
BY AppendProperties

LEMMA Wider ==
  ASSUME NEW S, NEW T, S \subseteq T, NEW s \in Seq(S)
  PROVE  s \in Seq(T)
OBVIOUS

LEMMA IfIn ==
  ASSUME NEW S, NEW cond, NEW s, cond => s \in Seq(S)
  PROVE  If(cond, s) \in Seq(S)
BY DEF If

(* What holds of every part of a sequence of sequences, and of a \o b when *)
(* it does of a and of b, holds of them all in a row.                      *)
LEMMA FlattenClosed ==
  ASSUME NEW V, <<>> \in V, \A a, b \in V : a \o b \in V, NEW seqs \in Seq(V)
  PROVE  FlattenSeq(seqs) \in V
<1> DEFINE n == Len(seqs)
           F == [k \in 1..n |-> [v \in V |-> IF k = 1 THEN seqs[k] ELSE v \o seqs[k]]]
           Eq(h) == h = [i \in 1..n |-> IF i = 1 THEN seqs[i] ELSE h[i - 1] \o seqs[i]]
<1>1. CASE seqs = <<>>
  <2>1. FlattenSeq(seqs) = seqs  BY <1>1 DEF FlattenSeq
  <2>2. QED  BY <1>1, <2>1
<1>2. CASE seqs # <<>>
  <2>1. n \in Nat \ {0} /\ <<>> \in V /\ \A k \in 1..n : seqs[k] \in V
    BY <1>2
  <2>2. \A k \in 1..n : \A v \in V : F[k][v] = (IF k = 1 THEN seqs[k] ELSE v \o seqs[k]) /\ F[k][v] \in V
    BY <2>1
  <2>3. PICK g \in [SUBSET (1..n) -> V] : IsFold(g, n, <<>>, F)
    <3> HIDE DEF n, F
    <3> QED  BY <2>1, <2>2, FoldExists
  <2> DEFINE h == [i \in 1..n |-> g[1..i]]
  <2>4. ASSUME NEW i \in 1..n
        PROVE  h[i] = IF i = 1 THEN seqs[i] ELSE h[i - 1] \o seqs[i]
    <3>1. 1..i \in SUBSET (1..n) /\ 1..i # {} /\ i \in Nat /\ Max(1..i) = i  BY <2>1, Prefix
    <3>2. Max(1..i) = i  BY <3>1
    <3>3. (1..i) \ {i} = 1..(i - 1) /\ 1..(i - 1) \in SUBSET (1..n)
      BY <3>1
    <3>4. g[1..i] = F[i][g[1..(i - 1)]] /\ g[1..(i - 1)] \in V
      <4> HIDE DEF F
      <4> QED  BY <2>3, <3>1, <3>2, <3>3 DEF IsFold
    <3>5. h[i] = IF i = 1 THEN seqs[i] ELSE g[1..(i - 1)] \o seqs[i]
      <4>1. h[i] = g[1..i]  OBVIOUS
      <4> HIDE DEF h, F
      <4>2. QED  BY <3>4, <2>2, <4>1
    <3>6. i # 1 => h[i - 1] = g[1..(i - 1)]
      BY <3>1
    <3> HIDE DEF h
    <3>7. QED  BY <3>5, <3>6
  <2>5. h = [i \in 1..n |-> IF i = 1 THEN seqs[i] ELSE h[i - 1] \o seqs[i]]
    <3>1. h = [i \in 1..n |-> h[i]]  OBVIOUS
    <3> HIDE DEF h
    <3>2. QED  BY <3>1, <2>4
  <2>6. Eq(CHOOSE f : Eq(f))
    <3> HIDE DEF h
    <3> QED  BY <2>5
  <2>7. FlattenSeq(seqs) = (CHOOSE f : Eq(f))[n]
    BY <2>1, <1>2 DEF FlattenSeq
  <2> DEFINE f == CHOOSE z : Eq(z)
             T == {s \in SUBSET (1..n) : \A i \in 1..n : s = 1..i => f[i] \in V}
  <2>8. {} \in T
    <3>1. \A i \in 1..n : {} # 1..i  BY <2>1, Prefix
    <3>2. QED  BY <3>1
  <2>9. ASSUME NEW s \in SUBSET (1..n), s # {}, s \ {Max(s)} \in T
        PROVE  s \in T
    <3>1. SUFFICES ASSUME NEW i \in 1..n, s = 1..i PROVE f[i] \in V
      OBVIOUS
    <3>2. 1..i \in SUBSET (1..n) /\ 1..i # {} /\ i \in Nat /\ Max(1..i) = i  BY <2>1, Prefix
    <3>3. Max(1..i) = i  BY <3>2
    <3>4. (1..i) \ {i} = 1..(i - 1)
      BY <3>2
    <3>5. i # 1 => f[i - 1] \in V
      <4>1. s \ {Max(s)} = 1..(i - 1)  BY <3>1, <3>3, <3>4
      <4>2. i # 1 => i - 1 \in 1..n  BY <3>2
      <4> HIDE DEF f
      <4>3. QED  BY <4>1, <4>2, <2>9
    <3>6. f[i] = IF i = 1 THEN seqs[i] ELSE f[i - 1] \o seqs[i]
      <4> HIDE DEF f
      <4>1. Eq(f)  BY <2>6 DEF f
      <4>2. QED  BY <4>1
    <3> HIDE DEF f
    <3>7. QED  BY <3>5, <3>6, <2>1
  <2>10. 1..n \in T
    <3> HIDE DEF T
    <3>1. \A s \in SUBSET (1..n) : s \in T  BY <2>1, <2>8, <2>9, FoldInduction
    <3>2. QED  BY <3>1
  <2>11. f[n] \in V
    <3> HIDE DEF f
    <3> QED  BY <2>10, <2>1
  <2>12. QED  BY <2>7, <2>11
<1>3. QED  BY <1>1, <1>2

LEMMA FlattenIn ==
  ASSUME NEW S, NEW seqs \in Seq(Seq(S))
  PROVE  FlattenSeq(seqs) \in Seq(S)
<1> DEFINE V == Seq(S)
<1>1. <<>> \in V /\ (\A a, b \in V : a \o b \in V) /\ seqs \in Seq(V)
  BY ConcatIn
<1> HIDE DEF V
<1>2. FlattenSeq(seqs) \in V  BY <1>1, FlattenClosed
<1>3. QED  BY <1>2 DEF V

------------------------------------------------------------------------------
(***************************************************************************)
(* The data: edges, captured bits, answers.                                *)
(***************************************************************************)
RunKinds == {"none", "data", "last", "tms", "idle"}
Captured == [at : Int, call : Nat, from : Int, n : Nat \ {0}]
Seen(k) == [call : 1..k, kind : RunKinds, from : Int, n : Nat \ {0}]
Answers == {a \in [call : Nat, from : Int, bits : Nat, bytes : Nat] : 8 * a.bytes <= a.bits + 8}

LEMMA JoinIn ==
  ASSUME NEW k \in Nat, NEW w \in Seq(Seen(k)),
         NEW r \in [call : 1..k, kind : RunKinds, from : Int, n : Nat]
  PROVE  Join(w, r) \in Seq(Seen(k))
<1>1. CASE r.n = 0
  BY <1>1 DEF Join
<1>2. CASE r.n # 0 /\ w # <<>> /\ Continues(w[Len(w)], r)
  <2>1. Len(w) \in 1..Len(w) /\ w[Len(w)] \in Seen(k)
    BY <1>2
  <2>2. ASSUME NEW e \in Seen(k) PROVE [e EXCEPT !.n = @ + r.n] \in Seen(k)
    <3>1. e.n + r.n \in Nat \ {0}  BY DEF Seen
    <3>2. \A v \in Nat \ {0} : [e EXCEPT !.n = v] \in Seen(k)  BY DEF Seen
    <3>3. QED  BY <3>1, <3>2
  <2>3. Join(w, r) = [w EXCEPT ![Len(w)] = [w[Len(w)] EXCEPT !.n = @ + r.n]]
    BY <1>2, <2>1 DEF Join
  <2>4. QED  BY <2>1, <2>2, <2>3
<1>3. CASE r.n # 0 /\ ~(w # <<>> /\ Continues(w[Len(w)], r))
  <2>1. r \in Seen(k)  BY <1>3 DEF Seen
  <2>2. QED  BY <1>3, <2>1, AppendIn DEF Join
<1>4. QED  BY <1>1, <1>2, <1>3

LEMMA PlaceIn ==
  ASSUME NEW g \in Seq(Captured), NEW p \in [at : Int, call : Nat, from : Int, n : Nat]
  PROVE  Place(g, p) \in Seq(Captured)
<1> DEFINE Goes == /\ g # <<>> /\ g[Len(g)].call = p.call
                   /\ g[Len(g)].at + g[Len(g)].n = p.at
                   /\ g[Len(g)].from + g[Len(g)].n = p.from
<1>1. CASE p.n = 0
  BY <1>1 DEF Place
<1>2. CASE p.n # 0 /\ Goes
  <2>1. Len(g) \in 1..Len(g) /\ g[Len(g)] \in Captured
    BY <1>2
  <2>2. ASSUME NEW e \in Captured PROVE [e EXCEPT !.n = @ + p.n] \in Captured
    <3>1. e.n + p.n \in Nat \ {0}  BY DEF Captured
    <3>2. \A v \in Nat \ {0} : [e EXCEPT !.n = v] \in Captured  BY DEF Captured
    <3>3. QED  BY <3>1, <3>2
  <2>3. Place(g, p) = [g EXCEPT ![Len(g)] = [g[Len(g)] EXCEPT !.n = @ + p.n]]
    BY <1>2, <2>1 DEF Place
  <2>4. QED  BY <2>1, <2>2, <2>3
<1>3. CASE p.n # 0 /\ ~Goes
  <2>1. p \in Captured  BY <1>3 DEF Captured
  <2>2. Place(g, p) = Append(g, p)  BY <1>3 DEF Place
  <2>3. QED  BY <2>1, <2>2, AppendIn
<1>4. QED  BY <1>1, <1>2, <1>3

(* What the chip has to offer.                                             *)
LEMMA AvailableNat ==
  ASSUME fifo \in Seq(Answers)
  PROVE  Available \in Nat
<1> DEFINE n == Len(fifo)
           V == Nat
           F == [k \in 1..n |-> [v \in V |-> v + fifo[k].bytes]]
           Eq(g) == g = [s \in SUBSET (1..n) |->
                           IF s = {} THEN 0 ELSE g[s \ {Max(s)}] + fifo[Max(s)].bytes]
<1>1. n \in Nat /\ 0 \in V /\ DOMAIN fifo = 1..n
  OBVIOUS
<1>2. \A k \in 1..n : \A v \in V : F[k][v] = v + fifo[k].bytes /\ F[k][v] \in V
  <2>1. \A k \in 1..n : fifo[k].bytes \in Nat  BY DEF Answers
  <2>2. QED  BY <2>1
<1>3. PICK g \in [SUBSET (1..n) -> V] : IsFold(g, n, 0, F)
  <2> HIDE DEF n, V, F
  <2> QED  BY <1>1, <1>2, FoldExists
<1>4. Eq(g)
  <2>1. ASSUME NEW s \in SUBSET (1..n)
        PROVE  g[s] = IF s = {} THEN 0 ELSE g[s \ {Max(s)}] + fifo[Max(s)].bytes
    <3>1. s # {} => Max(s) \in 1..n /\ g[s \ {Max(s)}] \in V  BY <1>1, MaxPicks
    <3> HIDE DEF V, F
    <3>2. QED  BY <3>1, <1>2, <1>3 DEF IsFold
  <2>2. g = [s \in SUBSET (1..n) |-> g[s]]  OBVIOUS
  <2>3. QED  BY <2>1, <2>2
<1>5. Eq(CHOOSE h : Eq(h))
  BY <1>4
<1> DEFINE f == CHOOSE h : Eq(h)
<1>6. Available = f[1..n]
  BY <1>1 DEF Available, FoldLeft, MapThenFoldSet
<1>7. Follows(f, n, V, 0, F)
  <2> HIDE DEF f
  <2>1. Eq(f)  BY <1>5 DEF f
  <2>2. \A s \in SUBSET (1..n) : s # {} => Max(s) \in 1..n  BY <1>1, MaxPicks
  <2> HIDE DEF V, F
  <2>3. QED  BY <2>1, <2>2, <1>2 DEF Follows
<1>8. f[1..n] \in V
  <2> HIDE DEF f, n, V, F
  <2> QED  BY <1>1, <1>2, <1>7, FoldLands
<1>9. QED  BY <1>6, <1>8

(* The first bytes of the answers: what is taken, and what is left.        *)
Took == [m : Nat, at : Int, got : Seq(Captured), rest : Seq(Answers)]
TakeOne(acc0, a) ==
  LET n == IF a.bytes <= acc0.m THEN a.bytes ELSE acc0.m
      bits == IF n = a.bytes THEN a.bits ELSE 8 * n
  IN  [m |-> acc0.m - n,
       at |-> acc0.at + bits,
       got |-> Place(acc0.got, Placed(acc0.at, a.call, a.from, bits)),
       rest |-> IF n = a.bytes THEN acc0.rest
                ELSE Append(acc0.rest, [a EXCEPT !.from = @ + bits, !.bits = @ - bits,
                                                 !.bytes = @ - n])]

LEMMA TakeOneIn ==
  ASSUME NEW t \in Took, NEW a \in Answers
  PROVE  TakeOne(t, a) \in Took
<1> DEFINE n == IF a.bytes <= t.m THEN a.bytes ELSE t.m
           bits == IF n = a.bytes THEN a.bits ELSE 8 * n
           left == [a EXCEPT !.from = @ + bits, !.bits = @ - bits, !.bytes = @ - n]
<1>1. /\ t.m \in Nat /\ t.at \in Int /\ t.got \in Seq(Captured) /\ t.rest \in Seq(Answers)
      /\ a.call \in Nat /\ a.from \in Int /\ a.bits \in Nat /\ a.bytes \in Nat
      /\ 8 * a.bytes <= a.bits + 8
  BY DEF Took, Answers
<1>2. /\ n \in Nat /\ bits \in Nat /\ t.m - n \in Nat /\ n <= a.bytes
      /\ n # a.bytes => a.bits - bits \in Nat /\ 8 * (a.bytes - n) <= (a.bits - bits) + 8
  <2>1. CASE a.bytes <= t.m
    <3>1. n = a.bytes /\ bits = a.bits  BY <2>1
    <3> HIDE DEF n, bits
    <3>2. QED  BY <1>1, <2>1, <3>1
  <2>2. CASE ~(a.bytes <= t.m)
    <3>1. n = t.m /\ n # a.bytes /\ bits = 8 * n  BY <2>2, <1>1
    <3> HIDE DEF n, bits
    <3>2. n \in Nat /\ n + 1 <= a.bytes  BY <1>1, <2>2, <3>1
    <3>3. \A x \in Nat, y \in Nat, z \in Nat :
            x + 1 <= y /\ 8 * y <= z + 8
              => z - 8 * x \in Nat /\ 8 * (y - x) <= (z - 8 * x) + 8 /\ x <= y
      OBVIOUS
    <3>4. a.bits - 8 * n \in Nat /\ 8 * (a.bytes - n) <= (a.bits - 8 * n) + 8 /\ n <= a.bytes
      BY <3>2, <3>3, <1>1
    <3>5. t.m - n \in Nat /\ bits \in Nat  BY <1>1, <3>1
    <3>6. QED  BY <3>1, <3>2, <3>4, <3>5
  <2>3. QED  BY <2>1, <2>2
<1>3. Place(t.got, Placed(t.at, a.call, a.from, bits)) \in Seq(Captured)
  <2> HIDE DEF bits
  <2>1. Placed(t.at, a.call, a.from, bits) \in [at : Int, call : Nat, from : Int, n : Nat]
    BY <1>1, <1>2 DEF Placed
  <2>2. QED  BY <2>1, <1>1, PlaceIn
<1>4. n # a.bytes => left \in Answers
  <2> HIDE DEF bits, n
  <2>1. a \in [call : Nat, from : Int, bits : Nat, bytes : Nat]  BY DEF Answers
  <2>2. n # a.bytes => /\ a.from + bits \in Int /\ a.bits - bits \in Nat /\ a.bytes - n \in Nat
    <3>1. a.from + bits \in Int  BY <1>1, <1>2
    <3>2. a.bytes - n \in Nat  BY <1>1, <1>2
    <3>3. QED  BY <3>1, <3>2, <1>2
  <2>3. n # a.bytes => left \in [call : Nat, from : Int, bits : Nat, bytes : Nat]
    <3>1. left = [a EXCEPT !.from = a.from + bits, !.bits = a.bits - bits,
                           !.bytes = a.bytes - n]
      OBVIOUS
    <3>2. \A x \in Int, y \in Nat, z \in Nat :
             [a EXCEPT !.from = x, !.bits = y, !.bytes = z]
               \in [call : Nat, from : Int, bits : Nat, bytes : Nat]
      BY <2>1
    <3> HIDE DEF left
    <3>3. QED  BY <2>2, <3>1, <3>2
  <2>4. left.bits = a.bits - bits /\ left.bytes = a.bytes - n  BY <2>1
  <2>5. QED  BY <2>3, <2>4, <1>2 DEF Answers
<1>5. (IF n = a.bytes THEN t.rest ELSE Append(t.rest, left)) \in Seq(Answers)
  <2> HIDE DEF left, bits, n
  <2> QED  BY <1>1, <1>4, AppendIn
<1>6. TakeOne(t, a) =
        [m |-> t.m - n, at |-> t.at + bits,
         got |-> Place(t.got, Placed(t.at, a.call, a.from, bits)),
         rest |-> IF n = a.bytes THEN t.rest ELSE Append(t.rest, left)]
  BY DEF TakeOne
<1> HIDE DEF n, bits, left
<1>7. t.at + bits \in Int  BY <1>1, <1>2
<1>8. QED  BY <1>2, <1>3, <1>5, <1>6, <1>7 DEF Took

LEMMA TakeBytesIn ==
  ASSUME NEW m \in Nat, fifo \in Seq(Answers), got \in Seq(Captured), Op.at + put \in Int
  PROVE  TakeBytes(m) \in Took
<1> DEFINE n == Len(fifo)
           V == Took
           base == [m |-> m, at |-> Op.at + put, got |-> got, rest |-> <<>>]
           F == [k \in 1..n |-> [v \in V |-> TakeOne(v, fifo[k])]]
           Eq(g) == g = [s \in SUBSET (1..n) |->
                           IF s = {} THEN base ELSE TakeOne(g[s \ {Max(s)}], fifo[Max(s)])]
<1>1. n \in Nat /\ base \in V /\ DOMAIN fifo = 1..n
  BY DEF Took
<1>2. \A k \in 1..n : \A v \in V : F[k][v] = TakeOne(v, fifo[k]) /\ F[k][v] \in V
  BY TakeOneIn
<1>3. PICK g \in [SUBSET (1..n) -> V] : IsFold(g, n, base, F)
  <2> HIDE DEF n, V, F, base
  <2> QED  BY <1>1, <1>2, FoldExists
<1>4. Eq(g)
  <2>1. ASSUME NEW s \in SUBSET (1..n)
        PROVE  g[s] = IF s = {} THEN base ELSE TakeOne(g[s \ {Max(s)}], fifo[Max(s)])
    <3>1. s # {} => Max(s) \in 1..n /\ g[s \ {Max(s)}] \in V  BY <1>1, MaxPicks
    <3> HIDE DEF V, F, base
    <3>2. QED  BY <3>1, <1>2, <1>3 DEF IsFold
  <2>2. g = [s \in SUBSET (1..n) |-> g[s]]  OBVIOUS
  <2> HIDE DEF base
  <2>3. QED  BY <2>1, <2>2
<1>5. Eq(CHOOSE h : Eq(h))
  <2> HIDE DEF base
  <2> QED  BY <1>4
<1> DEFINE f == CHOOSE h : Eq(h)
<1>6. TakeBytes(m) = f[1..n]
  BY <1>1 DEF TakeBytes, FoldLeft, MapThenFoldSet, TakeOne
<1>7. Follows(f, n, V, base, F)
  <2> HIDE DEF f
  <2>1. Eq(f)  BY <1>5 DEF f
  <2>2. \A s \in SUBSET (1..n) : s # {} => Max(s) \in 1..n  BY <1>1, MaxPicks
  <2> HIDE DEF V, F, base
  <2>3. QED  BY <2>1, <2>2, <1>2 DEF Follows
<1>8. f[1..n] \in V
  <2> HIDE DEF f, n, V, F, base
  <2> QED  BY <1>1, <1>2, <1>7, FoldLands
<1>9. QED  BY <1>6, <1>8

(* A byte of captured bits is moved to its place in the buffer.             *)
PlaceOne(g0, p, x) == Place(g0, [p EXCEPT !.at = @ + x])

LEMMA PlaceOneIn ==
  ASSUME NEW g0 \in Seq(Captured), NEW p \in Captured, NEW x \in Int
  PROVE  PlaceOne(g0, p, x) \in Seq(Captured)
<1>1. p.at + x \in Int  BY DEF Captured
<1>2. \A y \in Int : [p EXCEPT !.at = y] \in [at : Int, call : Nat, from : Int, n : Nat]
  BY DEF Captured
<1>3. [p EXCEPT !.at = @ + x] \in [at : Int, call : Nat, from : Int, n : Nat]
  BY <1>1, <1>2
<1>4. QED  BY <1>3, PlaceIn DEF PlaceOne

LEMMA StoreIn ==
  ASSUME StoreByte, acc \in Seq(Captured), got \in Seq(Captured), Op.at \in Int
  PROVE  got' \in Seq(Captured)
<1> DEFINE n == Len(acc)
           V == Seq(Captured)
           base == got
           F == [k \in 1..n |-> [v \in V |-> PlaceOne(v, acc[k], Op.at)]]
           Eq(g) == g = [s \in SUBSET (1..n) |->
                           IF s = {} THEN base ELSE PlaceOne(g[s \ {Max(s)}], acc[Max(s)], Op.at)]
<1>1. n \in Nat /\ base \in V /\ DOMAIN acc = 1..n
  OBVIOUS
<1>2. \A k \in 1..n : \A v \in V : F[k][v] = PlaceOne(v, acc[k], Op.at) /\ F[k][v] \in V
  <2>1. \A k \in 1..n : acc[k] \in Captured  OBVIOUS
  <2>2. QED  BY <2>1, PlaceOneIn
<1>3. PICK g \in [SUBSET (1..n) -> V] : IsFold(g, n, base, F)
  <2> HIDE DEF n, V, F, base
  <2> QED  BY <1>1, <1>2, FoldExists
<1>4. Eq(g)
  <2>1. ASSUME NEW s \in SUBSET (1..n)
        PROVE  g[s] = IF s = {} THEN base ELSE PlaceOne(g[s \ {Max(s)}], acc[Max(s)], Op.at)
    <3>1. s # {} => Max(s) \in 1..n /\ g[s \ {Max(s)}] \in V  BY <1>1, MaxPicks
    <3> HIDE DEF V, F, base
    <3>2. QED  BY <3>1, <1>2, <1>3 DEF IsFold
  <2>2. g = [s \in SUBSET (1..n) |-> g[s]]  OBVIOUS
  <2> HIDE DEF base
  <2>3. QED  BY <2>1, <2>2
<1>5. Eq(CHOOSE h : Eq(h))
  <2> HIDE DEF base
  <2> QED  BY <1>4
<1> DEFINE f == CHOOSE h : Eq(h)
<1>6. got' = f[1..n]
  BY <1>1 DEF StoreByte, FoldLeft, MapThenFoldSet, PlaceOne
<1>7. Follows(f, n, V, base, F)
  <2> HIDE DEF f
  <2>1. Eq(f)  BY <1>5 DEF f
  <2>2. \A s \in SUBSET (1..n) : s # {} => Max(s) \in 1..n  BY <1>1, MaxPicks
  <2> HIDE DEF V, F, base
  <2>3. QED  BY <2>1, <2>2, <1>2 DEF Follows
<1>8. f[1..n] \in V
  <2> HIDE DEF f, n, V, F, base
  <2> QED  BY <1>1, <1>2, <1>7, FoldLands
<1>9. QED  BY <1>6, <1>8

MaskOne(g0, b, x, h) ==
  IF b \in Mask(x % 8) THEN Place(g0, Placed(8 * (x \div 8) + b, h, x, 1)) ELSE g0

LEMMA MaskOneIn ==
  ASSUME NEW g0 \in Seq(Captured), NEW b \in Int, NEW x \in Int, NEW h \in Nat
  PROVE  MaskOne(g0, b, x, h) \in Seq(Captured)
<1>1. Placed(8 * (x \div 8) + b, h, x, 1) \in [at : Int, call : Nat, from : Int, n : Nat]
  BY DEF Placed
<1>2. QED  BY <1>1, PlaceIn DEF MaskOne

LEMMA MaskIn ==
  ASSUME CaptureMask, got \in Seq(Captured), Op.bit \in Int, Here \in Nat
  PROVE  got' \in Seq(Captured)
<1> DEFINE n == 3
           V == Seq(Captured)
           base == got
           F == [k \in 1..n |-> [v \in V |-> MaskOne(v, <<0, 1, 2>>[k], Op.bit, Here)]]
           Eq(g) == g = [s \in SUBSET (1..n) |->
                           IF s = {} THEN base ELSE MaskOne(g[s \ {Max(s)}], <<0, 1, 2>>[Max(s)], Op.bit, Here)]
<1>1. n \in Nat /\ base \in V /\ DOMAIN <<0, 1, 2>> = 1..n
  OBVIOUS
<1>2. \A k \in 1..n : \A v \in V : F[k][v] = MaskOne(v, <<0, 1, 2>>[k], Op.bit, Here) /\ F[k][v] \in V
  <2>1. \A k \in 1..n : <<0, 1, 2>>[k] \in Int  OBVIOUS
  <2>2. QED  BY <2>1, MaskOneIn
<1>3. PICK g \in [SUBSET (1..n) -> V] : IsFold(g, n, base, F)
  <2> HIDE DEF n, V, F, base
  <2> QED  BY <1>1, <1>2, FoldExists
<1>4. Eq(g)
  <2>1. ASSUME NEW s \in SUBSET (1..n)
        PROVE  g[s] = IF s = {} THEN base ELSE MaskOne(g[s \ {Max(s)}], <<0, 1, 2>>[Max(s)], Op.bit, Here)
    <3>1. s # {} => Max(s) \in 1..n /\ g[s \ {Max(s)}] \in V  BY <1>1, MaxPicks
    <3> HIDE DEF V, F, base
    <3>2. QED  BY <3>1, <1>2, <1>3 DEF IsFold
  <2>2. g = [s \in SUBSET (1..n) |-> g[s]]  OBVIOUS
  <2> HIDE DEF base
  <2>3. QED  BY <2>1, <2>2
<1>5. Eq(CHOOSE h : Eq(h))
  <2> HIDE DEF base
  <2> QED  BY <1>4
<1> DEFINE f == CHOOSE h : Eq(h)
<1>6. got' = f[1..n]
  BY <1>1 DEF CaptureMask, FoldLeft, MapThenFoldSet, MaskOne
<1>7. Follows(f, n, V, base, F)
  <2> HIDE DEF f
  <2>1. Eq(f)  BY <1>5 DEF f
  <2>2. \A s \in SUBSET (1..n) : s # {} => Max(s) \in 1..n  BY <1>1, MaxPicks
  <2> HIDE DEF V, F, base
  <2>3. QED  BY <2>1, <2>2, <1>2 DEF Follows
<1>8. f[1..n] \in V
  <2> HIDE DEF f, n, V, F, base
  <2> QED  BY <1>1, <1>2, <1>7, FoldLands
<1>9. QED  BY <1>6, <1>8

------------------------------------------------------------------------------
(***************************************************************************)
(* The buffer of commands.                                                 *)
(***************************************************************************)
LEMMA HeldIs ==
  ASSUME NEW n \in Nat, NEW buf, DOMAIN buf = 1..n, \A x \in 1..n : Size(buf[x]) \in Nat
  PROVE  \E f : Sums(f, 1..n, [x \in 1..n |-> Size(buf[x])]) /\ Held(buf) = f[1..n]
<1> DEFINE S == 1..n
           w == [x \in S |-> Size(buf[x])]
           Eq(g) == g = [s \in SUBSET S |->
                           IF s = {} THEN 0 ELSE g[s \ {Some(s)}] + Size(buf[Some(s)])]
<1>1. IsFiniteSet(S) /\ \A x \in S : w[x] = Size(buf[x]) /\ w[x] \in Nat
  BY FS_Interval
<1>2. PICK g \in [SUBSET S -> Nat] : Sums(g, S, w)
  <2> HIDE DEF S, w
  <2> QED  BY <1>1, SumExists
<1>3. \A s \in SUBSET S : s # {} => Some(s) \in S
  BY DEF Some
<1>4. Eq(g)
  <2>1. g = [s \in SUBSET S |-> g[s]]  OBVIOUS
  <2> HIDE DEF S, w
  <2>2. \A s \in SUBSET S : g[s] = IF s = {} THEN 0 ELSE g[s \ {Some(s)}] + Size(buf[Some(s)])
    BY <1>1, <1>2, <1>3 DEF Sums
  <2>3. QED  BY <2>1, <2>2
<1>5. Eq(CHOOSE h : Eq(h))
  BY <1>4
<1> DEFINE f == CHOOSE h : Eq(h)
<1>6. Held(buf) = f[S]
  BY DEF Held, FoldFunction, FoldFunctionOnSet, MapThenFoldSet, Some
<1>7. Sums(f, S, w)
  <2> HIDE DEF f
  <2>1. Eq(f)  BY <1>5 DEF f
  <2> HIDE DEF S, w
  <2>2. QED  BY <2>1, <1>1, <1>3 DEF Sums
<1> HIDE DEF f
<1>8. QED  BY <1>6, <1>7

LEMMA HeldEmpty == Held(<<>>) = 0
<1> DEFINE buf == <<>>
<1>1. 0 \in Nat /\ DOMAIN buf = 1..0 /\ \A x \in 1..0 : Size(buf[x]) \in Nat
  OBVIOUS
<1>2. PICK f : Sums(f, 1..0, [x \in 1..0 |-> Size(buf[x])]) /\ Held(buf) = f[1..0]
  <2> HIDE DEF buf
  <2> QED  BY <1>1, HeldIs
<1>3. 1..0 = {}  OBVIOUS
<1>4. f[1..0] = 0
  BY <1>2, <1>3 DEF Sums
<1>5. QED  BY <1>2, <1>4

LEMMA HeldAppend ==
  ASSUME NEW S, NEW buf \in Seq(S), NEW it \in S, \A e \in S : Size(e) \in Nat
  PROVE  Held(Append(buf, it)) = Held(buf) + Size(it) /\ Held(buf) \in Nat
<1> DEFINE n == Len(buf)
           more == Append(buf, it)
           w == [x \in 1..n |-> Size(buf[x])]
           v == [x \in 1..(n + 1) |-> Size(more[x])]
<1>1. /\ n \in Nat /\ n + 1 \in Nat /\ DOMAIN buf = 1..n /\ DOMAIN more = 1..(n + 1)
      /\ more[n + 1] = it /\ \A x \in 1..n : more[x] = buf[x] /\ buf[x] \in S
  BY AppendIn
<1>2. \A x \in 1..(n + 1) : Size(more[x]) \in Nat
  <2> SUFFICES ASSUME NEW x \in 1..(n + 1) PROVE Size(more[x]) \in Nat
    OBVIOUS
  <2>1. x = n + 1 \/ x \in 1..n  BY <1>1
  <2> HIDE DEF more, n
  <2>2. QED  BY <2>1, <1>1
<1>3. PICK g : Sums(g, 1..n, w) /\ Held(buf) = g[1..n]
  <2>1. \A x \in 1..n : Size(buf[x]) \in Nat  OBVIOUS
  <2> HIDE DEF n
  <2>2. QED  BY <1>1, <2>1, HeldIs
<1>4. PICK h : Sums(h, 1..(n + 1), v) /\ Held(more) = h[1..(n + 1)]
  <2> HIDE DEF n, more
  <2>2. QED  BY <1>1, <1>2, HeldIs
<1>5. /\ IsFiniteSet(1..n) /\ IsFiniteSet(1..(n + 1)) /\ 1..n \subseteq 1..(n + 1)
      /\ n + 1 \in 1..(n + 1) /\ (1..(n + 1)) \ {n + 1} = 1..n
  <2> HIDE DEF n
  <2>1. n \in Nat /\ 1 \in Int /\ n \in Int /\ n + 1 \in Int  BY <1>1
  <2>2. IsFiniteSet(1..n) /\ IsFiniteSet(1..(n + 1))  BY <2>1, FS_Interval
  <2>3. \A x \in 1..(n + 1) : x = n + 1 \/ x \in 1..n  BY <2>1
  <2>4. 1..n \subseteq 1..(n + 1) /\ n + 1 \in 1..(n + 1) /\ n + 1 \notin 1..n  BY <2>1
  <2>5. QED  BY <2>2, <2>3, <2>4
<1>6. /\ \A x \in 1..n : w[x] = v[x] /\ w[x] \in Nat
      /\ \A x \in 1..(n + 1) : v[x] \in Nat
      /\ v[n + 1] = Size(it)
  <2> HIDE DEF n, more
  <2> QED  BY <1>1, <1>2, <1>5
<1> DEFINE P == 1..n
           R == 1..(n + 1)
<1>11. /\ IsFiniteSet(P) /\ IsFiniteSet(R) /\ P \subseteq R /\ n + 1 \in R /\ R \ {n + 1} = P
       /\ Sums(g, P, w) /\ Sums(h, R, v) /\ \A x \in P : w[x] = v[x]
       /\ \A x \in P : w[x] \in Nat
       /\ \A x \in R : v[x] \in Nat
  <2> HIDE DEF n, more, w, v
  <2> QED  BY <1>3, <1>4, <1>5, <1>6
<1> HIDE DEF n, more, w, v
<1>7. g[1..n] \in Nat  BY <1>3, <1>5, <1>6, SumTerm
<1>8. h[1..(n + 1)] = h[1..n] + v[n + 1]
  <2> HIDE DEF P, R
  <2>1. \A s \in SUBSET R : h[s] \in Nat /\ \A x \in s : h[s] = h[s \ {x}] + v[x]
    BY <1>11, SumTerm
  <2>2. h[R] = h[R \ {n + 1}] + v[n + 1]
    BY <2>1, <1>11
  <2>3. QED  BY <2>2, <1>11 DEF P, R
<1>9. g[1..n] = h[1..n]
  <2> HIDE DEF P, R
  <2>1. \A s \in SUBSET P : g[s] = h[s]
    <3>1. SumAlike(g, P, w, h, R, v)  BY <1>11 DEF SumAlike
    <3>2. QED  BY <3>1, <1>11, SumAgrees
  <2>2. g[P] = h[P]  BY <2>1
  <2>3. QED  BY <2>2 DEF P
<1>10. QED  BY <1>3, <1>4, <1>6, <1>7, <1>8, <1>9 DEF more

------------------------------------------------------------------------------
(***************************************************************************)
(* The scripts of the FTDI cables.  A command that makes no edges needs no *)
(* call; the data of a command fits the buffer.                            *)
(***************************************************************************)
ClockNames == {"bytes", "bits", "tms", "last", "idlebytes", "idlebits"}
QuietNames == {"now", "setup", "divisor", "loop"}
DataNames == {"payload", "cut"}

ItemNames == ClockNames \cup QuietNames \cup DataNames

ItemRecords(k) == [op : ItemNames, kd : RunKinds, from : Int, n : Nat, bits : Nat,
                   w : BOOLEAN, r : BOOLEAN, call : 0..k]
Fitting(it) == /\ it.n <= 65536
               /\ it.op = "payload" => it.n < TX_BUF
               /\ it.op \in DataNames \/ it.op = "loop" => ~it.w
               /\ it.w \/ 8 * it.n <= it.bits + 8
Items(k) == {it \in ItemRecords(k) : Fitting(it)}
QuietItems == {it \in Items(0) : it.op \in QuietNames}

Adds(S) == [do : {"add"}, it : S]
Gets == [do : {"get"}, n : 0..TX_BUF, at : Int]
Fills == [do : {"fill"}, n : Nat \ {0}, from : Int]
QuietOps == Adds(QuietItems) \cup {Send} \cup Gets
FtdiOps == Adds(Items(0)) \cup {Send} \cup Gets \cup Fills
Ends == {[do |-> "close"], [do |-> "throw"]}

GoodCall(c) == /\ c.op \in Ops /\ c.len \in Nat /\ (c.op # "sleep" => c.len > 0)
               /\ c.last \in BOOLEAN /\ c.write \in BOOLEAN /\ c.read \in BOOLEAN

LEMMA GoodCalls == \A x \in Kinds : \A c \in Calls[x] : GoodCall(c)
BY CallAssumption DEF GoodCall

LEMMA AddIn ==
  ASSUME NEW it \in Items(0)
  PROVE  Add(it) \in FtdiOps /\ (it.op \in QuietNames => Add(it) \in QuietOps)
BY DEF FtdiOps, QuietOps, Add, Adds, QuietItems

LEMMA QuietFtdi == QuietOps \subseteq FtdiOps
BY DEF QuietOps, FtdiOps, Adds, QuietItems

LEMMA PlainIn ==
  ASSUME NEW op \in QuietNames
  PROVE  Plain(op) \in Items(0) /\ Plain(op).op = op /\ Add(Plain(op)) \in QuietOps
<1>1. op \in ItemNames /\ op # "payload" /\ op \notin DataNames
  BY DEF ItemNames, QuietNames, DataNames
<1>2. "none" \in RunKinds /\ 0 \in Nat /\ 0 <= 65536  BY DEF RunKinds
<1>3. Plain(op) \in ItemRecords(0)  BY <1>1, <1>2 DEF Plain, Item, ItemRecords
<1>4. Plain(op).op = op /\ Plain(op).n = 0 /\ Plain(op).bits = 0 /\ ~Plain(op).w
  BY DEF Plain, Item
<1>5. Fitting(Plain(op))  BY <1>1, <1>4 DEF Fitting
<1>6. QED  BY <1>3, <1>4, <1>5, AddIn DEF Items

LEMMA SendIn == Send \in QuietOps /\ <<Send>> \in Seq(QuietOps)
BY DEF QuietOps

LEMMA ReadIn ==
  ASSUME NEW n \in 0..TX_BUF, NEW at \in Int
  PROVE  Read(n, at) \in Seq(QuietOps)
<1>1. Add(Plain("now")) \in QuietOps  BY PlainIn DEF QuietNames
<1>2. Send \in QuietOps  BY SendIn
<1>3. [do |-> "get", n |-> n, at |-> at] \in QuietOps  BY DEF QuietOps, Gets
<1> HIDE DEF QuietOps
<1>4. QED  BY <1>1, <1>2, <1>3 DEF Read

LEMMA OneIn ==
  ASSUME NEW S, NEW e \in S
  PROVE  <<e>> \in Seq(S)
OBVIOUS

LEMMA SeqQuiet == \A s \in Seq(QuietOps) : s \in Seq(FtdiOps)
<1>1. ASSUME NEW s \in Seq(QuietOps) PROVE s \in Seq(FtdiOps)
  BY QuietFtdi, Wider
<1>2. QED  BY <1>1

LEMMA BytesIn ==
  ASSUME NEW c, GoodCall(c), NEW from \in Int, NEW n \in 1..(TX_BUF - 3)
  PROVE  Bytes(c, from, n) \in Seq(FtdiOps)
<1> DEFINE b == Item("bytes", "data", from, n, 8 * n, c.write, c.read)
           p == Item("payload", "data", from, n, 8 * n, FALSE, FALSE)
<1>1. n \in Nat /\ n <= 65536 /\ n < TX_BUF /\ 8 * n \in Nat /\ 8 * n <= 8 * n + 8
  BY BufferAssumption
<1>2. /\ "bytes" \in ItemNames /\ "payload" \in ItemNames /\ "data" \in RunKinds
      /\ "bytes" # "payload" /\ "bytes" \notin DataNames
  BY DEF ItemNames, ClockNames, DataNames, RunKinds
<1>3. b \in ItemRecords(0) /\ p \in ItemRecords(0)
  <2>1. c.write \in BOOLEAN /\ c.read \in BOOLEAN  BY DEF GoodCall
  <2>2. b \in ItemRecords(0)  BY <2>1, <1>1, <1>2 DEF Item, ItemRecords
  <2>3. p \in ItemRecords(0)  BY <1>1, <1>2 DEF Item, ItemRecords
  <2>4. QED  BY <2>2, <2>3
<1>4. /\ b.op = "bytes" /\ b.n = n /\ b.bits = 8 * n
      /\ p.op = "payload" /\ p.n = n /\ p.bits = 8 * n /\ ~p.w
  BY DEF Item
<1> HIDE DEF b, p
<1>5. b \in Items(0) /\ p \in Items(0)
  BY <1>1, <1>2, <1>3, <1>4 DEF Items, Fitting
<1>6. Add(b) \in FtdiOps /\ Add(p) \in FtdiOps
  BY <1>5, AddIn
<1>7. <<Add(b)>> \in Seq(FtdiOps) /\ <<Add(p)>> \in Seq(FtdiOps)
  BY <1>6, OneIn
<1>8. QED  BY <1>7, IfIn, ConcatIn DEF Bytes, b, p

LEMMA ChunkIn ==
  ASSUME NEW c, GoodCall(c), NEW x \in Int
  PROVE  FtdiChunk(c, TX_BUF - 3, x) \in Seq(FtdiOps)
<1> DEFINE L == TX_BUF - 3
<1>1. L \in 1..L /\ L \in 0..TX_BUF /\ 8 * L * x \in Int
  BY BufferAssumption
<1>2. Bytes(c, 8 * L * x, L) \in Seq(FtdiOps)  BY <1>1, BytesIn
<1>3. Read(L, 8 * L * x) \in Seq(FtdiOps)  BY <1>1, ReadIn, SeqQuiet
<1> HIDE DEF L
<1>4. FtdiChunk(c, L, x) \in Seq(FtdiOps)
  BY <1>2, <1>3, IfIn, ConcatIn DEF FtdiChunk
<1>5. QED  BY <1>4 DEF L

LEMMA RestIn ==
  ASSUME NEW c, GoodCall(c), NEW from \in Int, NEW n \in 0..(TX_BUF - 3), NEW bits \in 0..7
  PROVE  FtdiRest(c, TX_BUF - 3, from, n, bits) \in Seq(FtdiOps)
<1> DEFINE L == TX_BUF - 3
           Direct == n >= TX_BUF - 4
           end == from + 8 * n
           b == Item("bits", "data", end, 1, bits, c.write, c.read)
           p == Item("payload", "data", end, 1, bits, FALSE, FALSE)
           l == Item("last", "last", end + bits, 1, 1, FALSE, c.read)
           whole == If(n > 0, Bytes(c, from, n))
           early == If(Direct /\ c.read, Read(n, from))
           some == If(bits > 0, <<Add(b)>> \o If(c.write, <<Add(p)>>))
           final == If(c.last, <<Add(l)>>)
           read == If(c.read, Read((IF Direct THEN 0 ELSE n) + (IF bits > 0 THEN 1 ELSE 0)
                                                             + (IF c.last THEN 1 ELSE 0),
                                   IF Direct THEN end ELSE from))
<1>1. /\ c.write \in BOOLEAN /\ c.read \in BOOLEAN /\ c.last \in BOOLEAN
      /\ TX_BUF \in Int /\ TX_BUF >= 32 /\ TX_BUF <= 65536 /\ bits \in Nat /\ end \in Int
      /\ n \in 0..TX_BUF /\ 1 \in Nat /\ 1 <= 65536
  BY BufferAssumption DEF GoodCall
<1>2. /\ {"bits", "payload", "last"} \subseteq ItemNames /\ {"data", "last"} \subseteq RunKinds
      /\ "bits" # "payload" /\ "bits" \notin DataNames
      /\ "last" # "payload" /\ "last" \notin DataNames
  BY DEF ItemNames, ClockNames, DataNames, RunKinds
<1>3. whole \in Seq(FtdiOps)
  <2>1. n > 0 => n \in 1..(TX_BUF - 3)  OBVIOUS
  <2> HIDE DEF end
  <2>2. QED  BY <2>1, BytesIn, IfIn
<1>4. early \in Seq(FtdiOps)
  <2>1. Read(n, from) \in Seq(FtdiOps)  BY <1>1, ReadIn, SeqQuiet
  <2>2. QED  BY <2>1, IfIn
<1>5. b \in Items(0) /\ p \in Items(0) /\ l \in Items(0)
  <2> HIDE DEF end
  <2>1. b \in ItemRecords(0)  BY <1>1, <1>2 DEF Item, ItemRecords
  <2>2. p \in ItemRecords(0)  BY <1>1, <1>2 DEF Item, ItemRecords
  <2>3. l \in ItemRecords(0)
    <3>1. end + bits \in Int  BY <1>1
    <3>2. QED  BY <1>1, <1>2, <3>1 DEF Item, ItemRecords
  <2>4. /\ b.op = "bits" /\ b.n = 1 /\ b.bits = bits
        /\ p.op = "payload" /\ p.n = 1 /\ p.bits = bits /\ ~p.w
        /\ l.op = "last" /\ l.n = 1 /\ l.bits = 1 /\ ~l.w
    BY DEF Item
  <2> HIDE DEF b, p, l
  <2>5. Fitting(b) /\ Fitting(l)  BY <1>1, <1>2, <2>4 DEF Fitting
  <2>6. Fitting(p)  BY <1>1, <2>4 DEF Fitting
  <2>7. QED  BY <2>1, <2>2, <2>3, <2>5, <2>6 DEF Items
<1> HIDE DEF b, p, l
<1>6. some \in Seq(FtdiOps) /\ final \in Seq(FtdiOps)
  <2>1. Add(b) \in FtdiOps /\ Add(p) \in FtdiOps /\ Add(l) \in FtdiOps  BY <1>5, AddIn
  <2>2. <<Add(b)>> \in Seq(FtdiOps) /\ <<Add(p)>> \in Seq(FtdiOps) /\ <<Add(l)>> \in Seq(FtdiOps)
    BY <2>1, OneIn
  <2>3. QED  BY <2>2, IfIn, ConcatIn
<1>7. read \in Seq(FtdiOps)
  <2> DEFINE sum == (IF Direct THEN 0 ELSE n) + (IF bits > 0 THEN 1 ELSE 0)
                                              + (IF c.last THEN 1 ELSE 0)
             place == IF Direct THEN end ELSE from
  <2>1. sum \in 0..TX_BUF /\ place \in Int  BY <1>1
  <2> HIDE DEF sum, place
  <2>2. Read(sum, place) \in Seq(FtdiOps)  BY <2>1, ReadIn, SeqQuiet
  <2>3. If(c.read, Read(sum, place)) \in Seq(FtdiOps)  BY <2>2, IfIn
  <2>4. QED  BY <2>3 DEF sum, place
<1>8. FtdiRest(c, L, from, n, bits) = whole \o early \o some \o final \o read
  BY DEF FtdiRest, b, p, l
<1> HIDE DEF whole, early, some, final, read
<1>9. whole \o early \o some \o final \o read \in Seq(FtdiOps)
  BY <1>3, <1>4, <1>6, <1>7, ConcatIn
<1>10. QED  BY <1>8, <1>9

(* Full chunks of L bytes while more than L are left: what they leave.     *)
LEMMA Chunks ==
  ASSUME NEW L \in Nat \ {0}, NEW whole \in Nat
  PROVE  LET chunks == IF whole > L THEN (whole - 1) \div L ELSE 0
         IN  chunks \in Nat /\ L * chunks \in Int /\ whole - L * chunks \in 0..L
<1> DEFINE q == (whole - 1) \div L
<1>1. CASE whole > L
  <2>1. whole - 1 \in Nat  BY <1>1
  <2>2. q \in Nat /\ whole - 1 = L * q + ((whole - 1) % L) /\ (whole - 1) % L \in 0..(L - 1)
    BY <2>1
  <2>3. L * q \in Int  BY <2>2
  <2> HIDE DEF q
  <2>4. whole - L * q \in 0..L  BY <2>1, <2>2, <2>3
  <2>5. QED  BY <1>1, <2>2, <2>3, <2>4 DEF q
<1>2. CASE ~(whole > L)
  BY <1>2
<1>3. QED  BY <1>1, <1>2

LEMMA BlockIn ==
  ASSUME NEW c, GoodCall(c), c.op = "block"
  PROVE  FtdiBlock(c) \in Seq(FtdiOps)
<1> DEFINE L == TX_BUF - 3
           rem == IF c.last THEN c.len - 1 ELSE c.len
           whole == rem \div 8
           chunks == IF whole > L THEN (whole - 1) \div L ELSE 0
           parts == [x \in 1..chunks |-> FtdiChunk(c, L, x - 1)]
<1>1. L \in Nat \ {0}  BY BufferAssumption
<1>2. rem \in Nat /\ whole \in Nat /\ rem % 8 \in 0..7
  <2>1. rem \in Nat  BY DEF GoodCall
  <2> HIDE DEF rem
  <2>2. QED  BY <2>1
<1> HIDE DEF rem
<1>3. chunks \in Nat /\ L * chunks \in Int /\ whole - L * chunks \in 0..L
  <2> HIDE DEF L, whole
  <2>1. QED  BY <1>1, <1>2, Chunks
<1> HIDE DEF whole, chunks
<1>4. parts \in Seq(Seq(FtdiOps))
  <2>1. \A x \in 1..chunks : FtdiChunk(c, L, x - 1) \in Seq(FtdiOps)
    BY <1>3, ChunkIn
  <2> HIDE DEF L
  <2>2. QED  BY <1>3, <2>1
<1>5. FlattenSeq(parts) \in Seq(FtdiOps)
  <2> HIDE DEF parts
  <2> QED  BY <1>4, FlattenIn
<1>6. FtdiRest(c, L, 8 * L * chunks, whole - L * chunks, rem % 8) \in Seq(FtdiOps)
  <2>1. 8 * L * chunks \in Int  BY <1>1, <1>3
  <2> DEFINE a == 8 * L * chunks
             m == whole - L * chunks
             e == rem % 8
  <2>2. a \in Int /\ m \in 0..L /\ e \in 0..7  BY <2>1, <1>2, <1>3
  <2> HIDE DEF a, m, e
  <2>3. FtdiRest(c, L, a, m, e) \in Seq(FtdiOps)  BY <2>2, RestIn
  <2>4. QED  BY <2>3 DEF a, m, e
<1>7. FtdiBlock(c) = FlattenSeq(parts) \o FtdiRest(c, L, 8 * L * chunks, whole - L * chunks, rem % 8)
  BY DEF FtdiBlock, rem, whole, chunks
<1> HIDE DEF parts, L
<1>8. QED  BY <1>5, <1>6, <1>7, ConcatIn

LEMMA TmsIn ==
  ASSUME NEW c, GoodCall(c)
  PROVE  FtdiTms(c) \in Seq(FtdiOps)
<1> DEFINE k == (c.len + 5) \div 6
           left(x) == c.len - 6 * (x - 1)
           it(x) == Item("tms", "tms", 6 * (x - 1), 1, IF left(x) > 6 THEN 6 ELSE left(x), FALSE, FALSE)
<1>1. c.len \in Nat  BY DEF GoodCall
<1>2. k \in Nat /\ 6 * k <= c.len + 5  BY <1>1
<1>3. "tms" \in ItemNames /\ "tms" \in RunKinds /\ "tms" # "payload" /\ "tms" \notin DataNames
      /\ 1 \in Nat /\ 1 <= 65536
  BY DEF ItemNames, ClockNames, DataNames, RunKinds
<1> HIDE DEF k
<1>4. ASSUME NEW x \in 1..k
      PROVE  Add(it(x)) \in FtdiOps
  <2> DEFINE at == 6 * (x - 1)
             bits == IF left(x) > 6 THEN 6 ELSE left(x)
             z == Item("tms", "tms", at, 1, bits, FALSE, FALSE)
  <2>1. at \in Int /\ bits \in Nat  BY <1>1, <1>2
  <2> HIDE DEF at, bits
  <2>2. z \in ItemRecords(0)  BY <1>3, <2>1 DEF Item, ItemRecords
  <2>3. z.op = "tms" /\ z.n = 1 /\ z.bits = bits  BY DEF Item
  <2> HIDE DEF z
  <2>4. z \in Items(0)  BY <1>3, <2>1, <2>2, <2>3 DEF Items, Fitting
  <2>5. Add(z) \in FtdiOps  BY <2>4, AddIn
  <2>6. QED  BY <2>5 DEF z, at, bits
<1> HIDE DEF it
<1>5. [x \in 1..k |-> Add(it(x))] \in Seq(FtdiOps)
  BY <1>2, <1>4
<1>6. FtdiTms(c) = [x \in 1..k |-> Add(it(x))]
  BY DEF FtdiTms, k, it
<1>7. QED  BY <1>5, <1>6

LEMMA Words == \A y \in Int : y % 65536 \in Nat /\ (y % 65536) + 1 <= 65536
OBVIOUS

LEMMA TckNat ==
  ASSUME freq \in Nat
  PROVE  tck_freq \in Nat /\ (~Fast => tck_freq <= 6000000)
<1>1. FastDivisor(freq) \in Nat
  <2>1. CASE freq = 0 \/ freq >= 30000000
    BY <2>1 DEF FastDivisor
  <2>2. CASE ~(freq = 0 \/ freq >= 30000000)
    <3>1. freq \in Nat /\ freq > 0 /\ freq < 30000000  BY <2>2
    <3> DEFINE q == 30000000 \div freq
    <3>2. q \in Nat /\ q >= 1
      <4>1. q \in Nat /\ 30000000 = freq * q + (30000000 % freq) /\ 30000000 % freq \in 0..(freq - 1)
        BY <3>1
      <4>2. q # 0  BY <4>1, <3>1
      <4>3. QED  BY <4>1, <4>2
    <3> HIDE DEF q
    <3>3. \A d \in Nat : Capped(d) \in Nat  BY DEF Capped
    <3>4. q - (IF 30000000 % freq # 0 THEN 0 ELSE 1) \in Nat  BY <3>2
    <3>5. QED  BY <2>2, <3>3, <3>4 DEF FastDivisor, q
  <2>3. QED  BY <2>1, <2>2
<1>2. SlowDivisor(freq) \in Nat
  <2>1. CASE freq = 0 \/ freq >= 6000000
    BY <2>1 DEF SlowDivisor
  <2>2. CASE ~(freq = 0 \/ freq >= 6000000)
    <3>1. freq \in Nat /\ freq > 0 /\ freq < 6000000  BY <2>2
    <3> DEFINE q == 6000000 \div freq
    <3>2. q \in Nat /\ q >= 1
      <4>1. q \in Nat /\ 6000000 = freq * q + (6000000 % freq) /\ 6000000 % freq \in 0..(freq - 1)
        BY <3>1
      <4>2. q # 0  BY <4>1, <3>1
      <4>3. QED  BY <4>1, <4>2
    <3> HIDE DEF q
    <3>3. \A d \in Nat : Capped(d) \in Nat  BY DEF Capped
    <3>4. q - (IF ShareBits(6000000, freq) THEN 0 ELSE 1) \in Nat  BY <3>2
    <3>5. QED  BY <2>2, <3>3, <3>4 DEF SlowDivisor, q
  <2>3. QED  BY <2>1, <2>2
<1> DEFINE a == 1 + FastDivisor(freq)
           b == 1 + SlowDivisor(freq)
<1>3. a \in Nat \ {0} /\ b \in Nat \ {0}  BY <1>1, <1>2
<1> HIDE DEF a, b
<1>4. 30000000 \div a \in Nat /\ 6000000 \div b \in Nat /\ 6000000 \div b <= 6000000  BY <1>3
<1>5. QED  BY <1>4 DEF tck_freq, UsesFastClock, a, b

LEMMA TicksNat ==
  ASSUME freq \in Nat, NEW usec \in Nat
  PROVE  Ticks(usec) \in Nat
<1>1. tck_freq \in Nat  BY TckNat
<1> DEFINE F == tck_freq \div 100
           low == (usec * (F % 65536)) + F - 1
           high == ((usec * (F \div 65536)) + (low \div 65536)) % 65536
           lower == ((5536 * high) + (low % 65536)) \div 10000
<1>2. F \in Nat  BY <1>1
<1> HIDE DEF F
<1>3. low \in Int
  <2>1. usec * (F % 65536) \in Int  BY <1>2
  <2>2. QED  BY <2>1, <1>2
<1> HIDE DEF low
<1>4. high \in Nat
  <2> DEFINE y == usec * (F \div 65536) + (low \div 65536)
  <2>1. usec * (F \div 65536) \in Int  BY <1>2
  <2>2. y \in Int  BY <2>1, <1>3
  <2> HIDE DEF y
  <2>3. y % 65536 \in Nat  BY <2>2, Words
  <2>4. high = y % 65536  BY DEF y
  <2> HIDE DEF high
  <2>5. QED  BY <2>3, <2>4
<1> HIDE DEF high
<1>5. lower \in Nat
  <2> DEFINE z == low % 65536
  <2>1. z \in Nat  BY <1>3, Words
  <2> HIDE DEF z
  <2>2. (5536 * high) + z \in Nat  BY <2>1, <1>4
  <2>3. ((5536 * high) + z) \div 10000 \in Nat
    <3> DEFINE y == (5536 * high) + z
    <3>1. y \in Nat  BY <2>2
    <3> HIDE DEF y
    <3>2. y \div 10000 \in Nat  BY <3>1
    <3>3. QED  BY <3>2 DEF y
  <2>4. QED  BY <2>3 DEF z
<1> HIDE DEF lower
<1>6. Ticks(usec) = 6 * high + lower
  BY DEF Ticks, F, low, high, lower
<1>7. QED  BY <1>4, <1>5, <1>6

LEMMA IdleFastIn ==
  ASSUME NEW t \in Nat
  PROVE  IdleFast(t) \in Seq(FtdiOps)
<1> DEFINE bytes == IF t > 8 THEN ((t \div 8) % 65536) + 1 ELSE 0
           bits == IF t > 8 THEN t % 8 ELSE t
           a == Item("idlebytes", "idle", 0, bytes, 8 * bytes, FALSE, FALSE)
           b == Item("idlebits", "idle", 8 * bytes, 1, bits, FALSE, FALSE)
<1>1. bytes \in Nat /\ bytes <= 65536 /\ bits \in Nat
  <2> DEFINE q == t \div 8
             m == t % 8
  <2>1. q \in Nat /\ m \in 0..7  OBVIOUS
  <2> HIDE DEF q, m
  <2> DEFINE u == q % 65536
  <2>2. u \in Nat /\ u + 1 <= 65536  BY <2>1, Words
  <2>3. bytes = IF t > 8 THEN u + 1 ELSE 0  BY DEF q
  <2>4. bits = IF t > 8 THEN m ELSE t  BY DEF m
  <2> HIDE DEF bytes, bits, u
  <2>5. bytes \in Nat /\ bytes <= 65536  BY <2>2, <2>3
  <2>6. bits \in Nat  BY <2>1, <2>4
  <2>7. QED  BY <2>5, <2>6
<1> HIDE DEF bytes, bits
<1>2. /\ {"idlebytes", "idlebits"} \subseteq ItemNames /\ "idle" \in RunKinds
      /\ {"idlebytes", "idlebits"} \cap DataNames = {} /\ 1 \in Nat /\ 1 <= 65536
      /\ "idlebytes" # "payload" /\ "idlebits" # "payload"
  BY DEF ItemNames, ClockNames, DataNames, RunKinds
<1>3. 8 * bytes \in Nat /\ 8 * bytes \in Int  BY <1>1
<1>4. a \in ItemRecords(0)  BY <1>1, <1>2, <1>3 DEF Item, ItemRecords
<1>5. b \in ItemRecords(0)  BY <1>1, <1>2, <1>3 DEF Item, ItemRecords
<1>6. /\ a.op = "idlebytes" /\ a.n = bytes /\ a.bits = 8 * bytes
      /\ b.op = "idlebits" /\ b.n = 1 /\ b.bits = bits
  BY DEF Item
<1> HIDE DEF a, b
<1>7. a \in Items(0) /\ b \in Items(0)
  <2>1. Fitting(a)  BY <1>1, <1>2, <1>6 DEF Fitting
  <2>2. Fitting(b)  BY <1>1, <1>2, <1>6 DEF Fitting
  <2>3. QED  BY <2>1, <2>2, <1>4, <1>5 DEF Items
<1>8. <<Add(a)>> \in Seq(FtdiOps) /\ <<Add(b)>> \in Seq(FtdiOps)
  BY <1>7, AddIn, OneIn
<1>9. IdleFast(t) = If(t > 8, <<Add(a)>>) \o If(bits > 0, <<Add(b)>>)
  BY DEF IdleFast, a, b, bytes, bits
<1>10. QED  BY <1>8, <1>9, IfIn, ConcatIn

LEMMA IdleSlowIn ==
  ASSUME NEW t \in Nat
  PROVE  IdleSlow(t) \in Seq(FtdiOps)
<1> DEFINE zeros == (t + 7) \div 8 - 1
           n == ((t \div 8) % 65536) + 1
           a == Item("bytes", "idle", 0, n, 0, TRUE, FALSE)
           fill == [do |-> "fill", n |-> zeros, from |-> 0]
           b == Item("cut", "idle", 8 * zeros, 1, 8, FALSE, FALSE)
<1>1. zeros \in Int /\ n \in Nat /\ n <= 65536 /\ 8 * zeros \in Int /\ (t > 8 => zeros \in Nat \ {0})
  <2> DEFINE q == t \div 8
             m == (t + 7) \div 8
  <2>1. q \in Nat /\ m \in Nat /\ (t > 8 => m >= 2)  OBVIOUS
  <2> HIDE DEF q, m
  <2> DEFINE u == q % 65536
  <2>2. u \in Nat /\ u + 1 <= 65536  BY <2>1, Words
  <2>3. n = u + 1  BY DEF q
  <2>4. zeros = m - 1  BY DEF m
  <2> HIDE DEF n, zeros, u
  <2>5. QED  BY <2>1, <2>2, <2>3, <2>4
<1> HIDE DEF zeros, n
<1>2. /\ {"bytes", "cut"} \subseteq ItemNames /\ "idle" \in RunKinds /\ 1 \in Nat /\ 1 <= 65536
      /\ "bytes" # "payload" /\ "cut" # "payload" /\ "bytes" \notin DataNames
  BY DEF ItemNames, ClockNames, DataNames, RunKinds
<1>3. a \in ItemRecords(0)  BY <1>1, <1>2 DEF Item, ItemRecords
<1>4. b \in ItemRecords(0)  BY <1>1, <1>2 DEF Item, ItemRecords
<1>5. a.op = "bytes" /\ a.n = n /\ a.w /\ b.op = "cut" /\ b.n = 1 /\ b.bits = 8 /\ ~b.w
  BY DEF Item
<1> HIDE DEF a, b
<1>6. a \in Items(0) /\ b \in Items(0)
  <2>1. a.n = n /\ 8 * b.n <= b.bits + 8 /\ b.n <= 65536  BY <1>5
  <2>2. Fitting(a)  BY <2>1, <1>1, <1>2, <1>5 DEF Fitting
  <2>3. Fitting(b)  BY <2>1, <1>2, <1>5 DEF Fitting
  <2>4. QED  BY <2>2, <2>3, <1>3, <1>4 DEF Items
<1>7. Add(a) \in FtdiOps /\ Add(b) \in FtdiOps
  BY <1>6, AddIn
<1>8. t > 8 => fill \in FtdiOps
  BY <1>1 DEF FtdiOps, Fills
<1> HIDE DEF fill
<1>9. (t > 8 => <<Add(a), fill>> \in Seq(FtdiOps)) /\ <<Add(b)>> \in Seq(FtdiOps)
  <2>1. \A x \in FtdiOps, y \in FtdiOps : <<x, y>> \in Seq(FtdiOps)  OBVIOUS
  <2>2. QED  BY <2>1, <1>7, <1>8, OneIn
<1>10. IdleSlow(t) = If(t > 8, <<Add(a), fill>>) \o If(t > 0, <<Add(b)>>)
  BY DEF IdleSlow, a, b, fill, n, zeros
<1>11. If(t > 8, <<Add(a), fill>>) \in Seq(FtdiOps) /\ If(t > 0, <<Add(b)>>) \in Seq(FtdiOps)
  BY <1>9, IfIn
<1>12. QED  BY <1>10, <1>11, ConcatIn

LEMMA FtdiScriptIn ==
  ASSUME NEW c, GoodCall(c), freq \in Nat
  PROVE  FtdiScript(c) \in Seq(FtdiOps)
<1>1. CASE c.op = "block"
  BY <1>1, BlockIn DEF FtdiScript
<1>2. CASE c.op = "tms"
  BY <1>2, TmsIn DEF FtdiScript
<1>3. CASE c.op = "sleep"
  <2>1. Ticks(c.len) \in Nat  BY TicksNat DEF GoodCall
  <2>2. IdleFast(Ticks(c.len)) \in Seq(FtdiOps) /\ IdleSlow(Ticks(c.len)) \in Seq(FtdiOps)
    BY <2>1, IdleFastIn, IdleSlowIn
  <2>3. <<Send>> \in Seq(FtdiOps)  BY SendIn, SeqQuiet
  <2>4. FtdiScript(c) = FtdiSleep(c)  BY <1>3 DEF FtdiScript
  <2>5. QED  BY <2>2, <2>3, <2>4 DEF FtdiSleep
<1>4. QED  BY <1>1, <1>2, <1>3 DEF GoodCall, Ops

LEMMA Tuples ==
  /\ \A a, b, c, d, e : <<a>> \o <<b, c, d>> \o <<e>> = <<a, b, c, d, e>>
  /\ \A a, b, c, d, e, f : <<a, b, c, d, e>> \o <<f>> = <<a, b, c, d, e, f>>
<1>1. ASSUME NEW a, NEW b, NEW c, NEW d, NEW e
      PROVE  <<a>> \o <<b, c, d>> \o <<e>> = <<a, b, c, d, e>>
  <2> DEFINE S == {a, b, c, d, e}
             p == <<a>>
             q == <<b, c, d>>
             u == <<e>>
             t == <<a, b, c, d, e>>
  <2>1. p \in Seq(S) /\ q \in Seq(S) /\ u \in Seq(S) /\ t \in Seq(S)  OBVIOUS
  <2>2. Len(p) = 1 /\ Len(q) = 3 /\ Len(u) = 1 /\ Len(t) = 5  OBVIOUS
  <2>3. t[1] = p[1] /\ t[2] = q[1] /\ t[3] = q[2] /\ t[4] = q[3] /\ t[5] = u[1]  OBVIOUS
  <2> HIDE DEF S, p, q, u, t
  <2>4. /\ p \o q \in Seq(S) /\ Len(p \o q) = 4
        /\ (p \o q)[1] = p[1] /\ \A i \in 2..4 : (p \o q)[i] = q[i - 1]
    <3>1. /\ p \o q \in Seq(S) /\ Len(p \o q) = Len(p) + Len(q)
          /\ \A i \in 1..(Len(p) + Len(q)) : (p \o q)[i] = IF i <= Len(p) THEN p[i] ELSE q[i - Len(p)]
      BY <2>1, ConcatProperties
    <3>2. (p \o q)[1] = p[1] /\ \A i \in 2..4 : (p \o q)[i] = q[i - 1]
      BY <3>1, <2>2
    <3>3. QED  BY <3>1, <3>2, <2>2
  <2>5. /\ (p \o q) \o u \in Seq(S) /\ Len((p \o q) \o u) = 5
        /\ ((p \o q) \o u)[5] = u[1]
        /\ \A i \in 1..4 : ((p \o q) \o u)[i] = (p \o q)[i]
    <3> DEFINE w == p \o q
    <3>1. w \in Seq(S) /\ Len(w) = 4  BY <2>4
    <3> HIDE DEF w
    <3>2. /\ w \o u \in Seq(S) /\ Len(w \o u) = Len(w) + Len(u)
          /\ \A i \in 1..(Len(w) + Len(u)) : (w \o u)[i] = IF i <= Len(w) THEN w[i] ELSE u[i - Len(w)]
      BY <2>1, <3>1, ConcatProperties
    <3>3. (w \o u)[5] = u[1] /\ \A i \in 1..4 : (w \o u)[i] = w[i]
      BY <3>1, <3>2, <2>2
    <3>4. QED  BY <3>1, <3>2, <3>3, <2>2 DEF w
  <2>6. \A i \in 1..5 : ((p \o q) \o u)[i] = t[i]  BY <2>3, <2>4, <2>5
  <2>7. (p \o q) \o u = t  BY <2>1, <2>2, <2>5, <2>6, SeqEqual
  <2>8. QED  BY <2>7 DEF p, q, u, t
<1>2. ASSUME NEW a, NEW b, NEW c, NEW d, NEW e, NEW f
      PROVE  <<a, b, c, d, e>> \o <<f>> = <<a, b, c, d, e, f>>
  <2> DEFINE S == {a, b, c, d, e, f}
             p == <<a, b, c, d, e>>
             q == <<f>>
             t == <<a, b, c, d, e, f>>
  <2>1. p \in Seq(S) /\ q \in Seq(S) /\ t \in Seq(S)  OBVIOUS
  <2>2. Len(p) = 5 /\ Len(q) = 1 /\ Len(t) = 6  OBVIOUS
  <2>3. t[6] = q[1] /\ \A i \in 1..5 : t[i] = p[i]  OBVIOUS
  <2> HIDE DEF S, p, q, t
  <2>4. /\ p \o q \in Seq(S) /\ Len(p \o q) = 6
        /\ (p \o q)[6] = q[1] /\ \A i \in 1..5 : (p \o q)[i] = p[i]
    <3>1. /\ p \o q \in Seq(S) /\ Len(p \o q) = Len(p) + Len(q)
          /\ \A i \in 1..(Len(p) + Len(q)) : (p \o q)[i] = IF i <= Len(p) THEN p[i] ELSE q[i - Len(p)]
      BY <2>1, ConcatProperties
    <3>2. (p \o q)[6] = q[6 - 5] /\ \A i \in 1..5 : (p \o q)[i] = p[i]
      BY <3>1, <2>2
    <3>3. QED  BY <3>1, <3>2, <2>2
  <2>5. \A i \in 1..6 : (p \o q)[i] = t[i]  BY <2>3, <2>4
  <2>6. p \o q = t  BY <2>1, <2>2, <2>4, <2>5, SeqEqual
  <2>7. QED  BY <2>6 DEF p, q, t
<1>3. QED  BY <1>1, <1>2

LEMMA SetupIn == FtdiSetup \in Seq(QuietOps)
<1>1. Add(Plain("setup")) \in QuietOps /\ Add(Plain("divisor")) \in QuietOps
  BY PlainIn DEF QuietNames
<1>2. Send \in QuietOps  BY SendIn
<1>3. \A x \in QuietOps, y \in QuietOps : <<x, y>> \in Seq(QuietOps)
  <2> HIDE DEF QuietOps
  <2> QED  OBVIOUS
<1>4. <<Add(Plain("setup")), Send>> \in Seq(QuietOps)
      /\ <<Add(Plain("divisor")), Send>> \in Seq(QuietOps)
  BY <1>1, <1>2, <1>3
<1>5. If(UsesFastClock(freq), <<Add(Plain("divisor")), Send>>) \in Seq(QuietOps)
  BY <1>4, IfIn
<1>6. QED  BY <1>4, <1>5, ConcatIn DEF FtdiSetup

(* The last word of deinit is close, the only one.                         *)
LastWord(s, n) == /\ s \in Seq(QuietOps \cup Ends) /\ Len(s) \in 1..(n + 1)
                  /\ \A x \in DOMAIN s : (s[x].do = "close" => x = n)
                                         /\ (s[x].do = "throw" => x = n + 1)

LEMMA DeinitIs ==
  /\ LastWord(deinit_script, 5) /\ Len(deinit_script) = 5
  /\ LastWord(deinit_script \o <<[do |-> "throw"]>>, 5)
  /\ Len(deinit_script \o <<[do |-> "throw"]>>) = 6
  /\ (deinit_script \o <<[do |-> "throw"]>>)[6].do = "throw"
<1> DEFINE loop == [Plain("loop") EXCEPT !.n = 5, !.bits = 40]
           get == [do |-> "get", n |-> 5, at |-> -1]
           close == [do |-> "close"]
           throw == [do |-> "throw"]
           now == Add(Plain("now"))
<1>1. loop \in QuietItems
  <2>1. Plain("loop") \in Items(0) /\ Plain("loop").op = "loop"
    BY PlainIn DEF QuietNames
  <2>2. Plain("loop") \in ItemRecords(0)  BY <2>1 DEF Items
  <2>3. loop \in ItemRecords(0)  BY <2>2 DEF ItemRecords
  <2>4. loop.op = "loop" /\ loop.n = 5 /\ loop.bits = 40 /\ loop.w = Plain("loop").w
    BY <2>1, <2>2 DEF ItemRecords
  <2>5. ~loop.w  BY <2>1, <2>4 DEF Items, Fitting
  <2> HIDE DEF loop
  <2>6. Fitting(loop)  BY <2>4, <2>5 DEF Fitting
  <2>7. QED  BY <2>3, <2>4, <2>6 DEF QuietItems, Items, QuietNames
<1>2. Add(loop) \in QuietOps /\ Add(loop).do = "add"
  <2> HIDE DEF loop
  <2> QED  BY <1>1 DEF QuietOps, Adds, Add
<1>3. now \in QuietOps /\ now.do = "add"
  BY PlainIn DEF QuietNames, Add
<1>4. Send \in QuietOps /\ Send.do = "send"
  BY SendIn DEF Send
<1>5. get \in QuietOps /\ get.do = "get"
  BY BufferAssumption DEF QuietOps, Gets
<1>6. close \in Ends /\ close.do = "close" /\ throw \in Ends /\ throw.do = "throw"
  BY DEF Ends
<1>7. deinit_script = <<Add(loop), now, Send, get, close>>
  BY Tuples DEF deinit_script, Read
<1> HIDE DEF loop, get, close, throw, now
<1>8. deinit_script \o <<throw>> = <<Add(loop), now, Send, get, close, throw>>
  BY <1>7, Tuples
<1> DEFINE S == QuietOps \cup Ends
<1>9. Add(loop) \in S /\ now \in S /\ Send \in S /\ get \in S /\ close \in S /\ throw \in S
  BY <1>2, <1>3, <1>4, <1>5, <1>6
<1> HIDE DEF S
<1>10. LastWord(deinit_script, 5) /\ Len(deinit_script) = 5
  <2>1. deinit_script \in Seq(S) /\ Len(deinit_script) = 5  BY <1>7, <1>9
  <2>2. \A x \in 1..5 : deinit_script[x].do = "close" => x = 5
    BY <1>2, <1>3, <1>4, <1>5, <1>6, <1>7
  <2>3. \A x \in 1..5 : deinit_script[x].do # "throw"
    BY <1>2, <1>3, <1>4, <1>5, <1>6, <1>7
  <2>4. QED  BY <2>1, <2>2, <2>3 DEF LastWord, S
<1>11. /\ LastWord(deinit_script \o <<throw>>, 5) /\ Len(deinit_script \o <<throw>>) = 6
       /\ (deinit_script \o <<throw>>)[6].do = "throw"
  <2> DEFINE s == deinit_script \o <<throw>>
  <2>0. s = <<Add(loop), now, Send, get, close, throw>>  BY <1>8
  <2> HIDE DEF s
  <2>1. s \in Seq(S) /\ Len(s) = 6  BY <2>0, <1>9
  <2>2. \A x \in 1..6 : s[x].do = "close" => x = 5
    BY <1>2, <1>3, <1>4, <1>5, <1>6, <2>0
  <2>3. \A x \in 1..6 : s[x].do = "throw" => x = 6
    BY <1>2, <1>3, <1>4, <1>5, <1>6, <2>0
  <2>4. s[6].do = "throw"  BY <2>0 DEF throw
  <2>5. QED  BY <2>1, <2>2, <2>3, <2>4 DEF LastWord, S, s
<1>12. QED  BY <1>10, <1>11 DEF throw

------------------------------------------------------------------------------
(***************************************************************************)
(* The scripts of the other cables.                                        *)
(***************************************************************************)
BitKinds == {"parport", "gpio", "xpc_internal"}
XpcOps == [do : {"xfer"}, from : Int, n : Nat \ {0}, bits : 0..XpcMost] \cup {[do |-> "fetch"]}
Fx2Ops == [do : {"out", "inout"}, from : Int, n : Nat \ {0}, len : Nat]
            \cup [do : {"in"}, at : Int, len : Nat]
BitOps == [do : {"pins"}, tck : {0, 1}, tms : {0, 1}, bit : Int]
            \cup [do : {"sample", "mask"}, bit : Int] \cup [do : {"store"}, at : Int]

LEMMA PairIn ==
  ASSUME NEW S, NEW a \in S, NEW b \in S
  PROVE  <<a, b>> \in Seq(S)
OBVIOUS

LEMMA TripleIn ==
  ASSUME NEW S, NEW a \in S, NEW b \in S, NEW c \in S
  PROVE  <<a, b, c>> \in Seq(S)
OBVIOUS

(* Pieces of M while something is left: none of them is empty.             *)
LEMMA PiecesLeft ==
  ASSUME NEW M \in Nat \ {0}, NEW len \in Nat, NEW x \in 1..((len + M - 1) \div M)
  PROVE  M * (x - 1) \in Int /\ len - M * (x - 1) \in Nat \ {0}
<1> DEFINE q == (len + M - 1) \div M
           r == (len + M - 1) % M
<1>1. q \in Nat /\ r \in 0..(M - 1) /\ M * q \in Nat /\ len + M - 1 = M * q + r
  <2>1. len + M - 1 \in Nat  OBVIOUS
  <2> DEFINE y == len + M - 1
  <2>2. y \div M \in Nat /\ y % M \in 0..(M - 1) /\ y = M * (y \div M) + (y % M)
    BY <2>1
  <2>3. M * (y \div M) \in Nat  BY <2>2
  <2>4. QED  BY <2>2, <2>3
<1> HIDE DEF r
<1>2. x \in 1..q  OBVIOUS
<1> HIDE DEF q
<1>3. \A y \in Nat : M * y \in Nat  OBVIOUS
<1>4. x \in Nat /\ x - 1 \in Nat /\ q - x \in Nat  BY <1>1, <1>2
<1>5. M * q = M * x + M * (q - x)  BY <1>1, <1>4
<1>6. M * x = M * (x - 1) + M  BY <1>4
<1>7. M * (x - 1) \in Nat /\ M * (q - x) \in Nat /\ M * x \in Nat  BY <1>3, <1>4
<1>8. QED  BY <1>1, <1>5, <1>6, <1>7

LEMMA XpcIn ==
  ASSUME NEW c, GoodCall(c)
  PROVE  XpcScript(c) \in Seq(XpcOps)
<1> DEFINE M == XpcMost
           chunks == (c.len + XpcMost - 1) \div XpcMost
<1>1. M \in Nat \ {0}  BY TransferAssumption DEF XpcMost
<1>2. c.len \in Nat  BY DEF GoodCall
<1>3. chunks \in Nat
  <2>1. c.len + M - 1 \in Nat  BY <1>1, <1>2
  <2> DEFINE y == c.len + M - 1
  <2> HIDE DEF M
  <2>2. y \div M \in Nat  BY <1>1, <2>1
  <2>3. QED  BY <2>2 DEF M
<1>4. ASSUME NEW x \in 1..chunks
      PROVE  LET from == XpcMost * (x - 1)
                 n == Min2(XpcMost, c.len - from)
             IN  [do |-> "xfer", from |-> from, n |-> n, bits |-> n + Dummy(n, n < XpcMost)] \in XpcOps
  <2> DEFINE from == M * (x - 1)
             n == Min2(M, c.len - from)
             bits == n + Dummy(n, n < M)
  <2>1. from \in Int /\ c.len - from \in Nat \ {0}
    <3> HIDE DEF M
    <3>1. x \in 1..((c.len + M - 1) \div M)  BY DEF M
    <3>2. QED  BY <1>1, <1>2, <3>1, PiecesLeft
  <2> HIDE DEF from
  <2>2. n \in Nat \ {0} /\ n <= M
    <3> HIDE DEF M
    <3> QED  BY <1>1, <2>1 DEF Min2
  <2> HIDE DEF n
  <2>3. bits \in 0..M
    <3>1. CASE n < M /\ n % 4 = 0
      <4>1. bits = n + 1  BY <3>1 DEF Dummy
      <4> HIDE DEF M, bits
      <4>2. QED  BY <1>1, <2>2, <3>1, <4>1
    <3>2. CASE ~(n < M /\ n % 4 = 0)
      <4>1. bits = n + 0  BY <3>2 DEF Dummy
      <4> HIDE DEF M, bits
      <4>2. QED  BY <1>1, <2>2, <4>1
    <3>3. QED  BY <3>1, <3>2
  <2>4. [do |-> "xfer", from |-> from, n |-> n, bits |-> bits] \in XpcOps
    <3> HIDE DEF M, bits
    <3>1. bits \in 0..XpcMost  BY <2>3 DEF M
    <3>2. QED  BY <2>1, <2>2, <3>1 DEF XpcOps
  <2>5. QED  BY <2>4 DEF from, n
<1>5. CASE c.op = "sleep"
  BY <1>5 DEF XpcScript
<1>6. CASE c.op # "sleep"
  <2> DEFINE s == [x \in 1..chunks |->
                     LET from == XpcMost * (x - 1)
                         n == Min2(XpcMost, c.len - from)
                     IN  [do |-> "xfer", from |-> from, n |-> n,
                          bits |-> n + Dummy(n, n < XpcMost)]]
  <2>1. XpcScript(c) = s  BY <1>6 DEF XpcScript
  <2>2. \A x \in 1..chunks : s[x] \in XpcOps  BY <1>4
  <2>3. s = [x \in 1..chunks |-> s[x]]  OBVIOUS
  <2> HIDE DEF s, chunks
  <2>4. s \in Seq(XpcOps)  BY <1>3, <2>2, <2>3
  <2>5. QED  BY <2>1, <2>4
<1>7. QED  BY <1>5, <1>6

(* Whatever a transfer of an XPC asks for fits the buffer.                 *)
LEMMA TransfersFit ==
  ASSUME NEW bits \in 0..XpcMost
  PROVE  in_len(bits) <= CPLD_MAX_BYTES
<1> DEFINE j == CPLD_MAX_BYTES \div 2
           k == (bits + 3) \div 4
<1>1. j \in Nat /\ CPLD_MAX_BYTES = 2 * j  BY TransferAssumption
<1>2. bits \in Nat /\ bits <= 4 * j - 1
  <2> HIDE DEF j
  <2>1. XpcMost = 4 * j - 1  BY <1>1 DEF XpcMost
  <2>2. QED  BY <2>1, <1>1
<1>3. k \in Nat /\ 4 * k <= bits + 3  BY <1>2
<1> HIDE DEF j, k
<1>4. k <= j  BY <1>1, <1>2, <1>3
<1>5. in_len(bits) = 2 * k  BY DEF in_len, k
<1>6. QED  BY <1>1, <1>3, <1>4, <1>5

LEMMA PieceIn ==
  ASSUME NEW c, NEW from \in Int, NEW n \in Nat \ {0}, NEW len \in Nat
  PROVE  /\ Fx2Piece(c, from, n, len) \in Seq(Fx2Ops)
         /\ Fx2Bits(c, from, n) \in Seq(Fx2Ops)
<1> DEFINE out == [do |-> "out", from |-> from, n |-> n, len |-> len]
           in == [do |-> "in", at |-> from, len |-> len]
           both == [do |-> "inout", from |-> from, n |-> n, len |-> len]
           bits == [do |-> "out", from |-> from, n |-> n, len |-> n]
           one == [do |-> "in", at |-> from, len |-> 1]
<1>1. /\ out \in Fx2Ops /\ in \in Fx2Ops /\ both \in Fx2Ops /\ bits \in Fx2Ops /\ one \in Fx2Ops
  BY DEF Fx2Ops
<1> HIDE DEF out, in, both, bits, one
<1>2. /\ <<out>> \in Seq(Fx2Ops) /\ <<in>> \in Seq(Fx2Ops) /\ <<both>> \in Seq(Fx2Ops)
      /\ <<bits>> \in Seq(Fx2Ops) /\ <<one>> \in Seq(Fx2Ops) /\ <<>> \in Seq(Fx2Ops)
  BY <1>1, OneIn
<1>3. <<out>> \o <<in>> \in Seq(Fx2Ops) /\ <<out>> \o <<>> \in Seq(Fx2Ops)
      /\ <<bits>> \o <<one>> \in Seq(Fx2Ops) /\ <<bits>> \o <<>> \in Seq(Fx2Ops)
  BY <1>2, ConcatIn
<1>4. Fx2Piece(c, from, n, len) =
        IF c.write THEN <<out>> \o (IF c.read THEN <<in>> ELSE <<>>) ELSE <<both>>
  BY DEF Fx2Piece, out, in, both
<1>5. Fx2Bits(c, from, n) = <<bits>> \o (IF c.read THEN <<one>> ELSE <<>>)
  BY DEF Fx2Bits, bits, one
<1>6. CASE c.read
  BY <1>2, <1>3, <1>4, <1>5, <1>6
<1>7. CASE ~c.read
  BY <1>2, <1>3, <1>4, <1>5, <1>7
<1>8. QED  BY <1>6, <1>7

LEMMA Fx2BlockIn ==
  ASSUME NEW c, GoodCall(c), c.op = "block"
  PROVE  Fx2Block(c) \in Seq(Fx2Ops)
<1> DEFINE S == USRP_CMD_SIZE * 8
           rem == IF c.last THEN c.len - 1 ELSE c.len
           p == Pieces(rem)
           bytes == (rem - S * p) \div 8
           from == S * p + 8 * bytes
           bits == (rem % 8) + IF c.last THEN 1 ELSE 0
           a == FlattenSeq([x \in 1..p |-> Fx2Piece(c, S * (x - 1), S, USRP_CMD_SIZE)])
           b == IF bytes > 0 THEN Fx2Piece(c, S * p, 8 * bytes, bytes) ELSE <<>>
           d == IF bits > 0 THEN Fx2Bits(c, from, bits) ELSE <<>>
<1>1. S \in Nat \ {0} /\ USRP_CMD_SIZE \in Nat  BY TransferAssumption
<1>2. rem \in Nat  BY DEF GoodCall
<1>3. Fx2Block(c) = a \o b \o d  BY DEF Fx2Block
<1>4. p \in Nat
  <2> HIDE DEF rem
  <2> DEFINE q == (rem - 1) \div S
  <2>1. p = IF rem > S THEN q ELSE 0  BY DEF Pieces
  <2>2. rem > S => q \in Nat
    <3> HIDE DEF S
    <3>1. rem > S => rem - 1 \in Nat  BY <1>1, <1>2
    <3>2. QED  BY <3>1, <1>1
  <2> HIDE DEF p, q
  <2>3. QED  BY <2>1, <2>2
<1> HIDE DEF rem, p
<1>5. S * p \in Int /\ \A x \in Int : S * x \in Int
  <2> HIDE DEF S
  <2> QED  BY <1>1, <1>4
<1>6. bytes \in Int
  <2> DEFINE y == rem - S * p
  <2>1. y \in Int  BY <1>2, <1>5
  <2> HIDE DEF y
  <2>2. y \div 8 \in Int  BY <2>1
  <2>3. QED  BY <2>2 DEF y
<1> HIDE DEF S, bytes
<1>7. from \in Int /\ bits \in Nat
  <2>1. from \in Int  BY <1>5, <1>6
  <2>2. rem % 8 \in Nat  BY <1>2
  <2>3. QED  BY <2>1, <2>2
<1> HIDE DEF from, bits
<1>8. a \in Seq(Fx2Ops)
  <2> DEFINE parts == [x \in 1..p |-> Fx2Piece(c, S * (x - 1), S, USRP_CMD_SIZE)]
  <2>1. ASSUME NEW x \in 1..p PROVE Fx2Piece(c, S * (x - 1), S, USRP_CMD_SIZE) \in Seq(Fx2Ops)
    <3>1. S * (x - 1) \in Int  BY <1>5
    <3>2. QED  BY <1>1, <3>1, PieceIn
  <2>2. parts \in Seq(Seq(Fx2Ops))  BY <1>4, <2>1
  <2> HIDE DEF parts
  <2>3. FlattenSeq(parts) \in Seq(Fx2Ops)  BY <2>2, FlattenIn
  <2>4. QED  BY <2>3 DEF parts
<1>9. b \in Seq(Fx2Ops)
  <2>1. bytes > 0 => bytes \in Nat /\ 8 * bytes \in Nat \ {0}  BY <1>6
  <2>2. bytes > 0 => Fx2Piece(c, S * p, 8 * bytes, bytes) \in Seq(Fx2Ops)
    BY <2>1, <1>5, PieceIn
  <2>3. <<>> \in Seq(Fx2Ops)  OBVIOUS
  <2>4. QED  BY <2>2, <2>3
<1>10. d \in Seq(Fx2Ops)
  <2>1. bits > 0 => Fx2Bits(c, from, bits) \in Seq(Fx2Ops)
    <3>1. bits > 0 => bits \in Nat \ {0}  BY <1>7
    <3>2. QED  BY <1>7, <3>1, PieceIn
  <2>2. <<>> \in Seq(Fx2Ops)  OBVIOUS
  <2>3. QED  BY <2>1, <2>2
<1> HIDE DEF a, b, d
<1>11. QED  BY <1>3, <1>8, <1>9, <1>10, ConcatIn

LEMMA Fx2ScriptIn ==
  ASSUME NEW c, GoodCall(c)
  PROVE  Fx2Script(c) \in Seq(Fx2Ops)
<1>1. CASE c.op = "block"
  BY <1>1, Fx2BlockIn DEF Fx2Script
<1>2. CASE c.op = "tms"
  <2> DEFINE out == [do |-> "out", from |-> 0, n |-> c.len, len |-> c.len]
  <2>1. c.len \in Nat \ {0}  BY <1>2 DEF GoodCall
  <2>2. out \in Fx2Ops  BY <2>1 DEF Fx2Ops
  <2>3. <<out>> \in Seq(Fx2Ops)
    <3> HIDE DEF out
    <3> QED  BY <2>2, OneIn
  <2>4. QED  BY <1>2, <2>3 DEF Fx2Script
<1>3. CASE c.op = "sleep"
  BY <1>3 DEF Fx2Script
<1>4. QED  BY <1>1, <1>2, <1>3 DEF GoodCall, Ops

LEMMA PinIn ==
  ASSUME NEW x \in Int
  PROVE  /\ \A clk \in {0, 1}, val \in {0, 1} : Pin(clk, val, x) \in BitOps
         /\ Sample(x) \in BitOps /\ Store(x) \in BitOps /\ [do |-> "mask", bit |-> x] \in BitOps
         /\ \A val \in {0, 1} : Low(val) \in BitOps /\ txrx(val, x) \in Seq(BitOps)
<1>1. \A clk \in {0, 1}, val \in {0, 1}, y \in Int : Pin(clk, val, y) \in BitOps
  BY DEF Pin, BitOps
<1>2. Sample(x) \in BitOps /\ [do |-> "mask", bit |-> x] \in BitOps
  BY DEF Sample, BitOps
<1>3. Store(x) \in BitOps
  <2>1. 8 * x \in Int  OBVIOUS
  <2>2. QED  BY <2>1 DEF Store, BitOps
<1>4. ASSUME NEW val \in {0, 1} PROVE Low(val) \in BitOps /\ txrx(val, x) \in Seq(BitOps)
  <2>1. (IF kind = "gpio" THEN val ELSE 0) \in {0, 1} /\ 0 \in {0, 1} /\ 1 \in {0, 1} /\ 0 \in Int
    OBVIOUS
  <2>2. Low(val) \in BitOps  BY <1>1, <2>1 DEF Low
  <2>3. Pin(0, val, x) \in BitOps /\ Pin(1, val, x) \in BitOps  BY <1>1, <2>1
  <2>4. <<Pin(0, val, x), Pin(1, val, x), Sample(x)>> \in Seq(BitOps)
    BY <2>3, <1>2, TripleIn
  <2>5. QED  BY <2>2, <2>4 DEF txrx
<1>5. QED  BY <1>1, <1>2, <1>3, <1>4

LEMMA BitBlockIn ==
  ASSUME NEW c, GoodCall(c), c.op = "block"
  PROVE  BitBlock(c) \in Seq(BitOps)
<1> DEFINE val == IF c.last THEN 1 ELSE 0
           n == c.len - 1
           part(x) == txrx(0, x - 1) \o If(c.read /\ x % 8 = 0, <<Store((x \div 8) - 1)>>)
           parts == [x \in 1..n |-> part(x)]
           store == If(c.read, <<Store(n \div 8)>>)
<1>1. n \in Nat /\ n \in Int /\ n \div 8 \in Int  BY DEF GoodCall, Ops
<1>2. val \in {0, 1} /\ 0 \in {0, 1}  OBVIOUS
<1> HIDE DEF val, n
<1>3. ASSUME NEW x \in 1..n PROVE part(x) \in Seq(BitOps)
  <2>1. x - 1 \in Int /\ (x \div 8) - 1 \in Int  BY <1>1
  <2>2. txrx(0, x - 1) \in Seq(BitOps)  BY <2>1, <1>2, PinIn
  <2>3. Store((x \div 8) - 1) \in BitOps  BY <2>1, PinIn
  <2>4. <<Store((x \div 8) - 1)>> \in Seq(BitOps)  BY <2>3, OneIn
  <2>5. If(c.read /\ x % 8 = 0, <<Store((x \div 8) - 1)>>) \in Seq(BitOps)  BY <2>4, IfIn
  <2>6. QED  BY <2>2, <2>5, ConcatIn
<1> HIDE DEF part
<1>4. parts \in Seq(Seq(BitOps))  BY <1>1, <1>3
<1> HIDE DEF parts
<1>5. FlattenSeq(parts) \in Seq(BitOps)  BY <1>4, FlattenIn
<1>6. txrx(val, n) \in Seq(BitOps) /\ Low(val) \in BitOps  BY <1>1, <1>2, PinIn
<1>7. store \in Seq(BitOps)
  <2>1. Store(n \div 8) \in BitOps  BY <1>1, PinIn
  <2>2. <<Store(n \div 8)>> \in Seq(BitOps)  BY <2>1, OneIn
  <2>3. QED  BY <2>2, IfIn
<1> HIDE DEF store
<1>8. <<Low(val)>> \in Seq(BitOps)  BY <1>6, OneIn
<1>9. BitBlock(c) = FlattenSeq(parts) \o txrx(val, n) \o store \o <<Low(val)>>
  BY DEF BitBlock, parts, part, val, n, store
<1>10. QED  BY <1>5, <1>6, <1>7, <1>8, <1>9, ConcatIn

LEMMA BitTmsIn ==
  ASSUME NEW c, GoodCall(c)
  PROVE  BitTms(c) \in Seq(BitOps) /\ InternalTms(c) \in Seq(BitOps)
<1> DEFINE up == [x \in 1..c.len |-> <<Pin(0, 1, x - 1), Pin(1, 1, x - 1)>>]
           down == [x \in 1..c.len |-> <<Pin(1, 1, x - 1), Pin(0, 1, x - 1)>>]
<1>1. c.len \in Nat  BY DEF GoodCall
<1>2. ASSUME NEW x \in 1..c.len
      PROVE  /\ <<Pin(0, 1, x - 1), Pin(1, 1, x - 1)>> \in Seq(BitOps)
             /\ <<Pin(1, 1, x - 1), Pin(0, 1, x - 1)>> \in Seq(BitOps)
  <2>1. x - 1 \in Int /\ 0 \in {0, 1} /\ 1 \in {0, 1}  BY <1>1
  <2>2. Pin(0, 1, x - 1) \in BitOps /\ Pin(1, 1, x - 1) \in BitOps  BY <2>1, PinIn
  <2>3. QED  BY <2>2, PairIn
<1>3. up \in Seq(Seq(BitOps)) /\ down \in Seq(Seq(BitOps))
  <2> DEFINE a(x) == <<Pin(0, 1, x - 1), Pin(1, 1, x - 1)>>
             b(x) == <<Pin(1, 1, x - 1), Pin(0, 1, x - 1)>>
  <2>1. \A x \in 1..c.len : a(x) \in Seq(BitOps)  BY <1>2
  <2>2. \A x \in 1..c.len : b(x) \in Seq(BitOps)  BY <1>2
  <2>3. up = [x \in 1..c.len |-> a(x)] /\ down = [x \in 1..c.len |-> b(x)]  OBVIOUS
  <2> HIDE DEF a, b, up, down
  <2>4. [x \in 1..c.len |-> a(x)] \in Seq(Seq(BitOps))  BY <1>1, <2>1
  <2>5. [x \in 1..c.len |-> b(x)] \in Seq(Seq(BitOps))  BY <1>1, <2>2
  <2>6. QED  BY <2>3, <2>4, <2>5
<1>4. <<Low(1)>> \in Seq(BitOps)
  <2>1. Low(1) \in BitOps
    <3>1. 0 \in Int /\ 1 \in {0, 1}  OBVIOUS
    <3>2. QED  BY <3>1, PinIn
  <2>2. QED  BY <2>1, OneIn
<1>5. BitTms(c) = FlattenSeq(up) \o <<Low(1)>> /\ InternalTms(c) = FlattenSeq(down)
  BY DEF BitTms, InternalTms
<1> HIDE DEF up, down
<1>6. FlattenSeq(up) \in Seq(BitOps) /\ FlattenSeq(down) \in Seq(BitOps)  BY <1>3, FlattenIn
<1>7. QED  BY <1>4, <1>5, <1>6, ConcatIn

LEMMA InternalIn ==
  ASSUME NEW c, GoodCall(c)
  PROVE  InternalBlock(c) \in Seq(BitOps)
<1> DEFINE val == IF c.last THEN 1 ELSE 0
           mask(x) == [do |-> "mask", bit |-> x - 1]
           part(x) == <<Pin(1, val, x - 1)>> \o If(c.read, <<mask(x)>>) \o <<Pin(0, val, x - 1)>>
           parts == [x \in 1..c.len |-> part(x)]
<1>1. c.len \in Nat  BY DEF GoodCall
<1>2. val \in {0, 1} /\ 0 \in {0, 1} /\ 1 \in {0, 1}  OBVIOUS
<1> HIDE DEF val
<1>3. ASSUME NEW x \in 1..c.len PROVE part(x) \in Seq(BitOps)
  <2>1. x - 1 \in Int  BY <1>1
  <2>2. Pin(1, val, x - 1) \in BitOps /\ Pin(0, val, x - 1) \in BitOps /\ mask(x) \in BitOps
    BY <2>1, <1>2, PinIn
  <2> HIDE DEF mask
  <2>3. <<Pin(1, val, x - 1)>> \in Seq(BitOps) /\ <<Pin(0, val, x - 1)>> \in Seq(BitOps)
        /\ <<mask(x)>> \in Seq(BitOps)
    BY <2>2, OneIn
  <2>4. If(c.read, <<mask(x)>>) \in Seq(BitOps)  BY <2>3, IfIn
  <2>5. QED  BY <2>3, <2>4, ConcatIn
<1> HIDE DEF part
<1>4. parts \in Seq(Seq(BitOps))  BY <1>1, <1>3
<1>5. InternalBlock(c) = FlattenSeq(parts)  BY DEF InternalBlock, part, val
<1> HIDE DEF parts
<1>6. QED  BY <1>4, <1>5, FlattenIn

LEMMA BitScriptIn ==
  ASSUME NEW c, GoodCall(c)
  PROVE  BitScript(c) \in Seq(BitOps)
<1>1. CASE c.op = "sleep"
  BY <1>1 DEF BitScript
<1>2. CASE c.op = "tms"
  BY <1>2, BitTmsIn DEF BitScript
<1>3. CASE c.op = "block"
  BY <1>3, BitBlockIn, InternalIn DEF BitScript
<1>4. QED  BY <1>1, <1>2, <1>3 DEF GoodCall, Ops

------------------------------------------------------------------------------
(***************************************************************************)
(* The inductive invariant, part by part.                                  *)
(***************************************************************************)

(* A command the chip runs belongs to a call.                              *)
Kept(k) == {it \in Items(k) : it.op \in QuietNames \/ it.call >= 1}

(* The object is one the data base describes, and its calls are such as    *)
(* the callers make.                                                       *)
Linked ==
  /\ kind \in Kinds /\ freq \in Nat /\ state \in States
  /\ handle \in {"none", "open", "closed"} /\ told \in BOOLEAN /\ silent \in BOOLEAN
  /\ misuse \in BOOLEAN
  /\ \E r \in Requests : kind = r.kind /\ opt = r.opt
  /\ calls \in Seq(Calls[kind]) /\ Here <= MaxCalls

(* What the script of each cable can hold; without a call, only the        *)
(* commands that open and close an FTDI cable.                             *)
Scripted ==
  /\ IsFtdi => script \in Seq(FtdiOps \cup Ends)
  /\ IsFtdi /\ calls = <<>> => script \in Seq(QuietOps \cup Ends)
  /\ kind = "xpc" => script \in Seq(XpcOps)
  /\ kind = "fx2" => script \in Seq(Fx2Ops)
  /\ kind \in BitKinds => script \in Seq(BitOps)
  /\ ~IsFtdi /\ calls = <<>> => script = <<>>
  /\ state \notin {"init", "busy", "closing"} => script = <<>>
  /\ state = "init" /\ handle = "none" => script = <<>>

(* deinit ends by closing the device.                                      *)
Ending ==
  \A x \in DOMAIN script :
    /\ script[x].do = "close" =>
         /\ \A y \in DOMAIN script : script[y].do = "close" => y = x
         /\ told \/ (x = Len(script) /\ state = "closing")
    /\ script[x].do = "throw" => told

(* The handle is open, unless a failure was told.                          *)
Handled ==
  /\ state \in {"refused", "thrown", "aborted"} => told
  /\ \/ told \/ handle = "open"
     \/ state = "init" /\ handle = "none"
     \/ state = "closing" /\ script = <<>>
     \/ state = "closed"

(* The runs of edges and bits are not empty and belong to calls made.      *)
Wired == wire \in Seq(Seen(Here)) /\ got \in Seq(Captured)

(* What is on its way to the chip and back.  An answer has at most one     *)
(* byte more than its bits fill (Answers).                                 *)
Buffered ==
  /\ usbuf \in Seq(Kept(Here)) /\ bptr = Held(usbuf) /\ bptr < TX_BUF
  /\ chip \in Seq(Kept(Here)) /\ fifo \in Seq(Answers)
  /\ want \in [n : Nat \cup {-1}, r : BOOLEAN] /\ want.n <= 65536

(* A read under way.                                                       *)
Reading ==
  /\ tries \in 0..(Retries + 1) /\ have \in Nat /\ put \in Int
  /\ err \in BOOLEAN
  /\ IF Doing("get") THEN have <= Op.n ELSE tries = 0 /\ have = 0

(* The bits the devices hold, and the pins.                                *)
Held_usb == {cpld, held} \subseteq [from : Int, n : Nat]

Pinned == /\ {tck, tms} \subseteq {0, 1} /\ acc \in Seq(Captured) /\ driven \in BOOLEAN
          /\ cabletype \in {"unset", "none", "bblst", "pciii"}

(* CableRecognised, with the moment between Init and the first call, and   *)
(* with the outputs off while there is no handle.                          *)
Recognised ==
  kind = "parport" =>
    /\ state \in {"idle", "busy"} \/ (state = "init" /\ handle = "open") =>
         cabletype \in {"bblst", "pciii"}
    /\ cabletype = "bblst" => IsByteblaster /\ ~ReadsZero
    /\ cabletype = "pciii" => IsParallelIII
    /\ cabletype = "none" => ~IsParallelIII /\ (IsByteblaster => ReadsZero)
    /\ driven => cabletype = "bblst" /\ state # "closed" /\ handle = "open"

------------------------------------------------------------------------------
(***************************************************************************)
(* The steps.                                                              *)
(***************************************************************************)
FtdiStep == FtdiHost \/ ChipStep
CommonStep == Ready \/ Return \/ Terminate

LEMMA StepIs ==
  ASSUME [Next]_vars
  PROVE  \/ FtdiStep /\ UNCHANGED <<vars_usb, vars_bits>>
         \/ UsbNext /\ UNCHANGED <<vars_ftdi, vars_bits>>
         \/ BitNext /\ UNCHANGED <<vars_ftdi, vars_usb>>
         \/ CommonStep /\ UNCHANGED <<vars_ftdi, vars_usb, vars_bits>>
         \/ UNCHANGED vars
BY DEF Next, Host, Chip, Stay, FtdiStep, CommonStep

(* A call begins.                                                          *)
Begins == FtdiBegin \/ XpcBegin \/ Fx2Begin \/ BitBegin

LEMMA BeginIs ==
  ASSUME Linked, Begins
  PROVE  /\ state = "idle" /\ state' = "busy" /\ got' = <<>>
         /\ UNCHANGED <<link, wire, handle, hist>>
         /\ \E c \in Calls[kind] :
              /\ calls' = Append(calls, c) /\ GoodCall(c)
              /\ IsFtdi => script' = FtdiScript(c)
              /\ kind = "xpc" => script' = XpcScript(c)
              /\ kind = "fx2" => script' = Fx2Script(c)
              /\ kind \in BitKinds => script' = BitScript(c)
         /\ calls' \in Seq(Calls[kind]) /\ Len(calls') = Here + 1 /\ Len(calls') <= MaxCalls
<1>1. \A c \in Calls[kind] : GoodCall(c)  BY GoodCalls DEF Linked
<1>2. ASSUME NEW c \in Calls[kind]
      PROVE  Append(calls, c) \in Seq(Calls[kind]) /\ Len(Append(calls, c)) = Here + 1
  BY AppendIn DEF Linked, Here
<1>3. /\ state = "idle" /\ state' = "busy" /\ got' = <<>> /\ Here < MaxCalls
      /\ UNCHANGED <<link, wire, handle, hist>>
  BY DEF Begins, FtdiBegin, XpcBegin, Fx2Begin, BitBegin, Begin
<1>4. Here \in Nat /\ MaxCalls \in Nat
  BY RequestAssumption DEF Linked, Here
<1>5. PICK c \in Calls[kind] :
              /\ calls' = Append(calls, c)
              /\ IsFtdi => script' = FtdiScript(c)
              /\ kind = "xpc" => script' = XpcScript(c)
              /\ kind = "fx2" => script' = Fx2Script(c)
              /\ kind \in BitKinds => script' = BitScript(c)
  <2>1. CASE FtdiBegin
    BY <2>1 DEF FtdiBegin, Begin, IsFtdi, BitKinds
  <2>2. CASE XpcBegin
    BY <2>2 DEF XpcBegin, Begin, IsFtdi, BitKinds
  <2>3. CASE Fx2Begin
    BY <2>3 DEF Fx2Begin, Begin, IsFtdi, BitKinds
  <2>4. CASE BitBegin
    BY <2>4 DEF BitBegin, Begin, IsFtdi, BitKinds
  <2>5. QED  BY <2>1, <2>2, <2>3, <2>4 DEF Begins
<1>6. calls' \in Seq(Calls[kind]) /\ Len(calls') = Here + 1  BY <1>2, <1>5
<1>7. Len(calls') <= MaxCalls  BY <1>3, <1>4, <1>6
<1>8. GoodCall(c)  BY <1>1, <1>5
<1>9. QED  BY <1>3, <1>5, <1>6, <1>7, <1>8

LEMMA CallsStay ==
  ASSUME [Next]_vars, ~Begins
  PROVE  UNCHANGED calls
<1>1. CASE FtdiStep
  BY <1>1 DEF Begins, FtdiStep, FtdiHost, FtdiOpen, FtdiRefused, mpsse_add_cmd, FtdiFill,
     mpsse_send, ShortWrite, FtdiRead, FtdiReadError, FtdiReadDone, FtdiThrow, FtdiClose,
     FtdiDestroy, FtdiEnd, ChipStep, vars_cable
<1>2. CASE UsbNext
  BY <1>2 DEF Begins, UsbNext, XpcInit, XpcWrite, XpcWriteFails, XpcRead, XpcReadFails,
     Fx2Init, Fx2Refused, Fx2Out, Fx2In, Fx2InOut, Fx2Error, UsbDestroy
<1>3. CASE BitNext
  BY <1>3 DEF Begins, BitNext, ParportInit, GpioInit, SetPins, Capture, StoreByte,
     CaptureMask, PinFails, BitDestroy
<1>4. CASE CommonStep
  BY <1>4 DEF CommonStep, Ready, Return, Terminate
<1>5. CASE UNCHANGED vars
  BY <1>5 DEF vars, vars_cable
<1>6. QED  BY <1>1, <1>2, <1>3, <1>4, <1>5, StepIs

LEMMA LinkStays ==
  ASSUME [Next]_vars
  PROVE  UNCHANGED link
<1>1. CASE FtdiStep
  BY <1>1 DEF FtdiStep, FtdiHost, FtdiOpen, FtdiRefused, FtdiBegin, Begin, mpsse_add_cmd, FtdiFill,
     mpsse_send, ShortWrite, FtdiRead, FtdiReadError, FtdiReadDone, FtdiThrow, FtdiClose,
     FtdiDestroy, FtdiEnd, ChipStep, vars_cable, link
<1>2. CASE UsbNext
  BY <1>2 DEF UsbNext, XpcInit, XpcBegin, XpcWrite, XpcWriteFails, XpcRead, XpcReadFails,
     Fx2Init, Fx2Begin, Fx2Refused, Fx2Out, Fx2In, Fx2InOut, Fx2Error, UsbDestroy, Begin, link
<1>3. CASE BitNext
  BY <1>3 DEF BitNext, ParportInit, GpioInit, BitBegin, SetPins, Capture, StoreByte,
     CaptureMask, PinFails, BitDestroy, Begin, link
<1>4. CASE CommonStep
  BY <1>4 DEF CommonStep, Ready, Return, Terminate, link
<1>5. CASE UNCHANGED vars
  BY <1>5 DEF vars, vars_cable, link
<1>6. QED  BY <1>1, <1>2, <1>3, <1>4, <1>5, StepIs

LEMMA LifeTyped ==
  ASSUME Linked, [Next]_vars
  PROVE  /\ state' \in States /\ handle' \in {"none", "open", "closed"}
         /\ told' \in BOOLEAN /\ silent' \in BOOLEAN /\ misuse' \in BOOLEAN
<1> USE DEF Linked, States, hist, Throw, Refuse
<1>1. CASE FtdiStep
  BY <1>1 DEF FtdiStep, FtdiHost, FtdiOpen, FtdiRefused, FtdiBegin, Begin, mpsse_add_cmd, FtdiFill,
     mpsse_send, ShortWrite, FtdiRead, FtdiReadError, FtdiReadDone, FtdiThrow, FtdiClose,
     FtdiDestroy, FtdiEnd, ChipStep, vars_cable
<1>2. CASE UsbNext
  BY <1>2 DEF UsbNext, XpcInit, XpcBegin, XpcWrite, XpcWriteFails, XpcRead, XpcReadFails, Drop,
     Fx2Init, Fx2Begin, Fx2Refused, Fx2Out, Fx2In, Fx2InOut, Fx2Error, UsbDestroy, Begin
<1>3. CASE BitNext
  BY <1>3 DEF BitNext, ParportInit, GpioInit, BitBegin, SetPins, Capture, StoreByte,
     CaptureMask, PinFails, BitDestroy, Begin, Missed
<1>4. CASE CommonStep
  BY <1>4 DEF CommonStep, Ready, Return, Terminate
<1>5. CASE UNCHANGED vars
  BY <1>5 DEF vars, vars_cable
<1>6. QED  BY <1>1, <1>2, <1>3, <1>4, <1>5, StepIs

LEMMA LinkedKept ==
  ASSUME Linked, [Next]_vars
  PROVE  Linked'
<1>1. UNCHANGED <<kind, freq, opt>>  BY LinkStays DEF link
<1>2. calls' \in Seq(Calls[kind]) /\ Len(calls') <= MaxCalls
  <2>1. CASE Begins
    BY <2>1, BeginIs
  <2>2. CASE ~Begins
    BY <2>2, CallsStay DEF Linked, Here
  <2>3. QED  BY <2>1, <2>2
<1>3. QED  BY <1>1, <1>2, LifeTyped DEF Linked, Here

------------------------------------------------------------------------------
(***************************************************************************)
(* The scripts.                                                            *)
(***************************************************************************)
LEMMA KindCases ==
  ASSUME Linked
  PROVE  /\ IsFtdi \/ kind = "xpc" \/ kind = "fx2" \/ kind \in BitKinds
         /\ IsFtdi => kind # "xpc" /\ kind # "fx2" /\ kind \notin BitKinds
         /\ "xpc" \notin BitKinds /\ "fx2" \notin BitKinds
BY DEF Linked, Kinds, IsFtdi, BitKinds

LEMMA HeadIs ==
  ASSUME Linked, Scripted, script # <<>>
  PROVE  /\ IsFtdi => Op \in FtdiOps \cup Ends
         /\ IsFtdi /\ calls = <<>> => Op \in QuietOps \cup Ends
         /\ kind = "xpc" => Op \in XpcOps
         /\ kind = "fx2" => Op \in Fx2Ops
         /\ kind \in BitKinds => Op \in BitOps
         /\ calls = <<>> => IsFtdi
         /\ state \in {"init", "busy", "closing"} /\ ~(state = "init" /\ handle = "none")
<1>1. \A S : script \in Seq(S) => Op \in S  BY TailIn DEF Op
<1>2. QED  BY <1>1 DEF Scripted, Linked, States

LEMMA OpKinds ==
  /\ \A o \in FtdiOps \cup Ends : o.do \in {"add", "send", "get", "fill", "close", "throw"}
  /\ \A o \in QuietOps \cup Ends : o.do \in {"add", "send", "get", "close", "throw"}
  /\ \A o \in XpcOps : o.do \in {"xfer", "fetch"}
  /\ \A o \in Fx2Ops : o.do \in {"out", "inout", "in"}
  /\ \A o \in BitOps : o.do \in {"pins", "sample", "mask", "store"}
<1>1. \A o \in FtdiOps \cup Ends : o.do \in {"add", "send", "get", "fill", "close", "throw"}
  BY DEF FtdiOps, Ends, Adds, Gets, Fills, Send
<1>2. \A o \in QuietOps \cup Ends : o.do \in {"add", "send", "get", "close", "throw"}
  BY DEF QuietOps, Ends, Adds, Gets, Send
<1>3. \A o \in XpcOps : o.do \in {"xfer", "fetch"}  BY DEF XpcOps
<1>4. \A o \in Fx2Ops : o.do \in {"out", "inout", "in"}  BY DEF Fx2Ops
<1>5. \A o \in BitOps : o.do \in {"pins", "sample", "mask", "store"}  BY DEF BitOps
<1>6. QED  BY <1>1, <1>2, <1>3, <1>4, <1>5

(* Whose operation it is.                                                  *)
LEMMA Whose ==
  ASSUME Linked, Scripted, script # <<>>
  PROVE  /\ Op.do \in {"add", "send", "get", "fill", "close", "throw"} => IsFtdi
         /\ Op.do \in {"xfer", "fetch"} => kind = "xpc"
         /\ Op.do \in {"out", "inout", "in"} => kind = "fx2"
         /\ Op.do \in {"pins", "sample", "mask", "store"} => kind \in BitKinds
         /\ Op.do = "fill" => calls # <<>>
<1> DEFINE d == Op.do
<1>1. /\ IsFtdi => d \in {"add", "send", "get", "fill", "close", "throw"}
      /\ IsFtdi /\ calls = <<>> => d \in {"add", "send", "get", "close", "throw"}
      /\ kind = "xpc" => d \in {"xfer", "fetch"}
      /\ kind = "fx2" => d \in {"out", "inout", "in"}
      /\ kind \in BitKinds => d \in {"pins", "sample", "mask", "store"}
      /\ calls = <<>> => IsFtdi
  BY HeadIs, OpKinds
<1> HIDE DEF d
<1>2. IsFtdi \/ kind = "xpc" \/ kind = "fx2" \/ kind \in BitKinds  BY KindCases
<1>3. QED
  <2>1. /\ d \in {"add", "send", "get", "fill", "close", "throw"} => IsFtdi
        /\ d \in {"xfer", "fetch"} => kind = "xpc"
        /\ d \in {"out", "inout", "in"} => kind = "fx2"
        /\ d \in {"pins", "sample", "mask", "store"} => kind \in BitKinds
        /\ d = "fill" => calls # <<>>
    BY <1>1, <1>2
  <2>2. QED  BY <2>1 DEF d

LEMMA ScriptTail ==
  ASSUME Linked, Scripted, script # <<>>, script' = Tail(script),
         UNCHANGED <<kind, calls, state>>, handle' = handle \/ handle' # "none"
  PROVE  Scripted'
<1>1. \A S : script \in Seq(S) => script' \in Seq(S)  BY TailIn
<1>2. IsFtdi' = IsFtdi  BY DEF IsFtdi
<1>3. state \in {"init", "busy", "closing"} /\ ~(state = "init" /\ handle = "none")
      /\ (calls = <<>> => IsFtdi)
  BY HeadIs
<1>4. QED  BY <1>1, <1>2, <1>3 DEF Scripted

LEMMA ScriptNone ==
  ASSUME script' = <<>>
  PROVE  Scripted'
<1>1. \A S : <<>> \in Seq(S)  OBVIOUS
<1>2. QED  BY <1>1 DEF Scripted

LEMMA ScriptSame ==
  ASSUME Scripted, UNCHANGED <<kind, calls, script>>,
         \/ script = <<>>
         \/ UNCHANGED state /\ (handle' = handle \/ handle' # "none")
  PROVE  Scripted'
<1>1. CASE script = <<>>
  BY <1>1, ScriptNone
<1>2. CASE UNCHANGED state /\ (handle' = handle \/ handle' # "none")
  BY <1>2 DEF Scripted, IsFtdi
<1>3. QED  BY <1>1, <1>2

LEMMA ScriptBegins ==
  ASSUME Linked, Begins
  PROVE  Scripted'
<1>1. UNCHANGED <<kind, freq, handle>> /\ state' = "busy" /\ calls' # <<>>
  <2>1. Len(calls') = Here + 1 /\ Here \in Nat  BY BeginIs DEF Linked, Here
  <2>2. QED  BY <2>1, BeginIs DEF link
<1>2. freq \in Nat  BY DEF Linked
<1>3. PICK c \in Calls[kind] :
              /\ GoodCall(c)
              /\ IsFtdi => script' = FtdiScript(c)
              /\ kind = "xpc" => script' = XpcScript(c)
              /\ kind = "fx2" => script' = Fx2Script(c)
              /\ kind \in BitKinds => script' = BitScript(c)
  BY BeginIs
<1>4. IsFtdi => script' \in Seq(FtdiOps \cup Ends)
  <2>1. FtdiScript(c) \in Seq(FtdiOps)  BY <1>2, <1>3, FtdiScriptIn
  <2>2. FtdiOps \subseteq FtdiOps \cup Ends  OBVIOUS
  <2> HIDE DEF FtdiOps
  <2>3. FtdiScript(c) \in Seq(FtdiOps \cup Ends)  BY <2>1, <2>2, Wider
  <2>4. QED  BY <1>3, <2>3
<1>5. kind = "xpc" => script' \in Seq(XpcOps)  BY <1>3, XpcIn
<1>6. kind = "fx2" => script' \in Seq(Fx2Ops)  BY <1>3, Fx2ScriptIn
<1>7. kind \in BitKinds => script' \in Seq(BitOps)  BY <1>3, BitScriptIn
<1>8. IsFtdi' = IsFtdi  BY <1>1 DEF IsFtdi
<1>9. QED  BY <1>1, <1>4, <1>5, <1>6, <1>7, <1>8 DEF Scripted

LEMMA QuietIn ==
  \A s \in Seq(QuietOps \cup Ends) : s \in Seq(FtdiOps \cup Ends)
<1>1. ASSUME NEW s \in Seq(QuietOps \cup Ends) PROVE s \in Seq(FtdiOps \cup Ends)
  <2>1. QuietOps \cup Ends \subseteq FtdiOps \cup Ends  BY QuietFtdi
  <2>2. QED  BY <2>1, Wider
<1>2. QED  BY <1>1

LEMMA ScriptQuiet ==
  ASSUME IsFtdi, UNCHANGED kind, script' \in Seq(QuietOps \cup Ends),
         state' \in {"init", "busy", "closing"}, ~(state' = "init" /\ handle' = "none")
  PROVE  Scripted'
<1>1. script' \in Seq(FtdiOps \cup Ends)  BY QuietIn
<1>2. IsFtdi' /\ kind' # "xpc" /\ kind' # "fx2" /\ kind' \notin BitKinds
  BY DEF IsFtdi, BitKinds
<1>3. QED  BY <1>1, <1>2 DEF Scripted

LEMMA OpIs ==
  ASSUME Linked, Scripted, script # <<>>
  PROVE  /\ Op.do = "add" => Op.it \in Items(0) /\ (calls = <<>> => Op.it.op \in QuietNames)
         /\ Op.do = "get" => Op.n \in 0..TX_BUF /\ Op.at \in Int
         /\ Op.do = "fill" => Op.n \in Nat \ {0} /\ Op.from \in Int
<1>1. /\ IsFtdi => Op \in FtdiOps \cup Ends
      /\ IsFtdi /\ calls = <<>> => Op \in QuietOps \cup Ends
      /\ Op.do \in {"add", "send", "get", "fill", "close", "throw"} => IsFtdi
  BY HeadIs, Whose
<1>2. \A o \in FtdiOps \cup Ends :
         /\ o.do = "add" => o.it \in Items(0)
         /\ o.do = "get" => o.n \in 0..TX_BUF /\ o.at \in Int
         /\ o.do = "fill" => o.n \in Nat \ {0} /\ o.from \in Int
  BY DEF FtdiOps, Ends, Adds, Gets, Fills, Send
<1>3. \A o \in QuietOps \cup Ends : o.do = "add" => o.it.op \in QuietNames
  BY DEF QuietOps, QuietItems, Ends, Adds, Gets, Send
<1>4. QED  BY <1>1, <1>2, <1>3

LEMMA FillIs ==
  ASSUME Linked, Scripted, bptr \in Nat, FtdiFill
  PROVE  \E m \in Nat \ {0} :
           /\ bptr' = bptr + m /\ bptr + m < TX_BUF /\ m < TX_BUF
           /\ usbuf' = Append(usbuf, [Item("payload", "idle", Op.from, m, 8 * m, FALSE, FALSE)
                                        EXCEPT !.call = Here])
           /\ \/ script' = Tail(script)
              \/ \E o \in Fills : script' = <<o>> \o Tail(script)
<1> DEFINE room == TX_BUF - 1 - bptr - 1
           m == IF Op.n < room THEN Op.n ELSE room
           o == [do |-> "fill", n |-> Op.n - m, from |-> Op.from + 8 * m]
<1>1. Op.n \in Nat \ {0} /\ Op.from \in Int  BY OpIs DEF FtdiFill, Doing
<1>2. bptr + 1 + 1 < TX_BUF /\ TX_BUF \in Nat
  BY BufferAssumption DEF FtdiFill, Fits
<1>3. room \in Nat \ {0}  BY <1>2
<1> HIDE DEF room
<1>4. m \in Nat \ {0} /\ m <= room /\ (m # Op.n => Op.n - m \in Nat \ {0})
  BY <1>1, <1>3
<1>5. bptr + m < TX_BUF /\ m < TX_BUF
  <2> HIDE DEF m
  <2> QED  BY <1>2, <1>3, <1>4 DEF room
<1>6. /\ usbuf' = Append(usbuf, [Item("payload", "idle", Op.from, m, 8 * m, FALSE, FALSE)
                                        EXCEPT !.call = Here])
      /\ bptr' = bptr + m
      /\ script' = IF m = Op.n THEN Tail(script) ELSE <<o>> \o Tail(script)
  BY DEF FtdiFill, room
<1> HIDE DEF m
<1>7. m # Op.n => o \in Fills
  <2>1. Op.from + 8 * m \in Int  BY <1>1, <1>4
  <2>2. QED  BY <1>4, <2>1 DEF Fills
<1> HIDE DEF o
<1>8. QED  BY <1>4, <1>5, <1>6, <1>7

LEMMA ScriptedByFtdi ==
  ASSUME Linked, Scripted, bptr \in Nat, [Next]_vars, FtdiStep
  PROVE  Scripted'
<1>1. UNCHANGED kind /\ (~Begins => UNCHANGED calls)
  BY LinkStays, CallsStay DEF link
<1>2. CASE FtdiOpen
  <2>1. script' \in Seq(QuietOps \cup Ends)
    <3>1. FtdiSetup \in Seq(QuietOps)  BY SetupIn
    <3>2. FtdiSetup \in Seq(QuietOps \cup Ends)  BY <3>1, Wider
    <3>3. QED  BY <1>2, <3>2 DEF FtdiOpen
  <2>2. QED  BY <1>1, <1>2, <2>1, ScriptQuiet DEF FtdiOpen
<1>3. CASE FtdiRefused \/ ShortWrite \/ FtdiThrow
  BY <1>3, ScriptNone DEF FtdiRefused, Refuse, ShortWrite, FtdiThrow, Throw
<1>4. CASE FtdiBegin
  BY <1>4, ScriptBegins DEF Begins
<1>5. CASE mpsse_add_cmd
  BY <1>1, <1>5, ScriptTail DEF mpsse_add_cmd, Doing, Done
<1>6. CASE FtdiFill
  <2>1. /\ IsFtdi /\ calls # <<>> /\ UNCHANGED <<kind, calls, state, handle>> /\ script # <<>>
        /\ ~(state = "init" /\ handle = "none") /\ state \in {"init", "busy", "closing"}
    BY <1>6, <1>1, Whose, HeadIs DEF FtdiFill, Doing
  <2>2. \/ script' = Tail(script)
        \/ \E o \in Fills : script' = <<o>> \o Tail(script)
    BY <1>6, FillIs
  <2>3. CASE script' = Tail(script)
    BY <2>1, <2>3, ScriptTail
  <2>4. CASE \E o \in Fills : script' = <<o>> \o Tail(script)
    <3>1. PICK o \in Fills : script' = <<o>> \o Tail(script)  BY <2>4
    <3> DEFINE S == FtdiOps \cup Ends
    <3>2. o \in S  BY DEF FtdiOps
    <3>3. script \in Seq(S)  BY <2>1 DEF Scripted
    <3> HIDE DEF S
    <3>4. <<o>> \o Tail(script) \in Seq(S)  BY <2>1, <3>2, <3>3, OneIn, TailIn, ConcatIn
    <3>5. script' \in Seq(S)  BY <3>1, <3>4
    <3>6. IsFtdi' /\ kind' # "xpc" /\ kind' # "fx2" /\ kind' \notin BitKinds /\ calls' # <<>>
      BY <2>1 DEF IsFtdi, BitKinds
    <3>7. QED  BY <2>1, <3>5, <3>6 DEF Scripted, S
  <2>5. QED  BY <2>2, <2>3, <2>4
<1>7. CASE mpsse_send
  <2>1. UNCHANGED <<kind, calls, state, handle>>  BY <1>1, <1>7 DEF mpsse_send
  <2>2. CASE Doing("send")
    BY <1>7, <2>1, <2>2, ScriptTail DEF mpsse_send, Doing
  <2>3. CASE ~Doing("send")
    BY <1>7, <2>1, <2>3, ScriptSame DEF mpsse_send
  <2>4. QED  BY <2>2, <2>3
<1>8. CASE FtdiRead \/ FtdiReadError \/ ChipStep
  <2>1. UNCHANGED <<kind, calls, state, handle, script>>
    BY <1>1, <1>8 DEF FtdiRead, FtdiReadError, ChipStep, vars_cable
  <2>2. QED  BY <2>1, ScriptSame
<1>9. CASE FtdiReadDone
  <2>1. /\ IsFtdi /\ UNCHANGED <<kind, calls, state, handle>> /\ script # <<>>
        /\ ~(state = "init" /\ handle = "none") /\ state \in {"init", "busy", "closing"}
    BY <1>9, <1>1, Whose, HeadIs DEF FtdiReadDone, Doing
  <2>2. CASE ReadFailed
    <3>1. script' = deinit_script \o <<[do |-> "throw"]>>  BY <1>9, <2>2 DEF FtdiReadDone
    <3>2. script' \in Seq(QuietOps \cup Ends)  BY <3>1, DeinitIs DEF LastWord
    <3>3. QED  BY <2>1, <3>2, ScriptQuiet
  <2>3. CASE ~ReadFailed
    <3>1. script' = Tail(script)  BY <1>9, <2>3 DEF FtdiReadDone, Done
    <3>2. QED  BY <2>1, <3>1, ScriptTail
  <2>4. QED  BY <2>2, <2>3
<1>10. CASE FtdiClose
  BY <1>1, <1>10, ScriptTail DEF FtdiClose, Doing, Done
<1>11. CASE FtdiDestroy
  <2>1. script' \in Seq(QuietOps \cup Ends)  BY <1>11, DeinitIs DEF LastWord, FtdiDestroy
  <2>2. IsFtdi /\ state' = "closing"  BY <1>11 DEF FtdiDestroy
  <2>3. QED  BY <1>1, <2>1, <2>2, ScriptQuiet
<1>12. CASE FtdiEnd
  BY <1>12, ScriptNone DEF FtdiEnd
<1>13. QED
  BY <1>2, <1>3, <1>4, <1>5, <1>6, <1>7, <1>8, <1>9, <1>10, <1>11, <1>12 DEF FtdiStep, FtdiHost

LEMMA ScriptedByUsb ==
  ASSUME Linked, Scripted, [Next]_vars, UsbNext
  PROVE  Scripted'
<1>1. UNCHANGED kind /\ (~Begins => UNCHANGED calls)
  BY LinkStays, CallsStay DEF link
<1>2. CASE XpcInit
  <2>1. script' = <<>>  BY <1>2 DEF XpcInit, Refuse
  <2>2. QED  BY <2>1, ScriptNone
<1>3. CASE Fx2Init
  <2>1. script' = <<>>  BY <1>3 DEF Fx2Init, Refuse
  <2>2. QED  BY <2>1, ScriptNone
<1>4. CASE XpcBegin \/ Fx2Begin
  BY <1>4, ScriptBegins DEF Begins
<1>5. CASE XpcWriteFails \/ XpcReadFails
  BY <1>5, ScriptNone DEF XpcWriteFails, XpcReadFails, Drop
<1>6. CASE XpcWrite
  <2>1. /\ kind = "xpc" /\ UNCHANGED <<kind, calls, state, handle>> /\ script # <<>>
        /\ ~(state = "init" /\ handle = "none") /\ state \in {"init", "busy", "closing"}
        /\ calls # <<>>
    BY <1>6, <1>1, HeadIs, KindCases DEF XpcWrite, Doing
  <2>2. CASE ~Asked.read
    <3>1. script' = Tail(script)  BY <1>6, <2>2 DEF XpcWrite
    <3>2. QED  BY <2>1, <3>1, ScriptTail
  <2>3. CASE Asked.read
    <3> DEFINE o == [do |-> "fetch"]
    <3>1. script' = <<o>> \o Tail(script)  BY <1>6, <2>3 DEF XpcWrite
    <3>2. o \in XpcOps  BY DEF XpcOps
    <3>3. script \in Seq(XpcOps)  BY <2>1 DEF Scripted
    <3> HIDE DEF o
    <3>4. script' \in Seq(XpcOps)  BY <2>1, <3>1, <3>2, <3>3, OneIn, TailIn, ConcatIn
    <3>5. ~IsFtdi' /\ kind' = "xpc" /\ kind' \notin BitKinds /\ calls' # <<>>
      BY <2>1 DEF IsFtdi, BitKinds
    <3>6. QED  BY <2>1, <3>4, <3>5 DEF Scripted
  <2>4. QED  BY <2>2, <2>3
<1>7. CASE XpcRead \/ Fx2Refused \/ Fx2Out \/ Fx2In \/ Fx2InOut
  <2>1. UNCHANGED <<kind, calls, state, handle>> /\ script # <<>> /\ script' = Tail(script)
    BY <1>1, <1>7 DEF XpcRead, Fx2Refused, Fx2Out, Fx2In, Fx2InOut, Doing, Done
  <2>2. QED  BY <2>1, ScriptTail
<1>8. CASE Fx2Error
  <2>1. CASE Throw
    BY <2>1, ScriptNone DEF Throw
  <2>2. CASE ~Throw
    <3>1. UNCHANGED <<kind, calls, state, handle>> /\ script # <<>> /\ script' = Tail(script)
      BY <1>1, <1>8, <2>2 DEF Fx2Error, Done
    <3>2. QED  BY <3>1, ScriptTail
  <2>3. QED  BY <2>1, <2>2
<1>9. CASE UsbDestroy
  <2>1. script = <<>>  BY <1>9 DEF UsbDestroy, Scripted
  <2>2. script' = <<>>  BY <1>9, <2>1 DEF UsbDestroy
  <2>3. QED  BY <2>2, ScriptNone
<1>10. QED
  BY <1>2, <1>3, <1>4, <1>5, <1>6, <1>7, <1>8, <1>9 DEF UsbNext

LEMMA ScriptedByBits ==
  ASSUME Linked, Scripted, [Next]_vars, BitNext
  PROVE  Scripted'
<1>1. UNCHANGED kind /\ (~Begins => UNCHANGED calls)
  BY LinkStays, CallsStay DEF link
<1>2. CASE ParportInit
  <2>1. script = <<>>  BY <1>2 DEF ParportInit, Scripted
  <2>2. script' = <<>>  BY <1>2, <2>1 DEF ParportInit, Refuse
  <2>3. QED  BY <2>2, ScriptNone
<1>3. CASE GpioInit
  <2>1. script = <<>>  BY <1>3 DEF GpioInit, Scripted
  <2>2. script' = <<>>  BY <1>3, <2>1 DEF GpioInit
  <2>3. QED  BY <2>2, ScriptNone
<1>4. CASE BitBegin
  BY <1>4, ScriptBegins DEF Begins
<1>5. CASE SetPins \/ Capture \/ StoreByte \/ CaptureMask \/ PinFails
  <2>1. UNCHANGED <<kind, calls, state, handle>> /\ script # <<>> /\ script' = Tail(script)
    BY <1>1, <1>5 DEF SetPins, Capture, StoreByte, CaptureMask, PinFails, Doing, Done
  <2>2. QED  BY <2>1, ScriptTail
<1>6. CASE BitDestroy
  <2>1. script = <<>>  BY <1>6 DEF BitDestroy, Scripted
  <2>2. script' = <<>>  BY <1>6, <2>1 DEF BitDestroy
  <2>3. QED  BY <2>2, ScriptNone
<1>7. QED  BY <1>2, <1>3, <1>4, <1>5, <1>6 DEF BitNext

LEMMA ScriptedKept ==
  ASSUME Linked, Scripted, bptr \in Nat, [Next]_vars
  PROVE  Scripted'
<1>1. CASE CommonStep
  <2>1. script = <<>>  BY <1>1 DEF CommonStep, Ready, Return, Terminate, Scripted
  <2>2. script' = <<>>  BY <1>1, <2>1 DEF CommonStep, Ready, Return, Terminate
  <2>3. QED  BY <2>2, ScriptNone
<1>2. CASE UNCHANGED vars
  <2>1. UNCHANGED <<kind, calls, state, handle, script>>
    BY <1>2 DEF vars, vars_cable
  <2>2. QED  BY <2>1, ScriptSame
<1>3. QED  BY <1>1, <1>2, StepIs, ScriptedByFtdi, ScriptedByUsb, ScriptedByBits

------------------------------------------------------------------------------
(***************************************************************************)
(* How a script ends, and what is known of the handle.                     *)
(***************************************************************************)
LEMMA ScriptSeq ==
  ASSUME Linked, Scripted
  PROVE  \E S : script \in Seq(S)
BY KindCases DEF Scripted

(* An operation that neither closes the device nor throws.                 *)
Goes(o) == o.do # "close" /\ o.do # "throw"

LEMMA OpsGo ==
  /\ \A o \in FtdiOps \cup QuietOps \cup XpcOps \cup Fx2Ops \cup BitOps : Goes(o)
<1>1. \A o \in FtdiOps \cup QuietOps : Goes(o)
  BY DEF FtdiOps, QuietOps, Adds, Gets, Fills, Send, Goes
<1>2. \A o \in XpcOps \cup Fx2Ops \cup BitOps : Goes(o)
  BY DEF XpcOps, Fx2Ops, BitOps, Goes
<1>3. QED  BY <1>1, <1>2

LEMMA EndingPlain ==
  ASSUME NEW S, script' \in Seq(S), \A o \in S : Goes(o)
  PROVE  Ending'
<1>1. \A x \in DOMAIN script' : Goes(script'[x])
  OBVIOUS
<1>2. QED  BY <1>1 DEF Ending, Goes

LEMMA EndingTail ==
  ASSUME Linked, Scripted, Ending, script # <<>>, script' = Tail(script),
         told => told', UNCHANGED state
  PROVE  Ending'
<1>1. PICK S : script \in Seq(S)  BY ScriptSeq
<1>2. /\ script' \in Seq(S) /\ Len(script') = Len(script) - 1 /\ Op = script[1]
      /\ \A x \in 1..Len(script') : script'[x] = script[x + 1]
      /\ Len(script) \in Nat \ {0} /\ DOMAIN script = 1..Len(script)
      /\ DOMAIN script' = 1..Len(script')
  BY <1>1, TailIn DEF Op
<1> DEFINE n == Len(script)
           t == script'
<1>3. \A x \in 1..(n - 1) : x + 1 \in 1..n /\ x + 1 # 1  BY <1>2
<1>4. ASSUME NEW x \in DOMAIN t
      PROVE  /\ t[x].do = "close" =>
                  /\ \A y \in DOMAIN t : t[y].do = "close" => y = x
                  /\ told' \/ (x = Len(t) /\ state' = "closing")
             /\ t[x].do = "throw" => told'
  <2>1. x \in 1..(n - 1) /\ x + 1 \in 1..n /\ t[x] = script[x + 1]  BY <1>2, <1>3
  <2>2. t[x].do = "throw" => told'  BY <1>2, <2>1 DEF Ending
  <2>3. ASSUME t[x].do = "close"
        PROVE  /\ \A y \in DOMAIN t : t[y].do = "close" => y = x
               /\ told' \/ (x = Len(t) /\ state' = "closing")
    <3>1. /\ \A y \in 1..n : script[y].do = "close" => y = x + 1
          /\ told \/ (x + 1 = n /\ state = "closing")
      BY <1>2, <2>1, <2>3 DEF Ending
    <3>2. Op.do # "close"
      <4>1. 1 \in 1..n /\ 1 # x + 1  BY <1>2, <2>1
      <4>2. QED  BY <3>1, <4>1, <1>2
    <3>3. \A y \in DOMAIN t : t[y].do = "close" => y = x
      <4>1. SUFFICES ASSUME NEW y \in DOMAIN t, t[y].do = "close" PROVE y = x
        OBVIOUS
      <4>2. y \in Int /\ y + 1 \in 1..n /\ t[y] = script[y + 1]  BY <1>2, <1>3
      <4>3. y + 1 = x + 1  BY <3>1, <4>1, <4>2
      <4>4. QED  BY <4>2, <4>3, <2>1
    <3>4. x + 1 = n => x = Len(t)  BY <1>2, <2>1
    <3>5. QED  BY <3>1, <3>2, <3>3, <3>4
  <2>4. QED  BY <2>2, <2>3
<1>5. QED  BY <1>4 DEF Ending

LEMMA EndingSame ==
  ASSUME Ending, UNCHANGED <<script, state>>, told => told'
  PROVE  Ending'
BY DEF Ending

LEMMA EndingLast ==
  ASSUME LastWord(script', 5), told' \/ (Len(script') = 5 /\ state' = "closing")
  PROVE  Ending'
<1> DEFINE t == script'
<1>1. ASSUME NEW x \in DOMAIN t
      PROVE  /\ t[x].do = "close" =>
                  /\ \A y \in DOMAIN t : t[y].do = "close" => y = x
                  /\ told' \/ (x = Len(t) /\ state' = "closing")
             /\ t[x].do = "throw" => told'
  <2>1. \A y \in DOMAIN t : (t[y].do = "close" => y = 5) /\ (t[y].do = "throw" => y = 5 + 1)
    BY DEF LastWord
  <2>2. x \in 1..Len(t)  BY DEF LastWord
  <2> HIDE DEF t
  <2>3. t[x].do = "throw" => told'  BY <2>1, <2>2 DEF t
  <2>4. t[x].do = "close" => \A y \in DOMAIN t : t[y].do = "close" => y = x  BY <2>1
  <2>5. t[x].do = "close" => told' \/ (x = Len(t) /\ state' = "closing")  BY <2>1 DEF t
  <2>6. QED  BY <2>3, <2>4, <2>5
<1>2. QED  BY <1>1 DEF Ending

LEMMA EndingByFtdi ==
  ASSUME Linked, Scripted, Scripted', Ending, bptr \in Nat, [Next]_vars, FtdiStep
  PROVE  Ending'
<1>1. CASE FtdiOpen
  <2>1. script' \in Seq(QuietOps)  BY <1>1, SetupIn DEF FtdiOpen
  <2>2. QED  BY <2>1, OpsGo, EndingPlain
<1>2. CASE FtdiRefused \/ ShortWrite \/ FtdiThrow \/ FtdiEnd
  <2>1. script' = <<>>
    BY <1>2 DEF FtdiRefused, Refuse, ShortWrite, FtdiThrow, Throw, FtdiEnd
  <2>2. QED  BY <2>1 DEF Ending
<1>3. CASE FtdiBegin
  <2>1. freq \in Nat  BY DEF Linked
  <2>2. PICK c \in Calls[kind] : GoodCall(c) /\ script' = FtdiScript(c)
    BY <1>3, BeginIs DEF Begins, FtdiBegin
  <2>3. script' \in Seq(FtdiOps)  BY <2>1, <2>2, FtdiScriptIn
  <2>4. QED  BY <2>3, OpsGo, EndingPlain
<1>4. CASE mpsse_add_cmd
  BY <1>4, EndingTail DEF mpsse_add_cmd, Doing, Done, hist
<1>5. CASE FtdiFill
  <2>1. UNCHANGED state /\ script # <<>> /\ (told => told') /\ Op.do = "fill"
    BY <1>5 DEF FtdiFill, Doing, hist
  <2>2. \/ script' = Tail(script)
        \/ \E o \in Fills : script' = <<o>> \o Tail(script)
    BY <1>5, FillIs
  <2>3. CASE script' = Tail(script)
    BY <2>1, <2>3, EndingTail
  <2>4. CASE \E o \in Fills : script' = <<o>> \o Tail(script)
    <3>1. PICK o \in Fills : script' = <<o>> \o Tail(script)  BY <2>4
    <3>2. Goes(o)  BY OpsGo DEF FtdiOps
    <3>3. PICK S : script \in Seq(S)  BY ScriptSeq
    <3> DEFINE T == S \cup {o}
    <3>4. o \in T /\ script \in Seq(T) /\ T # {}
      <4>1. S \subseteq T  OBVIOUS
      <4>2. script \in Seq(T)  BY <3>3, <4>1, Wider
      <4>3. QED  BY <4>2
    <3> HIDE DEF T
    <3>5. <<o>> \in Seq(T) /\ Len(<<o>>) = 1 /\ <<o>>[1] = o /\ Tail(script) \in Seq(T)
          /\ Len(Tail(script)) = Len(script) - 1
          /\ \A x \in 1..Len(Tail(script)) : Tail(script)[x] = script[x + 1]
          /\ Len(script) \in Nat
      <4>1. <<o>> \in Seq(T) /\ Len(<<o>>) = 1 /\ <<o>>[1] = o  BY <3>4
      <4>2. QED  BY <2>1, <3>4, <4>1, TailIn
    <3>6. /\ script' \in Seq(T) /\ Len(script') = Len(script)
          /\ script'[1] = o /\ \A x \in 2..Len(script) : script'[x] = script[x]
      <4> DEFINE p == <<o>>
                 q == Tail(script)
      <4>1. /\ p \in Seq(T) /\ q \in Seq(T) /\ Len(p) = 1 /\ p[1] = o /\ Len(q) = Len(script) - 1
            /\ \A x \in 1..Len(q) : q[x] = script[x + 1]
        BY <3>5
      <4>2. script' = p \o q  BY <3>1
      <4>3. script # <<>> /\ script \in Seq(T)  BY <2>1, <3>4
      <4>4. Len(script) \in Nat \ {0}  BY <4>3
      <4> HIDE DEF p, q
      <4>5. /\ p \o q \in Seq(T) /\ Len(p \o q) = Len(p) + Len(q)
            /\ \A i \in 1..(Len(p) + Len(q)) : (p \o q)[i] = IF i <= Len(p) THEN p[i] ELSE q[i - Len(p)]
        <5>1. p \in Seq(T) /\ q \in Seq(T)  BY <4>1
        <5>2. QED  BY <5>1, ConcatProperties
      <4>6. Len(p \o q) = Len(script) /\ (p \o q)[1] = o  BY <4>1, <4>4, <4>5
      <4>7. \A x \in 2..Len(script) : (p \o q)[x] = q[x - 1] /\ x - 1 \in 1..Len(q) /\ (x - 1) + 1 = x
        BY <4>1, <4>4, <4>5
      <4>8. QED  BY <4>1, <4>2, <4>5, <4>6, <4>7
    <3>7. DOMAIN script = 1..Len(script) /\ DOMAIN script' = 1..Len(script') /\ Len(script) \in Nat
      BY <3>4, <3>6
    <3>8. \A x \in DOMAIN script' : ~Goes(script'[x]) => x \in DOMAIN script /\ script'[x] = script[x]
      BY <3>2, <3>6, <3>7
    <3>9. \A x \in DOMAIN script' :
             script'[x].do = "close" \/ script'[x].do = "throw"
               => x \in DOMAIN script /\ script'[x] = script[x]
      BY <3>8 DEF Goes
    <3>10. QED  BY <2>1, <3>6, <3>9 DEF Ending
  <2>5. QED  BY <2>2, <2>3, <2>4
<1>6. CASE mpsse_send
  <2>1. UNCHANGED state /\ (told => told')  BY <1>6 DEF mpsse_send, hist
  <2>2. CASE Doing("send")
    BY <1>6, <2>1, <2>2, EndingTail DEF mpsse_send, Doing
  <2>3. CASE ~Doing("send")
    BY <1>6, <2>1, <2>3, EndingSame DEF mpsse_send
  <2>4. QED  BY <2>2, <2>3
<1>7. CASE FtdiRead \/ FtdiReadError \/ ChipStep
  <2>1. UNCHANGED <<script, state, told>>
    <3>1. CASE FtdiRead  BY <3>1 DEF FtdiRead, hist
    <3>2. CASE FtdiReadError  BY <3>2 DEF FtdiReadError, vars_cable
    <3>3. CASE ChipStep  BY <3>3 DEF ChipStep, hist
    <3>4. QED  BY <1>7, <3>1, <3>2, <3>3
  <2>2. QED  BY <2>1, EndingSame
<1>8. CASE FtdiReadDone
  <2>1. UNCHANGED state /\ script # <<>>  BY <1>8 DEF FtdiReadDone, Doing
  <2>2. CASE ReadFailed
    <3>1. script' = deinit_script \o <<[do |-> "throw"]>> /\ told'
      BY <1>8, <2>2 DEF FtdiReadDone
    <3>2. LastWord(script', 5)  BY <3>1, DeinitIs
    <3>3. QED  BY <3>1, <3>2, EndingLast
  <2>3. CASE ~ReadFailed
    <3>1. script' = Tail(script) /\ (told => told')
      BY <1>8, <2>3 DEF FtdiReadDone, Done
    <3>2. QED  BY <2>1, <3>1, EndingTail
  <2>4. QED  BY <2>2, <2>3
<1>9. CASE FtdiClose
  BY <1>9, EndingTail DEF FtdiClose, Doing, Done, hist
<1>10. CASE FtdiDestroy
  <2>1. script' = deinit_script /\ state' = "closing"  BY <1>10 DEF FtdiDestroy
  <2>2. LastWord(script', 5) /\ Len(script') = 5  BY <2>1, DeinitIs
  <2>3. QED  BY <2>1, <2>2, EndingLast
<1>11. QED
  BY <1>1, <1>2, <1>3, <1>4, <1>5, <1>6, <1>7, <1>8, <1>9, <1>10 DEF FtdiStep, FtdiHost

(* Which steps a cable with an FTDI chip takes.                            *)
LEMMA FtdiMoves ==
  ASSUME Linked, Scripted, IsFtdi, [Next]_vars
  PROVE  \/ FtdiStep
         \/ CommonStep /\ UNCHANGED vars_ftdi
         \/ UNCHANGED vars
<1>1. ~UsbNext
  <2>1. SUFFICES ASSUME UsbNext PROVE FALSE  OBVIOUS
  <2>2. kind \in {"xpc", "xpc_internal", "fx2"}
    BY <2>1 DEF UsbNext, XpcInit, XpcBegin, XpcWrite, XpcWriteFails, XpcRead, XpcReadFails,
       Fx2Init, Fx2Begin, Fx2Refused, Fx2Out, Fx2In, Fx2InOut, Fx2Error, UsbDestroy
  <2>3. QED  BY <2>2 DEF IsFtdi
<1>2. ~BitNext
  <2>1. SUFFICES ASSUME BitNext PROVE FALSE  OBVIOUS
  <2>2. CASE ParportInit \/ GpioInit \/ BitBegin \/ BitDestroy
    BY <2>2 DEF ParportInit, GpioInit, BitBegin, BitDestroy, IsFtdi
  <2>3. CASE SetPins \/ Capture \/ StoreByte \/ CaptureMask \/ PinFails
    <3>1. script # <<>> /\ Op.do \in {"pins", "sample", "mask", "store"}
      BY <2>3 DEF SetPins, Capture, StoreByte, CaptureMask, PinFails, Doing
    <3>2. kind \in BitKinds  BY <3>1, Whose
    <3>3. QED  BY <3>2 DEF IsFtdi, BitKinds
  <2>4. QED  BY <2>1, <2>2, <2>3 DEF BitNext
<1>3. QED  BY <1>1, <1>2, StepIs

LEMMA EndingKept ==
  ASSUME Linked, Scripted, Scripted', Ending, bptr \in Nat, [Next]_vars
  PROVE  Ending'
<1>1. CASE ~IsFtdi'
  <2>1. Linked'  BY LinkedKept
  <2>2. kind' = "xpc" \/ kind' = "fx2" \/ kind' \in BitKinds
    BY <1>1, <2>1 DEF Linked, Kinds, IsFtdi, BitKinds
  <2>3. script' \in Seq(XpcOps) \/ script' \in Seq(Fx2Ops) \/ script' \in Seq(BitOps)
    BY <2>2 DEF Scripted
  <2>4. \A o \in XpcOps \cup Fx2Ops \cup BitOps : Goes(o)  BY OpsGo
  <2>5. QED  BY <2>3, <2>4, EndingPlain
<1>2. CASE IsFtdi' /\ ~FtdiStep
  <2>1. IsFtdi  BY <1>2, LinkStays DEF link, IsFtdi
  <2>2. CASE CommonStep
    <3>1. script = <<>>  BY <2>2 DEF CommonStep, Ready, Return, Terminate, Scripted
    <3>2. script' = <<>>  BY <2>2, <3>1 DEF CommonStep, Ready, Return, Terminate
    <3>3. QED  BY <3>2 DEF Ending
  <2>3. CASE UNCHANGED vars
    BY <2>3, EndingSame DEF vars, vars_cable, vars_ftdi
  <2>4. QED  BY <1>2, <2>1, <2>2, <2>3, FtdiMoves
<1>3. CASE IsFtdi' /\ FtdiStep
  BY <1>3, EndingByFtdi
<1>4. QED  BY <1>1, <1>2, <1>3

(* While there is something to do, or a call may be made, the handle is    *)
(* open or a failure was told.                                             *)
LEMMA HandleNow ==
  ASSUME Linked, Scripted, Handled,
         script # <<>> \/ state \in {"idle", "busy", "refused", "thrown"}
  PROVE  told \/ handle = "open"
<1>1. script # <<>> => state # "closed" /\ ~(state = "init" /\ handle = "none")
  BY HeadIs
<1>2. QED  BY <1>1 DEF Handled

LEMMA HandledByFtdi ==
  ASSUME Linked, Scripted, Ending, Handled, FtdiStep
  PROVE  Handled'
<1>1. CASE FtdiOpen
  BY <1>1 DEF FtdiOpen, Handled
<1>2. CASE FtdiRefused \/ ShortWrite
  BY <1>2 DEF FtdiRefused, Refuse, ShortWrite, Handled
<1>3. CASE FtdiBegin
  <2>1. state = "idle" /\ state' = "busy" /\ UNCHANGED <<handle, told>>
    BY <1>3, BeginIs DEF Begins, hist
  <2>2. QED  BY <2>1, HandleNow DEF Handled
<1>4. CASE mpsse_add_cmd \/ FtdiFill \/ mpsse_send \/ FtdiRead \/ FtdiReadError \/ FtdiReadDone
  <2>1. script # <<>> /\ UNCHANGED <<state, handle>> /\ (told => told')
    <3>1. CASE mpsse_add_cmd  BY <3>1 DEF mpsse_add_cmd, Doing, hist
    <3>2. CASE FtdiFill  BY <3>2 DEF FtdiFill, Doing, hist
    <3>3. CASE mpsse_send  BY <3>3 DEF mpsse_send, Sending, Doing, hist
    <3>4. CASE FtdiRead  BY <3>4 DEF FtdiRead, Doing, hist
    <3>5. CASE FtdiReadError  BY <3>5 DEF FtdiReadError, Doing, vars_cable
    <3>6. CASE FtdiReadDone  BY <3>6 DEF FtdiReadDone, Doing
    <3>7. QED  BY <1>4, <3>1, <3>2, <3>3, <3>4, <3>5, <3>6
  <2>2. told \/ handle = "open"  BY <2>1, HandleNow
  <2>3. QED  BY <2>1, <2>2 DEF Handled
<1>5. CASE ChipStep
  BY <1>5 DEF ChipStep, hist, Handled
<1>6. CASE FtdiThrow
  <2>1. told
    <3>1. script # <<>> /\ Op.do = "throw"  BY <1>6 DEF FtdiThrow, Doing
    <3>2. PICK S : script \in Seq(S)  BY ScriptSeq
    <3>3. 1 \in DOMAIN script /\ Op = script[1]  BY <3>1, <3>2 DEF Op
    <3>4. QED  BY <3>1, <3>3 DEF Ending
  <2>2. told'  BY <1>6, <2>1 DEF FtdiThrow, hist
  <2>3. QED  BY <2>2 DEF Handled
<1>7. CASE FtdiClose
  <2>1. script # <<>> /\ Op.do = "close" /\ UNCHANGED <<state, told>> /\ script' = Tail(script)
    BY <1>7 DEF FtdiClose, Doing, Done, hist
  <2>2. PICK S : script \in Seq(S)  BY ScriptSeq
  <2>3. 1 \in DOMAIN script /\ Op = script[1]  BY <2>1, <2>2 DEF Op
  <2>4. told \/ (1 = Len(script) /\ state = "closing")  BY <2>1, <2>3 DEF Ending
  <2>5. 1 = Len(script) => script' = <<>>
    <3>1. Tail(script) \in Seq(S) /\ Len(Tail(script)) = Len(script) - 1  BY <2>1, <2>2, TailIn
    <3>2. 1 = Len(script) => Len(Tail(script)) = 0
      <4>1. \A n, m : n = 1 /\ m = n - 1 => m = 0  OBVIOUS
      <4>2. QED  BY <3>1, <4>1
    <3>3. QED  BY <2>1, <3>1, <3>2, EmptySeq
  <2>6. QED  BY <2>1, <2>4, <2>5 DEF Handled
<1>8. CASE FtdiDestroy
  <2>1. state \in {"idle", "refused", "thrown"} /\ state' = "closing" /\ UNCHANGED <<told, handle>>
    BY <1>8 DEF FtdiDestroy, hist
  <2>2. told \/ handle = "open"  BY <2>1, HandleNow
  <2>3. QED  BY <2>1, <2>2 DEF Handled
<1>9. CASE FtdiEnd
  BY <1>9 DEF FtdiEnd, Handled
<1>10. QED
  BY <1>1, <1>2, <1>3, <1>4, <1>5, <1>6, <1>7, <1>8, <1>9 DEF FtdiStep, FtdiHost

LEMMA HandledByUsb ==
  ASSUME Linked, Scripted, Ending, Handled, UsbNext
  PROVE  Handled'
<1>1. CASE XpcInit
  BY <1>1 DEF XpcInit, Refuse, Handled
<1>2. CASE Fx2Init
  BY <1>2 DEF Fx2Init, Refuse, Handled
<1>3. CASE XpcBegin \/ Fx2Begin
  <2>1. state = "idle" /\ state' = "busy" /\ UNCHANGED <<handle, told>>
    BY <1>3, BeginIs DEF Begins, hist
  <2>2. QED  BY <2>1, HandleNow DEF Handled
<1>4. CASE XpcWriteFails \/ XpcReadFails
  BY <1>4 DEF XpcWriteFails, XpcReadFails, Drop, Handled
<1>5. CASE XpcWrite \/ XpcRead \/ Fx2Refused \/ Fx2Out \/ Fx2In \/ Fx2InOut
  <2>1. script # <<>> /\ UNCHANGED <<state, handle, told>>
    <3>1. CASE XpcWrite  BY <3>1 DEF XpcWrite, Doing, hist
    <3>2. CASE XpcRead  BY <3>2 DEF XpcRead, Doing, hist
    <3>3. CASE Fx2Refused  BY <3>3 DEF Fx2Refused, hist
    <3>4. CASE Fx2Out  BY <3>4 DEF Fx2Out, Doing, hist
    <3>5. CASE Fx2In  BY <3>5 DEF Fx2In, Doing, hist
    <3>6. CASE Fx2InOut  BY <3>6 DEF Fx2InOut, Doing, hist
    <3>7. QED  BY <1>5, <3>1, <3>2, <3>3, <3>4, <3>5, <3>6
  <2>2. told \/ handle = "open"  BY <2>1, HandleNow
  <2>3. QED  BY <2>1, <2>2 DEF Handled
<1>6. CASE Fx2Error
  <2>1. CASE told'
    BY <2>1 DEF Handled
  <2>2. CASE ~told'
    <3>1. script # <<>> /\ UNCHANGED <<state, handle, told>>
      BY <1>6, <2>2 DEF Fx2Error
    <3>2. told \/ handle = "open"  BY <3>1, HandleNow
    <3>3. QED  BY <3>1, <3>2 DEF Handled
  <2>3. QED  BY <2>1, <2>2
<1>7. CASE UsbDestroy
  BY <1>7 DEF UsbDestroy, Handled
<1>8. QED  BY <1>1, <1>2, <1>3, <1>4, <1>5, <1>6, <1>7 DEF UsbNext

LEMMA HandledByBits ==
  ASSUME Linked, Scripted, Ending, Handled, BitNext
  PROVE  Handled'
<1>1. CASE ParportInit
  BY <1>1 DEF ParportInit, Refuse, Handled
<1>2. CASE GpioInit
  BY <1>2 DEF GpioInit, Handled
<1>3. CASE BitBegin
  <2>1. state = "idle" /\ state' = "busy" /\ UNCHANGED <<handle, told>>
    BY <1>3, BeginIs DEF Begins, hist
  <2>2. QED  BY <2>1, HandleNow DEF Handled
<1>4. CASE SetPins \/ Capture \/ StoreByte \/ CaptureMask \/ PinFails
  <2>1. script # <<>> /\ UNCHANGED <<state, handle>> /\ (told => told')
    <3>1. CASE SetPins  BY <3>1 DEF SetPins, Doing, hist
    <3>2. CASE Capture  BY <3>2 DEF Capture, Doing, hist
    <3>3. CASE StoreByte  BY <3>3 DEF StoreByte, Doing, hist
    <3>4. CASE CaptureMask  BY <3>4 DEF CaptureMask, Doing, hist
    <3>5. CASE PinFails  BY <3>5 DEF PinFails, Missed, Doing
    <3>6. QED  BY <1>4, <3>1, <3>2, <3>3, <3>4, <3>5
  <2>2. told \/ handle = "open"  BY <2>1, HandleNow
  <2>3. QED  BY <2>1, <2>2 DEF Handled
<1>5. CASE BitDestroy
  BY <1>5 DEF BitDestroy, Handled
<1>6. QED  BY <1>1, <1>2, <1>3, <1>4, <1>5 DEF BitNext

LEMMA HandledKept ==
  ASSUME Linked, Scripted, Ending, Handled, [Next]_vars
  PROVE  Handled'
<1>1. CASE CommonStep
  <2>1. CASE Ready
    BY <2>1 DEF Ready, Handled
  <2>2. CASE Return
    <3>1. state = "busy" /\ state' = "idle" /\ UNCHANGED <<handle, told>>
      BY <2>2 DEF Return, hist
    <3>2. QED  BY <3>1, HandleNow DEF Handled
  <2>3. CASE Terminate
    BY <2>3 DEF Terminate, Handled, hist
  <2>4. QED  BY <1>1, <2>1, <2>2, <2>3 DEF CommonStep
<1>2. CASE UNCHANGED vars
  BY <1>2 DEF vars, vars_cable, Handled
<1>3. QED  BY <1>1, <1>2, StepIs, HandledByFtdi, HandledByUsb, HandledByBits

(* The only operations that may find the device without an open handle.    *)
LEMMA MisuseStep ==
  ASSUME Linked, Scripted, Handled, [Next]_vars, ~misuse, misuse'
  PROVE  told
<1>1. CASE FtdiStep
  <2>1. CASE ShortWrite
    <3>1. script # <<>> /\ handle # "open"
      BY <2>1 DEF ShortWrite, Sending, Doing
    <3>2. QED  BY <3>1, HandleNow
  <2>2. CASE ~ShortWrite
    <3>1. misuse' = misuse
      BY <1>1, <2>2 DEF FtdiStep, FtdiHost, FtdiOpen, FtdiRefused, FtdiBegin, Begin, mpsse_add_cmd,
         FtdiFill, mpsse_send, FtdiRead, FtdiReadError, FtdiReadDone, FtdiThrow, FtdiClose,
         FtdiDestroy, FtdiEnd, ChipStep, vars_cable, hist
    <3>2. QED  BY <3>1
  <2>3. QED  BY <2>1, <2>2
<1>2. CASE UsbNext
  <2>1. CASE UsbDestroy
    <3>1. state \in {"idle", "refused", "thrown"} /\ handle # "open"
      BY <2>1 DEF UsbDestroy
    <3>2. QED  BY <3>1, HandleNow
  <2>2. CASE ~UsbDestroy
    <3>1. misuse' = misuse
      BY <1>2, <2>2 DEF UsbNext, XpcInit, XpcBegin, XpcWrite, XpcWriteFails, XpcRead, XpcReadFails,
         Fx2Init, Fx2Begin, Fx2Refused, Fx2Out, Fx2In, Fx2InOut, Fx2Error, Begin, hist
    <3>2. QED  BY <3>1
  <2>3. QED  BY <2>1, <2>2
<1>3. CASE BitNext
  <2>1. CASE BitDestroy \/ SetPins \/ PinFails
    <3>1. handle # "open"  BY <2>1 DEF BitDestroy, SetPins, PinFails
    <3>2. script # <<>> \/ state \in {"idle", "refused"}
      BY <2>1 DEF BitDestroy, SetPins, PinFails, Doing
    <3>3. QED  BY <3>1, <3>2, HandleNow
  <2>2. CASE ~(BitDestroy \/ SetPins \/ PinFails)
    <3>1. misuse' = misuse
      BY <1>3, <2>2 DEF BitNext, ParportInit, GpioInit, BitBegin, Capture, StoreByte,
         CaptureMask, Begin, hist
    <3>2. QED  BY <3>1
  <2>3. QED  BY <2>1, <2>2
<1>4. CASE CommonStep
  BY <1>4 DEF CommonStep, Ready, Return, Terminate, hist
<1>5. CASE UNCHANGED vars
  BY <1>5 DEF vars, vars_cable
<1>6. QED  BY <1>1, <1>2, <1>3, <1>4, <1>5, StepIs

------------------------------------------------------------------------------
(***************************************************************************)
(* The edges seen, and the bits captured.                                  *)
(***************************************************************************)
LEMMA SeenWider ==
  ASSUME NEW k \in Nat, NEW l \in Nat, k <= l
  PROVE  /\ \A w \in Seq(Seen(k)) : w \in Seq(Seen(l))
         /\ \A b \in Seq(Kept(k)) : b \in Seq(Kept(l))
<1>1. Seen(k) \subseteq Seen(l)
  <2>1. 1..k \subseteq 1..l  OBVIOUS
  <2>2. QED  BY <2>1 DEF Seen
<1>2. Kept(k) \subseteq Kept(l)
  <2>1. 0..k \subseteq 0..l  OBVIOUS
  <2>2. ItemRecords(k) \subseteq ItemRecords(l)  BY <2>1 DEF ItemRecords
  <2>3. QED  BY <2>2 DEF Kept, Items
<1>3. ASSUME NEW w \in Seq(Seen(k)) PROVE w \in Seq(Seen(l))  BY <1>1, Wider
<1>4. ASSUME NEW b \in Seq(Kept(k)) PROVE b \in Seq(Kept(l))  BY <1>2, Wider
<1>5. QED  BY <1>3, <1>4

LEMMA HereIs ==
  ASSUME Linked
  PROVE  Here \in Nat /\ (calls # <<>> => Here >= 1)
BY DEF Linked, Here

LEMMA RunIn ==
  ASSUME NEW k \in Nat, NEW c \in 1..k, NEW kd \in RunKinds, NEW from \in Int, NEW n \in Nat
  PROVE  Run(c, kd, from, n) \in [call : 1..k, kind : RunKinds, from : Int, n : Nat]
BY DEF Run

LEMMA ClockedIn ==
  ASSUME Linked, calls # <<>>, wire \in Seq(Seen(Here)), NEW from \in Int, NEW n \in Nat \ {0}
  PROVE  Clocked(from, n) \in Seq(Seen(Here))
<1> DEFINE k == Here
<1>1. k \in Nat /\ k \in 1..k  BY HereIs
<1>2. {"tms", "data", "last"} \subseteq RunKinds  BY DEF RunKinds
<1>3. n - 1 \in Nat /\ from + n - 1 \in Int /\ 1 \in Nat  OBVIOUS
<1> HIDE DEF k
<1>4. \A kd \in RunKinds, f \in Int, m \in Nat, w \in Seq(Seen(k)) : Join(w, Run(k, kd, f, m)) \in Seq(Seen(k))
  BY <1>1, RunIn, JoinIn
<1>5. wire \in Seq(Seen(k))  BY DEF k
<1>6. Join(wire, Run(k, "tms", from, n)) \in Seq(Seen(k))  BY <1>2, <1>4, <1>5
<1>7. Join(wire, Run(k, "data", from, n)) \in Seq(Seen(k))  BY <1>2, <1>4, <1>5
<1>8. Join(wire, Run(k, "data", from, n - 1)) \in Seq(Seen(k))  BY <1>2, <1>3, <1>4, <1>5
<1>9. Join(Join(wire, Run(k, "data", from, n - 1)), Run(k, "last", from + n - 1, 1)) \in Seq(Seen(k))
  <2> DEFINE w == Join(wire, Run(k, "data", from, n - 1))
             f == from + n - 1
  <2>1. w \in Seq(Seen(k)) /\ f \in Int /\ "last" \in RunKinds /\ 1 \in Nat  BY <1>2, <1>3, <1>8
  <2> HIDE DEF w, f
  <2>2. Join(w, Run(k, "last", f, 1)) \in Seq(Seen(k))  BY <1>4, <2>1
  <2>3. QED  BY <2>2 DEF w, f
<1>10. QED  BY <1>6, <1>7, <1>9 DEF Clocked, k

LEMMA ChipWires ==
  ASSUME Linked, Wired, Buffered, ChipStep
  PROVE  wire' \in Seq(Seen(Here))
<1> DEFINE it == Head(chip)
           clocks == \/ ChipTakes(it)
                     \/ /\ want.n = 0 /\ ~it.w
                        /\ it.op \in {"bytes", "bits", "tms", "last", "idlebytes", "idlebits"}
<1>1. it \in Kept(Here)  BY TailIn DEF Buffered, ChipStep
<1>2. wire' = IF clocks THEN Join(wire, Run_of(it)) ELSE wire  BY DEF ChipStep
<1>3. CASE clocks
  <2>1. it.op \in {"payload", "cut", "bytes", "bits", "tms", "last", "idlebytes", "idlebits"}
    BY <1>3 DEF ChipTakes
  <2> HIDE DEF it
  <2>2. it.op \notin QuietNames  BY <2>1 DEF QuietNames
  <2>3. /\ it.call \in 1..Here /\ it.kd \in RunKinds /\ it.from \in Int /\ it.bits \in Nat
    <3>1. it \in ItemRecords(Here) /\ it.call >= 1  BY <1>1, <2>2 DEF Kept, Items
    <3>2. it.call \in 0..Here /\ it.kd \in RunKinds /\ it.from \in Int /\ it.bits \in Nat
      BY <3>1 DEF ItemRecords
    <3>3. QED  BY <3>1, <3>2, HereIs
  <2>4. Run_of(it) \in [call : 1..Here, kind : RunKinds, from : Int, n : Nat]
    BY <2>3, HereIs, RunIn DEF Run_of
  <2>5. Join(wire, Run_of(it)) \in Seq(Seen(Here))  BY <2>4, HereIs, JoinIn DEF Wired
  <2>6. QED  BY <1>2, <1>3, <2>5
<1>4. CASE ~clocks
  <2>1. wire' = wire  BY <1>2, <1>4
  <2>2. QED  BY <2>1 DEF Wired
<1>5. QED  BY <1>3, <1>4

LEMMA FtdiGets ==
  ASSUME Linked, Scripted, Wired, Buffered, Reading, FtdiRead
  PROVE  /\ got' \in Seq(Captured) /\ fifo' \in Seq(Answers) /\ put' \in Int
         /\ \E m \in Nat : have' = have + m /\ m <= Op.n - have
<1>1. script # <<>> /\ Op.do = "get"  BY DEF FtdiRead, Doing
<1>2. Op.n \in 0..TX_BUF /\ Op.at \in Int  BY <1>1, OpIs
<1>3. have \in Nat /\ have <= Op.n /\ put \in Int  BY <1>1 DEF Reading, Doing
<1>4. Available \in Nat  BY AvailableNat DEF Buffered
<1> DEFINE most == IF Available < Op.n - have THEN Available ELSE Op.n - have
<1>5. most \in Nat /\ most <= Op.n - have
  <2>1. Op.n - have \in Nat  BY <1>2, <1>3, BufferAssumption
  <2>2. QED  BY <1>4, <2>1
<1>6. PICK m \in {0, most} :
        /\ have' = have + m
        /\ got' = IF Op.at < 0 THEN got ELSE TakeBytes(m).got
        /\ fifo' = TakeBytes(m).rest /\ put' = TakeBytes(m).at - Op.at
  BY DEF FtdiRead
<1> HIDE DEF most
<1>7. m \in Nat /\ m <= Op.n - have
  <2>1. Op.n - have \in Nat  BY <1>2, <1>3, BufferAssumption
  <2>2. QED  BY <2>1, <1>5, <1>6
<1>8. TakeBytes(m) \in Took
  <2>1. Op.at + put \in Int  BY <1>2, <1>3
  <2>2. QED  BY <1>7, <2>1, TakeBytesIn DEF Buffered, Wired
<1>9. /\ TakeBytes(m).got \in Seq(Captured) /\ TakeBytes(m).rest \in Seq(Answers)
      /\ TakeBytes(m).at \in Int
  BY <1>8 DEF Took
<1>10. put' \in Int
  <2> DEFINE a == TakeBytes(m).at
  <2>1. a \in Int /\ put' = a - Op.at  BY <1>6, <1>9
  <2> HIDE DEF a
  <2>2. QED  BY <1>2, <2>1
<1>11. QED  BY <1>6, <1>7, <1>9, <1>10 DEF Wired

LEMMA WiredByFtdi ==
  ASSUME Linked, Scripted, Wired, Buffered, Reading, [Next]_vars, FtdiStep, ~Begins
  PROVE  wire' \in Seq(Seen(Here)) /\ got' \in Seq(Captured)
<1>1. CASE ChipStep
  <2>1. got' = got  BY <1>1 DEF ChipStep
  <2>2. QED  BY <1>1, <2>1, ChipWires DEF Wired
<1>2. CASE FtdiRead
  <2>1. wire' = wire  BY <1>2 DEF FtdiRead
  <2>2. QED  BY <1>2, <2>1, FtdiGets DEF Wired
<1>3. CASE ~ChipStep /\ ~FtdiRead
  <2>1. UNCHANGED <<wire, got>>
    BY <1>3 DEF Begins, FtdiStep, FtdiHost, FtdiOpen, FtdiRefused, mpsse_add_cmd, FtdiFill,
       mpsse_send, ShortWrite, FtdiReadError, FtdiReadDone, FtdiThrow, FtdiClose,
       FtdiDestroy, FtdiEnd, vars_cable
  <2>2. QED  BY <2>1 DEF Wired
<1>4. QED  BY <1>1, <1>2, <1>3

LEMMA PlacedIn ==
  ASSUME NEW at \in Int, NEW c \in Nat, NEW from \in Int, NEW n \in Nat, NEW g \in Seq(Captured)
  PROVE  Place(g, Placed(at, c, from, n)) \in Seq(Captured)
<1>1. Placed(at, c, from, n) \in [at : Int, call : Nat, from : Int, n : Nat]  BY DEF Placed
<1>2. QED  BY <1>1, PlaceIn

LEMMA UsbOps ==
  ASSUME Linked, Scripted, script # <<>>
  PROVE  /\ Op.do = "xfer" => Op.from \in Int /\ Op.n \in Nat \ {0} /\ calls # <<>>
         /\ Op.do \in {"out", "inout"} => Op.from \in Int /\ Op.n \in Nat \ {0} /\ calls # <<>>
         /\ Op.do = "in" => Op.at \in Int
<1>1. /\ kind = "xpc" => Op \in XpcOps
      /\ kind = "fx2" => Op \in Fx2Ops
      /\ kind \in {"xpc", "fx2"} => calls # <<>>
  BY HeadIs, KindCases
<1>2. /\ Op.do \in {"xfer", "fetch"} => kind = "xpc"
      /\ Op.do \in {"out", "inout", "in"} => kind = "fx2"
  BY Whose
<1>3. Op.do = "xfer" => Op.from \in Int /\ Op.n \in Nat \ {0} /\ calls # <<>>
  <2>1. \A o \in XpcOps : o.do = "xfer" => o.from \in Int /\ o.n \in Nat \ {0}  BY DEF XpcOps
  <2>2. QED  BY <1>1, <1>2, <2>1
<1>4. /\ Op.do \in {"out", "inout"} => Op.from \in Int /\ Op.n \in Nat \ {0} /\ calls # <<>>
      /\ Op.do = "in" => Op.at \in Int
  <2>1. \A o \in Fx2Ops : /\ o.do \in {"out", "inout"} => o.from \in Int /\ o.n \in Nat \ {0}
                          /\ o.do = "in" => o.at \in Int
    BY DEF Fx2Ops
  <2>2. QED  BY <1>1, <1>2, <2>1
<1>5. QED  BY <1>3, <1>4

LEMMA WiredByUsb ==
  ASSUME Linked, Scripted, Wired, Held_usb, [Next]_vars, UsbNext, ~Begins
  PROVE  wire' \in Seq(Seen(Here)) /\ got' \in Seq(Captured)
<1>1. Here \in Nat /\ cpld.from \in Int /\ cpld.n \in Nat /\ held.from \in Int /\ held.n \in Nat
  BY HereIs DEF Held_usb
<1>2. CASE XpcWrite
  <2>1. got' = got /\ (wire' = wire \/ wire' = Clocked(Op.from, Op.n)) /\ script # <<>> /\ Op.do = "xfer"
    BY <1>2 DEF XpcWrite, Doing
  <2>2. Clocked(Op.from, Op.n) \in Seq(Seen(Here))  BY <2>1, UsbOps, ClockedIn DEF Wired
  <2>3. QED  BY <2>1, <2>2 DEF Wired
<1>3. CASE XpcRead
  <2>1. wire' = wire /\ got' = Place(got, Placed(0, Here, cpld.from, cpld.n))
    BY <1>3 DEF XpcRead, XpcAt
  <2>2. 0 \in Int  OBVIOUS
  <2>3. QED  BY <1>1, <2>1, <2>2, PlacedIn DEF Wired
<1>4. CASE Fx2Out
  <2>1. got' = got /\ wire' = Clocked(Op.from, Op.n) /\ script # <<>> /\ Op.do = "out"
    BY <1>4 DEF Fx2Out, Doing
  <2>2. Clocked(Op.from, Op.n) \in Seq(Seen(Here))  BY <2>1, UsbOps, ClockedIn DEF Wired
  <2>3. QED  BY <2>1, <2>2 DEF Wired
<1>5. CASE Fx2In
  <2>1. wire' = wire /\ got' = Place(got, Placed(Op.at, Here, held.from, held.n))
        /\ script # <<>> /\ Op.do = "in"
    BY <1>5 DEF Fx2In, Doing
  <2>2. Op.at \in Int  BY <2>1, UsbOps
  <2>3. QED  BY <1>1, <2>1, <2>2, PlacedIn DEF Wired
<1>6. CASE Fx2InOut
  <2>1. got' = Place(got, Placed(Op.from, Here, Op.from, Op.n)) /\ wire' = Clocked(Op.from, Op.n)
        /\ script # <<>> /\ Op.do = "inout"
    BY <1>6 DEF Fx2InOut, Doing
  <2>2. Clocked(Op.from, Op.n) \in Seq(Seen(Here))  BY <2>1, UsbOps, ClockedIn DEF Wired
  <2>3. Op.from \in Int /\ Op.n \in Nat  BY <2>1, UsbOps
  <2>4. QED  BY <1>1, <2>1, <2>2, <2>3, PlacedIn DEF Wired
<1>7. CASE ~XpcWrite /\ ~XpcRead /\ ~Fx2Out /\ ~Fx2In /\ ~Fx2InOut
  <2>1. UNCHANGED <<wire, got>>
    BY <1>7 DEF Begins, UsbNext, XpcInit, XpcWriteFails, XpcReadFails, Fx2Init, Fx2Refused,
       Fx2Error, UsbDestroy
  <2>2. QED  BY <2>1 DEF Wired
<1>8. QED  BY <1>2, <1>3, <1>4, <1>5, <1>6, <1>7

LEMMA BitOpIs ==
  ASSUME Linked, Scripted, script # <<>>
  PROVE  /\ Op.do = "pins" => Op.tck \in {0, 1} /\ Op.tms \in {0, 1} /\ Op.bit \in Int /\ calls # <<>>
         /\ Op.do \in {"sample", "mask"} => Op.bit \in Int
         /\ Op.do = "store" => Op.at \in Int
<1>1. /\ kind \in BitKinds => Op \in BitOps /\ calls # <<>>
      /\ Op.do \in {"pins", "sample", "mask", "store"} => kind \in BitKinds
  BY HeadIs, Whose, KindCases
<1>2. \A o \in BitOps : /\ o.do = "pins" => o.tck \in {0, 1} /\ o.tms \in {0, 1} /\ o.bit \in Int
                        /\ o.do \in {"sample", "mask"} => o.bit \in Int
                        /\ o.do = "store" => o.at \in Int
  BY DEF BitOps
<1>3. QED  BY <1>1, <1>2

LEMMA WiredByBits ==
  ASSUME Linked, Scripted, Wired, Pinned, [Next]_vars, BitNext, ~Begins
  PROVE  wire' \in Seq(Seen(Here)) /\ got' \in Seq(Captured)
<1>1. Here \in Nat  BY HereIs
<1>2. CASE SetPins
  <2>1. got' = got /\ script # <<>> /\ Op.do = "pins"
        /\ (wire' = wire \/ wire' = Join(wire, Run(Here, EdgeKind, Op.bit, 1)))
    BY <1>2 DEF SetPins, Doing
  <2>2. Op.bit \in Int /\ calls # <<>>  BY <2>1, BitOpIs
  <2>3. EdgeKind \in RunKinds /\ Here \in 1..Here /\ 1 \in Nat
    <3>1. EdgeKind \in RunKinds  BY DEF EdgeKind, RunKinds
    <3>2. QED  BY <2>2, <3>1, HereIs
  <2>4. Run(Here, EdgeKind, Op.bit, 1) \in [call : 1..Here, kind : RunKinds, from : Int, n : Nat]
    BY <1>1, <2>2, <2>3, RunIn
  <2>5. Join(wire, Run(Here, EdgeKind, Op.bit, 1)) \in Seq(Seen(Here))
    BY <1>1, <2>4, JoinIn DEF Wired
  <2>6. QED  BY <2>1, <2>5 DEF Wired
<1>3. CASE StoreByte
  <2>1. wire' = wire /\ script # <<>> /\ Op.do = "store"  BY <1>3 DEF StoreByte, Doing
  <2>2. Op.at \in Int  BY <2>1, BitOpIs
  <2>3. QED  BY <1>3, <2>1, <2>2, StoreIn DEF Wired, Pinned
<1>4. CASE CaptureMask
  <2>1. wire' = wire /\ script # <<>> /\ Op.do = "mask"  BY <1>4 DEF CaptureMask, Doing
  <2>2. Op.bit \in Int  BY <2>1, BitOpIs
  <2>3. QED  BY <1>1, <1>4, <2>1, <2>2, MaskIn DEF Wired
<1>5. CASE ~SetPins /\ ~StoreByte /\ ~CaptureMask
  <2>1. UNCHANGED <<wire, got>>
    BY <1>5 DEF Begins, BitNext, ParportInit, GpioInit, Capture, PinFails, BitDestroy
  <2>2. QED  BY <2>1 DEF Wired
<1>6. QED  BY <1>2, <1>3, <1>4, <1>5

LEMMA WiredKept ==
  ASSUME Linked, Scripted, Wired, Buffered, Reading, Held_usb, Pinned, [Next]_vars
  PROVE  Wired'
<1>1. CASE Begins
  <2>1. wire' = wire /\ got' = <<>> /\ Len(calls') = Here + 1  BY <1>1, BeginIs
  <2>2. Here \in Nat /\ Here' = Here + 1 /\ Here + 1 \in Nat /\ Here <= Here + 1
    BY <2>1, HereIs DEF Here
  <2>3. wire \in Seq(Seen(Here + 1))  BY <2>2, SeenWider DEF Wired
  <2>4. QED  BY <2>1, <2>2, <2>3 DEF Wired
<1>2. CASE ~Begins
  <2>1. Here' = Here  BY <1>2, CallsStay DEF Here
  <2>2. wire' \in Seq(Seen(Here)) /\ got' \in Seq(Captured)
    <3>1. CASE CommonStep
      BY <3>1 DEF CommonStep, Ready, Return, Terminate, Wired
    <3>2. CASE UNCHANGED vars
      BY <3>2 DEF vars, vars_cable, Wired
    <3>3. QED  BY <1>2, <3>1, <3>2, StepIs, WiredByFtdi, WiredByUsb, WiredByBits
  <2>3. QED  BY <2>1, <2>2 DEF Wired
<1>3. QED  BY <1>1, <1>2


------------------------------------------------------------------------------
(***************************************************************************)
(* The commands on their way to the chip.                                  *)
(***************************************************************************)
LEMMA SizeIs ==
  ASSUME NEW k \in Nat, NEW it \in ItemRecords(k), Fitting(it)
  PROVE  Size(it) \in Nat /\ Size(it) < TX_BUF
<1>1. TX_BUF \in Nat /\ 32 <= TX_BUF  BY BufferAssumption
<1>2. it.n \in Nat  BY DEF ItemRecords
<1>3. CASE it.op = "payload"
  BY <1>2, <1>3 DEF Fitting, Size
<1>4. CASE it.op # "payload"
  <2>1. Size(it) \in {1, 2, 3, 4, 9, 16}  BY <1>4 DEF Size
  <2> DEFINE s == Size(it)
  <2> HIDE DEF s
  <2>2. s \in {1, 2, 3, 4, 9, 16}  BY <2>1 DEF s
  <2>3. s \in Nat /\ s < TX_BUF  BY <1>1, <2>2
  <2>4. QED  BY <2>3 DEF s
<1>5. QED  BY <1>3, <1>4

LEMMA SizeKept ==
  ASSUME NEW k \in Nat
  PROVE  \A it \in Kept(k) : Size(it) \in Nat /\ Size(it) < TX_BUF
BY SizeIs DEF Kept, Items

(* An item takes the number of the call on its way into the buffer.        *)
LEMMA ItemSent ==
  ASSUME Linked, NEW it \in Items(0), calls = <<>> => it.op \in QuietNames
  PROVE  [it EXCEPT !.call = Here] \in Kept(Here) /\ Size([it EXCEPT !.call = Here]) = Size(it)
<1> DEFINE e == [it EXCEPT !.call = Here]
<1>1. it \in ItemRecords(0) /\ Fitting(it)  BY DEF Items
<1>2. Here \in Nat /\ (calls # <<>> => Here >= 1)  BY HereIs
<1>3. e \in ItemRecords(Here)
  <2>1. Here \in 0..Here  BY <1>2
  <2> HIDE DEF Here
  <2>2. QED  BY <1>1, <2>1 DEF ItemRecords
<1>4. e.op = it.op /\ e.n = it.n /\ e.bits = it.bits /\ e.w = it.w /\ e.call = Here
  BY <1>1 DEF ItemRecords
<1> HIDE DEF e
<1>5. Fitting(e)  BY <1>1, <1>4 DEF Fitting
<1>6. Size(e) = Size(it)  BY <1>4 DEF Size
<1>7. e.op \in QuietNames \/ e.call >= 1  BY <1>2, <1>4
<1>8. e \in Kept(Here)  BY <1>3, <1>5, <1>7 DEF Kept, Items
<1>9. QED  BY <1>6, <1>8 DEF e

LEMMA HeldNat ==
  ASSUME NEW k \in Nat, NEW buf \in Seq(Kept(k))
  PROVE  Held(buf) \in Nat
<1>1. Plain("now") \in Items(0) /\ Plain("now").op \in QuietNames  BY PlainIn DEF QuietNames
<1>2. ItemRecords(0) \subseteq ItemRecords(k)
  <2>1. 0..0 \subseteq 0..k  OBVIOUS
  <2>2. QED  BY <2>1 DEF ItemRecords
<1>3. Plain("now") \in Kept(k)  BY <1>1, <1>2 DEF Kept, Items
<1>4. QED  BY <1>3, SizeKept, HeldAppend

LEMMA BufferGrows ==
  ASSUME Buffered, Linked, NEW it \in Kept(Here), usbuf' = Append(usbuf, it)
  PROVE  usbuf' \in Seq(Kept(Here)) /\ Held(usbuf') = bptr + Size(it)
<1>1. Here \in Nat /\ usbuf \in Seq(Kept(Here)) /\ bptr = Held(usbuf)  BY HereIs DEF Buffered
<1>2. usbuf' \in Seq(Kept(Here))  BY <1>1, AppendIn
<1>3. Held(Append(usbuf, it)) = Held(usbuf) + Size(it)  BY <1>1, SizeKept, HeldAppend
<1>4. QED  BY <1>1, <1>2, <1>3


(* What the chip does keeps what it holds well formed.                     *)
LEMMA ChipKeeps ==
  ASSUME Linked, Buffered, ChipStep
  PROVE  /\ chip' \in Seq(Kept(Here)) /\ fifo' \in Seq(Answers)
         /\ want' \in [n : Nat \cup {-1}, r : BOOLEAN] /\ want'.n <= 65536
<1> DEFINE it == Head(chip)
           clocks == \/ ChipTakes(it)
                     \/ /\ want.n = 0 /\ ~it.w
                        /\ it.op \in {"bytes", "bits", "tms", "last", "idlebytes", "idlebits"}
           reads == IF want.n > 0 THEN want.r ELSE it.r
<1>1. it \in Kept(Here) /\ chip' \in Seq(Kept(Here))  BY TailIn DEF Buffered, ChipStep
<1>2. /\ fifo' = IF clocks THEN Answer(it, reads)
                 ELSE IF want.n = 0 /\ it.op = "loop" THEN Answer(it, TRUE) ELSE fifo
      /\ want' = IF ChipTakes(it) THEN [want EXCEPT !.n = @ - it.n]
                 ELSE IF want.n # 0 \/ it.op \in {"payload", "cut"} THEN Lost
                 ELSE IF it.w THEN [n |-> it.n, r |-> it.r] ELSE want
  BY DEF ChipStep
<1> HIDE DEF it
<1>3. it \in ItemRecords(Here) /\ Fitting(it)  BY <1>1 DEF Kept, Items
<1>4. /\ it.n \in Nat /\ it.bits \in Nat /\ it.from \in Int /\ it.call \in 0..Here
      /\ it.n <= 65536 /\ (it.op \in DataNames \/ it.op = "loop" => ~it.w)
      /\ (it.w \/ 8 * it.n <= it.bits + 8)
  BY <1>3 DEF ItemRecords, Fitting
<1>5. fifo \in Seq(Answers) /\ want \in [n : Nat \cup {-1}, r : BOOLEAN] /\ want.n <= 65536
  BY DEF Buffered
<1>6. ~it.w => Append(fifo, [call |-> it.call, from |-> it.from, bits |-> it.bits,
                             bytes |-> it.n]) \in Seq(Answers)
  <2> DEFINE a == [call |-> it.call, from |-> it.from, bits |-> it.bits, bytes |-> it.n]
  <2>1. Here \in Nat /\ it.call \in Nat  BY <1>4, HereIs
  <2>2. ~it.w => a \in Answers  BY <1>4, <2>1 DEF Answers
  <2> HIDE DEF a
  <2>3. ~it.w => Append(fifo, a) \in Seq(Answers)  BY <1>5, <2>2, AppendIn
  <2>4. QED  BY <2>3 DEF a
<1>7. clocks \/ it.op = "loop" => ~it.w
  BY <1>4 DEF ChipTakes, DataNames
<1>8. fifo' \in Seq(Answers)
  <2>1. fifo' \in {fifo, Append(fifo, [call |-> it.call, from |-> it.from, bits |-> it.bits,
                                       bytes |-> it.n])}
    BY <1>2 DEF Answer
  <2>2. clocks \/ it.op = "loop" \/ fifo' = fifo  BY <1>2
  <2>3. QED  BY <1>5, <1>6, <1>7, <2>1, <2>2
<1>9. want' \in [n : Nat \cup {-1}, r : BOOLEAN] /\ want'.n <= 65536
  <2>1. CASE ChipTakes(it)
    <3>1. want.n \in Nat /\ it.n <= want.n /\ want.n <= 65536  BY <1>5, <2>1 DEF ChipTakes
    <3>2. want.n - it.n \in Nat /\ want.n - it.n <= 65536  BY <3>1, <1>4
    <3>3. want' = [want EXCEPT !.n = want.n - it.n]  BY <1>2, <2>1
    <3> DEFINE v == want.n - it.n
               N == Nat \cup {-1}
    <3>4. v \in N /\ want' = [want EXCEPT !.n = v] /\ want \in [n : N, r : BOOLEAN] /\ v <= 65536
      BY <1>5, <3>2, <3>3
    <3> HIDE DEF v, N
    <3>5. want' \in [n : N, r : BOOLEAN]  BY <3>4
    <3>6. want'.n = v  BY <3>4
    <3>7. QED  BY <3>4, <3>5, <3>6 DEF N
  <2>2. CASE ~ChipTakes(it) /\ (want.n # 0 \/ it.op \in {"payload", "cut"})
    <3>1. want' = Lost  BY <1>2, <2>2
    <3>2. Lost \in [n : Nat \cup {-1}, r : BOOLEAN] /\ Lost.n <= 65536  BY DEF Lost
    <3>3. QED  BY <3>1, <3>2
  <2>3. CASE ~ChipTakes(it) /\ ~(want.n # 0 \/ it.op \in {"payload", "cut"})
    <3>1. want' = IF it.w THEN [n |-> it.n, r |-> it.r] ELSE want  BY <1>2, <2>3
    <3>2. [n |-> it.n, r |-> it.r] \in [n : Nat \cup {-1}, r : BOOLEAN]
      BY <1>3 DEF ItemRecords
    <3>3. QED  BY <1>4, <1>5, <3>1, <3>2
  <2>4. QED  BY <2>1, <2>2, <2>3
<1>10. QED  BY <1>1, <1>8, <1>9

LEMMA BufferedAdd ==
  ASSUME Linked, Scripted, Buffered, mpsse_add_cmd
  PROVE  usbuf' \in Seq(Kept(Here)) /\ bptr' = Held(usbuf') /\ bptr' < TX_BUF
<1>1. Op.it \in Items(0) /\ (calls = <<>> => Op.it.op \in QuietNames)
  BY OpIs DEF mpsse_add_cmd, Doing
<1> DEFINE it == Op.it
           e == [it EXCEPT !.call = Here]
<1>2. e \in Kept(Here) /\ Size(e) = Size(it)  BY <1>1, ItemSent
<1>3. usbuf' = Append(usbuf, e) /\ bptr' = bptr + Size(it) /\ (Fits(Size(it)) \/ bptr = 0)
  BY DEF mpsse_add_cmd
<1> HIDE DEF e
<1>4. usbuf' \in Seq(Kept(Here)) /\ Held(usbuf') = bptr + Size(e)  BY <1>2, <1>3, BufferGrows
<1>5. Size(e) \in Nat /\ Size(e) < TX_BUF  BY <1>2, HereIs, SizeKept
<1>6. bptr \in Nat  BY HereIs, HeldNat DEF Buffered
<1>7. bptr' < TX_BUF
  <2> DEFINE s == Size(it)
  <2>1. s \in Nat /\ s < TX_BUF /\ bptr' = bptr + s /\ (bptr + s + 1 < TX_BUF \/ bptr = 0)
    BY <1>2, <1>3, <1>5 DEF Fits
  <2> HIDE DEF s
  <2>2. QED  BY <1>6, <2>1, BufferAssumption
<1>8. QED  BY <1>2, <1>3, <1>4, <1>7

LEMMA BufferedFill ==
  ASSUME Linked, Scripted, Buffered, FtdiFill
  PROVE  usbuf' \in Seq(Kept(Here)) /\ bptr' = Held(usbuf') /\ bptr' < TX_BUF
<1>1. bptr \in Nat  BY HereIs, HeldNat DEF Buffered
<1> DEFINE I(m) == Item("payload", "idle", Op.from, m, 8 * m, FALSE, FALSE)
<1>2. PICK m \in Nat \ {0} :
        /\ bptr' = bptr + m /\ bptr + m < TX_BUF /\ m < TX_BUF
        /\ usbuf' = Append(usbuf, [I(m) EXCEPT !.call = Here])
  BY <1>1, FillIs
<1>3. Op.from \in Int /\ calls # <<>>  BY OpIs, Whose DEF FtdiFill, Doing
<1>4. I(m) \in Items(0) /\ Size(I(m)) = m
  <2>1. /\ I(m).op = "payload" /\ I(m).n = m /\ I(m).bits = 8 * m /\ ~I(m).w
    BY DEF Item
  <2>2. m <= 65536 /\ 8 * m \in Nat /\ 8 * m <= 8 * m + 8
    BY <1>2, BufferAssumption
  <2>3. I(m) \in ItemRecords(0)
    <3>1. "payload" \in ItemNames /\ "idle" \in RunKinds /\ 0 \in 0..0
      BY DEF ItemNames, DataNames, RunKinds
    <3>2. QED  BY <1>3, <2>2, <3>1 DEF Item, ItemRecords
  <2>4. Fitting(I(m))
    <3> DEFINE i == I(m)
    <3>1. i.op = "payload" /\ i.n = m /\ i.bits = 8 * m /\ ~i.w  BY <2>1
    <3> HIDE DEF i
    <3>2. Fitting(i)  BY <3>1, <2>2, <1>2 DEF Fitting
    <3>3. QED  BY <3>2 DEF i
  <2>5. Size(I(m)) = m  BY <2>1 DEF Size
  <2>6. QED  BY <2>3, <2>4, <2>5 DEF Items
<1> DEFINE it == I(m)
           e == [it EXCEPT !.call = Here]
<1>5. usbuf' = Append(usbuf, e) /\ it \in Items(0) /\ Size(it) = m  BY <1>2, <1>4
<1> HIDE DEF it
<1>6. e \in Kept(Here) /\ Size(e) = m  BY <1>3, <1>5, ItemSent
<1> HIDE DEF e
<1>7. usbuf' \in Seq(Kept(Here)) /\ Held(usbuf') = bptr + m  BY <1>5, <1>6, BufferGrows
<1>8. QED  BY <1>2, <1>7


LEMMA BufferedSent ==
  ASSUME Linked, Buffered, mpsse_send \/ ShortWrite
  PROVE  /\ usbuf' \in Seq(Kept(Here)) /\ bptr' = Held(usbuf') /\ bptr' < TX_BUF
         /\ chip' \in Seq(Kept(Here)) /\ UNCHANGED <<want, fifo>>
<1> DEFINE K == Kept(Here)
<1>1. usbuf \in Seq(K) /\ chip \in Seq(K) /\ bptr = Held(usbuf) /\ bptr < TX_BUF  BY DEF Buffered
<1>2. CASE mpsse_send
  <2>1. chip' = chip \o usbuf /\ usbuf' = <<>> /\ bptr' = 0 /\ UNCHANGED <<want, fifo>>
    BY <1>2 DEF mpsse_send
  <2> HIDE DEF K
  <2>2. chip' \in Seq(K)  BY <1>1, <2>1, ConcatIn
  <2>3. usbuf' \in Seq(K) /\ bptr' = Held(usbuf') /\ 0 < TX_BUF
    BY <2>1, HeldEmpty, BufferAssumption
  <2>4. QED  BY <2>1, <2>2, <2>3 DEF K
<1>3. CASE ShortWrite
  <2>1. PICK m \in {0, Len(usbuf) - 1} : chip' = chip \o SubSeq(usbuf, 1, m)
    BY <1>3 DEF ShortWrite
  <2>2. bptr > 0 /\ UNCHANGED <<bptr, usbuf, want, fifo>>  BY <1>3 DEF ShortWrite
  <2> HIDE DEF K
  <2>3. usbuf # <<>>  BY <1>1, <2>2, HeldEmpty
  <2>4. m \in 0..Len(usbuf)  BY <1>1, <2>1, <2>3
  <2>5. SubSeq(usbuf, 1, m) \in Seq(K)  BY <1>1, <2>4
  <2>6. chip' \in Seq(K)  BY <1>1, <2>1, <2>5, ConcatIn
  <2>7. QED  BY <1>1, <2>2, <2>6 DEF K
<1>4. QED  BY <1>2, <1>3

LEMMA BufferedByFtdi ==
  ASSUME Linked, Scripted, Wired, Buffered, Reading, FtdiStep, ~Begins, UNCHANGED Here
  PROVE  Buffered'
<1>1. CASE mpsse_add_cmd \/ FtdiFill
  <2>1. usbuf' \in Seq(Kept(Here)) /\ bptr' = Held(usbuf') /\ bptr' < TX_BUF
    BY <1>1, BufferedAdd, BufferedFill
  <2>2. UNCHANGED <<chip, want, fifo>>  BY <1>1 DEF mpsse_add_cmd, FtdiFill
  <2>3. QED  BY <2>1, <2>2 DEF Buffered
<1>2. CASE mpsse_send \/ ShortWrite
  BY <1>2, BufferedSent DEF Buffered
<1>3. CASE ChipStep
  <2>1. UNCHANGED <<bptr, usbuf>>  BY <1>3 DEF ChipStep
  <2>2. QED  BY <1>3, <2>1, ChipKeeps DEF Buffered
<1>4. CASE FtdiRead
  <2>1. UNCHANGED <<bptr, usbuf, chip, want>>  BY <1>4 DEF FtdiRead
  <2>2. QED  BY <1>4, <2>1, FtdiGets DEF Buffered
<1>5. CASE FtdiRefused
  <2>1. UNCHANGED <<bptr, usbuf, chip, fifo>> /\ (want' = Lost \/ want' = want)
    BY <1>5 DEF FtdiRefused
  <2>2. Lost \in [n : Nat \cup {-1}, r : BOOLEAN] /\ Lost.n <= 65536  BY DEF Lost
  <2>3. QED  BY <2>1, <2>2 DEF Buffered
<1>6. CASE FtdiOpen \/ FtdiReadError \/ FtdiReadDone \/ FtdiThrow \/ FtdiClose \/ FtdiDestroy \/ FtdiEnd
  <2>1. UNCHANGED <<bptr, usbuf, chip, want, fifo>>
    BY <1>6 DEF FtdiOpen, FtdiReadError, FtdiReadDone, FtdiThrow, FtdiClose, FtdiDestroy,
       FtdiEnd, vars_ftdi
  <2>2. QED  BY <2>1 DEF Buffered
<1>7. QED
  BY <1>1, <1>2, <1>3, <1>4, <1>5, <1>6 DEF FtdiStep, FtdiHost, Begins

LEMMA BufferedSame ==
  ASSUME Linked, Buffered, UNCHANGED <<bptr, usbuf, chip, want, fifo>>,
         Here' = Here \/ Here' = Here + 1
  PROVE  Buffered'
<1>1. Here \in Nat /\ Here' \in Nat /\ Here <= Here'  BY HereIs
<1>2. usbuf \in Seq(Kept(Here')) /\ chip \in Seq(Kept(Here'))
  <2>1. usbuf \in Seq(Kept(Here)) /\ chip \in Seq(Kept(Here))  BY DEF Buffered
  <2> DEFINE k == Here
             l == Here'
  <2>2. k \in Nat /\ l \in Nat /\ k <= l  BY <1>1
  <2>3. usbuf \in Seq(Kept(k)) /\ chip \in Seq(Kept(k))  BY <2>1
  <2> HIDE DEF k, l
  <2>4. usbuf \in Seq(Kept(l)) /\ chip \in Seq(Kept(l))  BY <2>2, <2>3, SeenWider
  <2>5. QED  BY <2>4 DEF l
<1>3. QED  BY <1>2 DEF Buffered

LEMMA BufferedKept ==
  ASSUME Linked, Scripted, Wired, Buffered, Reading, [Next]_vars
  PROVE  Buffered'
<1>1. CASE Begins
  <2>1. UNCHANGED vars_ftdi
    <3>1. CASE FtdiBegin  BY <3>1 DEF FtdiBegin
    <3>2. CASE ~FtdiBegin
      <4>1. ~IsFtdi  BY <1>1, <3>2 DEF Begins, XpcBegin, Fx2Begin, BitBegin, IsFtdi
      <4>2. ~FtdiStep \/ UNCHANGED vars_ftdi
        <5>1. got' = <<>> /\ state = "idle" /\ state' = "busy"  BY <1>1, BeginIs
        <5>2. script = <<>>  BY <5>1 DEF Scripted
        <5>3. QED
          BY <3>2, <4>1, <5>1, <5>2 DEF FtdiStep, FtdiHost, FtdiOpen, FtdiRefused, Refuse,
             mpsse_add_cmd, FtdiFill, mpsse_send, Sending, ShortWrite, Throw, FtdiRead,
             FtdiReadError, FtdiReadDone, FtdiThrow, FtdiClose, FtdiDestroy, FtdiEnd, Doing,
             ChipStep
      <4>3. QED  BY <4>2, StepIs DEF vars
    <3>3. QED  BY <3>1, <3>2
  <2>2. Here' = Here + 1  BY <1>1, BeginIs DEF Here
  <2>3. QED  BY <2>1, <2>2, BufferedSame DEF vars_ftdi
<1>2. CASE ~Begins
  <2>1. Here' = Here  BY <1>2, CallsStay DEF Here
  <2>2. CASE FtdiStep
    BY <1>2, <2>1, <2>2, BufferedByFtdi
  <2>3. CASE UNCHANGED vars_ftdi
    BY <2>1, <2>3, BufferedSame DEF vars_ftdi
  <2>4. QED  BY <2>2, <2>3, StepIs DEF vars
<1>3. QED  BY <1>1, <1>2


------------------------------------------------------------------------------
(***************************************************************************)
(* The reads.                                                              *)
(***************************************************************************)
LEMMA GetIs ==
  ASSUME Linked', Scripted', Doing("get")'
  PROVE  Op'.n \in Nat
<1>1. script' # <<>> /\ Head(script').do = "get" /\ Op' = Head(script')  BY DEF Doing, Op
<1>2. \A S : script' \in Seq(S) => Head(script') \in S  BY <1>1, TailIn
<1>3. IsFtdi' \/ kind' = "xpc" \/ kind' = "fx2" \/ kind' \in BitKinds
  BY DEF Linked, Kinds, IsFtdi, BitKinds
<1>4. Head(script') \in FtdiOps \cup Ends
  <2>1. /\ Head(script') \notin XpcOps /\ Head(script') \notin Fx2Ops
        /\ Head(script') \notin BitOps
    BY <1>1 DEF XpcOps, Fx2Ops, BitOps
  <2>2. QED  BY <1>2, <1>3, <2>1 DEF Scripted
<1>5. \A o \in FtdiOps \cup Ends : o.do = "get" => o.n \in 0..TX_BUF
  BY DEF FtdiOps, Ends, Adds, Gets, Fills, Send
<1>6. Op'.n \in 0..TX_BUF  BY <1>1, <1>4, <1>5
<1>7. QED  BY <1>6, BufferAssumption

LEMMA ReadingFresh ==
  ASSUME Linked', Scripted', Fresh
  PROVE  Reading'
<1>1. tries' = 0 /\ have' = 0 /\ put' = 0 /\ res' = "none" /\ err' = FALSE  BY DEF Fresh
<1>2. 0 \in 0..(Retries + 1) /\ 0 \in Nat /\ 0 \in Int  BY BufferAssumption
<1>3. Doing("get")' => 0 <= Op'.n  BY GetIs
<1>4. QED  BY <1>1, <1>2, <1>3 DEF Reading

LEMMA ReadingStays ==
  ASSUME Reading, Linked', Scripted', UNCHANGED <<tries, have, put, res, err>>,
         ~Doing("get") \/ UNCHANGED script
  PROVE  Reading'
<1>1. CASE ~Doing("get")
  <2>1. tries = 0 /\ have = 0  BY <1>1 DEF Reading
  <2>2. Doing("get")' => 0 <= Op'.n  BY GetIs
  <2>3. QED  BY <2>1, <2>2 DEF Reading
<1>2. CASE UNCHANGED script
  <2>1. Doing("get")' = Doing("get") /\ Op' = Op  BY <1>2 DEF Doing, Op
  <2>2. QED  BY <2>1 DEF Reading
<1>3. QED  BY <1>1, <1>2

(* A step of another kind of cable, or of all of them.                     *)
LEMMA NotReading ==
  ASSUME Linked, Scripted, UsbNext \/ BitNext \/ CommonStep
  PROVE  ~Doing("get") \/ UNCHANGED script
<1>1. CASE UsbNext
  <2>1. kind \in {"xpc", "xpc_internal", "fx2"}
    BY <1>1 DEF UsbNext, XpcInit, XpcBegin, XpcWrite, XpcWriteFails, XpcRead, XpcReadFails,
       Fx2Init, Fx2Begin, Fx2Refused, Fx2Out, Fx2In, Fx2InOut, Fx2Error, UsbDestroy
  <2>2. ~IsFtdi  BY <2>1 DEF IsFtdi
  <2>3. QED  BY <2>2, Whose DEF Doing
<1>2. CASE BitNext
  <2>1. CASE ParportInit \/ GpioInit \/ BitBegin \/ BitDestroy
    <3>1. ~IsFtdi  BY <2>1 DEF ParportInit, GpioInit, BitBegin, BitDestroy, IsFtdi
    <3>2. QED  BY <3>1, Whose DEF Doing
  <2>2. CASE SetPins \/ Capture \/ StoreByte \/ CaptureMask \/ PinFails
    <3>1. Op.do \in {"pins", "sample", "mask", "store"}
      BY <2>2 DEF SetPins, Capture, StoreByte, CaptureMask, PinFails, Doing
    <3>2. Op.do # "get"  BY <3>1
    <3>3. QED  BY <3>2 DEF Doing
  <2>3. QED  BY <1>2, <2>1, <2>2 DEF BitNext
<1>3. CASE CommonStep
  BY <1>3 DEF CommonStep, Ready, Return, Terminate
<1>4. QED  BY <1>1, <1>2, <1>3

LEMMA ReadingByRead ==
  ASSUME Linked, Scripted, Wired, Buffered, Reading, FtdiRead
  PROVE  Reading'
<1>1. tries \in 0..(Retries + 1) /\ Retries \in Nat
  BY BufferAssumption DEF Reading
<1>2. script # <<>> /\ Op.do = "get" /\ UNCHANGED script
  BY DEF FtdiRead, Doing
<1>3. Op.n \in 0..TX_BUF /\ have \in Nat /\ have <= Op.n
  BY <1>2, OpIs DEF Reading, Doing
<1>4. tries' = tries + 1 /\ (tries > 0 => ~(tries > Retries))
  BY DEF FtdiRead, Count, ReadDone
<1>5. tries' \in 0..(Retries + 1)  BY <1>1, <1>4
<1>6. PICK m \in Nat : have' = have + m /\ m <= Op.n - have  BY FtdiGets
<1>7. put' \in Int  BY FtdiGets
<1>8. have' \in Nat /\ have' <= Op.n  BY <1>3, <1>6, BufferAssumption
<1>9. err' \in BOOLEAN  BY DEF FtdiRead
<1>10. Doing("get")' /\ Op' = Op  BY <1>2 DEF Doing, Op
<1>11. QED  BY <1>2, <1>5, <1>7, <1>8, <1>9, <1>10 DEF Reading

LEMMA ReadingByFtdi ==
  ASSUME Linked, Scripted, Wired, Buffered, Reading, Ending, Linked', Scripted', FtdiStep
  PROVE  Reading'
<1>1. CASE FtdiRead
  BY <1>1, ReadingByRead
<1>2. CASE FtdiReadError
  <2>1. /\ script # <<>> /\ Op.do = "get" /\ UNCHANGED <<script, have, put>>
        /\ tries' = tries + 1 /\ (tries > 0 => ~(tries > Retries))
    BY <1>2 DEF FtdiReadError, Doing, ReadDone, vars_cable
  <2>2. tries' \in 0..(Retries + 1)
    <3>1. tries \in 0..(Retries + 1) /\ Retries \in Nat  BY BufferAssumption DEF Reading
    <3>2. QED  BY <2>1, <3>1
  <2>3. err' \in BOOLEAN  BY <1>2 DEF FtdiReadError
  <2>4. Doing("get")' /\ Doing("get") /\ Op' = Op  BY <2>1 DEF Doing, Op
  <2>5. QED  BY <2>1, <2>2, <2>3, <2>4 DEF Reading
<1>3. CASE FtdiReadDone
  BY <1>3, ReadingFresh DEF FtdiReadDone
<1>4. CASE FtdiClose
  <2>1. script # <<>> /\ Op.do = "close" /\ UNCHANGED <<tries, have, put, res, err>>
    BY <1>4 DEF FtdiClose, Doing, reading
  <2>2. tries = 0 /\ have = 0  BY <2>1 DEF Reading, Doing
  <2>3. Doing("get")' => 0 <= Op'.n  BY GetIs
  <2>4. QED  BY <2>1, <2>2, <2>3 DEF Reading
<1>5. CASE FtdiDestroy
  BY <1>5, ReadingFresh DEF FtdiDestroy
<1>6. CASE \/ FtdiOpen \/ FtdiRefused \/ FtdiBegin \/ mpsse_add_cmd \/ FtdiFill \/ mpsse_send
           \/ ShortWrite \/ FtdiThrow \/ FtdiEnd \/ ChipStep
  <2>1. UNCHANGED <<tries, have, put, res, err>>
    BY <1>6 DEF FtdiOpen, FtdiRefused, FtdiBegin, mpsse_add_cmd, FtdiFill, mpsse_send,
       ShortWrite, FtdiThrow, FtdiEnd, ChipStep, vars_ftdi, reading
  <2>2. ~Doing("get") \/ UNCHANGED script
    <3>1. CASE FtdiOpen \/ FtdiRefused \/ FtdiBegin \/ FtdiEnd
      <4>1. script = <<>>
        BY <3>1 DEF FtdiOpen, FtdiRefused, FtdiBegin, FtdiEnd, Begin, Scripted
      <4>2. QED  BY <4>1 DEF Doing
    <3>2. CASE mpsse_add_cmd \/ FtdiFill \/ FtdiThrow
      <4>1. Op.do \in {"add", "fill", "throw"}
        BY <3>2 DEF mpsse_add_cmd, FtdiFill, FtdiThrow, Doing
      <4>2. Op.do # "get"  BY <4>1
      <4>3. QED  BY <4>2 DEF Doing
    <3>3. CASE mpsse_send \/ ShortWrite
      <4>1. Op.do \in {"send", "fill", "add"}
        BY <3>3 DEF mpsse_send, ShortWrite, Sending, Doing
      <4>2. Op.do # "get"  BY <4>1
      <4>3. QED  BY <4>2 DEF Doing
    <3>4. CASE ChipStep
      BY <3>4 DEF ChipStep
    <3>5. QED  BY <1>6, <3>1, <3>2, <3>3, <3>4
  <2>3. QED  BY <2>1, <2>2, ReadingStays
<1>7. QED
  BY <1>1, <1>2, <1>3, <1>4, <1>5, <1>6 DEF FtdiStep, FtdiHost

LEMMA ReadingKept ==
  ASSUME Linked, Scripted, Wired, Buffered, Reading, Ending, Linked', Scripted', [Next]_vars
  PROVE  Reading'
<1>1. CASE FtdiStep
  BY <1>1, ReadingByFtdi
<1>2. CASE (UsbNext \/ BitNext \/ CommonStep) /\ UNCHANGED vars_ftdi
  <2>1. UNCHANGED <<tries, have, put, res, err>>  BY <1>2 DEF vars_ftdi
  <2>2. QED  BY <1>2, <2>1, NotReading, ReadingStays
<1>3. CASE UNCHANGED vars
  BY <1>3, ReadingStays DEF vars, vars_cable, vars_ftdi
<1>4. QED  BY <1>1, <1>2, <1>3, StepIs


------------------------------------------------------------------------------
(***************************************************************************)
(* What the USB cables hold, and the pins.                                 *)
(***************************************************************************)
LEMMA Held_usbKept ==
  ASSUME Linked, Scripted, Held_usb, [Next]_vars
  PROVE  Held_usb'
<1> DEFINE H == [from : Int, n : Nat]
<1>1. CASE UNCHANGED vars_usb
  BY <1>1 DEF Held_usb, vars_usb
<1>2. CASE UsbNext
  <2>1. CASE XpcWrite
    <3>1. held' = held /\ cpld' = [from |-> Op.from, n |-> Op.n] /\ script # <<>> /\ Op.do = "xfer"
      BY <2>1 DEF XpcWrite, Doing
    <3>2. Op.from \in Int /\ Op.n \in Nat  BY <3>1, UsbOps
    <3>3. QED  BY <3>1, <3>2 DEF Held_usb
  <2>2. CASE XpcRead
    <3>1. NoBits \in H  BY DEF NoBits
    <3>2. QED  BY <2>2, <3>1 DEF XpcRead, Held_usb
  <2>3. CASE Fx2Out
    <3>1. cpld' = cpld /\ held' = [from |-> Op.from, n |-> Op.n] /\ script # <<>> /\ Op.do = "out"
      BY <2>3 DEF Fx2Out, Doing
    <3>2. Op.from \in Int /\ Op.n \in Nat  BY <3>1, UsbOps
    <3>3. QED  BY <3>1, <3>2 DEF Held_usb
  <2>4. CASE ~XpcWrite /\ ~XpcRead /\ ~Fx2Out
    <3>1. UNCHANGED <<cpld, held>>
      BY <1>2, <2>4 DEF UsbNext, XpcInit, XpcBegin, XpcWriteFails, XpcReadFails, Fx2Init,
         Fx2Begin, Fx2Refused, Fx2In, Fx2InOut, Fx2Error, UsbDestroy, vars_usb
    <3>2. QED  BY <3>1 DEF Held_usb
  <2>5. QED  BY <2>1, <2>2, <2>3, <2>4
<1>3. QED  BY <1>1, <1>2, StepIs DEF vars

LEMMA PinnedByBits ==
  ASSUME Linked, Scripted, Pinned, BitNext
  PROVE  Pinned'
<1>1. CASE SetPins
  <2>1. /\ script # <<>> /\ Op.do = "pins" /\ tck' = Op.tck /\ tms' = Op.tms
        /\ UNCHANGED <<acc, cabletype, driven>>
    BY <1>1 DEF SetPins, Doing
  <2>2. Op.tck \in {0, 1} /\ Op.tms \in {0, 1}  BY <2>1, BitOpIs
  <2>3. QED  BY <2>1, <2>2 DEF Pinned
<1>2. CASE Capture
  <2>1. /\ script # <<>> /\ Op.do = "sample" /\ UNCHANGED <<tck, tms, cabletype, driven>>
        /\ (acc' = acc \/ acc' = Place(acc, Placed(Op.bit % 8, Here, Op.bit, 1)))
    BY <1>2 DEF Capture, Doing, pins
  <2>2. Op.bit \in Int  BY <2>1, BitOpIs
  <2>3. Op.bit % 8 \in Int /\ Here \in Nat /\ 1 \in Nat
    <3> DEFINE b == Op.bit
    <3>1. b \in Int  BY <2>2
    <3> HIDE DEF b
    <3>2. b % 8 \in Int  BY <3>1
    <3>3. QED  BY <3>2, HereIs DEF b
  <2>4. Place(acc, Placed(Op.bit % 8, Here, Op.bit, 1)) \in Seq(Captured)
    BY <2>2, <2>3, PlacedIn DEF Pinned
  <2>5. QED  BY <2>1, <2>4 DEF Pinned
<1>3. CASE StoreByte \/ BitBegin
  <2>1. acc' = <<>> /\ UNCHANGED <<tck, tms, cabletype, driven>>
    BY <1>3 DEF StoreByte, BitBegin, pins
  <2>2. QED  BY <2>1 DEF Pinned
<1>4. CASE ParportInit
  <2>1. UNCHANGED <<tck, tms, acc>>  BY <1>4 DEF ParportInit, pins
  <2>2. detectcable(opt) \in {"none", "bblst", "pciii"}  BY DEF detectcable
  <2>3. cabletype' \in {"unset", "none", "bblst", "pciii"} /\ driven' \in BOOLEAN
    BY <1>4, <2>2 DEF ParportInit, Pinned
  <2>4. QED  BY <2>1, <2>3 DEF Pinned
<1>5. CASE GpioInit \/ CaptureMask \/ PinFails
  BY <1>5 DEF GpioInit, CaptureMask, PinFails, vars_bits, Pinned
<1>6. CASE BitDestroy
  BY <1>6 DEF BitDestroy, pins, Pinned
<1>7. QED  BY <1>1, <1>2, <1>3, <1>4, <1>5, <1>6 DEF BitNext

LEMMA PinnedKept ==
  ASSUME Linked, Scripted, Pinned, [Next]_vars
  PROVE  Pinned'
<1>1. CASE UNCHANGED vars_bits
  BY <1>1 DEF Pinned, vars_bits
<1>2. QED  BY <1>1, PinnedByBits, StepIs DEF vars

------------------------------------------------------------------------------
(***************************************************************************)
(* The cable at a parallel port.                                           *)
(***************************************************************************)
(* The probes tell the sources of the status lines apart: only D7 follows  *)
(* D7, and so on.                                                          *)
LEMMA Follows7 ==
  ASSUME NEW s \in Sources, \A data \in BblstProbes : Level(s, data) = ("D7" \in data)
  PROVE  s = "D7"
<1>1. Level(s, {"D7"}) /\ ~Level(s, {"D5"}) /\ ~Level(s, {})
  <2>1. {{"D7"}, {"D5"}, {}} \subseteq BblstProbes  BY DEF BblstProbes
  <2>2. "D7" \in {"D7"} /\ "D7" \notin {"D5"} /\ "D7" \notin {}  OBVIOUS
  <2>3. QED  BY <2>1, <2>2
<1>2. QED  BY <1>1 DEF Level, Sources

LEMMA Follows5 ==
  ASSUME NEW s \in Sources, \A data \in BblstProbes : Level(s, data) = ("D5" \in data)
  PROVE  s = "D5"
<1>1. Level(s, {"D5"}) /\ ~Level(s, {"D7"}) /\ ~Level(s, {})
  <2>1. {{"D7"}, {"D5"}, {}} \subseteq BblstProbes  BY DEF BblstProbes
  <2>2. "D5" \in {"D5"} /\ "D5" \notin {"D7"} /\ "D5" \notin {}  OBVIOUS
  <2>3. QED  BY <2>1, <2>2
<1>2. QED  BY <1>1 DEF Level, Sources

LEMMA Follows6 ==
  ASSUME NEW s \in Sources, \A data \in PciiiProbes : Level(s, data) = ("D6" \in data)
  PROVE  s = "D6"
<1>1. Level(s, {"D6"}) /\ ~Level(s, {})
  <2>1. {} \in PciiiProbes /\ {"D6"} \in PciiiProbes  BY DEF PciiiProbes
  <2>2. "D6" \in {"D6"} /\ "D6" \notin {}  OBVIOUS
  <2>3. QED  BY <2>1, <2>2
<1>2. QED  BY <1>1 DEF Level, Sources

LEMMA Inverts6 ==
  ASSUME NEW s \in Sources, \A data \in PciiiProbes : Level(s, data) = ("D6" \notin data)
  PROVE  s = "notD6"
<1>1. ~Level(s, {"D6"}) /\ Level(s, {})
  <2>1. {} \in PciiiProbes /\ {"D6"} \in PciiiProbes  BY DEF PciiiProbes
  <2>2. "D6" \in {"D6"} /\ "D6" \notin {}  OBVIOUS
  <2>3. QED  BY <2>1, <2>2
<1>2. QED  BY <1>1 DEF Level, Sources

LEMMA DetectIs ==
  ASSUME Linked, kind = "parport"
  PROVE  /\ detectcable(opt) \in {"none", "bblst", "pciii"}
         /\ detectcable(opt) = "bblst" => IsByteblaster /\ ~ReadsZero
         /\ detectcable(opt) = "pciii" => IsParallelIII
         /\ detectcable(opt) = "none" => ~IsParallelIII /\ (IsByteblaster => ReadsZero)
<1>1. /\ opt.ERROR \in {"low", "high"} /\ opt.PE \in Sources /\ opt.ACK \in Sources
      /\ opt.BUSY \in Sources /\ opt.REST \in {"low", "high", "mixed"}
      /\ DOMAIN opt = {"ERROR", "PE", "ACK", "BUSY", "REST"}
  BY PortAssumption DEF Linked
<1>2. \A data : /\ Level("low", data) = FALSE /\ Level("high", data) = TRUE
                /\ Level("notD6", data) = ("D6" \notin data)
                /\ Level("D5", data) = ("D5" \in data) /\ Level("D6", data) = ("D6" \in data)
                /\ Level("D7", data) = ("D7" \in data)
  BY DEF Level
<1>3. detectcable(opt) \in {"none", "bblst", "pciii"}  BY DEF detectcable
<1>4. IsByteblaster => (Dead(opt) <=> ReadsZero)
  <2>1. SUFFICES ASSUME IsByteblaster PROVE Dead(opt) <=> ReadsZero  OBVIOUS
  <2>2. ~Level(opt.ERROR, {}) /\ ~Level(opt.PE, {}) /\ ~Level(opt.ACK, {})
    BY <1>2, <2>1 DEF IsByteblaster
  <2>3. Level(opt.BUSY, {}) <=> opt.BUSY \in {"high", "notD6"}
    <3>1. CASE opt.BUSY \in {"high", "notD6"}
      <4>1. Level("high", {}) /\ Level("notD6", {})  BY <1>2
      <4>2. QED  BY <3>1, <4>1
    <3>2. CASE opt.BUSY \in {"low", "D5", "D6", "D7"}
      <4>1. ~Level("low", {}) /\ ~Level("D5", {}) /\ ~Level("D6", {}) /\ ~Level("D7", {})
        BY <1>2
      <4>2. QED  BY <3>2, <4>1
    <3>3. opt.BUSY \in Sources  BY <1>1
    <3>4. QED  BY <3>1, <3>2, <3>3 DEF Sources
  <2>4. opt.REST \in {"low", "high", "mixed"}  BY <1>1
  <2>5. \A s \in Sources : Level(s, {}) \in BOOLEAN
    <3>1. /\ Level("low", {}) = FALSE /\ Level("high", {}) = TRUE /\ Level("notD6", {}) = TRUE
          /\ Level("D5", {}) = FALSE /\ Level("D6", {}) = FALSE /\ Level("D7", {}) = FALSE
      BY DEF Level
    <3>2. QED  BY <3>1 DEF Sources
  <2>6. ASSUME Dead(opt) PROVE ReadsZero
    <3>1. /\ opt.REST # "mixed"
          /\ \A line \in DOMAIN opt : Level(opt[line], {}) = (opt.REST = "high")
      BY <2>6 DEF Dead
    <3>2. "ERROR" \in DOMAIN opt /\ "BUSY" \in DOMAIN opt  BY <1>1
    <3>3. opt.REST = "low"  BY <2>2, <2>4, <3>1, <3>2
    <3>4. ~Level(opt.BUSY, {})  BY <3>1, <3>2, <3>3
    <3>5. QED  BY <2>3, <3>3, <3>4 DEF ReadsZero
  <2>7. ASSUME ReadsZero PROVE Dead(opt)
    <3>1. opt.REST = "low" /\ ~Level(opt.BUSY, {})  BY <2>3, <2>7 DEF ReadsZero
    <3>2. Level(opt.REST, {}) = FALSE  BY <1>2, <3>1
    <3>3. /\ Level(opt.ERROR, {}) = FALSE /\ Level(opt.PE, {}) = FALSE
          /\ Level(opt.ACK, {}) = FALSE /\ Level(opt.BUSY, {}) = FALSE
          /\ Level(opt.REST, {}) = FALSE
      BY <1>1, <2>2, <2>5, <3>1, <3>2
    <3>4. \A line \in DOMAIN opt : Level(opt[line], {}) = FALSE  BY <1>1, <3>3
    <3>5. (opt.REST = "high") = FALSE /\ opt.REST # "mixed"  BY <3>1
    <3>6. QED  BY <3>4, <3>5 DEF Dead
  <2>8. QED  BY <2>6, <2>7
<1>5. IsParallelIII => ~Dead(opt)
  <2>1. SUFFICES ASSUME IsParallelIII, Dead(opt) PROVE FALSE  OBVIOUS
  <2>2. Level(opt.ERROR, {}) /\ ~Level(opt.PE, {})
    BY <1>2, <2>1 DEF IsParallelIII
  <2>3. QED  BY <1>1, <2>1, <2>2 DEF Dead
<1>6. ASSUME detectcable(opt) = "bblst"
      PROVE  IsByteblaster /\ ~ReadsZero
  <2>1. ~Dead(opt) /\ ~Level(opt.ERROR, {}) /\ \A data \in BblstProbes : IsBblst(opt, data)
    BY <1>6 DEF detectcable
  <2>2. /\ \A data \in BblstProbes : Level(opt.PE, data) = ("D7" \in data)
        /\ \A data \in BblstProbes : Level(opt.ACK, data) = ("D5" \in data)
    BY <2>1 DEF IsBblst
  <2>3. opt.ERROR = "low"  BY <1>1, <1>2, <2>1
  <2>4. IsByteblaster
    BY <1>1, <2>2, <2>3, Follows7, Follows5 DEF IsByteblaster
  <2>5. QED  BY <1>4, <2>1, <2>4
<1>7. ASSUME detectcable(opt) = "pciii"
      PROVE  IsParallelIII
  <2>1. Level(opt.ERROR, {}) /\ \A data \in PciiiProbes : IsPciii(opt, data)
    BY <1>7 DEF detectcable
  <2>2. /\ \A data \in PciiiProbes : Level(opt.PE, data) = ("D6" \in data)
        /\ \A data \in PciiiProbes : Level(opt.BUSY, data) = ("D6" \notin data)
    BY <2>1 DEF IsPciii
  <2>3. opt.ERROR = "high"  BY <1>1, <1>2, <2>1
  <2>4. QED  BY <1>1, <2>2, <2>3, Follows6, Inverts6 DEF IsParallelIII
<1>8. ASSUME detectcable(opt) = "none", ~Dead(opt)
      PROVE  ~IsParallelIII /\ ~IsByteblaster
  <2>1. ~IsByteblaster
    <3>1. SUFFICES ASSUME IsByteblaster PROVE FALSE  OBVIOUS
    <3>2. ~Level(opt.ERROR, {})  BY <1>2, <3>1 DEF IsByteblaster
    <3>3. \A data : IsBblst(opt, data)  BY <1>2, <3>1 DEF IsBblst, IsByteblaster
    <3>4. detectcable(opt) = "bblst"  BY <1>8, <3>2, <3>3 DEF detectcable
    <3>5. QED  BY <1>8, <3>4
  <2>2. ~IsParallelIII
    <3>1. SUFFICES ASSUME IsParallelIII PROVE FALSE  OBVIOUS
    <3>2. Level(opt.ERROR, {})  BY <1>2, <3>1 DEF IsParallelIII
    <3>3. \A data : IsPciii(opt, data)  BY <1>2, <3>1 DEF IsPciii, IsParallelIII
    <3>4. detectcable(opt) = "pciii"  BY <1>8, <3>2, <3>3 DEF detectcable
    <3>5. QED  BY <1>8, <3>4
  <2>3. QED  BY <2>1, <2>2
<1>9. QED  BY <1>3, <1>4, <1>5, <1>6, <1>7, <1>8


(* The steps of another cable.                                             *)
LEMMA NotParport ==
  ASSUME Linked, Scripted, kind = "parport"
  PROVE  /\ ~UsbNext
         /\ FtdiStep => UNCHANGED <<state, handle>>
<1>1. ~UsbNext
  <2>1. SUFFICES ASSUME UsbNext PROVE FALSE  OBVIOUS
  <2>2. kind \in {"xpc", "xpc_internal", "fx2"}
    BY <2>1 DEF UsbNext, XpcInit, XpcBegin, XpcWrite, XpcWriteFails, XpcRead, XpcReadFails,
       Fx2Init, Fx2Begin, Fx2Refused, Fx2Out, Fx2In, Fx2InOut, Fx2Error, UsbDestroy
  <2>3. QED  BY <2>2
<1>2. ASSUME FtdiStep PROVE UNCHANGED <<state, handle>>
  <2>1. ~IsFtdi  BY DEF IsFtdi
  <2>2. CASE ChipStep  BY <2>2 DEF ChipStep
  <2>3. CASE ~ChipStep
    <3>1. script # <<>> /\ Op.do \in {"add", "send", "get", "fill", "close", "throw"}
      BY <1>2, <2>1, <2>3 DEF FtdiStep, FtdiHost, FtdiOpen, FtdiRefused, FtdiBegin, mpsse_add_cmd,
         FtdiFill, mpsse_send, Sending, ShortWrite, FtdiRead, FtdiReadError, FtdiReadDone,
         FtdiThrow, FtdiClose, FtdiDestroy, FtdiEnd, Doing
    <3>2. QED  BY <2>1, <3>1, Whose
  <2>4. QED  BY <2>2, <2>3
<1>3. QED  BY <1>1, <1>2

LEMMA RecognisedByBits ==
  ASSUME Linked, Scripted, Recognised, kind = "parport", BitNext, UNCHANGED link
  PROVE  Recognised'
<1>1. UNCHANGED <<kind, opt, IsByteblaster, IsParallelIII, ReadsZero>>
  BY DEF link, IsByteblaster, IsParallelIII, ReadsZero
<1>2. CASE ParportInit
  <2>1. CASE /\ detectcable(opt) # "none" /\ cabletype' = detectcable(opt)
             /\ driven' = (cabletype' = "bblst") /\ UNCHANGED state
    <3>1. state = "init" /\ handle' = "open"  BY <1>2, <2>1 DEF ParportInit, Refuse
    <3>2. /\ cabletype' \in {"bblst", "pciii"}
          /\ cabletype' = "bblst" => IsByteblaster /\ ~ReadsZero
          /\ cabletype' = "pciii" => IsParallelIII
      BY <2>1, DetectIs
    <3>3. driven' => cabletype' = "bblst"  BY <2>1
    <3>4. state' # "closed"  BY <2>1, <3>1
    <3>5. QED  BY <1>1, <3>1, <3>2, <3>3, <3>4 DEF Recognised
  <2>2. CASE /\ detectcable(opt) = "none" /\ state' = "refused"
             /\ cabletype' = "none" /\ UNCHANGED driven
    <3>1. ~driven  BY <1>2 DEF ParportInit, Recognised
    <3>2. ~IsParallelIII /\ (IsByteblaster => ReadsZero)  BY <2>2, DetectIs
    <3>3. QED  BY <1>1, <2>2, <3>1, <3>2 DEF Recognised
  <2>3. CASE state' = "refused" /\ UNCHANGED <<cabletype, driven>>
    <3>1. ~driven  BY <1>2 DEF ParportInit, Recognised
    <3>2. QED  BY <1>1, <2>3, <3>1 DEF Recognised
  <2>4. QED  BY <1>2, <2>1, <2>2, <2>3 DEF ParportInit, Refuse
<1>3. CASE BitDestroy
  <2>1. /\ state' = "closed" /\ UNCHANGED cabletype
        /\ driven' = (driven /\ cabletype # "bblst")
    BY <1>3 DEF BitDestroy
  <2>2. ~driven'  BY <2>1 DEF Recognised
  <2>3. QED  BY <1>1, <2>1, <2>2 DEF Recognised
<1>4. CASE BitBegin
  <2>1. state = "idle" /\ state' = "busy" /\ UNCHANGED <<handle, cabletype, driven>>
    BY <1>4 DEF BitBegin, Begin
  <2>2. QED  BY <1>1, <2>1 DEF Recognised
<1>5. CASE SetPins \/ Capture \/ StoreByte \/ CaptureMask \/ PinFails
  <2>1. UNCHANGED <<state, handle, cabletype, driven>>
    BY <1>5 DEF SetPins, Capture, StoreByte, CaptureMask, PinFails, vars_bits
  <2>2. QED  BY <1>1, <2>1 DEF Recognised
<1>6. QED  BY <1>2, <1>3, <1>4, <1>5 DEF BitNext, GpioInit

LEMMA RecognisedKept ==
  ASSUME Linked, Scripted, Recognised, [Next]_vars
  PROVE  Recognised'
<1>1. /\ UNCHANGED link
      /\ UNCHANGED <<kind, opt, IsByteblaster, IsParallelIII, ReadsZero>>
  BY LinkStays DEF link, IsByteblaster, IsParallelIII, ReadsZero
<1>2. CASE kind # "parport"
  BY <1>1, <1>2 DEF Recognised
<1>3. CASE kind = "parport"
  <2>1. CASE BitNext
    BY <1>1, <1>3, <2>1, RecognisedByBits
  <2>2. CASE FtdiStep /\ UNCHANGED vars_bits
    <3>1. UNCHANGED <<state, handle, cabletype, driven>>
      BY <1>3, <2>2, NotParport DEF vars_bits
    <3>2. QED  BY <1>1, <3>1 DEF Recognised
  <2>3. CASE CommonStep /\ UNCHANGED vars_bits
    <3>1. UNCHANGED <<handle, cabletype, driven>> /\ state' # "closed"
      BY <2>3 DEF vars_bits, CommonStep, Ready, Return, Terminate
    <3>2. state' = "idle" => state = "busy" \/ (state = "init" /\ handle = "open")
      BY <2>3 DEF CommonStep, Ready, Return, Terminate
    <3>3. state' \in {"idle", "aborted"}
      BY <2>3 DEF CommonStep, Ready, Return, Terminate
    <3>4. QED  BY <1>1, <3>1, <3>2, <3>3 DEF Recognised
  <2>4. CASE UNCHANGED vars
    BY <1>1, <2>4 DEF vars, vars_cable, vars_bits, Recognised
  <2>5. QED  BY <1>3, <2>1, <2>2, <2>3, <2>4, NotParport, StepIs
<1>4. QED  BY <1>2, <1>3


------------------------------------------------------------------------------
(***************************************************************************)
(* The theorems.                                                           *)
(***************************************************************************)
IInv == /\ Linked /\ Scripted /\ Ending /\ Handled /\ Wired
        /\ Buffered /\ Reading /\ Held_usb /\ Pinned /\ Recognised

LEMMA InitHolds == Init => IInv
<1> SUFFICES ASSUME Init PROVE IInv  OBVIOUS
<1>1. /\ calls = <<>> /\ wire = <<>> /\ got = <<>> /\ script = <<>> /\ state = "init"
      /\ handle = "none" /\ told = FALSE /\ silent = FALSE /\ misuse = FALSE
      /\ \E r \in Requests : kind = r.kind /\ freq = getIO_freq(r.cap, r.freq) /\ opt = r.opt
  BY DEF Init, Open
<1>2. Linked
  <2>1. PICK r \in Requests : kind = r.kind /\ freq = getIO_freq(r.cap, r.freq) /\ opt = r.opt
    BY <1>1
  <2>2. r.kind \in Kinds /\ r.freq \in Nat /\ r.cap \in Nat /\ MaxCalls \in Nat
    BY RequestAssumption
  <2>3. freq \in Nat  BY <2>1, <2>2 DEF getIO_freq
  <2>4. calls \in Seq(Calls[kind]) /\ Here = 0  BY <1>1 DEF Here
  <2>5. 0 <= MaxCalls  BY <2>2
  <2>6. QED  BY <1>1, <2>1, <2>2, <2>3, <2>4, <2>5 DEF Linked, States
<1>3. Scripted
  <2>1. \A S : <<>> \in Seq(S)  OBVIOUS
  <2>2. QED  BY <1>1, <2>1 DEF Scripted
<1>4. Ending /\ Handled /\ Wired  BY <1>1 DEF Ending, Handled, Wired
<1>5. Buffered
  <2>1. bptr = 0 /\ usbuf = <<>> /\ chip = <<>> /\ want = Nothing /\ fifo = <<>>
    BY DEF Init, FtdiInit
  <2>2. 0 < TX_BUF  BY BufferAssumption
  <2>3. Nothing \in [n : Nat \cup {-1}, r : BOOLEAN] /\ Nothing.n <= 65536  BY DEF Nothing
  <2>4. \A S : <<>> \in Seq(S)  OBVIOUS
  <2>5. QED  BY <2>1, <2>2, <2>3, <2>4, HeldEmpty DEF Buffered
<1>6. Reading
  <2>1. tries = 0 /\ have = 0 /\ put = 0 /\ res = "none" /\ err = FALSE
    BY DEF Init, FtdiInit
  <2>2. ~Doing("get")  BY <1>1 DEF Doing
  <2>3. 0 \in 0..(Retries + 1)  BY BufferAssumption
  <2>4. err \in BOOLEAN  BY <2>1
  <2>5. tries \in 0..(Retries + 1) /\ have \in Nat /\ put \in Int
    BY <2>1, <2>3
  <2>6. QED  BY <2>1, <2>2, <2>4, <2>5 DEF Reading
<1>7. Held_usb  BY DEF Init, UsbInit, NoBits, Held_usb
<1>8. Pinned /\ Recognised
  <2>1. tck = 0 /\ tms = 0 /\ acc = <<>> /\ cabletype = "unset" /\ driven = FALSE
    BY DEF Init, BitInit
  <2>2. Pinned
    <3>1. driven \in BOOLEAN  BY <2>1
    <3>2. acc \in Seq(Captured)  BY <2>1
    <3>3. {tck, tms} \subseteq {0, 1} /\ cabletype \in {"unset", "none", "bblst", "pciii"}  BY <2>1
    <3>4. QED  BY <3>1, <3>2, <3>3 DEF Pinned
  <2>3. ~driven /\ cabletype \notin {"none", "bblst", "pciii"}  BY <2>1
  <2>4. Recognised  BY <1>1, <2>3 DEF Recognised
  <2>5. QED  BY <2>2, <2>4
<1>9. QED  BY <1>2, <1>3, <1>4, <1>5, <1>6, <1>7, <1>8 DEF IInv

LEMMA StepHolds == IInv /\ [Next]_vars => IInv'
<1> SUFFICES ASSUME IInv, [Next]_vars PROVE IInv'  OBVIOUS
<1>1. /\ Linked /\ Scripted /\ Ending /\ Handled /\ Wired
      /\ Buffered /\ Reading /\ Held_usb /\ Pinned /\ Recognised
  BY DEF IInv
<1>2. bptr \in Nat  BY <1>1, HereIs, HeldNat DEF Buffered
<1>3. Linked'  BY <1>1, LinkedKept
<1>4. Scripted'  BY <1>1, <1>2, ScriptedKept
<1>5. Ending'  BY <1>1, <1>2, <1>4, EndingKept
<1>6. Handled'  BY <1>1, HandledKept
<1>7. Wired'  BY <1>1, WiredKept
<1>8. Buffered'  BY <1>1, BufferedKept
<1>9. Reading'  BY <1>1, <1>3, <1>4, ReadingKept
<1>10. Held_usb' /\ Pinned' /\ Recognised'  BY <1>1, Held_usbKept, PinnedKept, RecognisedKept
<1>11. QED  BY <1>3, <1>4, <1>5, <1>6, <1>7, <1>8, <1>9, <1>10 DEF IInv

LEMMA Typed == IInv => TypeOK
<1> SUFFICES ASSUME IInv PROVE TypeOK  OBVIOUS
<1>1. Linked /\ Scripted /\ Wired /\ Buffered /\ Reading /\ Pinned  BY DEF IInv
<1>2. /\ kind \in Kinds /\ freq \in Nat /\ state \in States
      /\ handle \in {"none", "open", "closed"} /\ {told, silent, misuse} \subseteq BOOLEAN
      /\ Here <= MaxCalls
  BY <1>1 DEF Linked
<1>3. DOMAIN calls = 1..Here /\ \A k \in DOMAIN calls : calls[k] \in Calls[kind]
  BY <1>1 DEF Linked, Here
<1>4. \A x \in DOMAIN wire : wire[x].call \in DOMAIN calls /\ wire[x].n > 0
  <2>1. \A x \in DOMAIN wire : wire[x] \in Seen(Here)  BY <1>1 DEF Wired
  <2>2. \A r \in Seen(Here) : r.call \in 1..Here /\ r.n \in Nat \ {0}  BY DEF Seen
  <2>3. \A n \in Nat \ {0} : n > 0  OBVIOUS
  <2>4. QED  BY <1>3, <2>1, <2>2, <2>3
<1>5. \A x \in DOMAIN got : got[x].n > 0
  <2>1. \A x \in DOMAIN got : got[x] \in Captured  BY <1>1 DEF Wired
  <2>2. \A r \in Captured : r.n \in Nat \ {0}  BY DEF Captured
  <2>3. \A n \in Nat \ {0} : n > 0  OBVIOUS
  <2>4. QED  BY <2>1, <2>2, <2>3
<1>6. bptr \in Nat /\ want.n \in Nat \cup {-1} /\ want.n <= 65536
  BY <1>1, HereIs, HeldNat DEF Buffered
<1>7. have \in 0..TX_BUF
  <2>1. have \in Nat /\ TX_BUF \in Nat  BY <1>1, BufferAssumption DEF Reading
  <2>2. CASE Doing("get")
    <3>1. script # <<>> /\ Op.do = "get"  BY <2>2 DEF Doing
    <3>2. Op.n \in 0..TX_BUF  BY <1>1, <3>1, OpIs
    <3>3. have <= Op.n  BY <1>1, <2>2 DEF Reading
    <3>4. QED  BY <2>1, <3>2, <3>3
  <2>3. CASE ~Doing("get")
    BY <1>1, <2>1, <2>3 DEF Reading
  <2>4. QED  BY <2>2, <2>3
<1>8. QED  BY <1>1, <1>2, <1>3, <1>4, <1>5, <1>6, <1>7 DEF TypeOK, Reading, Pinned

LEMMA Fitted == IInv => BuffersHold
<1> SUFFICES ASSUME IInv PROVE BuffersHold  OBVIOUS
<1>1. bptr < TX_BUF /\ bptr = Held(usbuf)  BY DEF IInv, Buffered
<1>2. ASSUME kind = "xpc", NEW x \in DOMAIN script, script[x].do = "xfer"
      PROVE  in_len(script[x].bits) <= CPLD_MAX_BYTES
  <2>1. script \in Seq(XpcOps)  BY <1>2 DEF IInv, Scripted
  <2>2. script[x] \in XpcOps  BY <2>1
  <2>3. \A o \in XpcOps : o.do = "xfer" => o.bits \in 0..XpcMost  BY DEF XpcOps
  <2>4. QED  BY <1>2, <2>2, <2>3, TransfersFit
<1>3. QED  BY <1>1, <1>2 DEF BuffersHold

LEMMA Told == IInv /\ [Next]_vars => (~misuse /\ misuse' => told)
BY MisuseStep DEF IInv

(* The variables of every cable keep their types: the lists of runs name   *)
(* calls that were made, no run is empty, the retries of readusb stay      *)
(* within their bound, and no read gets more bytes than fit the buffer     *)
(* (class IOBase and its subclasses).                                      *)
THEOREM CablesTyped == Spec => []TypeOK
<1>1. QED  BY InitHolds, StepHolds, Typed, PTL DEF Spec

(* Neither usbuf of an FTDI cable nor the buffer of an XPC transfer ever   *)
(* overflows, and bptr is what usbuf holds, for every size of the buffers  *)
(* and all calls (mpsse_add_cmd and mpsse_send, ioftdi.cpp:724;            *)
(* xpcu_add_bit_for_ext_transfer, ioxpc.cpp:509).                          *)
THEOREM NoBufferOverflows == Spec => []BuffersHold
<1>1. QED  BY InitHolds, StepHolds, Fitted, PTL DEF Spec

(* Whatever the loops at a parallel port, detectcable takes it for a       *)
(* Byteblaster or a Parallel Cable III where the lines of that cable       *)
(* follow its data, and nowhere else, but for a Byteblaster whose status   *)
(* byte reads 0; and the Byteblaster's outputs are off when ~IOParport     *)
(* gives the port back (ioparport.cpp:148).                                *)
THEOREM CableIsWhatItSeems == Spec => []CableRecognised
<1>1. IInv => CableRecognised
  BY DEF IInv, Recognised, CableRecognised
<1>2. QED  BY <1>1, InitHolds, StepHolds, PTL DEF Spec

(* A cable uses its device without an open handle only after the user was  *)
(* told of a failure, through every chain of readusb, deinit and           *)
(* exceptions (ioftdi.cpp:644 and the destructors of all cables).          *)
THEOREM MisuseIsExplained == Spec => MisuseExplained
<1>1. IInv /\ [Next]_vars => [~misuse /\ misuse' => told]_vars
  BY Told
<1>2. QED  BY <1>1, InitHolds, StepHolds, PTL DEF Spec, MisuseExplained
==============================================================================
