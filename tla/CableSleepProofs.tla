--------------------------- MODULE CableSleepProofs ---------------------------
(***************************************************************************)
(* Proof that a sleep of the FTDI cables gives the chain the clocks its    *)
(* time needs, for every list of calls, buffer size, frequency and length. *)
(*                                                                         *)
(* The chip runs behind the host, and tells commands from data only by the *)
(* lengths announced: a sleep is cut short when what was sent before it    *)
(* has left the chip waiting.  So the proof follows an ideal chip through  *)
(* all that is under way: what the chip has received, what usbuf holds,    *)
(* and what the script has still to add.                                   *)
(***************************************************************************)
EXTENDS CableProofs

------------------------------------------------------------------------------
(***************************************************************************)
(* A sequence of steps: h goes through the states between the elements of  *)
(* s, R says from where to where each element may lead.                    *)
(***************************************************************************)
Path(h, s, R) == \A x \in 1..Len(s) : <<h[x - 1], s[x], h[x]>> \in R
Leads(s, a, b, R) == \E h : Path(h, s, R) /\ h[0] = a /\ h[Len(s)] = b

LEMMA LeadsNone ==
  ASSUME NEW a, NEW R
  PROVE  Leads(<<>>, a, a, R)
<1>1. Path([x \in 0..0 |-> a], <<>>, R)  BY DEF Path
<1>2. QED  BY <1>1 DEF Leads

LEMMA LeadsSame ==
  ASSUME NEW a, NEW b, NEW R, Leads(<<>>, a, b, R)
  PROVE  a = b
BY DEF Leads

LEMMA LeadsOne ==
  ASSUME NEW a, NEW b, NEW R, NEW e, <<a, e, b>> \in R
  PROVE  Leads(<<e>>, a, b, R)
<1> DEFINE h == [x \in 0..1 |-> IF x = 0 THEN a ELSE b]
<1>1. h[0] = a /\ h[1] = b /\ Len(<<e>>) = 1 /\ <<e>>[1] = e  OBVIOUS
<1> HIDE DEF h
<1>2. Path(h, <<e>>, R)
  <2>1. ASSUME NEW x \in 1..1 PROVE <<h[x - 1], <<e>>[x], h[x]>> \in R
    <3>1. x = 1 /\ x - 1 = 0  OBVIOUS
    <3>2. QED  BY <3>1, <1>1
  <2>2. QED  BY <2>1, <1>1 DEF Path
<1>3. QED  BY <1>1, <1>2 DEF Leads

LEMMA LeadsConcat ==
  ASSUME NEW S, NEW s \in Seq(S), NEW t \in Seq(S), NEW R, NEW a, NEW b, NEW c,
         Leads(s, a, b, R), Leads(t, b, c, R)
  PROVE  Leads(s \o t, a, c, R)
<1>1. PICK g : Path(g, s, R) /\ g[0] = a /\ g[Len(s)] = b  BY DEF Leads
<1>2. PICK h : Path(h, t, R) /\ h[0] = b /\ h[Len(t)] = c  BY DEF Leads
<1> DEFINE m == Len(s)
           n == Len(t)
           f == [x \in 0..(m + n) |-> IF x <= m THEN g[x] ELSE h[x - m]]
<1>3. /\ m \in Nat /\ n \in Nat /\ Len(s \o t) = m + n
      /\ \A x \in 1..(m + n) : (s \o t)[x] = IF x <= m THEN s[x] ELSE t[x - m]
  BY ConcatProperties
<1>4. /\ \A x \in 0..(m + n) : f[x] = IF x <= m THEN g[x] ELSE h[x - m]
      /\ g[0] = a /\ g[m] = b /\ h[0] = b /\ h[n] = c
      /\ \A x \in 1..m : <<g[x - 1], s[x], g[x]>> \in R
      /\ \A x \in 1..n : <<h[x - 1], t[x], h[x]>> \in R
  BY <1>1, <1>2 DEF Path
<1> DEFINE u == s \o t
<1> HIDE DEF m, n, f, u
<1>5. f[0] = a /\ f[m + n] = c
  <2>1. f[0] = a
    <3>1. 0 \in 0..(m + n) /\ 0 <= m  BY <1>3
    <3>2. QED  BY <3>1, <1>4
  <2>2. CASE n = 0
    <3>1. m + n \in 0..(m + n) /\ m + n = m /\ m + n <= m  BY <1>3, <2>2
    <3>2. QED  BY <2>1, <2>2, <3>1, <1>4
  <2>3. CASE n # 0
    <3>1. m + n \in 0..(m + n) /\ ~(m + n <= m) /\ (m + n) - m = n  BY <1>3, <2>3
    <3>2. QED  BY <2>1, <3>1, <1>4
  <2>4. QED  BY <2>2, <2>3
<1>6. ASSUME NEW x \in 1..(m + n)
      PROVE  <<f[x - 1], u[x], f[x]>> \in R
  <2>1. CASE x <= m
    <3>1. x \in 1..m /\ x - 1 <= m /\ x - 1 \in 0..(m + n) /\ x \in 0..(m + n)  BY <1>3, <2>1
    <3>2. f[x - 1] = g[x - 1] /\ f[x] = g[x] /\ u[x] = s[x]  BY <3>1, <2>1, <1>3, <1>4 DEF u
    <3>3. QED  BY <3>1, <3>2, <1>4
  <2>2. CASE x = m + 1
    <3>1. /\ 1 \in 1..n /\ x - 1 = m /\ x - m = 1 /\ ~(x <= m) /\ 1 - 1 = 0
          /\ m \in 0..(m + n) /\ x \in 0..(m + n) /\ m <= m
      BY <1>3, <2>2
    <3>2. f[x - 1] = h[1 - 1] /\ f[x] = h[1] /\ u[x] = t[1]  BY <3>1, <1>3, <1>4 DEF u
    <3>3. QED  BY <3>1, <3>2, <1>4
  <2>3. CASE x > m + 1
    <3>1. /\ x - m \in 1..n /\ ~(x <= m) /\ ~(x - 1 <= m) /\ (x - 1) - m = (x - m) - 1
          /\ x - 1 \in 0..(m + n) /\ x \in 0..(m + n)
      BY <1>3, <2>3
    <3>2. f[x - 1] = h[(x - m) - 1] /\ f[x] = h[x - m] /\ u[x] = t[x - m]
      BY <3>1, <1>3, <1>4 DEF u
    <3>3. QED  BY <3>1, <3>2, <1>4
  <2>4. QED  BY <2>1, <2>2, <2>3, <1>3
<1>7. Len(u) = m + n  BY <1>3 DEF u
<1>8. Leads(u, a, c, R)  BY <1>5, <1>6, <1>7 DEF Leads, Path
<1>9. QED  BY <1>8 DEF u

LEMMA LeadsAppend ==
  ASSUME NEW S, NEW s \in Seq(S), NEW R, NEW a, NEW b, NEW c, NEW e \in S,
         Leads(s, a, b, R), <<b, e, c>> \in R
  PROVE  Leads(Append(s, e), a, c, R)
<1>1. Append(s, e) = s \o <<e>>  OBVIOUS
<1>2. <<e>> \in Seq(S)  OBVIOUS
<1>3. QED  BY <1>1, <1>2, LeadsOne, LeadsConcat

LEMMA LeadsTail ==
  ASSUME NEW S, NEW s \in Seq(S), s # <<>>, NEW R, NEW a, NEW b, Leads(s, a, b, R)
  PROVE  \E c : <<a, Head(s), c>> \in R /\ Leads(Tail(s), c, b, R)
<1>1. PICK h : Path(h, s, R) /\ h[0] = a /\ h[Len(s)] = b  BY DEF Leads
<1> DEFINE n == Len(s)
           t == Tail(s)
           g == [x \in 0..(n - 1) |-> h[x + 1]]
<1>2. /\ n \in Nat \ {0} /\ Len(t) = n - 1 /\ Head(s) = s[1]
      /\ \A x \in 1..(n - 1) : t[x] = s[x + 1]
  BY TailIn
<1>3. \A x \in 0..(n - 1) : g[x] = h[x + 1]  OBVIOUS
<1>4. \A x \in 1..n : <<h[x - 1], s[x], h[x]>> \in R  BY <1>1 DEF Path
<1> HIDE DEF n, t, g
<1>5. <<a, Head(s), h[1]>> \in R
  <2>1. 1 \in 1..n /\ 1 - 1 = 0  BY <1>2
  <2>2. QED  BY <2>1, <1>1, <1>2, <1>4
<1>6. ASSUME NEW x \in 1..(n - 1)
      PROVE  <<g[x - 1], t[x], g[x]>> \in R
  <2>1. x + 1 \in 1..n /\ x - 1 \in 0..(n - 1) /\ x \in 0..(n - 1) /\ (x - 1) + 1 = x
        /\ (x + 1) - 1 = x
    BY <1>2
  <2>2. g[x - 1] = h[(x + 1) - 1] /\ g[x] = h[x + 1]
    <3>1. g[x - 1] = h[(x - 1) + 1]  BY <2>1, <1>3
    <3>2. QED  BY <3>1, <2>1, <1>3
  <2>3. QED  BY <2>1, <2>2, <1>2, <1>4
<1>7. g[0] = h[1] /\ g[n - 1] = b
  <2>1. 0 \in 0..(n - 1) /\ n - 1 \in 0..(n - 1) /\ 0 + 1 = 1 /\ (n - 1) + 1 = n  BY <1>2
  <2>2. g[0] = h[0 + 1] /\ g[n - 1] = h[(n - 1) + 1]  BY <2>1, <1>3
  <2>3. h[n] = b  BY <1>1 DEF n
  <2>4. QED  BY <2>1, <2>2, <2>3
<1>8. Leads(t, h[1], b, R)  BY <1>2, <1>6, <1>7 DEF Leads, Path
<1>9. QED  BY <1>5, <1>8 DEF t

(* The steps of s are steps of another relation too, between the states f  *)
(* makes of those of the first.                                            *)
LEMMA LeadsMapped ==
  ASSUME NEW S, NEW s \in Seq(S), NEW R, NEW Q, NEW V, NEW f, NEW a \in V, NEW b,
         Leads(s, a, b, R),
         \A x \in 1..Len(s) : \A u \in V : \A v :
           <<u, s[x], v>> \in R => v \in V /\ <<f[u], s[x], f[v]>> \in Q
  PROVE  b \in V /\ Leads(s, f[a], f[b], Q)
<1>1. PICK h : Path(h, s, R) /\ h[0] = a /\ h[Len(s)] = b  BY DEF Leads
<1> DEFINE n == Len(s)
           g == [x \in 0..n |-> f[h[x]]]
           T == {x \in 0..n : h[x] \in V}
<1>2. n \in Nat  OBVIOUS
<1>3. \A x \in 0..n : h[x] \in V
  <2>1. 0 \in T  BY <1>1, <1>2
  <2>2. ASSUME NEW x \in 1..n, x - 1 \in T PROVE x \in T
    <3>1. h[x - 1] \in V /\ x \in 0..n  BY <2>2, <1>2
    <3>2. <<h[x - 1], s[x], h[x]>> \in R  BY <1>1 DEF Path
    <3>3. h[x] \in V  BY <3>1, <3>2
    <3>4. QED  BY <3>1, <3>3
  <2> HIDE DEF T
  <2>3. \A x \in 0..n : x \in T  BY <1>2, <2>1, <2>2, CountUp
  <2>4. QED  BY <2>3 DEF T
<1>4. \A x \in 0..n : g[x] = f[h[x]]  OBVIOUS
<1> HIDE DEF g
<1>5. ASSUME NEW x \in 1..n
      PROVE  <<g[x - 1], s[x], g[x]>> \in Q
  <2>1. x - 1 \in 0..n /\ x \in 0..n  BY <1>2
  <2>2. <<h[x - 1], s[x], h[x]>> \in R /\ h[x - 1] \in V  BY <2>1, <1>1, <1>3 DEF Path
  <2>3. QED  BY <2>1, <2>2, <1>4
<1>6. 0 \in 0..n /\ n \in 0..n  BY <1>2
<1>7. g[0] = f[a] /\ g[n] = f[b] /\ b \in V  BY <1>1, <1>3, <1>4, <1>6
<1>8. QED  BY <1>5, <1>7 DEF Leads, Path

(* What holds before the first step, and after each when it does before.   *)
LEMMA PathKeeps ==
  ASSUME NEW S, NEW s \in Seq(S), NEW R, NEW h, Path(h, s, R), NEW V, h[0] \in V,
         \A x \in 1..Len(s) : \A u \in V : \A v : <<u, s[x], v>> \in R => v \in V
  PROVE  \A x \in 0..Len(s) : h[x] \in V
<1> DEFINE n == Len(s)
           T == {x \in 0..n : h[x] \in V}
<1>1. n \in Nat  OBVIOUS
<1>2. 0 \in T  BY <1>1
<1>3. ASSUME NEW x \in 1..n, x - 1 \in T PROVE x \in T
  <2>1. h[x - 1] \in V /\ x \in 0..n  BY <1>3, <1>1
  <2>2. <<h[x - 1], s[x], h[x]>> \in R  BY DEF Path
  <2>3. h[x] \in V  BY <2>1, <2>2
  <2>4. QED  BY <2>1, <2>3
<1> HIDE DEF T
<1>4. \A x \in 0..n : x \in T  BY <1>1, <1>2, <1>3, CountUp
<1>5. QED  BY <1>4 DEF T

------------------------------------------------------------------------------
(***************************************************************************)
(* The clocks of a call on the wire, and the bytes of the answers.         *)
(***************************************************************************)

(* A term is added to a sum, or grows.                                     *)
Added(S, y, w, v, f, g) ==
  /\ IsFiniteSet(S)
  /\ \A x \in S : w[x] \in Nat
  /\ \A x \in S \cup {y} : v[x] \in Nat
  /\ \A x \in S \ {y} : w[x] = v[x]
  /\ Sums(f, S, w) /\ Sums(g, S \cup {y}, v)
AddsUp(S, y, w, v, f, g) ==
  /\ f[S] \in Nat /\ g[S \cup {y}] \in Nat
  /\ y \in S => g[S \cup {y}] + w[y] = f[S] + v[y]
  /\ y \notin S => g[S \cup {y}] = f[S] + v[y]

LEMMA SumGrows ==
  ASSUME NEW S, NEW y, NEW w, NEW v, NEW f, NEW g, Added(S, y, w, v, f, g)
  PROVE  AddsUp(S, y, w, v, f, g)
<1> USE DEF Added
<1> DEFINE P == S \ {y}
           R == S \cup {y}
<1>1. IsFiniteSet(P) /\ IsFiniteSet(R) /\ P \subseteq S /\ P \subseteq R /\ R \ {y} = P
      /\ y \in R /\ (y \notin S => P = S)
  <2>1. IsFiniteSet(R)  BY FS_AddElement
  <2>2. IsFiniteSet(P)  BY FS_Subset
  <2>3. QED  BY <2>1, <2>2
<1>2. Sums(f, P, w)  BY <1>1 DEF Sums
<1>3. SumAlike(f, P, w, g, R, v)  BY <1>1, <1>2 DEF SumAlike
<1>4. f[P] = g[P]
  <2> HIDE DEF P, R
  <2>1. \A s \in SUBSET P : f[s] = g[s]  BY <1>1, <1>3, SumAgrees
  <2>2. QED  BY <2>1
<1>5. \A s \in SUBSET S : f[s] \in Nat /\ \A x \in s : f[s] = f[s \ {x}] + w[x]
  BY SumTerm
<1>6. \A s \in SUBSET R : g[s] \in Nat /\ \A x \in s : g[s] = g[s \ {x}] + v[x]
  <2> HIDE DEF P
  <2>1. \A x \in R : v[x] \in Nat  OBVIOUS
  <2>2. Sums(g, R, v)  OBVIOUS
  <2> HIDE DEF R
  <2>3. QED  BY <1>1, <2>1, <2>2, SumTerm
<1>7. f[S] \in Nat /\ g[R] \in Nat /\ g[P] \in Nat /\ g[R] = g[P] + v[y]
  <2> HIDE DEF P, R
  <2>1. g[R] \in Nat /\ g[R] = g[R \ {y}] + v[y]  BY <1>1, <1>6
  <2>2. f[S] \in Nat /\ g[P] \in Nat  BY <1>1, <1>5, <1>6
  <2>3. QED  BY <1>1, <2>1, <2>2
<1>8. y \in S => f[S] = f[P] + w[y]  BY <1>5
<1>9. y \notin S => f[S] = f[P]  BY <1>1
<1>10. v[y] \in Nat /\ (y \in S => w[y] \in Nat)  OBVIOUS
<1>11. y \in S => g[R] + w[y] = f[S] + v[y]
  <2> SUFFICES ASSUME y \in S PROVE g[R] + w[y] = f[S] + v[y]
    OBVIOUS
  <2> DEFINE p == g[P]
             a == w[y]
             b == v[y]
  <2>1. p \in Nat /\ a \in Nat /\ b \in Nat /\ g[R] = p + b /\ f[S] = p + a
    BY <1>4, <1>7, <1>8, <1>10
  <2> HIDE DEF p, a, b, P, R
  <2>2. (p + b) + a = (p + a) + b  BY <2>1
  <2>3. g[R] + a = f[S] + b  BY <2>1, <2>2
  <2>4. QED  BY <2>3 DEF a, b
<1>12. y \notin S => g[R] = f[S] + v[y]
  BY <1>4, <1>7, <1>9
<1>13. QED  BY <1>7, <1>11, <1>12 DEF AddsUp

Mine(W, k) == {x \in DOMAIN W : W[x].call = k}
ClocksOf(W, k) == FoldFunctionOnSet(LAMBDA r, n : n + r.n, 0, W, Mine(W, k))

LEMMA ClocksIs ==
  ASSUME NEW j \in Nat, NEW W \in Seq(Seen(j)), NEW k
  PROVE  /\ IsFiniteSet(Mine(W, k)) /\ Mine(W, k) \subseteq 1..Len(W)
         /\ \A x \in 1..Len(W) : [y \in 1..Len(W) |-> W[y].n][x] = W[x].n /\ W[x].n \in Nat
         /\ \E f : /\ Sums(f, Mine(W, k), [x \in 1..Len(W) |-> W[x].n])
                   /\ ClocksOf(W, k) = f[Mine(W, k)]
<1> DEFINE S == Mine(W, k)
           w == [x \in 1..Len(W) |-> W[x].n]
           Eq(g) == g = [s \in SUBSET S |->
                           IF s = {} THEN 0 ELSE g[s \ {Some(s)}] + W[Some(s)].n]
<1>0. S \subseteq 1..Len(W)  BY DEF Mine
<1>1. \A x \in 1..Len(W) : w[x] = W[x].n /\ W[x].n \in Nat
  <2>1. \A x \in 1..Len(W) : W[x] \in Seen(j)  OBVIOUS
  <2>2. \A r \in Seen(j) : r.n \in Nat  BY DEF Seen
  <2>3. QED  BY <2>1, <2>2
<1>2. IsFiniteSet(S)
  <2>1. Len(W) \in Nat  OBVIOUS
  <2>2. IsFiniteSet(1..Len(W))  BY <2>1, FS_Interval
  <2> HIDE DEF S
  <2>3. QED  BY <1>0, <2>2, FS_Subset
<1>3. \A s \in SUBSET S : s # {} => Some(s) \in s
  BY DEF Some
<1>4. \E h : Eq(h)
  <2>0. \A x \in S : w[x] \in Nat  BY <1>0, <1>1
  <2>1. PICK g \in [SUBSET S -> Nat] : Sums(g, S, w)
    <3> HIDE DEF S, w
    <3> QED  BY <1>2, <2>0, SumExists
  <2>2. g = [s \in SUBSET S |-> g[s]]  OBVIOUS
  <2>3. \A s \in SUBSET S : g[s] = IF s = {} THEN 0 ELSE g[s \ {Some(s)}] + W[Some(s)].n
    <3> HIDE DEF S, w
    <3>1. \A s \in SUBSET S : s # {} => w[Some(s)] = W[Some(s)].n  BY <1>0, <1>1, <1>3
    <3>2. QED  BY <2>1, <3>1 DEF Sums
  <2>4. Eq(g)
    <3> HIDE DEF S, w
    <3> QED  BY <2>2, <2>3
  <2>5. QED  BY <2>4
<1>5. Eq(CHOOSE h : Eq(h))
  BY <1>4
<1> DEFINE f == CHOOSE h : Eq(h)
<1>6. ClocksOf(W, k) = f[S]
  BY DEF ClocksOf, FoldFunctionOnSet, MapThenFoldSet, Some
<1>7. Sums(f, S, w)
  <2> HIDE DEF f
  <2>1. Eq(f)  BY <1>5 DEF f
  <2> HIDE DEF S, w
  <2>2. \A s \in SUBSET S : s # {} => w[Some(s)] = W[Some(s)].n  BY <1>0, <1>1, <1>3
  <2>3. \A s \in SUBSET S : f[s] = IF s = {} THEN 0 ELSE f[s \ {Some(s)}] + W[Some(s)].n
    BY <2>1
  <2>4. QED  BY <2>2, <2>3 DEF Sums
<1> HIDE DEF f
<1>8. QED  BY <1>0, <1>1, <1>2, <1>6, <1>7

LEMMA ClocksNat ==
  ASSUME NEW j \in Nat, NEW W \in Seq(Seen(j)), NEW k
  PROVE  ClocksOf(W, k) \in Nat
<1> DEFINE S == Mine(W, k)
           w == [x \in 1..Len(W) |-> W[x].n]
<1>1. /\ IsFiniteSet(S) /\ S \subseteq 1..Len(W)
      /\ \A x \in 1..Len(W) : w[x] = W[x].n /\ W[x].n \in Nat
      /\ \E f : Sums(f, S, w) /\ ClocksOf(W, k) = f[S]
  BY ClocksIs
<1>2. PICK f : Sums(f, S, w) /\ ClocksOf(W, k) = f[S]  BY <1>1
<1>3. \A x \in S : w[x] \in Nat  BY <1>1
<1> HIDE DEF S, w
<1>4. f[S] \in Nat  BY <1>1, <1>2, <1>3, SumTerm
<1>5. QED  BY <1>2, <1>4

(* The same runs of the call, but for one that is new or longer.           *)
LEMMA ClocksGrow ==
  ASSUME NEW j \in Nat, NEW W \in Seq(Seen(j)), NEW Z \in Seq(Seen(j)), NEW k, NEW y, NEW n \in Nat,
         y \in 1..Len(Z), Mine(Z, k) = Mine(W, k) \cup {y},
         \A x \in Mine(W, k) \ {y} : Z[x].n = W[x].n,
         Z[y].n = n + (IF y \in Mine(W, k) THEN W[y].n ELSE 0)
  PROVE  ClocksOf(Z, k) = ClocksOf(W, k) + n
<1> DEFINE S == Mine(W, k)
           R == Mine(Z, k)
           w == [x \in 1..Len(W) |-> W[x].n]
           v == [x \in 1..Len(Z) |-> Z[x].n]
<1>1. /\ IsFiniteSet(S) /\ S \subseteq 1..Len(W)
      /\ \A x \in 1..Len(W) : w[x] = W[x].n /\ W[x].n \in Nat
      /\ \E f : Sums(f, S, w) /\ ClocksOf(W, k) = f[S]
  BY ClocksIs
<1>2. /\ R \subseteq 1..Len(Z)
      /\ \A x \in 1..Len(Z) : v[x] = Z[x].n /\ Z[x].n \in Nat
      /\ \E f : Sums(f, R, v) /\ ClocksOf(Z, k) = f[R]
  BY ClocksIs
<1>3. PICK f : Sums(f, S, w) /\ ClocksOf(W, k) = f[S]  BY <1>1
<1>4. PICK g : Sums(g, R, v) /\ ClocksOf(Z, k) = g[R]  BY <1>2
<1>5. /\ R = S \cup {y} /\ y \in 1..Len(Z) /\ \A x \in S \ {y} : Z[x].n = W[x].n
      /\ Z[y].n = n + (IF y \in S THEN W[y].n ELSE 0)
  OBVIOUS
<1> HIDE DEF S, R, w, v
<1>6. /\ \A x \in S : w[x] \in Nat
      /\ \A x \in S \cup {y} : v[x] \in Nat
      /\ \A x \in S \ {y} : w[x] = v[x]
  <2>1. \A x \in S : w[x] \in Nat  BY <1>1
  <2>2. \A x \in S \cup {y} : v[x] \in Nat  BY <1>2, <1>5
  <2>3. \A x \in S \ {y} : w[x] = v[x]
    <3> SUFFICES ASSUME NEW x \in S \ {y} PROVE w[x] = v[x]
      OBVIOUS
    <3>1. x \in 1..Len(W) /\ x \in 1..Len(Z)  BY <1>1, <1>2, <1>5
    <3>2. QED  BY <3>1, <1>1, <1>2, <1>5
  <2>4. QED  BY <2>1, <2>2, <2>3
<1>7. /\ f[S] \in Nat /\ g[R] \in Nat
      /\ y \in S => g[R] + w[y] = f[S] + v[y]
      /\ y \notin S => g[R] = f[S] + v[y]
  <2>1. Sums(g, S \cup {y}, v)  BY <1>4, <1>5
  <2>2. Added(S, y, w, v, f, g)
    BY <1>1, <1>3, <1>6, <2>1 DEF Added
  <2>3. /\ f[S] \in Nat /\ g[S \cup {y}] \in Nat
        /\ y \in S => g[S \cup {y}] + w[y] = f[S] + v[y]
        /\ y \notin S => g[S \cup {y}] = f[S] + v[y]
    <3>1. AddsUp(S, y, w, v, f, g)  BY <2>2, SumGrows
    <3>2. QED  BY <3>1 DEF AddsUp
  <2>4. QED  BY <1>5, <2>3
<1>8. g[R] = f[S] + n
  <2>1. CASE y \in S
    <3>1. w[y] \in Nat /\ v[y] = n + w[y]  BY <2>1, <1>1, <1>2, <1>5, <1>6
    <3>2. g[R] + w[y] = f[S] + v[y]  BY <2>1, <1>7
    <3> DEFINE a == w[y]
               b == v[y]
               p == f[S]
               q == g[R]
    <3>3. a \in Nat /\ b = n + a /\ q + a = p + b /\ p \in Nat /\ q \in Nat  BY <3>1, <3>2, <1>7
    <3> HIDE DEF a, b, p, q
    <3>4. q = p + n  BY <3>3
    <3>5. QED  BY <3>4 DEF p, q
  <2>2. CASE y \notin S
    <3>1. v[y] = n + 0  BY <2>2, <1>2, <1>5
    <3>2. QED  BY <3>1, <2>2, <1>7
  <2>3. QED  BY <2>1, <2>2
<1>9. QED  BY <1>3, <1>4, <1>8

LEMMA ClocksStay ==
  ASSUME NEW j \in Nat, NEW W \in Seq(Seen(j)), NEW Z \in Seq(Seen(j)), NEW k,
         Mine(Z, k) = Mine(W, k), \A x \in Mine(W, k) : Z[x].n = W[x].n
  PROVE  ClocksOf(Z, k) = ClocksOf(W, k)
<1> DEFINE S == Mine(W, k)
           w == [x \in 1..Len(W) |-> W[x].n]
           v == [x \in 1..Len(Z) |-> Z[x].n]
<1>1. /\ IsFiniteSet(S) /\ S \subseteq 1..Len(W)
      /\ \A x \in 1..Len(W) : w[x] = W[x].n
      /\ \E f : Sums(f, S, w) /\ ClocksOf(W, k) = f[S]
  BY ClocksIs
<1>2. /\ S \subseteq 1..Len(Z)
      /\ \A x \in 1..Len(Z) : v[x] = Z[x].n
      /\ \E f : Sums(f, S, v) /\ ClocksOf(Z, k) = f[S]
  <2>1. /\ Mine(Z, k) \subseteq 1..Len(Z)
        /\ \A x \in 1..Len(Z) : v[x] = Z[x].n
        /\ \E f : Sums(f, Mine(Z, k), v) /\ ClocksOf(Z, k) = f[Mine(Z, k)]
    BY ClocksIs
  <2>2. S = Mine(Z, k)  OBVIOUS
  <2> HIDE DEF S, v
  <2>3. QED  BY <2>1, <2>2
<1>3. PICK f : Sums(f, S, w) /\ ClocksOf(W, k) = f[S]  BY <1>1
<1>4. PICK g : Sums(g, S, v) /\ ClocksOf(Z, k) = g[S]  BY <1>2
<1>5. \A x \in S : Z[x].n = W[x].n  OBVIOUS
<1> HIDE DEF S, w, v
<1>6. SumAlike(f, S, w, g, S, v)  BY <1>1, <1>2, <1>3, <1>4, <1>5 DEF SumAlike
<1>7. \A s \in SUBSET S : f[s] = g[s]  BY <1>1, <1>6, SumAgrees
<1>8. QED  BY <1>3, <1>4, <1>7

LEMMA LastReplaced ==
  ASSUME NEW S, NEW s \in Seq(S), NEW x \in 1..Len(s), NEW e
  PROVE  LET z == [s EXCEPT ![x] = e]
         IN  /\ Len(z) = Len(s) /\ DOMAIN z = 1..Len(s) /\ z[x] = e
             /\ \A y \in 1..Len(s) : y # x => z[y] = s[y]
OBVIOUS

LEMMA ClocksJoin ==
  ASSUME NEW j \in Nat, NEW W \in Seq(Seen(j)),
         NEW r \in [call : 1..j, kind : RunKinds, from : Int, n : Nat]
  PROVE  /\ \A k : ClocksOf(Join(W, r), k) = ClocksOf(W, k) + (IF k = r.call THEN r.n ELSE 0)
         /\ \A x \in 1..Len(Join(W, r)) :
              Join(W, r)[x].call = r.call \/ \E y \in 1..Len(W) : Join(W, r)[x].call = W[y].call
<1> DEFINE Z == Join(W, r)
           L == Len(W)
<1>1. Z \in Seq(Seen(j)) /\ r.n \in Nat /\ L \in Nat /\ DOMAIN W = 1..L  BY JoinIn
<1>2. \A k : ClocksOf(W, k) \in Nat  BY ClocksNat
<1>3. CASE r.n = 0
  <2>1. Z = W  BY <1>3 DEF Join
  <2> HIDE DEF Z
  <2>2. QED  BY <2>1, <1>2, <1>3 DEF Z
<1>4. CASE r.n # 0 /\ W # <<>> /\ Continues(W[L], r)
  <2>1. Z = [W EXCEPT ![L].n = @ + r.n]  BY <1>4 DEF Join
  <2>2. L \in 1..L /\ W[L] \in Seen(j) /\ W[L].call = r.call  BY <1>4 DEF Continues
  <2>3. /\ Len(Z) = L /\ DOMAIN Z = 1..L /\ \A x \in 1..L : x # L => Z[x] = W[x]
        /\ Z[L] = [W[L] EXCEPT !.n = @ + r.n]
    <3> DEFINE e == [W[L] EXCEPT !.n = @ + r.n]
    <3>1. Z = [W EXCEPT ![L] = e]  BY <2>1
    <3> HIDE DEF e
    <3>2. LET z == [W EXCEPT ![L] = e]
          IN  /\ Len(z) = L /\ DOMAIN z = 1..L /\ z[L] = e
              /\ \A y \in 1..L : y # L => z[y] = W[y]
      BY <2>2, LastReplaced
    <3> HIDE DEF Z, L
    <3>3. QED  BY <3>1, <3>2 DEF e
  <2>4. Z[L].n = W[L].n + r.n /\ Z[L].call = r.call /\ W[L].n \in Nat
    BY <2>2, <2>3 DEF Seen
  <2> HIDE DEF Z, L
  <2>5. \A k : Mine(Z, k) = Mine(W, k)
    <3>1. \A x \in 1..L : Z[x].call = W[x].call  BY <2>2, <2>3, <2>4
    <3>2. QED  BY <3>1, <2>3, <1>1 DEF Mine
  <2>6. ASSUME NEW k
        PROVE  ClocksOf(Z, k) = ClocksOf(W, k) + (IF k = r.call THEN r.n ELSE 0)
    <3>1. CASE k = r.call
      <4>1. L \in Mine(W, k)  BY <3>1, <2>2, <1>1 DEF Mine
      <4>2. Mine(Z, k) = Mine(W, k) \cup {L} /\ L \in 1..Len(Z)  BY <4>1, <2>2, <2>3, <2>5
      <4>3. \A x \in Mine(W, k) \ {L} : Z[x].n = W[x].n
        BY <2>3, <1>1 DEF Mine
      <4>4. Z[L].n = r.n + (IF L \in Mine(W, k) THEN W[L].n ELSE 0)  BY <4>1, <2>4, <1>1
      <4>5. ClocksOf(Z, k) = ClocksOf(W, k) + r.n
        <5> DEFINE m == r.n
        <5>1. /\ m \in Nat /\ Z[L].n = m + (IF L \in Mine(W, k) THEN W[L].n ELSE 0)
              /\ Z \in Seq(Seen(j)) /\ W \in Seq(Seen(j))
          BY <4>4, <1>1
        <5> HIDE DEF m
        <5>2. ClocksOf(Z, k) = ClocksOf(W, k) + m
          BY ONLY <4>2, <4>3, <5>1, j \in Nat, ClocksGrow
        <5>3. QED  BY <5>2 DEF m
      <4>6. QED  BY <4>5, <3>1
    <3>2. CASE k # r.call
      <4>1. \A x \in Mine(W, k) : Z[x].n = W[x].n
        <5>1. \A x \in Mine(W, k) : x \in 1..L /\ x # L  BY <3>2, <2>2, <1>1 DEF Mine
        <5>2. QED  BY <5>1, <2>3
      <4>2. ClocksOf(Z, k) = ClocksOf(W, k)  BY <4>1, <2>5, <1>1, ClocksStay, SMTT(30)
      <4>3. QED  BY <4>2, <3>2, <1>2
    <3>3. QED  BY <3>1, <3>2
  <2>7. ASSUME NEW x \in 1..Len(Z)
        PROVE  Z[x].call = r.call \/ \E y \in 1..L : Z[x].call = W[y].call
    BY <2>3, <2>4
  <2>8. QED  BY <2>6, <2>7 DEF Z, L
<1>5. CASE r.n # 0 /\ ~(W # <<>> /\ Continues(W[L], r))
  <2>1. Z = Append(W, r)  BY <1>5 DEF Join
  <2>2. r \in Seen(j)  BY <1>5 DEF Seen
  <2>3. /\ Len(Z) = L + 1 /\ DOMAIN Z = 1..(L + 1) /\ \A x \in 1..L : Z[x] = W[x]
        /\ Z[L + 1] = r
    <3>1. /\ Append(W, r) \in Seq(Seen(j)) /\ Len(Append(W, r)) = L + 1
          /\ Append(W, r)[L + 1] = r /\ \A x \in 1..L : Append(W, r)[x] = W[x]
      BY <2>2, AppendIn
    <3>2. DOMAIN Append(W, r) = 1..(L + 1)  BY <3>1
    <3> HIDE DEF Z, L
    <3>3. QED  BY <2>1, <3>1, <3>2
  <2> HIDE DEF Z, L
  <2>4. L + 1 \in 1..(L + 1) /\ L + 1 \notin 1..L /\ \A x \in 1..(L + 1) : x = L + 1 \/ x \in 1..L
    BY <1>1
  <2>5. ASSUME NEW k
        PROVE  ClocksOf(Z, k) = ClocksOf(W, k) + (IF k = r.call THEN r.n ELSE 0)
    <3>1. L + 1 \notin Mine(W, k)  BY <2>4, <1>1 DEF Mine
    <3>2. CASE k = r.call
      <4>1. Mine(Z, k) = Mine(W, k) \cup {L + 1}
        <5>1. \A x : x \in Mine(Z, k) <=> x \in Mine(W, k) \cup {L + 1}
          <6> SUFFICES ASSUME NEW x PROVE x \in Mine(Z, k) <=> x \in Mine(W, k) \cup {L + 1}
            OBVIOUS
          <6>1. CASE x = L + 1  BY <6>1, <3>2, <2>3, <2>4 DEF Mine
          <6>2. CASE x # L + 1
            <7>1. x \in 1..(L + 1) <=> x \in 1..L  BY <6>2, <1>1
            <7>2. QED  BY <7>1, <6>2, <2>3, <1>1 DEF Mine
          <6>3. QED  BY <6>1, <6>2
        <5>2. QED  BY <5>1
      <4>2. \A x \in Mine(W, k) \ {L + 1} : Z[x].n = W[x].n
        BY <2>3, <1>1 DEF Mine
      <4>3. Z[L + 1].n = r.n + (IF L + 1 \in Mine(W, k) THEN W[L + 1].n ELSE 0)
        BY <3>1, <2>3, <1>1
      <4>4. L + 1 \in 1..Len(Z)  BY <2>3, <2>4
      <4>5. ClocksOf(Z, k) = ClocksOf(W, k) + r.n
        <5> DEFINE y == L + 1
                   m == r.n
        <5>1. /\ y \in 1..Len(Z) /\ Mine(Z, k) = Mine(W, k) \cup {y}
              /\ \A x \in Mine(W, k) \ {y} : Z[x].n = W[x].n
              /\ Z[y].n = m + (IF y \in Mine(W, k) THEN W[y].n ELSE 0)
              /\ m \in Nat /\ Z \in Seq(Seen(j)) /\ W \in Seq(Seen(j))
          BY <4>1, <4>2, <4>3, <4>4, <1>1
        <5> HIDE DEF y, m
        <5>2. ClocksOf(Z, k) = ClocksOf(W, k) + m
          BY ONLY <5>1, j \in Nat, ClocksGrow, SMTT(30)
        <5>3. QED  BY <5>2 DEF m
      <4>6. QED  BY <4>5, <3>2
    <3>3. CASE k # r.call
      <4>1. Mine(Z, k) = Mine(W, k)
        <5>1. \A x : x \in Mine(Z, k) <=> x \in Mine(W, k)
          <6> SUFFICES ASSUME NEW x PROVE x \in Mine(Z, k) <=> x \in Mine(W, k)
            OBVIOUS
          <6>1. CASE x = L + 1  BY <6>1, <3>1, <3>3, <2>3 DEF Mine
          <6>2. CASE x # L + 1
            <7>1. x \in 1..(L + 1) <=> x \in 1..L  BY <6>2, <1>1
            <7>2. QED  BY <7>1, <6>2, <2>3, <1>1 DEF Mine
          <6>3. QED  BY <6>1, <6>2
        <5>2. QED  BY <5>1
      <4>2. \A x \in Mine(W, k) : Z[x].n = W[x].n  BY <2>3, <1>1 DEF Mine
      <4>3. ClocksOf(Z, k) = ClocksOf(W, k)  BY <4>1, <4>2, <1>1, ClocksStay
      <4>4. QED  BY <4>3, <3>3, <1>2
    <3>4. QED  BY <3>2, <3>3
  <2>6. ASSUME NEW x \in 1..Len(Z)
        PROVE  Z[x].call = r.call \/ \E y \in 1..L : Z[x].call = W[y].call
    BY <2>3, <2>4
  <2>7. QED  BY <2>5, <2>6 DEF Z, L
<1>6. QED  BY <1>3, <1>4, <1>5

(* The bytes of a list of answers, counted from its start.                 *)
BytesOf(fs) == FoldLeft(LAMBDA n, a : n + a.bytes, 0, fs)
Counted(h, fs) ==
  /\ h \in [0..Len(fs) -> Nat] /\ h[0] = 0 /\ h[Len(fs)] = BytesOf(fs)
  /\ \A k \in 1..Len(fs) : h[k] = h[k - 1] + fs[k].bytes

LEMMA BytesAre ==
  ASSUME NEW fs \in Seq(Answers)
  PROVE  \E h : Counted(h, fs)
<1> DEFINE n == Len(fs)
           V == Nat
           F == [k \in 1..n |-> [v \in V |-> v + fs[k].bytes]]
           Eq(g) == g = [s \in SUBSET (1..n) |->
                           IF s = {} THEN 0 ELSE g[s \ {Max(s)}] + fs[Max(s)].bytes]
<1>1. n \in Nat /\ 0 \in V /\ DOMAIN fs = 1..n
  OBVIOUS
<1>2. \A k \in 1..n : \A v \in V : F[k][v] = v + fs[k].bytes /\ F[k][v] \in V
  <2>1. \A k \in 1..n : fs[k].bytes \in Nat  BY DEF Answers
  <2>2. QED  BY <2>1
<1>3. PICK g \in [SUBSET (1..n) -> V] : IsFold(g, n, 0, F)
  <2> HIDE DEF n, V, F
  <2> QED  BY <1>1, <1>2, FoldExists
<1>4. Eq(g)
  <2>1. ASSUME NEW s \in SUBSET (1..n)
        PROVE  g[s] = IF s = {} THEN 0 ELSE g[s \ {Max(s)}] + fs[Max(s)].bytes
    <3>1. s # {} => Max(s) \in 1..n /\ g[s \ {Max(s)}] \in V  BY <1>1, MaxPicks
    <3> HIDE DEF V, F
    <3>2. QED  BY <3>1, <1>2, <1>3 DEF IsFold
  <2>2. g = [s \in SUBSET (1..n) |-> g[s]]  OBVIOUS
  <2>3. QED  BY <2>1, <2>2
<1>5. Eq(CHOOSE h : Eq(h))
  BY <1>4
<1> DEFINE f == CHOOSE h : Eq(h)
<1>6. BytesOf(fs) = f[1..n]
  BY <1>1 DEF BytesOf, FoldLeft, MapThenFoldSet
<1>7. Follows(f, n, V, 0, F)
  <2> HIDE DEF f
  <2>1. Eq(f)  BY <1>5 DEF f
  <2>2. \A s \in SUBSET (1..n) : s # {} => Max(s) \in 1..n  BY <1>1, MaxPicks
  <2> HIDE DEF V, F
  <2>3. QED  BY <2>1, <2>2, <1>2 DEF Follows
<1>8. PICK h : History(h, n, V, 0, F, f[1..n])
  <2> HIDE DEF f, n, V, F
  <2> QED  BY <1>1, <1>2, <1>7, FoldHistory
<1>9. Counted(h, fs)
  <2> HIDE DEF f
  <2>1. h \in [0..n -> V] /\ h[0] = 0 /\ h[n] = BytesOf(fs)
    BY <1>6, <1>8 DEF History
  <2>2. \A k \in 1..n : h[k] = h[k - 1] + fs[k].bytes
    <3> HIDE DEF F
    <3>1. \A k \in 1..n : h[k] = F[k][h[k - 1]] /\ h[k - 1] \in V
      BY <1>1, <1>8 DEF History
    <3>2. QED  BY <3>1, <1>2
  <2>3. QED  BY <2>1, <2>2 DEF Counted
<1>10. QED  BY <1>9

LEMMA BytesNone == BytesOf(<<>>) = 0
<1>1. <<>> \in Seq(Answers) /\ Len(<<>>) = 0  OBVIOUS
<1>2. PICK h : Counted(h, <<>>)  BY <1>1, BytesAre
<1>3. QED  BY <1>1, <1>2 DEF Counted

LEMMA BytesAppend ==
  ASSUME NEW fs \in Seq(Answers), NEW a \in Answers
  PROVE  BytesOf(Append(fs, a)) = BytesOf(fs) + a.bytes /\ BytesOf(fs) \in Nat
<1> DEFINE n == Len(fs)
           gs == Append(fs, a)
<1>1. /\ gs \in Seq(Answers) /\ Len(gs) = n + 1 /\ gs[n + 1] = a
      /\ \A x \in 1..n : gs[x] = fs[x]
  BY AppendIn
<1>2. n \in Nat  OBVIOUS
<1> HIDE DEF gs
<1>3. PICK g : Counted(g, fs)  BY BytesAre
<1>4. PICK h : Counted(h, gs)  BY <1>1, BytesAre
<1> HIDE DEF n
<1>5. /\ g \in [0..n -> Nat] /\ g[0] = 0 /\ g[n] = BytesOf(fs)
      /\ \A k \in 1..n : g[k] = g[k - 1] + fs[k].bytes
  BY <1>3 DEF Counted, n
<1>6. /\ h \in [0..(n + 1) -> Nat] /\ h[0] = 0 /\ h[n + 1] = BytesOf(gs)
      /\ \A k \in 1..(n + 1) : h[k] = h[k - 1] + gs[k].bytes
  BY <1>1, <1>4 DEF Counted
<1> DEFINE T == {k \in 0..n : h[k] = g[k]}
<1>7. 0 \in T  BY <1>2, <1>5, <1>6
<1>8. ASSUME NEW k \in 1..n, k - 1 \in T PROVE k \in T
  <2>1. k \in 1..(n + 1) /\ k \in 0..n  BY <1>2
  <2>2. h[k] = h[k - 1] + gs[k].bytes /\ g[k] = g[k - 1] + fs[k].bytes /\ gs[k] = fs[k]
    BY <2>1, <1>1, <1>5, <1>6
  <2>3. h[k - 1] = g[k - 1]  BY <1>8
  <2>4. QED  BY <2>1, <2>2, <2>3
<1>9. h[n] = g[n]
  <2> HIDE DEF T
  <2>1. \A k \in 0..n : k \in T  BY <1>2, <1>7, <1>8, CountUp
  <2>2. n \in 0..n  BY <1>2
  <2>3. QED  BY <2>1, <2>2 DEF T
<1>10. h[n + 1] = h[n] + a.bytes
  <2>1. n + 1 \in 1..(n + 1) /\ (n + 1) - 1 = n  BY <1>2
  <2>2. QED  BY <2>1, <1>1, <1>6
<1>11. g[n] \in Nat
  <2>1. n \in 0..n  BY <1>2
  <2>2. QED  BY <2>1, <1>5
<1>12. QED  BY <1>5, <1>6, <1>9, <1>10, <1>11 DEF gs

(* TakeBytes takes as many bytes as it is asked for, where there are.      *)
LEMMA BytesTaken ==
  ASSUME NEW m \in Nat, fifo \in Seq(Answers), got \in Seq(Captured), Op.at + put \in Int,
         m <= Available
  PROVE  BytesOf(TakeBytes(m).rest) = Available - m /\ Available \in Nat
<1> DEFINE n == Len(fifo)
           V == Took
           base == [m |-> m, at |-> Op.at + put, got |-> got, rest |-> <<>>]
           F == [k \in 1..n |-> [v \in V |-> TakeOne(v, fifo[k])]]
           Eq(g) == g = [s \in SUBSET (1..n) |->
                           IF s = {} THEN base ELSE TakeOne(g[s \ {Max(s)}], fifo[Max(s)])]
<1>1. n \in Nat /\ base \in V /\ DOMAIN fifo = 1..n
  BY DEF Took
<1>2. \A k \in 1..n : \A v \in V : F[k][v] = TakeOne(v, fifo[k]) /\ F[k][v] \in V
  BY TakeOneIn
<1>3. PICK g \in [SUBSET (1..n) -> V] : IsFold(g, n, base, F)
  <2> HIDE DEF n, V, F, base
  <2> QED  BY <1>1, <1>2, FoldExists
<1>4. Eq(g)
  <2>1. ASSUME NEW s \in SUBSET (1..n)
        PROVE  g[s] = IF s = {} THEN base ELSE TakeOne(g[s \ {Max(s)}], fifo[Max(s)])
    <3>1. s # {} => Max(s) \in 1..n /\ g[s \ {Max(s)}] \in V  BY <1>1, MaxPicks
    <3> HIDE DEF V, F, base
    <3>2. QED  BY <3>1, <1>2, <1>3 DEF IsFold
  <2>2. g = [s \in SUBSET (1..n) |-> g[s]]  OBVIOUS
  <2> HIDE DEF base
  <2>3. QED  BY <2>1, <2>2
<1>5. Eq(CHOOSE h : Eq(h))
  <2> HIDE DEF base
  <2> QED  BY <1>4
<1> DEFINE f == CHOOSE h : Eq(h)
<1>6. TakeBytes(m) = f[1..n]
  BY <1>1 DEF TakeBytes, FoldLeft, MapThenFoldSet, TakeOne
<1>7. Follows(f, n, V, base, F)
  <2> HIDE DEF f
  <2>1. Eq(f)  BY <1>5 DEF f
  <2>2. \A s \in SUBSET (1..n) : s # {} => Max(s) \in 1..n  BY <1>1, MaxPicks
  <2> HIDE DEF V, F, base
  <2>3. QED  BY <2>1, <2>2, <1>2 DEF Follows
<1>8. PICK t : History(t, n, V, base, F, f[1..n])
  <2> HIDE DEF f, n, V, F, base
  <2> QED  BY <1>1, <1>2, <1>7, FoldHistory
<1>9. /\ \A k \in 0..n : t[k] \in Took
      /\ t[0] = base /\ t[n] = TakeBytes(m)
      /\ \A k \in 1..n : t[k] = TakeOne(t[k - 1], fifo[k])
  <2> HIDE DEF f
  <2>1. /\ t \in [0..n -> V] /\ t[0] = base /\ t[n] = TakeBytes(m)
        /\ \A k \in 1..n : t[k] = F[k][t[k - 1]]
    BY <1>6, <1>8 DEF History
  <2> HIDE DEF F, base
  <2>2. \A k \in 1..n : t[k - 1] \in V  BY <2>1, <1>1
  <2>3. QED  BY <2>1, <2>2, <1>2
<1>10. PICK b : Counted(b, fifo)  BY BytesAre
<1>11. /\ b \in [0..n -> Nat] /\ b[0] = 0 /\ b[n] = Available
       /\ \A k \in 1..n : b[k] = b[k - 1] + fifo[k].bytes
  BY <1>10 DEF Counted, BytesOf, Available
<1>12. base.m = m /\ base.rest = <<>>  OBVIOUS
<1> HIDE DEF f, V, F, base, n
<1> DEFINE T == {k \in 0..n : /\ BytesOf(t[k].rest) + m = b[k] + t[k].m
                              /\ t[k].m > 0 => BytesOf(t[k].rest) = 0}
<1>13. 0 \in T  BY <1>1, <1>9, <1>11, <1>12, BytesNone
<1>14. ASSUME NEW k \in 1..n, k - 1 \in T
       PROVE  k \in T
  <2> DEFINE o == t[k - 1]
             a == fifo[k]
             c == IF a.bytes <= o.m THEN a.bytes ELSE o.m
             bits == IF c = a.bytes THEN a.bits ELSE 8 * c
             left == [a EXCEPT !.from = @ + bits, !.bits = @ - bits, !.bytes = @ - c]
  <2>1. k - 1 \in 0..n /\ k \in 0..n  BY <1>1
  <2>2. o \in Took /\ t[k] = TakeOne(o, a) /\ t[k] \in Took  BY <1>9, <2>1
  <2>3. o.m \in Nat /\ o.rest \in Seq(Answers) /\ t[k].m \in Nat /\ t[k].rest \in Seq(Answers)
    BY <2>2 DEF Took
  <2>4. a \in Answers  BY <1>1
  <2>5. a.bytes \in Nat  BY <2>4 DEF Answers
  <2>6. t[k].m = o.m - c /\ t[k].rest = IF c = a.bytes THEN o.rest ELSE Append(o.rest, left)
    BY <2>2 DEF TakeOne
  <2>7. BytesOf(o.rest) + m = b[k - 1] + o.m /\ (o.m > 0 => BytesOf(o.rest) = 0)
    BY <1>14
  <2>8. b[k] = b[k - 1] + a.bytes /\ b[k - 1] \in Nat /\ b[k] \in Nat  BY <1>11, <2>1
  <2> DEFINE x == BytesOf(o.rest)
             z == BytesOf(t[k].rest)
  <2>9. CASE a.bytes <= o.m
    <3>1. c = a.bytes  BY <2>9
    <3>2. z = x /\ t[k].m = o.m - a.bytes  BY <3>1, <2>6
    <3>3. x \in Nat  BY <2>3, <2>4, BytesAppend
    <3> DEFINE om == o.m
               tm == t[k].m
               ab == a.bytes
    <3>4. /\ z = x /\ tm = om - ab /\ x \in Nat /\ om \in Nat /\ ab \in Nat /\ tm \in Nat
          /\ x + m = b[k - 1] + om /\ (om > 0 => x = 0) /\ b[k] = b[k - 1] + ab /\ b[k - 1] \in Nat
      BY <2>3, <2>5, <2>7, <2>8, <3>2, <3>3
    <3> HIDE DEF x, z, om, tm, ab, o, a, c, left
    <3>5. z + m = b[k] + tm /\ (tm > 0 => z = 0)  BY <3>4
    <3>6. QED  BY <3>5, <2>1 DEF x, z, tm
  <2>10. CASE ~(a.bytes <= o.m)
    <3>1. c = o.m /\ c # a.bytes  BY <2>10, <2>3, <2>5
    <3>2. t[k].m = 0 /\ t[k].rest = Append(o.rest, left)
      <4>1. o.m - o.m = 0  BY <2>3
      <4> HIDE DEF left, c, o, a
      <4>2. QED  BY <2>6, <3>1, <4>1
    <3>3. left.bytes = a.bytes - o.m
      <4>1. left.bytes = a.bytes - c  BY <2>4 DEF Answers
      <4> HIDE DEF left, c, o, a
      <4>2. QED  BY <4>1, <3>1
    <3>4. left \in Answers
      <4>1. Append(o.rest, left) \in Seq(Answers)  BY <2>3, <3>2
      <4> HIDE DEF left, o
      <4>2. Len(Append(o.rest, left)) = Len(o.rest) + 1 /\ Append(o.rest, left)[Len(o.rest) + 1] = left
            /\ Len(o.rest) \in Nat
        BY <2>3
      <4>3. QED  BY <4>1, <4>2
    <3>5. z = x + (a.bytes - o.m) /\ x \in Nat
      <4> HIDE DEF left, o, a
      <4>1. BytesOf(Append(o.rest, left)) = BytesOf(o.rest) + left.bytes /\ BytesOf(o.rest) \in Nat
        BY <2>3, <3>4, BytesAppend
      <4>2. QED  BY <4>1, <3>2, <3>3
    <3> DEFINE om == o.m
               tm == t[k].m
               ab == a.bytes
    <3>6. /\ z = x + (ab - om) /\ tm = 0 /\ x \in Nat /\ om \in Nat /\ ab \in Nat
          /\ x + m = b[k - 1] + om /\ b[k] = b[k - 1] + ab /\ b[k - 1] \in Nat
      BY <2>3, <2>5, <2>7, <2>8, <3>2, <3>5
    <3> HIDE DEF x, z, om, tm, ab, o, a, c, left
    <3> DEFINE d == b[k - 1]
               e == b[k]
    <3>7. /\ z = x + (ab - om) /\ tm = 0 /\ x \in Nat /\ om \in Nat /\ ab \in Nat
          /\ x + m = d + om /\ e = d + ab /\ d \in Nat
      BY <3>6
    <3> HIDE DEF d, e
    <3>8. z + m = e + tm /\ ~(tm > 0)
      <4>1. z + m = (x + m) + (ab - om)  BY <3>7
      <4>2. z + m = (d + om) + (ab - om)  BY <4>1, <3>7
      <4>3. z + m = d + ab  BY <4>2, <3>7
      <4>4. QED  BY <4>3, <3>7
    <3>9. QED  BY <3>8, <2>1 DEF x, z, tm, e
  <2>11. QED  BY <2>9, <2>10
<1>15. n \in T
  <2> HIDE DEF T
  <2>1. \A k \in 0..n : k \in T  BY <1>1, <1>13, <1>14, CountUp
  <2>2. n \in 0..n  BY <1>1
  <2>3. QED  BY <2>1, <2>2
<1> DEFINE z == BytesOf(t[n].rest)
           tm == t[n].m
<1>16. z + m = Available + tm /\ (tm > 0 => z = 0)  BY <1>11, <1>15
<1>17. tm \in Nat /\ z \in Nat /\ Available \in Nat
  <2>1. n \in 0..n  BY <1>1
  <2>2. t[n] \in Took  BY <2>1, <1>9
  <2>3. tm \in Nat /\ t[n].rest \in Seq(Answers)  BY <2>2 DEF Took
  <2>4. \A fs \in Seq(Answers) : BytesOf(fs) \in Nat
    <3> SUFFICES ASSUME NEW fs \in Seq(Answers) PROVE BytesOf(fs) \in Nat
      OBVIOUS
    <3>1. PICK h : Counted(h, fs)  BY BytesAre
    <3>2. Len(fs) \in 0..Len(fs)  OBVIOUS
    <3>3. QED  BY <3>1, <3>2 DEF Counted
  <2>6. z \in Nat  BY <2>3, <2>4
  <2>7. Available \in Nat  BY AvailableNat
  <2>8. QED  BY <2>3, <2>6, <2>7
<1>18. t[n] = TakeBytes(m)  BY <1>9
<1> HIDE DEF T
<1>19. z = Available - m
  <2> HIDE DEF z, tm
  <2>1. QED  BY <1>16, <1>17
<1>20. QED  BY <1>17, <1>18, <1>19

------------------------------------------------------------------------------
(***************************************************************************)
(* The chip as it is meant to be: need says how many bytes of data are     *)
(* announced and have not come, owed how many bytes of answers the host    *)
(* has not taken, clocks how many clocks each call has got, and drained    *)
(* that an answer of its own was asked for after the last of them.         *)
(*                                                                         *)
(* A command for call h leads it from p to q: data come when they were     *)
(* announced, and nothing else comes before they have; and no call gets    *)
(* clocks before those before it have got what L says they need.           *)
(***************************************************************************)
Ideal == [need : Nat, owed : Int, clocks : [Nat -> Nat], drained : BOOLEAN]
Commands == [op : ItemNames, kd : RunKinds, from : Int, n : Nat, bits : Nat,
             w : BOOLEAN, r : BOOLEAN, call : Nat]

Runs(it) == it.op \in DataNames \/ (it.op \in ClockNames /\ ~it.w)
Due(it) == IF it.op = "loop" \/ (it.op \in ClockNames /\ it.r) THEN it.n ELSE 0
Served(p, h, L) == \A k \in Nat : 1 <= k /\ k < h => L[k] <= p.clocks[k]

Carries(p, it, q, h, L) ==
  /\ IF it.op \in DataNames THEN p.need > 0 /\ it.n <= p.need /\ q.need = p.need - it.n
     ELSE p.need = 0 /\ q.need = IF it.w THEN it.n ELSE 0
  /\ it.w => it.op \in ClockNames
  /\ it.op = "loop" => it.n > 0
  /\ Runs(it) => Served(p, h, L)
  /\ q.owed = p.owed + Due(it)
  /\ q.clocks = IF Runs(it) THEN [p.clocks EXCEPT ![h] = @ + it.bits] ELSE p.clocks
  /\ q.drained = IF Runs(it) THEN FALSE ELSE p.drained \/ it.op = "loop"

Links(L) == {t \in Ideal \X Commands \X Ideal : Carries(t[1], t[2], t[3], t[2].call, L)}

LEMMA LinkIs ==
  ASSUME NEW L, NEW p, NEW it, NEW q
  PROVE  <<p, it, q>> \in Links(L)
           <=> p \in Ideal /\ it \in Commands /\ q \in Ideal /\ Carries(p, it, q, it.call, L)
BY DEF Links

(* The state of the chip as it is.                                         *)
Sync(p) ==
  /\ p.need = want.n
  /\ \A k \in Nat : p.clocks[k] <= Clocks(k)
  /\ ~told => p.owed = Available + have + (IF want.r THEN want.n ELSE 0)

LEMMA KeptCommand ==
  ASSUME NEW k \in Nat, NEW it \in Kept(k)
  PROVE  it \in Commands
<1>1. it \in ItemRecords(k)  BY DEF Kept, Items
<1>2. 0..k \subseteq Nat  OBVIOUS
<1>3. QED  BY <1>1, <1>2 DEF ItemRecords, Commands

(* What the chip runs, and the clocks this adds.                           *)
Clocking(it) == ChipTakes(it) \/ (want.n = 0 /\ ~it.w /\ it.op \in ClockNames)

LEMMA ClocksMine == \A k : Clocks(k) = ClocksOf(wire, k)
BY DEF Clocks, ClocksOf, Mine

LEMMA AvailableBytes == Available = BytesOf(fifo)
BY DEF Available, BytesOf

LEMMA ClocksAre ==
  ASSUME Linked, Wired
  PROVE  \A k : Clocks(k) = ClocksOf(wire, k) /\ Clocks(k) \in Nat
<1>1. Here \in Nat /\ wire \in Seq(Seen(Here))  BY HereIs DEF Wired
<1>2. \A k : Clocks(k) = ClocksOf(wire, k)  BY ClocksMine
<1> HIDE DEF Here
<1>3. \A k : ClocksOf(wire, k) \in Nat  BY <1>1, ClocksNat
<1>4. QED  BY <1>2, <1>3

LEMMA ChipClocks ==
  ASSUME Linked, Wired, Buffered, ChipStep, NEW it, it = Head(chip)
  PROVE  /\ it \in Kept(Here) /\ it \in Commands
         /\ Clocking(it) => Runs(it) /\ it.call \in 1..Here
         /\ \A k : Clocks(k)' = Clocks(k) + (IF Clocking(it) /\ k = it.call THEN it.bits ELSE 0)
         /\ \A x \in DOMAIN wire' :
              \/ Clocking(it) /\ wire'[x].call = it.call
              \/ \E y \in DOMAIN wire : wire'[x].call = wire[y].call
<1>1. it \in Kept(Here) /\ Here \in Nat  BY TailIn, HereIs DEF Buffered, ChipStep
<1>2. it \in Commands  BY <1>1, KeptCommand
<1>3. wire' = IF Clocking(it) THEN Join(wire, Run_of(it)) ELSE wire
  BY DEF ChipStep, Clocking, ClockNames
<1>4. \A k : Clocks(k) = ClocksOf(wire, k) /\ Clocks(k) \in Nat  BY ClocksAre
<1>5. \A k : Clocks(k)' = ClocksOf(wire', k)
  <2>1. (\A k : Clocks(k) = ClocksOf(wire, k))'  BY ClocksMine, PTL
  <2>2. QED  BY <2>1
<1>6. wire \in Seq(Seen(Here))  BY DEF Wired
<1>7. CASE Clocking(it)
  <2>1. it.op \in DataNames \/ (it.op \in ClockNames /\ ~it.w)
    BY <1>7 DEF Clocking, ChipTakes, DataNames
  <2>2. it.op \notin QuietNames  BY <2>1 DEF QuietNames, DataNames, ClockNames
  <2>3. /\ it.call \in 1..Here /\ it.kd \in RunKinds /\ it.from \in Int /\ it.bits \in Nat
    <3>1. it \in ItemRecords(Here) /\ it.call >= 1  BY <1>1, <2>2 DEF Kept, Items
    <3>2. it.call \in 0..Here /\ it.kd \in RunKinds /\ it.from \in Int /\ it.bits \in Nat
      BY <3>1 DEF ItemRecords
    <3>3. QED  BY <3>1, <3>2, <1>1
  <2> DEFINE r == Run_of(it)
             Z == Join(wire, r)
  <2>4. r \in [call : 1..Here, kind : RunKinds, from : Int, n : Nat]
    BY <2>3, <1>1, RunIn DEF Run_of
  <2>5. r.call = it.call /\ r.n = it.bits  BY DEF Run_of, Run
  <2>6. wire' = Z  BY <1>3, <1>7
  <2> HIDE DEF r
  <2>7. /\ \A k : ClocksOf(Z, k) = ClocksOf(wire, k) + (IF k = r.call THEN r.n ELSE 0)
        /\ \A x \in 1..Len(Z) : Z[x].call = r.call \/ \E y \in 1..Len(wire) : Z[x].call = wire[y].call
        /\ Z \in Seq(Seen(Here))
    <3> HIDE DEF Here
    <3> QED  BY <1>1, <1>6, <2>4, ClocksJoin, JoinIn
  <2> HIDE DEF Z
  <2>8. \A k : Clocks(k)' = Clocks(k) + (IF k = it.call THEN it.bits ELSE 0)
    BY <1>4, <1>5, <2>5, <2>6, <2>7
  <2>9. DOMAIN wire' = 1..Len(Z) /\ DOMAIN wire = 1..Len(wire)  BY <1>6, <2>6, <2>7
  <2>10. \A x \in DOMAIN wire' : wire'[x].call = it.call \/ \E y \in DOMAIN wire : wire'[x].call = wire[y].call
    BY <2>5, <2>6, <2>7, <2>9
  <2>11. Runs(it)  BY <2>1 DEF Runs
  <2>12. QED  BY <1>1, <1>2, <1>7, <2>3, <2>8, <2>10, <2>11
<1>8. CASE ~Clocking(it)
  <2>1. wire' = wire  BY <1>3, <1>8
  <2>2. \A k : Clocks(k)' = Clocks(k) + 0  BY <1>4, <1>5, <2>1
  <2>3. QED  BY <1>1, <1>2, <1>8, <2>1, <2>2
<1>9. QED  BY <1>7, <1>8

(* What the chip waits for, and what it answers.                           *)
Takes(it) == want.n > 0 /\ it.op \in DataNames /\ it.n <= want.n

LEMMA ChipWants ==
  ASSUME Linked, Buffered, ChipStep, NEW it, it = Head(chip)
  PROVE  /\ UNCHANGED <<have, told>> /\ it \in Commands /\ it.n \in Nat
         /\ want.n \in Nat \cup {-1} /\ want.r \in BOOLEAN
         /\ want' = IF Takes(it) THEN [n |-> want.n - it.n, r |-> want.r]
                    ELSE IF want.n # 0 \/ it.op \in DataNames THEN Lost
                    ELSE IF it.w THEN [n |-> it.n, r |-> it.r] ELSE want
<1>1. it \in Kept(Here) /\ Here \in Nat  BY TailIn, HereIs DEF Buffered, ChipStep
<1>2. it \in Commands  BY <1>1, KeptCommand
<1>3. want \in [n : Nat \cup {-1}, r : BOOLEAN]  BY DEF Buffered
<1>4. ChipTakes(it) = Takes(it)  BY DEF ChipTakes, Takes, DataNames
<1>5. want' = IF ChipTakes(it) THEN [want EXCEPT !.n = @ - it.n]
              ELSE IF want.n # 0 \/ it.op \in DataNames THEN Lost
              ELSE IF it.w THEN [n |-> it.n, r |-> it.r] ELSE want
  BY DEF ChipStep, DataNames
<1>6. [want EXCEPT !.n = @ - it.n] = [n |-> want.n - it.n, r |-> want.r]  BY <1>3
<1>7. UNCHANGED <<have, told>>  BY DEF ChipStep, reading, hist
<1>8. it.n \in Nat /\ want.n \in Nat \cup {-1} /\ want.r \in BOOLEAN
  BY <1>2, <1>3 DEF Commands
<1>9. QED  BY <1>2, <1>4, <1>5, <1>6, <1>7, <1>8

(* While no failure was told, no answer is lost.                           *)
LEMMA ChipAnswers ==
  ASSUME Linked, Buffered, ChipStep, ~told, NEW it, it = Head(chip)
  PROVE  /\ Available \in Nat /\ Available' \in Nat
         /\ Takes(it) => Available' = Available + (IF want.r THEN it.n ELSE 0)
         /\ want.n = 0 /\ ~it.w /\ it.op \in ClockNames =>
              Available' = Available + (IF it.r THEN it.n ELSE 0)
         /\ want.n = 0 /\ it.op = "loop" => Available' = Available + it.n
         /\ want.n = 0 /\ it.op # "loop" /\ ~(~it.w /\ it.op \in ClockNames) /\ ~Takes(it) =>
              Available' = Available
<1>1. it \in Commands /\ it.n \in Nat /\ want.n \in Nat \cup {-1} /\ want.r \in BOOLEAN
  BY ChipWants
<1>2. it.r \in BOOLEAN  BY <1>1 DEF Commands
<1>3. ChipTakes(it) = Takes(it)  BY DEF ChipTakes, Takes, DataNames
<1>4. fifo \in Seq(Answers) /\ fifo' \in Seq(Answers)  BY ChipKeeps DEF Buffered
<1>5. Available = BytesOf(fifo) /\ Available' = BytesOf(fifo')
  <2>1. (Available = BytesOf(fifo))'  BY AvailableBytes, PTL
  <2>2. QED  BY <2>1, AvailableBytes
<1>6. Available \in Nat /\ Available' \in Nat
  <2>1. \A fs \in Seq(Answers) : BytesOf(fs) \in Nat
    <3> SUFFICES ASSUME NEW fs \in Seq(Answers) PROVE BytesOf(fs) \in Nat
      OBVIOUS
    <3>1. PICK h : Counted(h, fs)  BY BytesAre
    <3>2. Len(fs) \in 0..Len(fs)  OBVIOUS
    <3>3. QED  BY <3>1, <3>2 DEF Counted
  <2>2. QED  BY <1>4, <1>5, <2>1
<1> DEFINE a == [call |-> it.call, from |-> it.from, bits |-> it.bits, bytes |-> it.n]
<1>7. ASSUME NEW r \in BOOLEAN, fifo' = Answer(it, r)
       PROVE  Available' = Available + (IF r THEN it.n ELSE 0)
  <2>1. CASE r
    <3>1. fifo' = Append(fifo, a)  BY <1>7, <2>1 DEF Answer
    <3>2. a \in Answers
      <4> HIDE DEF a
      <4>1. Len(fifo') = Len(fifo) + 1 /\ fifo'[Len(fifo) + 1] = a /\ Len(fifo) \in Nat
        BY <3>1, <1>4
      <4>2. QED  BY <4>1, <1>4
    <3>3. a.bytes = it.n  OBVIOUS
    <3> HIDE DEF a
    <3>4. BytesOf(Append(fifo, a)) = BytesOf(fifo) + a.bytes  BY <3>2, <1>4, BytesAppend
    <3>5. QED  BY <3>1, <3>3, <3>4, <2>1, <1>5
  <2>2. CASE ~r
    <3>1. fifo' = fifo  BY <1>7, <2>2 DEF Answer
    <3>2. QED  BY <3>1, <2>2, <1>5, <1>6
  <2>3. QED  BY <2>1, <2>2
<1> DEFINE clocks == ChipTakes(it) \/ (want.n = 0 /\ ~it.w /\ it.op \in ClockNames)
           reads == IF want.n > 0 THEN want.r ELSE it.r
<1>8. fifo' = IF clocks THEN Answer(it, reads)
               ELSE IF want.n = 0 /\ it.op = "loop" THEN Answer(it, TRUE) ELSE fifo
  BY DEF ChipStep, ClockNames
<1>9. Takes(it) => Available' = Available + (IF want.r THEN it.n ELSE 0)
  <2> SUFFICES ASSUME Takes(it) PROVE Available' = Available + (IF want.r THEN it.n ELSE 0)
    OBVIOUS
  <2>1. want.n > 0  BY DEF Takes
  <2>2. fifo' = Answer(it, want.r)  BY <2>1, <1>3, <1>8
  <2>3. QED  BY <2>2, <1>7, <1>1, <1>2
<1>10. want.n = 0 /\ ~it.w /\ it.op \in ClockNames => Available' = Available + (IF it.r THEN it.n ELSE 0)
  <2> SUFFICES ASSUME want.n = 0, ~it.w, it.op \in ClockNames
               PROVE  Available' = Available + (IF it.r THEN it.n ELSE 0)
    OBVIOUS
  <2>1. ~(want.n > 0)  OBVIOUS
  <2>2. fifo' = Answer(it, it.r)  BY <2>1, <1>8
  <2>3. QED  BY <2>2, <1>7, <1>1, <1>2
<1>11. want.n = 0 /\ it.op = "loop" => Available' = Available + it.n
  <2> SUFFICES ASSUME want.n = 0, it.op = "loop" PROVE Available' = Available + it.n
    OBVIOUS
  <2>1. ~clocks  BY DEF ChipTakes, ClockNames
  <2>2. fifo' = Answer(it, TRUE)  BY <2>1, <1>8
  <2>3. Available' = Available + (IF TRUE THEN it.n ELSE 0)  BY <2>2, <1>7
  <2>4. QED  BY <2>3
<1>12. want.n = 0 /\ it.op # "loop" /\ ~(~it.w /\ it.op \in ClockNames) /\ ~Takes(it) =>
         Available' = Available
  <2> SUFFICES ASSUME want.n = 0, it.op # "loop", ~(~it.w /\ it.op \in ClockNames), ~Takes(it)
               PROVE  Available' = Available
    OBVIOUS
  <2>1. ~clocks  BY <1>3
  <2>2. fifo' = fifo  BY <2>1, <1>8
  <2>3. QED  BY <2>2, <1>5
<1>13. QED  BY <1>6, <1>9, <1>10, <1>11, <1>12

(* A command that comes as it should leaves the chip as it is meant to be. *)
LEMMA ChipFollows ==
  ASSUME Linked, Wired, Buffered, Reading, ChipStep, NEW it, it = Head(chip), NEW L \in [Nat -> Nat],
         NEW p \in Ideal, NEW q \in Ideal, Carries(p, it, q, it.call, L), Sync(p)
  PROVE  /\ Sync(q)'
         /\ Clocking(it) => \A k \in Nat : 1 <= k /\ k < it.call => L[k] <= Clocks(k)
<1>1. /\ it \in Commands
      /\ Clocking(it) => Runs(it) /\ it.call \in 1..Here
      /\ \A k : Clocks(k)' = Clocks(k) + (IF Clocking(it) /\ k = it.call THEN it.bits ELSE 0)
  BY ChipClocks
<1>2. \A k \in Nat : Clocks(k) \in Nat  BY ClocksAre
<1>3. \A k \in Nat : p.clocks[k] <= Clocks(k) /\ p.clocks[k] \in Nat /\ q.clocks[k] \in Nat
  BY DEF Sync, Ideal
<1>4. it.op \in ItemNames /\ it.bits \in Nat /\ it.n \in Nat /\ it.call \in Nat /\ {it.w, it.r} \subseteq BOOLEAN
  BY <1>1 DEF Commands
<1>5. p.need \in Nat /\ q.need \in Nat /\ p.owed \in Int /\ q.owed \in Int /\ p.clocks \in [Nat -> Nat]
  BY DEF Ideal
<1>6. /\ UNCHANGED <<have, told>>
      /\ want.n \in Nat \cup {-1} /\ want.r \in BOOLEAN
      /\ want' = IF Takes(it) THEN [n |-> want.n - it.n, r |-> want.r]
                 ELSE IF want.n # 0 \/ it.op \in DataNames THEN Lost
                 ELSE IF it.w THEN [n |-> it.n, r |-> it.r] ELSE want
  BY ChipWants
<1>7. want.n = p.need  BY DEF Sync
<1>8. Clocking(it) <=> Runs(it)
  <2>1. it.op \in DataNames => it.op \notin ClockNames  BY DEF DataNames, ClockNames
  <2>2. CASE it.op \in DataNames
    BY <2>2, <1>7 DEF Carries, Clocking, Runs, ChipTakes, DataNames
  <2>3. CASE it.op \notin DataNames
    BY <2>3, <1>7 DEF Carries, Clocking, Runs, ChipTakes, DataNames
  <2>4. QED  BY <2>2, <2>3
<1>9. \A k \in Nat : q.clocks[k] <= Clocks(k)'
  <2> SUFFICES ASSUME NEW k \in Nat PROVE q.clocks[k] <= Clocks(k)'
    OBVIOUS
  <2>1. Clocks(k)' = Clocks(k) + (IF Clocking(it) /\ k = it.call THEN it.bits ELSE 0)  BY <1>1
  <2>2. q.clocks[k] = p.clocks[k] + (IF Runs(it) /\ k = it.call THEN it.bits ELSE 0)
    <3>1. q.clocks = IF Runs(it) THEN [p.clocks EXCEPT ![it.call] = @ + it.bits] ELSE p.clocks
      BY DEF Carries
    <3>2. p.clocks[k] \in Nat  BY <1>3
    <3> HIDE DEF Runs
    <3>3. QED  BY <3>1, <3>2, <1>5, <1>4
  <2>3. Clocks(k) \in Nat /\ p.clocks[k] <= Clocks(k) /\ p.clocks[k] \in Nat  BY <1>2, <1>3
  <2> HIDE DEF Clocks, Runs, Clocking
  <2>4. QED  BY <2>1, <2>2, <2>3, <1>8, <1>4
<1>10. q.need = want'.n
  <2>1. CASE it.op \in DataNames
    <3>1. Takes(it)  BY <2>1, <1>7, <1>5, <1>4 DEF Carries, Takes
    <3>2. want'.n = want.n - it.n  BY <3>1, <1>6
    <3>3. QED  BY <2>1, <3>2, <1>7 DEF Carries
  <2>2. CASE it.op \notin DataNames
    <3>1. p.need = 0 /\ q.need = IF it.w THEN it.n ELSE 0  BY <2>2 DEF Carries
    <3>2. ~Takes(it)  BY <2>2 DEF Takes
    <3>3. want' = IF it.w THEN [n |-> it.n, r |-> it.r] ELSE want
      BY <3>1, <3>2, <2>2, <1>6, <1>7
    <3>4. QED  BY <3>1, <3>3, <1>7
  <2>3. QED  BY <2>1, <2>2
<1>11. ~told' => q.owed = Available' + have' + (IF want'.r THEN want'.n ELSE 0)
  <2> SUFFICES ASSUME ~told' PROVE q.owed = Available' + have' + (IF want'.r THEN want'.n ELSE 0)
    OBVIOUS
  <2>0. ~told  BY <1>6
  <2>1. p.owed = Available + have + (IF want.r THEN want.n ELSE 0)  BY <2>0 DEF Sync
  <2>2. q.owed = p.owed + Due(it) /\ have' = have  BY <1>6 DEF Carries
  <2>3. have \in Nat  BY DEF Reading
  <2>4. it.w => it.op \in ClockNames  BY DEF Carries
  <2>5. it.op \in DataNames => ~(it.op = "loop" \/ it.op \in ClockNames)
    BY DEF DataNames, ClockNames
  <2>6. /\ Available \in Nat /\ Available' \in Nat
        /\ Takes(it) => Available' = Available + (IF want.r THEN it.n ELSE 0)
        /\ want.n = 0 /\ ~it.w /\ it.op \in ClockNames =>
             Available' = Available + (IF it.r THEN it.n ELSE 0)
        /\ want.n = 0 /\ it.op = "loop" => Available' = Available + it.n
        /\ want.n = 0 /\ it.op # "loop" /\ ~(~it.w /\ it.op \in ClockNames) /\ ~Takes(it) =>
             Available' = Available
    BY <2>0, ChipAnswers
  <2> HIDE DEF Available
  <2>7. CASE it.op \in DataNames
    <3>1. Takes(it)  BY <2>7, <1>7, <1>5, <1>4 DEF Carries, Takes
    <3>2. Due(it) = 0  BY <2>5, <2>7 DEF Due
    <3>3. QED  BY <3>1, <3>2, <2>1, <2>2, <2>3, <1>4, <1>6, <2>6
  <2>8. CASE it.op \notin DataNames
    <3>1. p.need = 0 /\ want.n = 0  BY <2>8, <1>7 DEF Carries
    <3>2. ~Takes(it)  BY <2>8 DEF Takes
    <3>3. want' = IF it.w THEN [n |-> it.n, r |-> it.r] ELSE want
      BY <3>1, <3>2, <2>8, <1>6, <2>6
    <3>4. p.owed = Available + have  BY <2>1, <3>1, <2>3, <1>6, <2>6
    <3>5. CASE it.op = "loop"
      <4>1. ~it.w  BY <3>5, <2>4 DEF ClockNames
      <4>2. Due(it) = it.n /\ want' = want /\ Available' = Available + it.n
        BY <3>5, <4>1, <3>1, <3>3, <1>6, <2>6 DEF Due
      <4>3. QED  BY <4>2, <3>1, <3>4, <2>2, <2>3, <1>4, <1>6, <2>6
    <3>6. CASE it.op \in ClockNames
      <4>0. it.op # "loop"  BY <3>6 DEF ClockNames
      <4>1. CASE it.w
        <5>1. want'.n = it.n /\ want'.r = it.r /\ Available' = Available
          BY <4>0, <4>1, <3>1, <3>2, <3>3, <1>6, <2>6
        <5>2. Due(it) = IF it.r THEN it.n ELSE 0  BY <3>6, <4>0 DEF Due
        <5>3. QED  BY <5>1, <5>2, <3>4, <2>2, <2>3, <1>4, <1>6, <2>6
      <4>2. CASE ~it.w
        <5>1. want' = want /\ Available' = Available + (IF it.r THEN it.n ELSE 0)
          BY <4>2, <3>6, <3>1, <3>3, <1>6, <2>6
        <5>2. Due(it) = IF it.r THEN it.n ELSE 0  BY <3>6, <4>0 DEF Due
        <5>3. QED  BY <5>1, <5>2, <3>1, <3>4, <2>2, <2>3, <1>4, <1>6, <2>6
      <4>3. QED  BY <4>1, <4>2
    <3>7. CASE it.op # "loop" /\ it.op \notin ClockNames
      <4>1. ~it.w  BY <3>7, <2>4
      <4>2. Due(it) = 0 /\ want' = want /\ Available' = Available
        BY <3>7, <4>1, <3>1, <3>2, <3>3, <1>6, <2>6 DEF Due
      <4>3. QED  BY <4>2, <3>1, <3>4, <2>2, <2>3, <1>6, <2>6
    <3>8. QED  BY <3>5, <3>6, <3>7
  <2>9. QED  BY <2>7, <2>8
<1>12. Sync(q)'
  BY <1>9, <1>10, <1>11 DEF Sync
<1>13. Clocking(it) => \A k \in Nat : 1 <= k /\ k < it.call => L[k] <= Clocks(k)
  <2> SUFFICES ASSUME Clocking(it), NEW k \in Nat, 1 <= k, k < it.call PROVE L[k] <= Clocks(k)
    OBVIOUS
  <2>1. Served(p, it.call, L)  BY <1>8 DEF Carries
  <2>2. L[k] <= p.clocks[k] /\ p.clocks[k] <= Clocks(k)  BY <2>1, <1>3 DEF Served
  <2>3. Clocks(k) \in Nat /\ p.clocks[k] \in Nat  BY <1>2, <1>3
  <2> HIDE DEF Clocks
  <2>4. QED  BY <2>2, <2>3
<1>14. QED  BY <1>12, <1>13

------------------------------------------------------------------------------
(***************************************************************************)
(* The scripts of the calls: each begins and ends with nothing announced,  *)
(* and takes as many bytes of answers as it has asked for.                 *)
(***************************************************************************)
Filling(from, n) == Item("payload", "idle", from, n, 8 * n, FALSE, FALSE)

(* What an operation of a script leads to, when its commands come to be    *)
(* carried out before those of the operations after it.                    *)
Turn(p, x, q, h, L) ==
  CASE x.do = "add" -> Carries(p, x.it, q, h, L)
    [] x.do = "fill" -> Carries(p, Filling(x.from, x.n), q, h, L)
    [] x.do = "get" -> q = [p EXCEPT !.owed = @ - x.n]
    [] x.do = "throw" -> FALSE
    [] OTHER -> q = p

Turns(h, L) == {t \in Ideal \X (FtdiOps \cup Ends) \X Ideal : Turn(t[1], t[2], t[3], h, L)}

LEMMA TurnIs ==
  ASSUME NEW h, NEW L, NEW p, NEW x, NEW q
  PROVE  <<p, x, q>> \in Turns(h, L)
           <=> p \in Ideal /\ x \in FtdiOps \cup Ends /\ q \in Ideal /\ Turn(p, x, q, h, L)
BY DEF Turns

Grows(p, q) == \A k \in Nat : p.clocks[k] <= q.clocks[k]
Opens(p, h, L) == p \in Ideal /\ p.need = 0 /\ Served(p, h, L)
Lands(s, d, p, q, h, L) ==
  /\ q \in Ideal /\ q.need = 0 /\ q.owed = p.owed + d /\ Grows(p, q)
  /\ Leads(s, p, q, Turns(h, L))
Fair(s, d, h, L) == \A p : Opens(p, h, L) => \E q : Lands(s, d, p, q, h, L)

LEMMA GrowsOn ==
  ASSUME NEW p \in Ideal, NEW q \in Ideal, NEW L \in [Nat -> Nat], Grows(p, q)
  PROVE  /\ \A h : Served(p, h, L) => Served(q, h, L)
         /\ \A u \in Ideal : Grows(q, u) => Grows(p, u)
<1>1. \A u \in Ideal : \A k \in Nat : u.clocks[k] \in Nat  BY DEF Ideal
<1>2. \A k \in Nat : L[k] \in Nat  OBVIOUS
<1>3. ASSUME NEW h, Served(p, h, L), NEW k \in Nat, 1 <= k, k < h PROVE L[k] <= q.clocks[k]
  <2>1. L[k] <= p.clocks[k] /\ p.clocks[k] <= q.clocks[k]  BY <1>3 DEF Served, Grows
  <2>2. L[k] \in Nat /\ p.clocks[k] \in Nat /\ q.clocks[k] \in Nat  BY <1>1, <1>2
  <2>3. QED  BY <2>1, <2>2
<1>4. ASSUME NEW u \in Ideal, Grows(q, u), NEW k \in Nat PROVE p.clocks[k] <= u.clocks[k]
  <2>1. p.clocks[k] <= q.clocks[k] /\ q.clocks[k] <= u.clocks[k]  BY <1>4 DEF Grows
  <2>2. p.clocks[k] \in Nat /\ q.clocks[k] \in Nat /\ u.clocks[k] \in Nat  BY <1>1
  <2>3. QED  BY <2>1, <2>2
<1>5. QED  BY <1>3, <1>4 DEF Served, Grows

LEMMA FairNone ==
  ASSUME NEW h, NEW L
  PROVE  Fair(<<>>, 0, h, L)
<1> SUFFICES ASSUME NEW p, Opens(p, h, L) PROVE Lands(<<>>, 0, p, p, h, L)
  BY DEF Fair
<1>1. p \in Ideal /\ p.need = 0 /\ p.owed \in Int /\ \A k \in Nat : p.clocks[k] \in Nat
  BY DEF Opens, Ideal
<1>2. p.owed = p.owed + 0 /\ Grows(p, p)  BY <1>1 DEF Grows
<1>3. QED  BY <1>1, <1>2, LeadsNone DEF Lands

LEMMA FairConcat ==
  ASSUME NEW h, NEW L \in [Nat -> Nat], NEW d \in Int, NEW e \in Int,
         NEW s \in Seq(FtdiOps), NEW t \in Seq(FtdiOps), Fair(s, d, h, L), Fair(t, e, h, L)
  PROVE  Fair(s \o t, d + e, h, L)
<1> SUFFICES ASSUME NEW p, Opens(p, h, L) PROVE \E q : Lands(s \o t, d + e, p, q, h, L)
  BY DEF Fair
<1>1. PICK u : Lands(s, d, p, u, h, L)  BY DEF Fair
<1>2. p \in Ideal /\ u \in Ideal  BY <1>1 DEF Opens, Lands
<1>3. Opens(u, h, L)  BY <1>1, <1>2, GrowsOn DEF Opens, Lands
<1>4. PICK q : Lands(t, e, u, q, h, L)  BY <1>3 DEF Fair
<1>5. q \in Ideal /\ q.need = 0 /\ Grows(p, q)  BY <1>1, <1>2, <1>4, GrowsOn DEF Lands
<1>6. q.owed = p.owed + (d + e)
  <2>1. p.owed \in Int /\ u.owed = p.owed + d /\ q.owed = u.owed + e
    BY <1>1, <1>2, <1>4 DEF Lands, Ideal
  <2>2. QED  BY <2>1, SMTT(30)
<1>7. Leads(s \o t, p, q, Turns(h, L))  BY <1>1, <1>4, LeadsConcat DEF Lands
<1>8. QED  BY <1>5, <1>6, <1>7 DEF Lands

LEMMA FairIf ==
  ASSUME NEW h, NEW L, NEW d, NEW s, NEW cond \in BOOLEAN, cond => Fair(s, d, h, L)
  PROVE  Fair(If(cond, s), IF cond THEN d ELSE 0, h, L)
BY FairNone DEF If

(* The chip after a command.                                               *)
After(p, it, h) ==
  [need |-> IF it.op \in DataNames THEN p.need - it.n ELSE IF it.w THEN it.n ELSE 0,
   owed |-> p.owed + Due(it),
   clocks |-> IF Runs(it) THEN [p.clocks EXCEPT ![h] = @ + it.bits] ELSE p.clocks,
   drained |-> IF Runs(it) THEN FALSE ELSE p.drained \/ it.op = "loop"]

Welcome(p, it) ==
  /\ IF it.op \in DataNames THEN p.need > 0 /\ it.n <= p.need ELSE p.need = 0
  /\ it.w => it.op \in ClockNames
  /\ it.op = "loop" => it.n > 0

LEMMA AfterIs ==
  ASSUME NEW h \in Nat, NEW L \in [Nat -> Nat], NEW p \in Ideal, NEW it \in Commands,
         Welcome(p, it), Served(p, h, L)
  PROVE  /\ After(p, it, h) \in Ideal /\ Carries(p, it, After(p, it, h), h, L)
         /\ Grows(p, After(p, it, h)) /\ Served(After(p, it, h), h, L)
         /\ After(p, it, h).clocks[h] = p.clocks[h] + (IF Runs(it) THEN it.bits ELSE 0)
<1> DEFINE q == After(p, it, h)
<1>1. /\ p.need \in Nat /\ p.owed \in Int /\ p.clocks \in [Nat -> Nat] /\ p.drained \in BOOLEAN
      /\ it.n \in Nat /\ it.bits \in Nat
  BY DEF Ideal, Commands
<1>2. /\ q.need = IF it.op \in DataNames THEN p.need - it.n ELSE IF it.w THEN it.n ELSE 0
      /\ q.owed = p.owed + Due(it)
      /\ q.clocks = IF Runs(it) THEN [p.clocks EXCEPT ![h] = @ + it.bits] ELSE p.clocks
      /\ q.drained = IF Runs(it) THEN FALSE ELSE p.drained \/ it.op = "loop"
  BY DEF After
<1>3. Due(it) \in Nat  BY <1>1 DEF Due
<1>4. q.need \in Nat  BY <1>1, <1>2 DEF Welcome
<1>5. q.owed \in Int  BY <1>1, <1>2, <1>3
<1>6. q.clocks \in [Nat -> Nat]
  <2>1. p.clocks[h] + it.bits \in Nat  BY <1>1
  <2> HIDE DEF q, Runs
  <2>2. QED  BY <2>1, <1>1, <1>2
<1>7. q \in Ideal
  <2>1. q = [need |-> q.need, owed |-> q.owed, clocks |-> q.clocks, drained |-> q.drained]
    BY DEF After
  <2>2. q.drained \in BOOLEAN  BY <1>1, <1>2
  <2> HIDE DEF q
  <2>3. QED  BY <2>1, <2>2, <1>4, <1>5, <1>6 DEF Ideal
<1>8. Carries(p, it, q, h, L)
  <2> HIDE DEF q
  <2> QED  BY <1>2 DEF Carries, Welcome
<1>9. Grows(p, q)
  <2> SUFFICES ASSUME NEW k \in Nat PROVE p.clocks[k] <= q.clocks[k]
    BY DEF Grows
  <2>1. p.clocks[k] \in Nat  BY <1>1
  <2> HIDE DEF q, Runs
  <2>2. q.clocks[k] = p.clocks[k] + (IF Runs(it) /\ k = h THEN it.bits ELSE 0)
    BY <2>1, <1>1, <1>2
  <2>3. QED  BY <2>1, <2>2, <1>1
<1>10. Served(q, h, L)
  <2> HIDE DEF q
  <2> QED  BY <1>7, <1>9, GrowsOn
<1>11. q.clocks[h] = p.clocks[h] + (IF Runs(it) THEN it.bits ELSE 0)
  <2>1. p.clocks[h] \in Nat  BY <1>1
  <2> HIDE DEF q, Runs
  <2>2. QED  BY <2>1, <1>1, <1>2
<1> HIDE DEF q
<1>12. QED  BY <1>7, <1>8, <1>9, <1>10, <1>11 DEF q

LEMMA ItemCommand ==
  ASSUME NEW it \in Items(0)
  PROVE  it \in Commands /\ Add(it) \in FtdiOps /\ Add(it).do = "add" /\ Add(it).it = it
<1>1. it \in ItemRecords(0)  BY DEF Items
<1>2. 0..0 \subseteq Nat  OBVIOUS
<1>3. it \in Commands  BY <1>1, <1>2 DEF ItemRecords, Commands
<1>4. QED  BY <1>3, AddIn DEF Add

LEMMA AddTurns ==
  ASSUME NEW h, NEW L, NEW p \in Ideal, NEW q \in Ideal, NEW it \in Items(0),
         Carries(p, it, q, h, L)
  PROVE  Leads(<<Add(it)>>, p, q, Turns(h, L))
<1>1. Add(it) \in FtdiOps \cup Ends /\ Add(it).do = "add" /\ Add(it).it = it  BY ItemCommand
<1>2. Turn(p, Add(it), q, h, L)  BY <1>1 DEF Turn
<1>3. <<p, Add(it), q>> \in Turns(h, L)  BY <1>1, <1>2, TurnIs
<1>4. QED  BY <1>3, LeadsOne

(* A command without data.                                                 *)
LEMMA FairItem ==
  ASSUME NEW h \in Nat, NEW L \in [Nat -> Nat], NEW it \in Items(0), it.op \notin DataNames,
         ~it.w, it.op = "loop" => it.n > 0
  PROVE  Fair(<<Add(it)>>, Due(it), h, L)
<1> SUFFICES ASSUME NEW p, Opens(p, h, L) PROVE Lands(<<Add(it)>>, Due(it), p, After(p, it, h), h, L)
  BY DEF Fair
<1>1. p \in Ideal /\ Served(p, h, L) /\ Welcome(p, it)  BY DEF Opens, Welcome
<1>2. /\ After(p, it, h) \in Ideal /\ Carries(p, it, After(p, it, h), h, L)
      /\ Grows(p, After(p, it, h))
  BY <1>1, ItemCommand, AfterIs
<1>3. After(p, it, h).need = 0 /\ After(p, it, h).owed = p.owed + Due(it)  BY DEF After
<1>4. QED  BY <1>1, <1>2, <1>3, AddTurns DEF Lands

(* A command with its data.                                                *)
LEMMA FairPair ==
  ASSUME NEW h \in Nat, NEW L \in [Nat -> Nat], NEW it \in Items(0), NEW data \in Items(0),
         it.op \in ClockNames, it.w, data.op = "payload", data.n = it.n, it.n > 0
  PROVE  Fair(<<Add(it)>> \o <<Add(data)>>, Due(it), h, L)
<1> SUFFICES ASSUME NEW p, Opens(p, h, L)
             PROVE  \E q : Lands(<<Add(it)>> \o <<Add(data)>>, Due(it), p, q, h, L)
  BY DEF Fair
<1>0. it \in Commands /\ data \in Commands /\ Add(it) \in FtdiOps /\ Add(data) \in FtdiOps
  BY ItemCommand
<1>1. it.op \notin DataNames /\ it.op # "loop" /\ data.op \in DataNames /\ data.op # "loop"
      /\ data.op \notin ClockNames /\ ~data.w
  <2>1. data.op \in DataNames  BY DEF DataNames
  <2>2. ~data.w  BY <2>1 DEF Items, Fitting
  <2>3. QED  BY <2>1, <2>2 DEF DataNames, ClockNames
<1> DEFINE u == After(p, it, h)
           q == After(u, data, h)
<1>2. p \in Ideal /\ Served(p, h, L) /\ Welcome(p, it)  BY <1>1 DEF Opens, Welcome
<1>3. u \in Ideal /\ Carries(p, it, u, h, L) /\ Grows(p, u) /\ Served(u, h, L)
  BY <1>0, <1>2, AfterIs
<1>4. u.need = it.n /\ u.owed = p.owed + Due(it)  BY <1>1 DEF After
<1>5. it.n \in Nat  BY <1>0 DEF Commands
<1> HIDE DEF u
<1>6. Welcome(u, data)  BY <1>1, <1>4, <1>5 DEF Welcome
<1>7. q \in Ideal /\ Carries(u, data, q, h, L) /\ Grows(u, q)
  BY <1>0, <1>3, <1>6, AfterIs
<1>8. q.need = 0 /\ q.owed = p.owed + Due(it)
  <2>1. q.need = u.need - data.n /\ q.owed = u.owed + 0  BY <1>1 DEF After, Due
  <2>2. u.owed \in Int  BY <1>3 DEF Ideal
  <2> HIDE DEF q
  <2>3. QED  BY <2>1, <2>2, <1>4, <1>5
<1> HIDE DEF q
<1>9. Grows(p, q)  BY <1>2, <1>3, <1>7, GrowsOn
<1>10. Leads(<<Add(it)>> \o <<Add(data)>>, p, q, Turns(h, L))
  <2>1. Leads(<<Add(it)>>, p, u, Turns(h, L)) /\ Leads(<<Add(data)>>, u, q, Turns(h, L))
    BY <1>2, <1>3, <1>7, AddTurns
  <2>2. <<Add(it)>> \in Seq(FtdiOps) /\ <<Add(data)>> \in Seq(FtdiOps)  BY <1>0, OneIn
  <2>3. QED  BY <2>1, <2>2, LeadsConcat
<1>11. QED  BY <1>7, <1>8, <1>9, <1>10 DEF Lands

LEMMA FairSend ==
  ASSUME NEW h, NEW L
  PROVE  Fair(<<Send>>, 0, h, L)
<1> SUFFICES ASSUME NEW p, Opens(p, h, L) PROVE Lands(<<Send>>, 0, p, p, h, L)
  BY DEF Fair
<1>1. p \in Ideal /\ p.need = 0 /\ p.owed \in Int /\ \A k \in Nat : p.clocks[k] \in Nat
  BY DEF Opens, Ideal
<1>2. p.owed = p.owed + 0 /\ Grows(p, p)  BY <1>1 DEF Grows
<1>3. Send \in FtdiOps \cup Ends  BY SendIn, QuietFtdi
<1>4. Turn(p, Send, p, h, L)  BY DEF Turn, Send
<1>5. <<p, Send, p>> \in Turns(h, L)  BY <1>1, <1>3, <1>4, TurnIs
<1>6. QED  BY <1>1, <1>2, <1>5, LeadsOne DEF Lands

LEMMA FairGet ==
  ASSUME NEW h, NEW L, NEW n \in 0..TX_BUF, NEW at \in Int
  PROVE  Fair(<<[do |-> "get", n |-> n, at |-> at]>>, - n, h, L)
<1> DEFINE x == [do |-> "get", n |-> n, at |-> at]
<1> SUFFICES ASSUME NEW p, Opens(p, h, L) PROVE \E q : Lands(<<x>>, - n, p, q, h, L)
  BY DEF Fair
<1> DEFINE q == [p EXCEPT !.owed = @ - n]
<1>1. p \in Ideal /\ p.need = 0 /\ p.owed \in Int /\ n \in Int /\ \A k \in Nat : p.clocks[k] \in Nat
  BY BufferAssumption DEF Opens, Ideal
<1>2. q \in Ideal /\ q.need = 0 /\ q.owed = p.owed - n /\ q.clocks = p.clocks  BY <1>1 DEF Ideal
<1>3. q.owed = p.owed + (- n) /\ Grows(p, q)
  <2> HIDE DEF q
  <2>1. q.owed = p.owed + (- n)  BY <1>1, <1>2
  <2>2. \A k \in Nat : p.clocks[k] <= q.clocks[k]  BY <1>1, <1>2
  <2>3. QED  BY <2>1, <2>2 DEF Grows
<1>4. x \in FtdiOps \cup Ends  BY DEF FtdiOps, Gets
<1>5. Turn(p, x, q, h, L)  BY DEF Turn
<1> HIDE DEF x, q
<1>6. <<p, x, q>> \in Turns(h, L)  BY <1>1, <1>2, <1>4, <1>5, TurnIs
<1>7. QED  BY <1>2, <1>3, <1>6, LeadsOne DEF Lands

LEMMA PlainFair ==
  ASSUME NEW h \in Nat, NEW L \in [Nat -> Nat], NEW op \in QuietNames, op # "loop"
  PROVE  Fair(<<Add(Plain(op))>>, 0, h, L)
<1>1. Plain(op) \in Items(0) /\ Plain(op).op = op  BY PlainIn
<1>2. op \notin DataNames /\ op \notin ClockNames  BY DEF QuietNames, DataNames, ClockNames
<1>3. ~Plain(op).w  BY DEF Plain, Item
<1>4. Due(Plain(op)) = 0  BY <1>1, <1>2 DEF Due
<1>5. Fair(<<Add(Plain(op))>>, Due(Plain(op)), h, L)  BY <1>1, <1>2, <1>3, FairItem
<1>6. QED  BY <1>4, <1>5

(* Init of the device, and its closing: the answer to the last command is  *)
(* what deinit reads.                                                      *)
LEMMA Pairs == \A a, b : <<a>> \o <<b>> = <<a, b>>
<1> SUFFICES ASSUME NEW a, NEW b PROVE <<a>> \o <<b>> = <<a, b>>
  OBVIOUS
<1> DEFINE S == {a, b}
           u == <<a>>
           v == <<b>>
           t == <<a, b>>
<1>1. u \in Seq(S) /\ v \in Seq(S) /\ t \in Seq(S)  OBVIOUS
<1>2. Len(u) = 1 /\ Len(v) = 1 /\ Len(t) = 2 /\ t[1] = u[1] /\ t[2] = v[1]  OBVIOUS
<1> HIDE DEF S, u, v, t
<1>3. /\ u \o v \in Seq(S) /\ Len(u \o v) = Len(u) + Len(v)
      /\ \A i \in 1..(Len(u) + Len(v)) : (u \o v)[i] = IF i <= Len(u) THEN u[i] ELSE v[i - Len(u)]
  BY <1>1, ConcatProperties
<1>4. (u \o v)[1] = u[1] /\ (u \o v)[2] = v[2 - 1]  BY <1>2, <1>3
<1>5. \A i \in 1..2 : (u \o v)[i] = t[i]  BY <1>2, <1>4
<1>6. u \o v = t  BY <1>1, <1>2, <1>3, <1>5, SeqEqual
<1>7. QED  BY <1>6 DEF u, v, t

LEMMA Triples == \A a, b, c : <<a>> \o <<b>> \o <<c>> = <<a, b, c>>
<1> SUFFICES ASSUME NEW a, NEW b, NEW c PROVE <<a>> \o <<b>> \o <<c>> = <<a, b, c>>
  OBVIOUS
<1> DEFINE S == {a, b, c}
           u == <<a, b>>
           v == <<c>>
           t == <<a, b, c>>
<1>1. u \in Seq(S) /\ v \in Seq(S) /\ t \in Seq(S)  OBVIOUS
<1>2. Len(u) = 2 /\ Len(v) = 1 /\ Len(t) = 3 /\ t[1] = u[1] /\ t[2] = u[2] /\ t[3] = v[1]
  OBVIOUS
<1>3. <<a>> \o <<b>> = u  BY Pairs
<1> HIDE DEF S, u, v, t
<1>4. /\ u \o v \in Seq(S) /\ Len(u \o v) = Len(u) + Len(v)
      /\ \A i \in 1..(Len(u) + Len(v)) : (u \o v)[i] = IF i <= Len(u) THEN u[i] ELSE v[i - Len(u)]
  BY <1>1, ConcatProperties
<1>5. (u \o v)[1] = u[1] /\ (u \o v)[2] = u[2] /\ (u \o v)[3] = v[3 - 2]  BY <1>2, <1>4
<1>6. \A i \in 1..3 : (u \o v)[i] = t[i]
  <2>1. 3 - 2 = 1 /\ \A i \in 1..3 : i = 1 \/ i = 2 \/ i = 3  OBVIOUS
  <2>2. (u \o v)[1] = t[1] /\ (u \o v)[2] = t[2] /\ (u \o v)[3] = t[3]  BY <1>2, <1>5, <2>1
  <2>3. QED  BY <2>1, <2>2
<1>7. u \o v = t  BY <1>1, <1>2, <1>4, <1>6, SeqEqual
<1>8. QED  BY <1>3, <1>7 DEF v, t

LEMMA FairRead ==
  ASSUME NEW h \in Nat, NEW L \in [Nat -> Nat], NEW n \in 0..TX_BUF, NEW at \in Int
  PROVE  Fair(Read(n, at), - n, h, L)
<1> DEFINE now == Add(Plain("now"))
           get == [do |-> "get", n |-> n, at |-> at]
<1>1. Fair(<<now>>, 0, h, L)  BY PlainFair DEF QuietNames
<1>2. Fair(<<Send>>, 0, h, L)  BY FairSend
<1>3. Fair(<<get>>, - n, h, L)  BY FairGet
<1>4. now \in FtdiOps /\ Send \in FtdiOps /\ get \in FtdiOps /\ n \in Int
  <2>1. now \in QuietOps  BY PlainIn DEF QuietNames
  <2>2. get \in FtdiOps  BY DEF FtdiOps, Gets
  <2>3. n \in Int  BY BufferAssumption
  <2> HIDE DEF now, get
  <2>4. QED  BY <2>1, <2>2, <2>3, SendIn, QuietFtdi
<1>5. Read(n, at) = <<now, Send, get>>  BY DEF Read
<1> HIDE DEF now, get
<1>6. <<now>> \in Seq(FtdiOps) /\ <<Send>> \in Seq(FtdiOps) /\ <<get>> \in Seq(FtdiOps)
  BY <1>4, OneIn
<1>7. <<now>> \o <<Send>> \o <<get>> = <<now, Send, get>>  BY Triples
<1>8. Fair(<<now>> \o <<Send>>, 0 + 0, h, L)
  <2>1. 0 \in Int  OBVIOUS
  <2>2. QED  BY <2>1, <1>1, <1>2, <1>6, FairConcat
<1>9. <<now>> \o <<Send>> \in Seq(FtdiOps)  BY <1>6, ConcatIn
<1>10. Fair((<<now>> \o <<Send>>) \o <<get>>, (0 + 0) + (- n), h, L)
  <2>1. 0 + 0 \in Int /\ - n \in Int  BY <1>4
  <2>2. QED  BY <2>1, <1>3, <1>6, <1>8, <1>9, FairConcat
<1>11. (0 + 0) + (- n) = - n  BY <1>4
<1>12. QED  BY <1>5, <1>7, <1>10, <1>11

(* The items the scripts are made of.                                      *)
Apt(op, kd, from, n, bits, w, r) ==
  /\ op \in ClockNames \cup DataNames /\ kd \in RunKinds /\ from \in Int
  /\ n \in Nat /\ bits \in Nat /\ w \in BOOLEAN /\ r \in BOOLEAN
  /\ n <= 65536 /\ (op = "payload" => n < TX_BUF) /\ (op \in DataNames => ~w)
  /\ w \/ 8 * n <= bits + 8
ItemIs(it, op, n, bits, w, r) ==
  /\ it \in Items(0) /\ it.op = op /\ it.n = n /\ it.bits = bits /\ it.w = w /\ it.r = r
  /\ Due(it) = IF op \in ClockNames /\ r THEN n ELSE 0

LEMMA ItemIn ==
  ASSUME NEW op, NEW kd, NEW from, NEW n, NEW bits, NEW w, NEW r, Apt(op, kd, from, n, bits, w, r)
  PROVE  ItemIs(Item(op, kd, from, n, bits, w, r), op, n, bits, w, r)
<1> DEFINE it == Item(op, kd, from, n, bits, w, r)
<1> USE DEF Apt
<1>1. op \in ItemNames /\ op # "loop"  BY DEF ItemNames, ClockNames, DataNames
<1>2. it \in ItemRecords(0)
  <2>1. 0 \in 0..0  OBVIOUS
  <2>2. QED  BY <2>1, <1>1 DEF Item, ItemRecords
<1>3. it.op = op /\ it.n = n /\ it.bits = bits /\ it.w = w /\ it.r = r  BY DEF Item
<1> HIDE DEF it
<1>4. Fitting(it)  BY <1>1, <1>3 DEF Fitting
<1>5. it \in Items(0)  BY <1>2, <1>4 DEF Items
<1>6. Due(it) = IF op \in ClockNames /\ r THEN n ELSE 0  BY <1>1, <1>3 DEF Due
<1>7. QED  BY <1>3, <1>5, <1>6 DEF it, ItemIs

LEMMA FairBytes ==
  ASSUME NEW h \in Nat, NEW L \in [Nat -> Nat], NEW c, GoodCall(c), NEW from \in Int,
         NEW n \in 1..(TX_BUF - 3)
  PROVE  Fair(Bytes(c, from, n), IF c.read THEN n ELSE 0, h, L)
<1> DEFINE b == Item("bytes", "data", from, n, 8 * n, c.write, c.read)
           p == Item("payload", "data", from, n, 8 * n, FALSE, FALSE)
           d == IF c.read THEN n ELSE 0
<1>1. /\ n \in Nat /\ n <= 65536 /\ n < TX_BUF /\ n > 0 /\ 8 * n \in Nat /\ 8 * n <= 8 * n + 8
      /\ c.write \in BOOLEAN /\ c.read \in BOOLEAN
  BY BufferAssumption DEF GoodCall
<1>2. /\ "bytes" \in ClockNames /\ "payload" \in DataNames /\ "data" \in RunKinds
      /\ "bytes" \notin DataNames /\ "bytes" # "payload" /\ "bytes" # "loop" /\ "payload" \notin ClockNames
  BY DEF ClockNames, DataNames, RunKinds
<1>3. b \in Items(0) /\ b.op = "bytes" /\ b.n = n /\ b.w = c.write /\ Due(b) = d
  <2>1. Apt("bytes", "data", from, n, 8 * n, c.write, c.read)  BY <1>1, <1>2 DEF Apt
  <2>2. ItemIs(b, "bytes", n, 8 * n, c.write, c.read)  BY <2>1, ItemIn
  <2> HIDE DEF b
  <2>3. QED  BY <2>2, <1>2 DEF ItemIs
<1>4. p \in Items(0) /\ p.op = "payload" /\ p.n = n
  <2>1. Apt("payload", "data", from, n, 8 * n, FALSE, FALSE)  BY <1>1, <1>2 DEF Apt
  <2>2. ItemIs(p, "payload", n, 8 * n, FALSE, FALSE)  BY <2>1, ItemIn
  <2> HIDE DEF p
  <2>3. QED  BY <2>2 DEF ItemIs
<1>5. Bytes(c, from, n) = <<Add(b)>> \o If(c.write, <<Add(p)>>)  BY DEF Bytes
<1> HIDE DEF b, p
<1>6. CASE c.write
  <2>0. b.op \in ClockNames /\ b.w /\ p.n = b.n /\ b.n > 0  BY <1>1, <1>2, <1>3, <1>4, <1>6
  <2>1. Fair(<<Add(b)>> \o <<Add(p)>>, Due(b), h, L)
    BY <2>0, <1>3, <1>4, FairPair
  <2>2. QED  BY <2>1, <1>3, <1>5, <1>6 DEF If
<1>7. CASE ~c.write
  <2>1. Fair(<<Add(b)>>, Due(b), h, L)  BY <1>2, <1>3, <1>7, FairItem
  <2>2. <<Add(b)>> \in Seq(FtdiOps) /\ <<>> \in Seq(FtdiOps)  BY <1>3, ItemCommand, OneIn
  <2>3. d \in Int /\ 0 \in Int /\ d + 0 = d  BY <1>1
  <2> HIDE DEF d
  <2>4. Fair(<<Add(b)>> \o <<>>, d + 0, h, L)
    BY <2>1, <2>2, <2>3, <1>3, FairNone, FairConcat
  <2>5. Bytes(c, from, n) = <<Add(b)>> \o <<>>  BY <1>5, <1>7 DEF If
  <2>6. QED  BY <2>3, <2>4, <2>5 DEF d
<1>8. QED  BY <1>1, <1>6, <1>7

LEMMA FairChunk ==
  ASSUME NEW h \in Nat, NEW L \in [Nat -> Nat], NEW c, GoodCall(c), NEW x \in Int
  PROVE  Fair(FtdiChunk(c, TX_BUF - 3, x), 0, h, L)
<1> DEFINE m == TX_BUF - 3
           from == 8 * m * x
           d == IF c.read THEN m ELSE 0
           e == IF c.read THEN - m ELSE 0
<1>1. m \in 1..m /\ m \in 0..TX_BUF /\ from \in Int /\ c.read \in BOOLEAN /\ m \in Nat
  BY BufferAssumption DEF GoodCall
<1>2. m = TX_BUF - 3  OBVIOUS
<1> HIDE DEF from, m
<1>3. Bytes(c, from, m) \in Seq(FtdiOps) /\ Fair(Bytes(c, from, m), d, h, L)
  BY <1>1, <1>2, BytesIn, FairBytes
<1>4. Read(m, from) \in Seq(FtdiOps) /\ Fair(Read(m, from), - m, h, L)
  BY <1>1, ReadIn, SeqQuiet, FairRead
<1>5. If(c.read, Read(m, from)) \in Seq(FtdiOps)  BY <1>4, IfIn
<1>6. Fair(If(c.read, Read(m, from)), e, h, L)  BY <1>1, <1>4, FairIf
<1>7. d \in Int /\ e \in Int /\ d + e = 0  BY <1>1
<1> HIDE DEF d, e
<1>8. Fair(Bytes(c, from, m) \o If(c.read, Read(m, from)), d + e, h, L)
  BY <1>3, <1>5, <1>6, <1>7, FairConcat
<1>9. FtdiChunk(c, m, x) = Bytes(c, from, m) \o If(c.read, Read(m, from))  BY DEF FtdiChunk, from
<1>10. QED  BY <1>2, <1>7, <1>8, <1>9

LEMMA FairRest ==
  ASSUME NEW h \in Nat, NEW L \in [Nat -> Nat], NEW c, GoodCall(c), NEW from \in Int,
         NEW n \in 0..(TX_BUF - 3), NEW bits \in 0..7
  PROVE  Fair(FtdiRest(c, TX_BUF - 3, from, n, bits), 0, h, L)
<1> DEFINE Direct == n >= TX_BUF - 4
           end == from + 8 * n
           b == Item("bits", "data", end, 1, bits, c.write, c.read)
           p == Item("payload", "data", end, 1, bits, FALSE, FALSE)
           l == Item("last", "last", end + bits, 1, 1, FALSE, c.read)
           whole == If(n > 0, Bytes(c, from, n))
           early == If(Direct /\ c.read, Read(n, from))
           single == <<Add(b)>> \o If(c.write, <<Add(p)>>)
           some == If(bits > 0, single)
           final == If(c.last, <<Add(l)>>)
           sum == (IF Direct THEN 0 ELSE n) + (IF bits > 0 THEN 1 ELSE 0) + (IF c.last THEN 1 ELSE 0)
           place == IF Direct THEN end ELSE from
           read == If(c.read, Read(sum, place))
           one == IF c.read THEN 1 ELSE 0
           d1 == IF n > 0 THEN (IF c.read THEN n ELSE 0) ELSE 0
           d2 == IF Direct /\ c.read THEN - n ELSE 0
           d3 == IF bits > 0 THEN one ELSE 0
           d4 == IF c.last THEN one ELSE 0
           d5 == IF c.read THEN - sum ELSE 0
<1>1. /\ c.write \in BOOLEAN /\ c.read \in BOOLEAN /\ c.last \in BOOLEAN
      /\ TX_BUF \in Int /\ TX_BUF >= 32 /\ TX_BUF <= 65536 /\ bits \in Nat /\ end \in Int
      /\ n \in 0..TX_BUF /\ n \in Nat /\ 1 \in Nat /\ 1 <= 65536 /\ 1 < TX_BUF /\ 8 * 1 <= bits + 8
      /\ 8 * 1 <= 1 + 8 /\ end + bits \in Int /\ 1 > 0
  BY BufferAssumption DEF GoodCall
<1>2. /\ {"bits", "last"} \subseteq ClockNames /\ "payload" \in DataNames
      /\ {"data", "last"} \subseteq RunKinds
      /\ "bits" # "payload" /\ "bits" \notin DataNames /\ "bits" # "loop"
      /\ "last" # "payload" /\ "last" \notin DataNames /\ "last" # "loop"
  BY DEF ItemNames, ClockNames, DataNames, RunKinds
<1>3. whole \in Seq(FtdiOps) /\ Fair(whole, d1, h, L)
  <2>1. n > 0 => n \in 1..(TX_BUF - 3)  OBVIOUS
  <2>2. ASSUME n > 0
        PROVE  Bytes(c, from, n) \in Seq(FtdiOps) /\ Fair(Bytes(c, from, n), IF c.read THEN n ELSE 0, h, L)
    <3>1. n \in 1..(TX_BUF - 3)  BY <2>1, <2>2
    <3>2. Bytes(c, from, n) \in Seq(FtdiOps)  BY <3>1, BytesIn
    <3>3. Fair(Bytes(c, from, n), IF c.read THEN n ELSE 0, h, L)  BY <3>1, FairBytes
    <3>4. QED  BY <3>2, <3>3
  <2>3. (n > 0) \in BOOLEAN  OBVIOUS
  <2> HIDE DEF Direct, end, one
  <2>4. whole \in Seq(FtdiOps)  BY <2>2, IfIn
  <2>5. Fair(whole, d1, h, L)  BY <2>2, <2>3, FairIf
  <2>6. QED  BY <2>4, <2>5
<1>4. early \in Seq(FtdiOps) /\ Fair(early, d2, h, L)
  <2>0. n \in 0..TX_BUF  BY <1>1
  <2> HIDE DEF end
  <2>1. Read(n, from) \in Seq(FtdiOps) /\ Fair(Read(n, from), - n, h, L)
    BY <2>0, ReadIn, SeqQuiet, FairRead
  <2>2. (Direct /\ c.read) \in BOOLEAN  OBVIOUS
  <2>3. early \in Seq(FtdiOps)  BY <2>1, IfIn
  <2>4. Fair(early, d2, h, L)  BY <2>1, <2>2, FairIf
  <2>5. QED  BY <2>3, <2>4
<1>5. /\ b \in Items(0) /\ b.op = "bits" /\ b.n = 1 /\ b.w = c.write /\ Due(b) = one
      /\ p \in Items(0) /\ p.op = "payload" /\ p.n = 1
      /\ l \in Items(0) /\ l.op = "last" /\ ~l.w /\ Due(l) = one
  <2> HIDE DEF end
  <2>1. /\ Apt("bits", "data", end, 1, bits, c.write, c.read)
        /\ Apt("payload", "data", end, 1, bits, FALSE, FALSE)
        /\ Apt("last", "last", end + bits, 1, 1, FALSE, c.read)
    BY <1>1, <1>2 DEF Apt
  <2>2. /\ ItemIs(b, "bits", 1, bits, c.write, c.read)
        /\ ItemIs(p, "payload", 1, bits, FALSE, FALSE)
        /\ ItemIs(l, "last", 1, 1, FALSE, c.read)
    BY <2>1, ItemIn
  <2> HIDE DEF b, p, l
  <2>3. QED  BY <2>2, <1>2 DEF ItemIs
<1>6. FtdiRest(c, TX_BUF - 3, from, n, bits) = whole \o early \o some \o final \o read
  BY DEF FtdiRest
<1> HIDE DEF b, p, l
<1>7. single \in Seq(FtdiOps) /\ Fair(single, one, h, L)
  <2>1. <<Add(b)>> \in Seq(FtdiOps) /\ <<Add(p)>> \in Seq(FtdiOps)  BY <1>5, ItemCommand, OneIn
  <2>2. single \in Seq(FtdiOps)  BY <2>1, IfIn, ConcatIn
  <2>3. CASE c.write
    <3>0. b.op \in ClockNames /\ b.w /\ p.n = b.n /\ b.n > 0  BY <1>1, <1>2, <1>5, <2>3
    <3>1. Fair(<<Add(b)>> \o <<Add(p)>>, Due(b), h, L)
      BY <3>0, <1>5, FairPair
    <3>2. single = <<Add(b)>> \o <<Add(p)>>  BY <2>3 DEF If
    <3> HIDE DEF single
    <3>3. QED  BY <3>1, <3>2, <2>2, <1>5
  <2>4. CASE ~c.write
    <3>1. Fair(<<Add(b)>>, Due(b), h, L)  BY <1>2, <1>5, <2>4, FairItem
    <3>2. one \in Int /\ 0 \in Int /\ one + 0 = one  BY <1>1
    <3>3. <<>> \in Seq(FtdiOps)  OBVIOUS
    <3>4. single = <<Add(b)>> \o <<>>  BY <2>4 DEF If
    <3>5. Fair(<<>>, 0, h, L)  BY FairNone
    <3> HIDE DEF one
    <3>6. Fair(<<Add(b)>> \o <<>>, one + 0, h, L)
      BY <3>1, <3>2, <3>3, <3>5, <2>1, <1>5, FairConcat
    <3> HIDE DEF single
    <3>7. QED  BY <3>2, <3>4, <3>6, <2>2
  <2>5. QED  BY <1>1, <2>3, <2>4
<1> HIDE DEF single
<1>8. some \in Seq(FtdiOps) /\ Fair(some, d3, h, L)
  <2>1. (bits > 0) \in BOOLEAN  OBVIOUS
  <2>2. some \in Seq(FtdiOps)  BY <1>7, IfIn
  <2>3. Fair(some, d3, h, L)  BY <2>1, <1>7, FairIf
  <2>4. QED  BY <2>2, <2>3
<1>9. final \in Seq(FtdiOps) /\ Fair(final, d4, h, L)
  <2>1. <<Add(l)>> \in Seq(FtdiOps)  BY <1>5, ItemCommand, OneIn
  <2>2. Fair(<<Add(l)>>, one, h, L)
    <3>1. Fair(<<Add(l)>>, Due(l), h, L)  BY <1>2, <1>5, FairItem
    <3>2. QED  BY <3>1, <1>5
  <2>3. final \in Seq(FtdiOps)  BY <2>1, IfIn
  <2>4. Fair(final, d4, h, L)  BY <2>2, <1>1, FairIf
  <2>5. QED  BY <2>3, <2>4
<1>10. read \in Seq(FtdiOps) /\ Fair(read, d5, h, L)
  <2>1. sum \in 0..TX_BUF /\ place \in Int  BY <1>1
  <2> HIDE DEF sum, place
  <2> DEFINE w == Read(sum, place)
  <2>2. w \in Seq(FtdiOps) /\ Fair(w, - sum, h, L)
    BY <2>1, ReadIn, SeqQuiet, FairRead
  <2> HIDE DEF w, end, Direct
  <2>3. If(c.read, w) \in Seq(FtdiOps)  BY <2>2, IfIn
  <2>4. Fair(If(c.read, w), d5, h, L)  BY <2>2, <1>1, FairIf
  <2>5. QED  BY <2>3, <2>4 DEF w
<1>11. /\ d1 \in Int /\ d2 \in Int /\ d3 \in Int /\ d4 \in Int /\ d5 \in Int
       /\ d1 + d2 + d3 + d4 + d5 = 0
  <2>1. one \in Int /\ sum \in Int  BY <1>1
  <2>2. d1 \in Int /\ d2 \in Int /\ d3 \in Int /\ d4 \in Int /\ d5 \in Int
    <3> HIDE DEF one, sum, Direct
    <3> QED  BY <2>1, <1>1
  <2>3. CASE c.read
    BY <2>3, <1>1
  <2>4. CASE ~c.read
    BY <2>4, <1>1
  <2>5. QED  BY <2>2, <2>3, <2>4
<1> HIDE DEF whole, early, some, final, read, d1, d2, d3, d4, d5
<1>12. whole \o early \in Seq(FtdiOps) /\ Fair(whole \o early, d1 + d2, h, L)
  BY <1>3, <1>4, <1>11, ConcatIn, FairConcat
<1> DEFINE s2 == whole \o early
           e2 == d1 + d2
<1>13. s2 \in Seq(FtdiOps) /\ Fair(s2, e2, h, L) /\ e2 \in Int  BY <1>11, <1>12
<1> HIDE DEF s2, e2
<1>14. s2 \o some \in Seq(FtdiOps) /\ Fair(s2 \o some, e2 + d3, h, L)
  BY <1>8, <1>11, <1>13, ConcatIn, FairConcat
<1> DEFINE s3 == s2 \o some
           e3 == e2 + d3
<1>15. s3 \in Seq(FtdiOps) /\ Fair(s3, e3, h, L) /\ e3 \in Int  BY <1>11, <1>13, <1>14
<1> HIDE DEF s3, e3
<1>16. s3 \o final \in Seq(FtdiOps) /\ Fair(s3 \o final, e3 + d4, h, L)
  BY <1>9, <1>11, <1>15, ConcatIn, FairConcat
<1> DEFINE s4 == s3 \o final
           e4 == e3 + d4
<1>17. s4 \in Seq(FtdiOps) /\ Fair(s4, e4, h, L) /\ e4 \in Int  BY <1>11, <1>15, <1>16
<1> HIDE DEF s4, e4
<1>18. Fair(s4 \o read, e4 + d5, h, L)
  BY <1>10, <1>11, <1>17, FairConcat
<1>19. e4 + d5 = 0  BY <1>11 DEF e4, e3, e2
<1>20. s4 \o read = FtdiRest(c, TX_BUF - 3, from, n, bits)  BY <1>6 DEF s4, s3, s2
<1>21. QED  BY <1>18, <1>19, <1>20

LEMMA FairBlock ==
  ASSUME NEW h \in Nat, NEW L \in [Nat -> Nat], NEW c, GoodCall(c), c.op = "block"
  PROVE  Fair(FtdiBlock(c), 0, h, L)
<1> DEFINE m == TX_BUF - 3
           rem == IF c.last THEN c.len - 1 ELSE c.len
           whole == rem \div 8
           chunks == IF whole > m THEN (whole - 1) \div m ELSE 0
           parts == [x \in 1..chunks |-> FtdiChunk(c, m, x - 1)]
           V == {s \in Seq(FtdiOps) : Fair(s, 0, h, L)}
<1>1. m \in Nat \ {0} /\ m = TX_BUF - 3  BY BufferAssumption
<1>2. rem \in Nat /\ whole \in Nat /\ rem % 8 \in 0..7
  <2>1. rem \in Nat  BY DEF GoodCall
  <2> HIDE DEF rem
  <2>2. QED  BY <2>1
<1> HIDE DEF rem
<1>3. chunks \in Nat /\ m * chunks \in Int /\ whole - m * chunks \in 0..m
  <2> HIDE DEF m, whole
  <2>1. QED  BY <1>1, <1>2, Chunks
<1> HIDE DEF whole, chunks
<1>4. FlattenSeq(parts) \in V
  <2>1. \A x \in 1..chunks : FtdiChunk(c, m, x - 1) \in V
    <3> SUFFICES ASSUME NEW x \in 1..chunks PROVE FtdiChunk(c, m, x - 1) \in V
      OBVIOUS
    <3>1. x - 1 \in Int  BY <1>3
    <3>2. FtdiChunk(c, TX_BUF - 3, x - 1) \in Seq(FtdiOps)  BY <3>1, ChunkIn
    <3>3. Fair(FtdiChunk(c, TX_BUF - 3, x - 1), 0, h, L)  BY <3>1, FairChunk
    <3>4. QED  BY <3>2, <3>3
  <2>2. parts \in Seq(V)
    <3> HIDE DEF m, V
    <3>1. QED  BY <1>3, <2>1
  <2>3. <<>> \in V  BY FairNone
  <2>4. \A a, b \in V : a \o b \in V
    <3> SUFFICES ASSUME NEW a \in V, NEW b \in V PROVE a \o b \in V
      OBVIOUS
    <3>1. a \o b \in Seq(FtdiOps)  BY ConcatIn
    <3>2. 0 \in Int /\ 0 + 0 = 0  OBVIOUS
    <3>3. Fair(a \o b, 0 + 0, h, L)  BY <3>2, FairConcat
    <3>4. QED  BY <3>1, <3>2, <3>3
  <2> HIDE DEF parts, V
  <2>5. QED  BY <2>2, <2>3, <2>4, FlattenClosed
<1> DEFINE a == 8 * m * chunks
           k == whole - m * chunks
           e == rem % 8
           rest == FtdiRest(c, TX_BUF - 3, a, k, e)
<1>5. rest \in Seq(FtdiOps) /\ Fair(rest, 0, h, L)
  <2>1. a \in Int  BY <1>1, <1>3
  <2>2. k \in 0..(TX_BUF - 3) /\ e \in 0..7  BY <1>1, <1>2, <1>3
  <2> HIDE DEF a, k, e
  <2>3. QED  BY <2>1, <2>2, RestIn, FairRest
<1>6. FtdiBlock(c) = FlattenSeq(parts) \o rest
  BY DEF FtdiBlock, rem, whole, chunks
<1>7. FlattenSeq(parts) \in Seq(FtdiOps) /\ Fair(FlattenSeq(parts), 0, h, L)  BY <1>4
<1> HIDE DEF parts, rest
<1>8. 0 \in Int /\ 0 + 0 = 0  OBVIOUS
<1>9. Fair(FlattenSeq(parts) \o rest, 0 + 0, h, L)  BY <1>5, <1>7, <1>8, FairConcat
<1>10. QED  BY <1>6, <1>8, <1>9

LEMMA FairEach ==
  ASSUME NEW h \in Nat, NEW L \in [Nat -> Nat], NEW s \in Seq(FtdiOps),
         \A x \in 1..Len(s) : Fair(<<s[x]>>, 0, h, L)
  PROVE  Fair(s, 0, h, L)
<1> DEFINE n == Len(s)
           T == {k \in 0..n : Fair(SubSeq(s, 1, k), 0, h, L)}
<1>1. n \in Nat /\ \A x \in 1..n : s[x] \in FtdiOps  OBVIOUS
<1>2. 0 \in T
  <2> DEFINE z == SubSeq(s, 1, 0)
  <2>1. z = <<>>  OBVIOUS
  <2> HIDE DEF z
  <2>2. Fair(z, 0, h, L)  BY <2>1, FairNone
  <2>3. QED  BY <2>2, <1>1 DEF z
<1>3. ASSUME NEW k \in 1..n, k - 1 \in T
      PROVE  k \in T
  <2> DEFINE a == SubSeq(s, 1, k - 1)
             b == SubSeq(s, 1, k)
  <2>1. Fair(a, 0, h, L)  BY <1>3
  <2>2. a \in Seq(FtdiOps)
    <3>1. \A x \in 1..(k - 1) : s[x] \in FtdiOps  BY <1>1
    <3>2. 1 \in Int /\ k - 1 \in Int  BY <1>1
    <3>3. QED  BY <3>1, <3>2, SubSeqProperties
  <2>3. b = a \o <<s[k]>>
    <3>1. 1 \in 1..Len(s) /\ k \in 1..Len(s)  BY <1>1
    <3>2. QED  BY <3>1, SubSeqRecursiveSecond
  <2> HIDE DEF a, b
  <2>4. <<s[k]>> \in Seq(FtdiOps) /\ 0 \in Int /\ 0 + 0 = 0  BY <1>1, OneIn
  <2>5. Fair(a \o <<s[k]>>, 0 + 0, h, L)  BY <2>1, <2>2, <2>4, FairConcat
  <2>6. Fair(b, 0, h, L) /\ k \in 0..n  BY <2>3, <2>4, <2>5, <1>1
  <2>7. QED  BY <2>6 DEF b
<1> HIDE DEF T
<1>4. \A k \in 0..n : k \in T  BY <1>1, <1>2, <1>3, CountUp
<1>5. Fair(SubSeq(s, 1, n), 0, h, L)
  <2>1. n \in 0..n  BY <1>1
  <2>2. QED  BY <2>1, <1>4 DEF T
<1>6. SubSeq(s, 1, n) = s  OBVIOUS
<1>7. QED  BY <1>5, <1>6

LEMMA FairTms ==
  ASSUME NEW h \in Nat, NEW L \in [Nat -> Nat], NEW c, GoodCall(c)
  PROVE  Fair(FtdiTms(c), 0, h, L)
<1> DEFINE k == (c.len + 5) \div 6
           left(x) == c.len - 6 * (x - 1)
           bits(x) == IF left(x) > 6 THEN 6 ELSE left(x)
           it(x) == Item("tms", "tms", 6 * (x - 1), 1, bits(x), FALSE, FALSE)
           s == [x \in 1..k |-> Add(it(x))]
<1>1. c.len \in Nat  BY DEF GoodCall
<1>2. k \in Nat /\ 6 * k <= c.len + 5  BY <1>1
<1>3. "tms" \in ClockNames /\ "tms" \in RunKinds /\ "tms" # "payload" /\ "tms" \notin DataNames
      /\ "tms" # "loop"
  BY DEF ClockNames, DataNames, RunKinds
<1> HIDE DEF k
<1>4. ASSUME NEW x \in 1..k
      PROVE  Add(it(x)) \in FtdiOps /\ Fair(<<Add(it(x))>>, 0, h, L)
  <2> DEFINE b == bits(x)
             at == 6 * (x - 1)
             z == Item("tms", "tms", at, 1, b, FALSE, FALSE)
  <2>1. at \in Int /\ b \in Nat  BY <1>1, <1>2
  <2> HIDE DEF at, b
  <2>2. Apt("tms", "tms", at, 1, b, FALSE, FALSE)  BY <2>1, <1>3 DEF Apt
  <2>3. ItemIs(z, "tms", 1, b, FALSE, FALSE)  BY <2>2, ItemIn
  <2> HIDE DEF z
  <2>4. z \in Items(0) /\ z.op = "tms" /\ ~z.w /\ Due(z) = 0  BY <2>3 DEF ItemIs
  <2>5. Fair(<<Add(z)>>, Due(z), h, L)  BY <2>4, <1>3, FairItem
  <2>6. Add(z) \in FtdiOps /\ Fair(<<Add(z)>>, 0, h, L)  BY <2>4, <2>5, ItemCommand
  <2>7. QED  BY <2>6 DEF z, at, b
<1> HIDE DEF it, bits
<1>5. s \in Seq(FtdiOps) /\ Len(s) = k /\ \A x \in 1..k : s[x] = Add(it(x))
  <2>1. \A x \in 1..k : Add(it(x)) \in FtdiOps  BY <1>4
  <2>2. s \in Seq(FtdiOps)  BY <2>1, <1>2
  <2>3. QED  BY <2>2, <1>2
<1>6. FtdiTms(c) = s
  BY DEF FtdiTms, k, it, bits
<1> HIDE DEF s
<1>7. \A x \in 1..Len(s) : Fair(<<s[x]>>, 0, h, L)  BY <1>4, <1>5
<1>8. Fair(s, 0, h, L)  BY <1>5, <1>7, FairEach
<1>9. QED  BY <1>6, <1>8

(* Ticks is what it is meant to be where the product fits 32 bits.         *)
LEMMA TicksAre ==
  ASSUME freq \in Nat, NEW usec \in Nat, NEW F \in Nat, F > 0, F = tck_freq \div 100,
         usec * F + F <= 4294967296
  PROVE  Ticks(usec) = (usec * F + F - 1) \div 10000
<1> DEFINE a == F \div 65536
           b == F % 65536
           low == usec * b + F - 1
           lq == low \div 65536
           lr == low % 65536
           high == (usec * a + lq) % 65536
           X == usec * F + F - 1
<1>1. a \in Nat /\ b \in Nat /\ b < 65536 /\ F = 65536 * a + b  OBVIOUS
<1>2. Ticks(usec) = 6 * high + ((5536 * high + lr) \div 10000)
  BY DEF Ticks
<1> HIDE DEF a, b
<1>3. usec * F = 65536 * (usec * a) + usec * b /\ usec * a \in Nat /\ usec * b \in Nat /\ usec * F \in Nat
  BY <1>1
<1> DEFINE ua == usec * a
           ub == usec * b
           uF == usec * F
<1>4. ua \in Nat /\ ub \in Nat /\ uF \in Nat /\ uF = 65536 * ua + ub /\ uF + F <= 4294967296
  BY <1>3
<1>5. low = ub + F - 1 /\ X = uF + F - 1 /\ high = (ua + lq) % 65536  OBVIOUS
<1> HIDE DEF ua, ub, uF, low, X, high
<1> HIDE DEF lq
<1>6. low \in Nat /\ X \in Nat /\ X = 65536 * ua + low
  <2>1. low = ub + F - 1 /\ X = uF + F - 1  BY <1>5
  <2>2. ua \in Nat /\ ub \in Nat /\ uF \in Nat /\ uF = 65536 * ua + ub  BY <1>4
  <2>3. low \in Nat  BY <2>1, <2>2, SMT
  <2>4. QED  BY <2>1, <2>2, <2>3, SMT
<1>7. lq \in Nat /\ lr \in Nat /\ lr < 65536 /\ low = 65536 * lq + lr  BY <1>6 DEF lq
<1> HIDE DEF lr
<1>8. X = 65536 * (ua + lq) + lr  BY <1>4, <1>6, <1>7
<1>9. ua + lq \in Nat /\ ua + lq < 65536  BY <1>4, <1>5, <1>7, <1>8
<1>10. high = ua + lq  BY <1>4, <1>5, <1>7, <1>9, SMT
<1>11. X = 65536 * high + lr /\ high \in Nat  BY <1>8, <1>9, <1>10
<1> DEFINE y == 5536 * high + lr
           q == y \div 10000
           r == y % 10000
<1>12. q \in Nat /\ r \in Nat /\ r < 10000 /\ y = 10000 * q + r  BY <1>7, <1>11
<1>13. y = 5536 * high + lr  OBVIOUS
<1> HIDE DEF y, r, q
<1>14. X = 10000 * (6 * high + q) + r  BY <1>7, <1>11, <1>12, <1>13
<1>15. 6 * high + q \in Nat  BY <1>11, <1>12
<1>16. X \div 10000 = 6 * high + q
  <2> DEFINE z == 6 * high + q
  <2>1. z \in Nat /\ X = 10000 * z + r /\ r \in Nat /\ r < 10000  BY <1>12, <1>14, <1>15
  <2> HIDE DEF z
  <2>2. X \div 10000 = z  BY <2>1
  <2>3. QED  BY <2>2 DEF z
<1>17. Ticks(usec) = 6 * high + q  BY <1>2 DEF q, y
<1>18. QED  BY <1>16, <1>17 DEF X, uF

(* They are enough, and on the slow devices they never come to 8*65536.    *)
LEMMA TicksEnough ==
  ASSUME freq \in Nat, NEW usec \in Nat, FitsIn32(usec)
  PROVE  Needed(usec) \in Nat /\ Needed(usec) <= Ticks(usec)
<1> DEFINE F == tck_freq \div 100
<1>1. tck_freq \in Nat  BY TckNat
<1>2. F \in Nat /\ F = tck_freq \div 100  BY <1>1
<1>3. Ticks(usec) \in Nat  BY TicksNat
<1> DEFINE a == F \div 10000
           b == F % 10000
           w == IF F < 10000 THEN 0 ELSE 9999
           v == usec * b + w
           q == v \div 10000
           r == v % 10000
<1>4. Needed(usec) = usec * a + q  BY DEF Needed
<1> HIDE DEF F
<1>5. a \in Nat /\ b \in Nat /\ b < 10000 /\ F = 10000 * a + b  BY <1>2
<1> HIDE DEF a, b
<1>6. usec * F = 10000 * (usec * a) + usec * b /\ usec * a \in Nat /\ usec * b \in Nat /\ usec * F \in Nat
  BY <1>5, <1>2
<1> DEFINE ua == usec * a
           ub == usec * b
           uF == usec * F
<1>7. ua \in Nat /\ ub \in Nat /\ uF \in Nat /\ uF = 10000 * ua + ub  BY <1>6
<1>8. v = ub + w /\ w \in Nat /\ Needed(usec) = ua + q  BY <1>4
<1> HIDE DEF v
<1>9. v \in Nat  BY <1>7, <1>8
<1>10. q \in Nat /\ r \in Nat /\ r < 10000 /\ v = 10000 * q + r  BY <1>9
<1> HIDE DEF q, r
<1>11. Needed(usec) \in Nat
  <2> HIDE DEF ua
  <2> QED  BY <1>7, <1>8, <1>10
<1>12. CASE F = 0
  <2>1. F < 10000 /\ usec * F = 0  BY <1>12
  <2>2. ua = 0 /\ ub = 0 /\ w = 0
    <3>1. uF = 0 /\ w = 0  BY <2>1
    <3> HIDE DEF ua, ub, uF, w
    <3>2. QED  BY <3>1, <1>7
  <2> HIDE DEF ua, ub, uF, w
  <2>3. q = 0  BY <2>2, <1>8, <1>10
  <2>4. QED  BY <2>2, <2>3, <1>3, <1>8
<1>13. CASE F > 0
  <2> DEFINE M == 2147483647
             m == M \div F
  <2>1. M \in Int /\ F \in Nat /\ F > 0  BY <1>2, <1>13
  <2>2. m \in Int /\ M = F * m + (M % F) /\ M % F \in 0..(F - 1)
    <3> HIDE DEF M
    <3> QED  BY <2>1, Multiples
  <2>3. usec + 1 <= 2 * m  BY <1>13 DEF FitsIn32, F
  <2> HIDE DEF m
  <2>4. uF + F <= 2 * M
    <3>1. usec + 1 < 2 * m => F * (usec + 1) + F <= F * (2 * m)
      <4>1. usec + 1 \in Int /\ 2 * m \in Int  BY <2>2
      <4>2. QED  BY <4>1, <2>1, Order
    <3>2. F * (usec + 1) <= F * (2 * m)
      <4>1. F * (usec + 1) \in Int /\ F * (2 * m) \in Int  BY <2>1, <2>2
      <4>2. usec + 1 = 2 * m => F * (usec + 1) = F * (2 * m)  OBVIOUS
      <4>3. usec + 1 < 2 * m \/ usec + 1 = 2 * m  BY <2>2, <2>3
      <4>4. QED  BY <4>1, <4>2, <4>3, <3>1, <2>1
    <3>3. F * (usec + 1) = uF + F /\ F * (2 * m) = 2 * (F * m) /\ F * m \in Int
      BY <2>1, <2>2
    <3> DEFINE Fm == F * m
               Mr == M % F
    <3>4. Fm \in Int /\ Mr \in Nat /\ M = Fm + Mr  BY <2>1, <2>2
    <3>5. uF + F <= 2 * Fm  BY <3>2, <3>3
    <3> HIDE DEF Fm, Mr, uF
    <3>6. QED  BY <3>4, <3>5, <1>7, <2>1
  <2>5. Ticks(usec) = (usec * F + F - 1) \div 10000
    <3>1. usec * F + F <= 4294967296  BY <2>4, <1>7, <1>2
    <3>2. QED  BY <3>1, <1>2, <1>13, TicksAre
  <2> DEFINE X == uF + F - 1
             xq == X \div 10000
             xr == X % 10000
  <2>6. Ticks(usec) = xq  BY <2>5
  <2> HIDE DEF uF, ua, ub
  <2>7. X \in Nat  BY <1>7, <1>2, <1>13
  <2>8. X = uF + F - 1  OBVIOUS
  <2> HIDE DEF X
  <2>9. xq \in Nat /\ xr \in Nat /\ xr < 10000 /\ X = 10000 * xq + xr  BY <2>7
  <2> HIDE DEF xq, xr
  <2>10. uF + w <= X  BY <2>8, <1>7, <1>2, <1>13
  <2> HIDE DEF w
  <2>11. 10000 * (ua + q) + r <= 10000 * xq + xr
    BY <2>9, <2>10, <1>7, <1>8, <1>10
  <2>12. ua + q <= xq  BY <2>9, <2>11, <1>7, <1>10
  <2>13. QED  BY <2>6, <2>12, <1>8, <1>11
<1>14. QED  BY <1>2, <1>11, <1>12, <1>13

LEMMA SlowTicks ==
  ASSUME freq \in Nat, NEW usec \in Nat, usec < 20000, ~Fast
  PROVE  Ticks(usec) < 8 * 65536
<1> DEFINE F == tck_freq \div 100
<1>1. tck_freq \in Nat /\ tck_freq <= 6000000  BY TckNat
<1>2. F \in Nat /\ F = tck_freq \div 100 /\ F <= 60000  BY <1>1
<1>3. CASE F = 0
  <2> DEFINE d == 65536
             e == 0 - 1
  <2>1. d \in Nat /\ d > 0 /\ d = 65536 /\ e \in Int /\ e = -1  OBVIOUS
  <2> HIDE DEF d, e
  <2>2. e \div d = e /\ e % d = 65535
    <3> DEFINE q == e \div d
               r == e % d
    <3>1. r \in 0..(d - 1) /\ e = d * q + r /\ q \in Int
      <4>1. d \in Nat /\ d > 0 /\ e \in Int  BY <2>1, SMTT(30)
      <4>2. QED  BY ONLY <4>1, SMT
    <3> HIDE DEF q, r
    <3>2. r \in Int /\ 0 <= r /\ r < 65536 /\ -1 = 65536 * q + r  BY <3>1, <2>1
    <3>3. q = -1 /\ r = 65535  BY <3>1, <3>2, SMT
    <3>4. QED  BY <3>3, <2>1 DEF q, r
  <2>4. F % d = 0 /\ F \div d = 0 /\ usec * 0 = 0  BY <1>3, <2>1
  <2> DEFINE low == (usec * (F % 65536)) + F - 1
             high == ((usec * (F \div 65536)) + (low \div 65536)) % 65536
  <2>5. Ticks(usec) = (6 * high) + (((5536 * high) + (low % 65536)) \div 10000)
    BY DEF Ticks, F
  <2> HIDE DEF F
  <2>6. low = e /\ low \div 65536 = e /\ low % 65536 = 65535
    <3>1. low = e  BY <2>1, <2>4, <1>3 DEF e
    <3> HIDE DEF low
    <3>2. QED  BY <3>1, <2>1, <2>2
  <2> HIDE DEF low
  <2>7. high = 65535
    <3> DEFINE z == usec * (F \div 65536)
    <3>1. high = (z + e) % 65536  BY <2>6
    <3>2. z = 0  BY <2>1, <2>4
    <3> HIDE DEF z, high
    <3>3. z + e = e  BY <3>2, <2>1
    <3>4. high = e % d
      <4>1. high = e % 65536  BY ONLY <3>1, <3>3
      <4>2. QED  BY ONLY <4>1, <2>1
    <3>5. QED  BY <3>4, <2>2
  <2> HIDE DEF high
  <2>8. QED  BY <2>5, <2>6, <2>7
<1>4. CASE F > 0
  <2> HIDE DEF F
  <2>1. usec * F <= 1200000000 /\ usec * F \in Nat
    <3>1. F * usec <= F * 20000
      <4>1. F * usec + F <= F * 20000  BY <1>2, <1>4, Order
      <4>2. F * usec \in Int  BY <1>2
      <4>3. QED  BY <4>1, <4>2, <1>2
    <3>2. F * usec = usec * F /\ usec * F \in Nat  BY <1>2
    <3>3. QED  BY <3>1, <3>2, <1>2
  <2> DEFINE uF == usec * F
  <2>2. uF \in Nat /\ uF <= 1200000000 /\ uF + F <= 4294967296
    <3>1. uF \in Nat /\ uF <= 1200000000  BY <2>1
    <3> HIDE DEF uF
    <3>2. QED  BY <3>1, <1>2
  <2>3. Ticks(usec) = (uF + F - 1) \div 10000  BY <2>2, <1>2, <1>4, TicksAre
  <2> HIDE DEF uF
  <2>4. QED  BY <2>2, <2>3, <1>2, <1>4
<1>5. QED  BY <1>2, <1>3, <1>4

LEMMA FairSetup ==
  ASSUME NEW h \in Nat, NEW L \in [Nat -> Nat]
  PROVE  Fair(FtdiSetup, 0, h, L)
<1> DEFINE one(op) == <<Add(Plain(op)), Send>>
<1>1. ASSUME NEW op \in {"setup", "divisor"}
      PROVE  one(op) \in Seq(FtdiOps) /\ Fair(one(op), 0, h, L)
  <2>1. op \in QuietNames /\ op # "loop"  BY DEF QuietNames
  <2> DEFINE a == <<Add(Plain(op))>>
             b == <<Send>>
  <2>2. Fair(a, 0, h, L) /\ Fair(b, 0, h, L)  BY <2>1, PlainFair, FairSend
  <2>3. a \in Seq(FtdiOps) /\ b \in Seq(FtdiOps)
    BY <2>1, PlainIn, QuietFtdi, SendIn, OneIn
  <2>4. a \o b = one(op)  BY Pairs
  <2> HIDE DEF a, b
  <2>5. a \o b \in Seq(FtdiOps)  BY <2>3, ConcatIn
  <2>6. Fair(a \o b, 0 + 0, h, L)
    <3>1. 0 \in Int  OBVIOUS
    <3>2. QED  BY <3>1, <2>2, <2>3, FairConcat
  <2>7. 0 + 0 = 0  OBVIOUS
  <2>8. QED  BY <2>4, <2>5, <2>6, <2>7
<1> DEFINE s == one("setup")
           d == one("divisor")
           t == If(UsesFastClock(freq), d)
<1>2. s \in Seq(FtdiOps) /\ Fair(s, 0, h, L) /\ d \in Seq(FtdiOps) /\ Fair(d, 0, h, L)
  BY <1>1
<1>3. FtdiSetup = s \o t  BY DEF FtdiSetup
<1> HIDE DEF s, d
<1>4. t \in Seq(FtdiOps)  BY <1>2, IfIn
<1>5. Fair(t, 0, h, L)
  <2>1. CASE UsesFastClock(freq)  BY <2>1, <1>2 DEF If
  <2>2. CASE ~UsesFastClock(freq)  BY <2>2, FairNone DEF If
  <2>3. QED  BY <2>1, <2>2
<1> HIDE DEF t
<1>6. Fair(s \o t, 0 + 0, h, L)
  <2>1. 0 \in Int  OBVIOUS
  <2>2. QED  BY <2>1, <1>2, <1>4, <1>5, FairConcat
<1>7. 0 + 0 = 0  OBVIOUS
<1>8. QED  BY <1>3, <1>6, <1>7

(* Bytes of answers are taken.                                             *)
Taken(p, n) == [p EXCEPT !.owed = @ - n]

LEMMA TakenIs ==
  ASSUME NEW p \in Ideal, NEW n \in Int
  PROVE  /\ Taken(p, n) \in Ideal /\ Taken(p, n).owed = p.owed - n
         /\ Taken(p, n).need = p.need /\ Taken(p, n).clocks = p.clocks
         /\ Taken(p, n).drained = p.drained
BY DEF Taken, Ideal

Drains(p, q) ==
  q \in Ideal /\ q.need = 0 /\ q.owed = p.owed /\ q.drained /\ q.clocks = p.clocks

LEMMA DeinitDrains ==
  ASSUME NEW h \in Nat, NEW L \in [Nat -> Nat], NEW p \in Ideal, p.need = 0
  PROVE  \E q : Drains(p, q) /\ Leads(deinit_script, p, q, Turns(h, L))
<1> DEFINE loop == [Plain("loop") EXCEPT !.n = 5, !.bits = 40]
           now == Plain("now")
           get == [do |-> "get", n |-> 5, at |-> -1]
           close == [do |-> "close"]
           S == FtdiOps \cup Ends
<1>1. loop \in Items(0) /\ loop.op = "loop" /\ loop.n = 5 /\ ~loop.w
  <2>1. Plain("loop") \in Items(0) /\ Plain("loop").op = "loop"  BY PlainIn DEF QuietNames
  <2>2. Plain("loop") \in ItemRecords(0)  BY <2>1 DEF Items
  <2>3. loop \in ItemRecords(0)  BY <2>2 DEF ItemRecords
  <2>4. loop.op = "loop" /\ loop.n = 5 /\ loop.bits = 40 /\ loop.w = Plain("loop").w
    BY <2>1, <2>2 DEF ItemRecords
  <2>5. ~loop.w  BY <2>1, <2>4 DEF Items, Fitting
  <2> HIDE DEF loop
  <2>6. Fitting(loop)  BY <2>4, <2>5 DEF Fitting
  <2>7. QED  BY <2>3, <2>4, <2>5, <2>6 DEF Items
<1>2. now \in Items(0) /\ now.op = "now" /\ ~now.w /\ now.op \notin DataNames /\ now.op \notin ClockNames
  <2>1. now \in Items(0) /\ now.op = "now"  BY PlainIn DEF QuietNames
  <2>2. ~now.w  BY DEF Plain, Item
  <2>3. QED  BY <2>1, <2>2 DEF DataNames, ClockNames
<1>3. deinit_script = <<Add(loop)>> \o (<<Add(now)>> \o <<Send>> \o <<get>>) \o <<close>>
  BY Triples DEF deinit_script, Read
<1> HIDE DEF loop, now
<1>4. loop.op \notin DataNames /\ loop.op \notin ClockNames  BY <1>1 DEF DataNames, ClockNames
<1> DEFINE u == After(p, loop, h)
           v == [u EXCEPT !.owed = @ - 5]
<1>5. u \in Ideal /\ u.need = 0 /\ u.owed = p.owed + 5 /\ u.drained /\ u.clocks = p.clocks
      /\ Carries(p, loop, u, h, L)
  <2>1. /\ u.need = 0 /\ u.owed = p.owed + 5 /\ u.clocks = p.clocks /\ u.drained
    BY <1>1, <1>4 DEF After, Due, Runs
  <2>2. ~Runs(loop)  BY <1>4 DEF Runs
  <2>3. Carries(p, loop, u, h, L)
    <3>1. /\ u.need = IF loop.op \in DataNames THEN p.need - loop.n ELSE IF loop.w THEN loop.n ELSE 0
          /\ u.owed = p.owed + Due(loop)
          /\ u.clocks = IF Runs(loop) THEN [p.clocks EXCEPT ![h] = @ + loop.bits] ELSE p.clocks
          /\ u.drained = IF Runs(loop) THEN FALSE ELSE p.drained \/ loop.op = "loop"
      BY DEF After
    <3>2. Welcome(p, loop)  BY <1>1, <1>4 DEF Welcome
    <3> HIDE DEF u
    <3>3. QED  BY <2>2, <3>1, <3>2 DEF Carries, Welcome
  <2>4. u \in Ideal
    <3>1. u = [need |-> u.need, owed |-> u.owed, clocks |-> u.clocks, drained |-> u.drained]
      BY DEF After
    <3>2. u.drained \in BOOLEAN  BY <2>2 DEF After, Ideal
    <3>3. p.owed \in Int /\ p.clocks \in [Nat -> Nat]  BY DEF Ideal
    <3> HIDE DEF u
    <3>4. u.need \in Nat /\ u.owed \in Int /\ u.clocks \in [Nat -> Nat]  BY <2>1, <3>3
    <3>5. QED  BY <3>1, <3>2, <3>4 DEF Ideal
  <2>5. QED  BY <2>1, <2>3, <2>4
<1> HIDE DEF u
<1>6. v \in Ideal /\ v.need = 0 /\ v.owed = p.owed /\ v.drained /\ v.clocks = p.clocks
  <2>1. u.owed \in Int /\ p.owed \in Int  BY <1>5 DEF Ideal
  <2>2. v = Taken(u, 5)  BY DEF Taken
  <2> HIDE DEF v
  <2>3. v \in Ideal /\ v.need = u.need /\ v.owed = u.owed - 5 /\ v.drained = u.drained
        /\ v.clocks = u.clocks
    <3>1. u \in Ideal /\ 5 \in Int  BY <1>5
    <3>2. QED  BY <2>2, <3>1, TakenIs
  <2>4. QED  BY <1>5, <2>1, <2>3
<1>7. Leads(<<Add(loop)>>, p, u, Turns(h, L))  BY <1>1, <1>5, AddTurns
<1>8. Leads(<<Add(now)>>, u, u, Turns(h, L))
  <2>1. ~Runs(now) /\ Due(now) = 0  BY <1>2 DEF Runs, Due
  <2>2. u.owed = u.owed + 0 /\ u.drained = (u.drained \/ now.op = "loop")
    <3>1. u.owed \in Int /\ u.drained \in BOOLEAN  BY <1>5 DEF Ideal
    <3>2. QED  BY <3>1, <1>2
  <2>3. Carries(u, now, u, h, L)  BY <2>1, <2>2, <1>2, <1>5 DEF Carries
  <2>4. QED  BY <2>3, <1>2, <1>5, AddTurns
<1>9. Leads(<<Send>>, u, u, Turns(h, L))
  <2>1. Send \in S  BY SendIn, QuietFtdi
  <2>2. Turn(u, Send, u, h, L)  BY DEF Turn, Send
  <2>3. QED  BY <2>1, <2>2, <1>5, TurnIs, LeadsOne
<1>10. get \in FtdiOps /\ get.do = "get" /\ get.n = 5 /\ close \in Ends /\ close.do = "close"
  BY BufferAssumption DEF FtdiOps, Gets, Ends
<1> HIDE DEF get, close
<1>11. Leads(<<get>>, u, v, Turns(h, L))
  <2>1. Turn(u, get, v, h, L)  BY <1>10 DEF Turn
  <2> HIDE DEF v
  <2>2. QED  BY <2>1, <1>5, <1>6, <1>10, TurnIs, LeadsOne
<1> HIDE DEF v
<1>12. Leads(<<close>>, v, v, Turns(h, L))
  <2>1. Turn(v, close, v, h, L)  BY <1>10 DEF Turn
  <2>2. QED  BY <2>1, <1>6, <1>10, TurnIs, LeadsOne
<1>13. <<Add(loop)>> \in Seq(S) /\ <<Add(now)>> \in Seq(S) /\ <<Send>> \in Seq(S)
       /\ <<get>> \in Seq(S) /\ <<close>> \in Seq(S)
  <2>1. Add(loop) \in S /\ Add(now) \in S /\ Send \in S /\ get \in S /\ close \in S
    BY <1>1, <1>2, <1>10, ItemCommand, SendIn, QuietFtdi
  <2> HIDE DEF S
  <2>2. QED  BY <2>1, OneIn
<1> HIDE DEF S
<1>14. <<Add(now)>> \o <<Send>> \in Seq(S) /\ Leads(<<Add(now)>> \o <<Send>>, u, u, Turns(h, L))
  BY <1>8, <1>9, <1>13, ConcatIn, LeadsConcat
<1> DEFINE r == <<Add(now)>> \o <<Send>> \o <<get>>
<1>15. r \in Seq(S) /\ Leads(r, u, v, Turns(h, L))
  BY <1>11, <1>13, <1>14, ConcatIn, LeadsConcat
<1> HIDE DEF r
<1>16. <<Add(loop)>> \o r \in Seq(S) /\ Leads(<<Add(loop)>> \o r, p, v, Turns(h, L))
  BY <1>7, <1>13, <1>15, ConcatIn, LeadsConcat
<1>17. Leads(<<Add(loop)>> \o r \o <<close>>, p, v, Turns(h, L))
  BY <1>12, <1>13, <1>16, LeadsConcat
<1>18. Leads(deinit_script, p, v, Turns(h, L))  BY <1>3, <1>17 DEF r
<1>19. QED  BY <1>6, <1>18 DEF Drains

------------------------------------------------------------------------------
(***************************************************************************)
(* The script of a sleep gives its call g clocks.                          *)
(***************************************************************************)
Rests(s, g, p, q, h, L) == Lands(s, 0, p, q, h, L) /\ p.clocks[h] + g <= q.clocks[h]
Idles(s, g, h, L) == \A p : Opens(p, h, L) => \E q : Rests(s, g, p, q, h, L)

LEMMA IdlesFair ==
  ASSUME NEW h \in Nat, NEW L, NEW s, Fair(s, 0, h, L)
  PROVE  Idles(s, 0, h, L)
<1> SUFFICES ASSUME NEW p, Opens(p, h, L) PROVE \E q : Rests(s, 0, p, q, h, L)
  BY DEF Idles
<1>1. PICK q : Lands(s, 0, p, q, h, L)  BY DEF Fair
<1>2. p.clocks[h] \in Nat /\ p.clocks[h] <= q.clocks[h]  BY <1>1 DEF Opens, Lands, Grows, Ideal
<1>3. p.clocks[h] + 0 <= q.clocks[h]  BY <1>2
<1>4. QED  BY <1>1, <1>3 DEF Rests

LEMMA IdlesLess ==
  ASSUME NEW h \in Nat, NEW L, NEW s, NEW g \in Nat, NEW e \in Nat, e <= g, Idles(s, g, h, L)
  PROVE  Idles(s, e, h, L)
<1> SUFFICES ASSUME NEW p, Opens(p, h, L) PROVE \E q : Rests(s, e, p, q, h, L)
  BY DEF Idles
<1>1. PICK q : Rests(s, g, p, q, h, L)  BY DEF Idles
<1>2. p.clocks[h] \in Nat /\ q.clocks[h] \in Nat  BY <1>1 DEF Opens, Rests, Lands, Ideal
<1>3. p.clocks[h] + e <= q.clocks[h]  BY <1>1, <1>2 DEF Rests
<1>4. QED  BY <1>1, <1>3 DEF Rests

LEMMA IdlesConcat ==
  ASSUME NEW h \in Nat, NEW L \in [Nat -> Nat], NEW g \in Nat, NEW e \in Nat,
         NEW s \in Seq(FtdiOps), NEW t \in Seq(FtdiOps), Idles(s, g, h, L), Idles(t, e, h, L)
  PROVE  Idles(s \o t, g + e, h, L)
<1> SUFFICES ASSUME NEW p, Opens(p, h, L) PROVE \E q : Rests(s \o t, g + e, p, q, h, L)
  BY DEF Idles
<1>1. PICK u : Rests(s, g, p, u, h, L)  BY DEF Idles
<1>2. p \in Ideal /\ u \in Ideal /\ Lands(s, 0, p, u, h, L)  BY <1>1 DEF Opens, Lands, Rests
<1>3. Opens(u, h, L)  BY <1>2, GrowsOn DEF Opens, Lands
<1>4. PICK q : Rests(t, e, u, q, h, L)  BY <1>3 DEF Idles
<1>5. q \in Ideal /\ q.need = 0 /\ Grows(p, q) /\ Lands(t, 0, u, q, h, L)
  BY <1>2, <1>4, GrowsOn DEF Lands, Rests
<1>6. q.owed = p.owed + 0
  <2> DEFINE x == p.owed
             y == u.owed
             z == q.owed
  <2>1. x \in Int /\ y \in Int /\ z \in Int /\ y = x + 0 /\ z = y + 0
    BY <1>2, <1>5 DEF Lands, Ideal
  <2> HIDE DEF x, y, z
  <2>2. z = x + 0  BY ONLY <2>1
  <2>3. QED  BY <2>2 DEF x, z
<1>7. Leads(s \o t, p, q, Turns(h, L))  BY <1>2, <1>5, LeadsConcat DEF Lands
<1>8. p.clocks[h] + (g + e) <= q.clocks[h]
  <2> DEFINE x == p.clocks[h]
             y == u.clocks[h]
             z == q.clocks[h]
  <2>1. x \in Nat /\ y \in Nat /\ z \in Nat /\ g \in Nat /\ e \in Nat
    BY <1>2, <1>5 DEF Ideal
  <2>2. x + g <= y /\ y + e <= z  BY <1>1, <1>4 DEF Rests
  <2> HIDE DEF x, y, z
  <2>3. x + (g + e) <= z  BY ONLY <2>1, <2>2
  <2>4. QED  BY <2>3 DEF x, z
<1>9. QED  BY <1>5, <1>6, <1>7, <1>8 DEF Lands, Rests

LEMMA IdlesIf ==
  ASSUME NEW h \in Nat, NEW L, NEW g, NEW s, NEW cond \in BOOLEAN, cond => Idles(s, g, h, L)
  PROVE  Idles(If(cond, s), IF cond THEN g ELSE 0, h, L)
<1>1. Idles(<<>>, 0, h, L)  BY FairNone, IdlesFair
<1>2. QED  BY <1>1 DEF If

LEMMA IdlesItem ==
  ASSUME NEW h \in Nat, NEW L \in [Nat -> Nat], NEW it \in Items(0), it.op \in ClockNames,
         ~it.w, ~it.r
  PROVE  Idles(<<Add(it)>>, it.bits, h, L)
<1> SUFFICES ASSUME NEW p, Opens(p, h, L) PROVE Rests(<<Add(it)>>, it.bits, p, After(p, it, h), h, L)
  BY DEF Idles
<1>0. it.op \notin DataNames /\ it.op # "loop"  BY DEF ClockNames, DataNames
<1>1. p \in Ideal /\ Served(p, h, L) /\ Welcome(p, it)  BY <1>0 DEF Opens, Welcome
<1>2. /\ After(p, it, h) \in Ideal /\ Carries(p, it, After(p, it, h), h, L)
      /\ Grows(p, After(p, it, h))
      /\ After(p, it, h).clocks[h] = p.clocks[h] + (IF Runs(it) THEN it.bits ELSE 0)
  BY <1>1, ItemCommand, AfterIs
<1>3. Due(it) = 0 /\ Runs(it)  BY <1>0 DEF Due, Runs
<1>4. After(p, it, h).need = 0 /\ After(p, it, h).owed = p.owed + 0  BY <1>0, <1>3 DEF After
<1>5. p.clocks[h] + it.bits <= After(p, it, h).clocks[h]
  <2>1. p.clocks[h] \in Nat /\ it.bits \in Nat  BY <1>1, ItemCommand DEF Ideal, Commands
  <2>2. After(p, it, h).clocks[h] = p.clocks[h] + it.bits  BY <1>2, <1>3
  <2>3. QED  BY <2>1, <2>2
<1>6. QED  BY <1>1, <1>2, <1>4, <1>5, AddTurns DEF Lands, Rests

LEMMA IdlesFast ==
  ASSUME NEW h \in Nat, NEW L \in [Nat -> Nat], NEW t \in Nat
  PROVE  /\ Idles(IdleFast(t), 0, h, L)
         /\ t < 8 * 65536 => Idles(IdleFast(t), t, h, L)
<1> DEFINE bytes == IF t > 8 THEN ((t \div 8) % 65536) + 1 ELSE 0
           bits == IF t > 8 THEN t % 8 ELSE t
           a == Item("idlebytes", "idle", 0, bytes, 8 * bytes, FALSE, FALSE)
           b == Item("idlebits", "idle", 8 * bytes, 1, bits, FALSE, FALSE)
<1>1. bytes \in Nat /\ bytes <= 65536 /\ bits \in Nat
      /\ (t < 8 * 65536 =>
            t <= (IF t > 8 THEN 8 * bytes ELSE 0) + (IF bits > 0 THEN bits ELSE 0))
  <2> DEFINE q == t \div 8
             m == t % 8
  <2>1. q \in Nat /\ m \in 0..7 /\ t = 8 * q + m  OBVIOUS
  <2> HIDE DEF q, m
  <2> DEFINE u == q % 65536
  <2>2. u \in Nat /\ u + 1 <= 65536  BY <2>1, Words
  <2>3. t < 8 * 65536 => u = q
    <3> SUFFICES ASSUME t < 8 * 65536 PROVE u = q
      OBVIOUS
    <3>1. q \in Nat /\ q < 65536  BY <2>1
    <3>2. QED  BY ONLY <3>1, SMT DEF u
  <2>4. bytes = IF t > 8 THEN u + 1 ELSE 0  BY DEF q
  <2>5. bits = IF t > 8 THEN m ELSE t  BY DEF m
  <2> HIDE DEF bytes, bits, u
  <2>6. bytes \in Nat /\ bytes <= 65536  BY <2>2, <2>4
  <2>7. bits \in Nat  BY <2>1, <2>5
  <2>8. t < 8 * 65536 =>
          t <= (IF t > 8 THEN 8 * bytes ELSE 0) + (IF bits > 0 THEN bits ELSE 0)
    BY <2>1, <2>2, <2>3, <2>4, <2>5
  <2>9. QED  BY <2>6, <2>7, <2>8
<1> HIDE DEF bytes, bits
<1>2. ItemIs(a, "idlebytes", bytes, 8 * bytes, FALSE, FALSE) /\ ItemIs(b, "idlebits", 1, bits, FALSE, FALSE)
  <2>1. /\ "idlebytes" \in ClockNames /\ "idlebits" \in ClockNames /\ "idle" \in RunKinds
        /\ "idlebytes" # "payload" /\ "idlebits" # "payload"
        /\ "idlebytes" \notin DataNames /\ "idlebits" \notin DataNames
    BY DEF ClockNames, DataNames, RunKinds
  <2>2. /\ 8 * bytes \in Nat /\ 8 * bytes \in Int /\ 8 * bytes <= 8 * bytes + 8 /\ 0 \in Int
        /\ 1 \in Nat /\ 1 <= 65536 /\ 8 * 1 <= bits + 8
    BY <1>1
  <2>3. Apt("idlebytes", "idle", 0, bytes, 8 * bytes, FALSE, FALSE)
    BY <1>1, <2>1, <2>2 DEF Apt
  <2>4. Apt("idlebits", "idle", 8 * bytes, 1, bits, FALSE, FALSE)
    BY <1>1, <2>1, <2>2 DEF Apt
  <2>5. QED  BY <2>3, <2>4, ItemIn
<1>3. IdleFast(t) = If(t > 8, <<Add(a)>>) \o If(bits > 0, <<Add(b)>>)
  BY DEF IdleFast, a, b, bytes, bits
<1> HIDE DEF a, b
<1>4. a \in Items(0) /\ a.op = "idlebytes" /\ a.bits = 8 * bytes /\ ~a.w /\ ~a.r
      /\ b \in Items(0) /\ b.op = "idlebits" /\ b.bits = bits /\ ~b.w /\ ~b.r
  BY <1>2 DEF ItemIs
<1>5. Idles(<<Add(a)>>, 8 * bytes, h, L) /\ Idles(<<Add(b)>>, bits, h, L)
  <2>1. a.op \in ClockNames /\ b.op \in ClockNames  BY <1>4 DEF ClockNames
  <2>2. Idles(<<Add(a)>>, a.bits, h, L) /\ Idles(<<Add(b)>>, b.bits, h, L)
    BY <2>1, <1>4, IdlesItem
  <2>3. QED  BY <2>2, <1>4
<1> DEFINE s == If(t > 8, <<Add(a)>>)
           r == If(bits > 0, <<Add(b)>>)
           g == IF t > 8 THEN 8 * bytes ELSE 0
           e == IF bits > 0 THEN bits ELSE 0
<1>6. Idles(s, g, h, L) /\ Idles(r, e, h, L)
  <2>1. (t > 8) \in BOOLEAN /\ (bits > 0) \in BOOLEAN  OBVIOUS
  <2>2. QED  BY <2>1, <1>5, IdlesIf
<1>7. s \in Seq(FtdiOps) /\ r \in Seq(FtdiOps)
  <2>1. <<Add(a)>> \in Seq(FtdiOps) /\ <<Add(b)>> \in Seq(FtdiOps)  BY <1>4, AddIn, OneIn
  <2>2. QED  BY <2>1, IfIn
<1>8. g \in Nat /\ e \in Nat /\ (t < 8 * 65536 => t <= g + e)  BY <1>1
<1> IdleFast(t) = s \o r  BY <1>3
<1> HIDE DEF s, r, g, e
<1>9. Idles(s \o r, g + e, h, L)
  <2>1. Idles(s, g, h, L) /\ Idles(r, e, h, L)  BY <1>6 DEF s, r, g, e
  <2>2. s \in Seq(FtdiOps) /\ r \in Seq(FtdiOps)  BY <1>7 DEF s, r
  <2>3. g \in Nat /\ e \in Nat  BY <1>8
  <2>4. ASSUME NEW x \in Nat, NEW y \in Nat, Idles(s, x, h, L), Idles(r, y, h, L)
        PROVE  Idles(s \o r, x + y, h, L)
    BY <2>2, <2>4, IdlesConcat
  <2>5. QED  BY <2>1, <2>3, <2>4
<1>10. g + e \in Nat /\ 0 \in Nat /\ 0 <= g + e  BY <1>8
<1>11. Idles(s \o r, 0, h, L) /\ (t < 8 * 65536 => Idles(s \o r, t, h, L))
  BY <1>8, <1>9, <1>10, IdlesLess
<1>12. QED  BY <1>11

(* One more byte is announced than the zeros are, which the cut command    *)
(* makes up for.                                                           *)
LEMMA IdlesZeros ==
  ASSUME NEW h \in Nat, NEW L \in [Nat -> Nat], NEW zeros \in Nat \ {0}, NEW n, n = zeros + 1,
         Apt("bytes", "idle", 0, n, 0, TRUE, FALSE), NEW g, g = 8 * zeros + 8
  PROVE  Idles(<<Add(Item("bytes", "idle", 0, n, 0, TRUE, FALSE)),
                 [do |-> "fill", n |-> zeros, from |-> 0]>>
                 \o <<Add(Item("cut", "idle", 8 * zeros, 1, 8, FALSE, FALSE))>>, g, h, L)
<1> DEFINE a == Item("bytes", "idle", 0, n, 0, TRUE, FALSE)
           fill == [do |-> "fill", n |-> zeros, from |-> 0]
           b == Item("cut", "idle", 8 * zeros, 1, 8, FALSE, FALSE)
           z == Filling(0, zeros)
<1> HIDE DEF a, b, fill
<1>1. n \in Nat /\ zeros \in Nat /\ zeros > 0 /\ n = zeros + 1 /\ g = 8 * zeros + 8  OBVIOUS
<1>2. 8 * zeros \in Nat /\ 8 * zeros \in Int /\ n \in Nat /\ 0 \in Nat /\ 0 \in Int /\ 1 \in Nat
      /\ 8 \in Nat /\ 1 <= 65536 /\ 1 < TX_BUF /\ 8 * 1 <= 8 + 8
  BY BufferAssumption
<1> SUFFICES Idles((<<Add(a)>> \o <<fill>>) \o <<Add(b)>>, g, h, L)
  BY Pairs DEF a, b, fill
<1>3. /\ "bytes" \in ClockNames /\ "cut" \in DataNames /\ "idle" \in RunKinds
      /\ "bytes" # "payload" /\ "cut" # "payload" /\ "bytes" \notin DataNames
      /\ "payload" \in DataNames /\ "payload" \in ItemNames /\ "cut" \notin ClockNames
      /\ "bytes" # "loop" /\ "cut" # "loop" /\ "payload" # "loop" /\ "payload" \notin ClockNames
  BY DEF ClockNames, DataNames, RunKinds, ItemNames
<1>4. ItemIs(a, "bytes", n, 0, TRUE, FALSE) /\ ItemIs(b, "cut", 1, 8, FALSE, FALSE)
  <2>1. Apt("cut", "idle", 8 * zeros, 1, 8, FALSE, FALSE)  BY <1>2, <1>3 DEF Apt
  <2>2. ItemIs(a, "bytes", n, 0, TRUE, FALSE)  BY ItemIn DEF a
  <2>3. ItemIs(b, "cut", 1, 8, FALSE, FALSE)  BY <2>1, ItemIn DEF b
  <2>4. QED  BY <2>2, <2>3
<1>5. z \in Commands /\ z.op = "payload" /\ z.n = zeros /\ z.bits = 8 * zeros /\ ~z.w
  BY <1>1, <1>2, <1>3 DEF Filling, Item, Commands
<1>6. fill \in FtdiOps /\ fill.do = "fill" /\ fill.n = zeros /\ fill.from = 0
  BY <1>1, <1>2 DEF FtdiOps, Fills, fill
<1>7. a \in Items(0) /\ a.op = "bytes" /\ a.n = n /\ a.w /\ Due(a) = 0
      /\ b \in Items(0) /\ b.op = "cut" /\ b.n = 1 /\ b.bits = 8 /\ ~b.w /\ Due(b) = 0
  BY <1>4 DEF ItemIs
<1>9. a \in Commands /\ b \in Commands /\ Add(a) \in FtdiOps /\ Add(b) \in FtdiOps
  BY <1>7, ItemCommand
<1> SUFFICES ASSUME NEW p, Opens(p, h, L) PROVE \E q : Rests((<<Add(a)>> \o <<fill>>) \o <<Add(b)>>, g, p, q, h, L)
  BY DEF Idles
<1> DEFINE u == After(p, a, h)
           v == After(u, z, h)
           q == After(v, b, h)
<1>10. p \in Ideal /\ Served(p, h, L) /\ p.need = 0 /\ Welcome(p, a)
  BY <1>3, <1>7 DEF Opens, Welcome
<1>11. /\ u \in Ideal /\ Carries(p, a, u, h, L) /\ Grows(p, u) /\ Served(u, h, L)
       /\ u.need = n /\ u.owed = p.owed + 0
  <2>1. u.need = n /\ u.owed = p.owed + 0  BY <1>3, <1>7 DEF After
  <2>2. QED  BY <2>1, <1>9, <1>10, AfterIs
<1> HIDE DEF u, z
<1>12. Welcome(u, z)  BY <1>1, <1>3, <1>5, <1>11 DEF Welcome
<1>13. /\ v \in Ideal /\ Carries(u, z, v, h, L) /\ Grows(u, v) /\ Served(v, h, L)
       /\ v.need = n - zeros /\ v.owed = u.owed + 0
       /\ v.clocks[h] = u.clocks[h] + 8 * zeros
  <2>1. Due(z) = 0 /\ Runs(z)  BY <1>3, <1>5 DEF Due, Runs
  <2>2. v.need = n - zeros /\ v.owed = u.owed + 0  BY <2>1, <1>3, <1>5, <1>11 DEF After
  <2>3. QED  BY <2>1, <2>2, <1>5, <1>11, <1>12, AfterIs
<1> HIDE DEF v
<1>14. v.need = 1  BY <1>1, <1>13
<1>15. Welcome(v, b)  BY <1>3, <1>7, <1>14 DEF Welcome
<1>16. /\ q \in Ideal /\ Carries(v, b, q, h, L) /\ Grows(v, q)
       /\ q.need = 1 - 1 /\ q.owed = v.owed + 0
       /\ q.clocks[h] = v.clocks[h] + 8
  <2>1. Runs(b)  BY <1>3, <1>7 DEF Runs
  <2>2. q.need = 1 - 1 /\ q.owed = v.owed + 0  BY <1>3, <1>7, <1>14 DEF After
  <2>3. QED  BY <2>1, <2>2, <1>7, <1>9, <1>13, <1>15, AfterIs
<1> HIDE DEF q
<1>17. Grows(p, q)
  <2>1. Grows(p, v)  BY <1>10, <1>11, <1>13, GrowsOn
  <2>2. QED  BY <2>1, <1>10, <1>13, <1>16, GrowsOn
<1>18. q.owed = p.owed + 0
  <2> DEFINE x == p.owed
             y == q.owed
  <2>1. x \in Int /\ y = ((x + 0) + 0) + 0  BY <1>10, <1>11, <1>13, <1>16 DEF Ideal
  <2> HIDE DEF x, y
  <2>2. y = x + 0  BY ONLY <2>1
  <2>3. QED  BY <2>2 DEF x, y
<1>19. p.clocks[h] + g <= q.clocks[h]
  <2> DEFINE x == p.clocks[h]
             y == u.clocks[h]
             w == q.clocks[h]
  <2>1. x \in Nat /\ y \in Nat /\ x <= y  BY <1>10, <1>11 DEF Ideal, Grows
  <2>2. w = (y + 8 * zeros) + 8  BY <1>13, <1>16
  <2> HIDE DEF x, y, w
  <2>3. x + g <= w  BY <2>1, <2>2, <1>1
  <2>4. QED  BY <2>3 DEF x, w
<1>20. Leads(<<Add(a)>>, p, u, Turns(h, L)) /\ Leads(<<Add(b)>>, v, q, Turns(h, L))
  BY <1>7, <1>10, <1>11, <1>13, <1>16, AddTurns
<1>21. Leads(<<fill>>, u, v, Turns(h, L))
  <2>1. Turn(u, fill, v, h, L)
    <3>1. Carries(u, Filling(fill.from, fill.n), v, h, L)  BY <1>6, <1>13 DEF z
    <3>2. QED  BY <3>1, <1>6 DEF Turn
  <2>2. <<u, fill, v>> \in Turns(h, L)  BY <2>1, <1>6, <1>11, <1>13, TurnIs
  <2>3. QED  BY <2>2, LeadsOne
<1>22. <<Add(a)>> \in Seq(FtdiOps) /\ <<fill>> \in Seq(FtdiOps) /\ <<Add(b)>> \in Seq(FtdiOps)
  BY <1>6, <1>9, OneIn
<1>23. Leads((<<Add(a)>> \o <<fill>>) \o <<Add(b)>>, p, q, Turns(h, L))
  <2> DEFINE x == <<Add(a)>>
             y == <<fill>>
             w == <<Add(b)>>
             s == x \o y
  <2>1. x \in Seq(FtdiOps) /\ y \in Seq(FtdiOps) /\ w \in Seq(FtdiOps)  BY <1>22
  <2>2. Leads(x, p, u, Turns(h, L)) /\ Leads(y, u, v, Turns(h, L)) /\ Leads(w, v, q, Turns(h, L))
    BY <1>20, <1>21
  <2> HIDE DEF x, y, w
  <2>4. s \in Seq(FtdiOps)  BY <2>1, ConcatIn
  <2>5. Leads(s, p, v, Turns(h, L))  BY <2>1, <2>2, LeadsConcat
  <2> HIDE DEF s
  <2>6. Leads(s \o w, p, q, Turns(h, L))  BY <2>1, <2>2, <2>4, <2>5, LeadsConcat
  <2>7. QED  BY <2>6 DEF s, x, y, w
<1>25. q.need = 0  BY <1>16
<1>26. QED  BY <1>16, <1>17, <1>18, <1>19, <1>23, <1>25 DEF Lands, Rests

LEMMA IdlesSlow ==
  ASSUME NEW h \in Nat, NEW L \in [Nat -> Nat], NEW t \in Nat, t < 8 * 65536,
         t = 0 \/ (t > 8 /\ t % 8 # 0)
  PROVE  Idles(IdleSlow(t), t, h, L)
<1> DEFINE zeros == (t + 7) \div 8 - 1
           n == ((t \div 8) % 65536) + 1
           a == Item("bytes", "idle", 0, n, 0, TRUE, FALSE)
           fill == [do |-> "fill", n |-> zeros, from |-> 0]
           b == Item("cut", "idle", 8 * zeros, 1, 8, FALSE, FALSE)
<1>1. IdleSlow(t) = If(t > 8, <<Add(a), fill>>) \o If(t > 0, <<Add(b)>>)
  BY DEF IdleSlow
<1>2. CASE t = 0
  <2>1. IdleSlow(t) = <<>> \o <<>>  BY <1>1, <1>2 DEF If
  <2>2. <<>> \o <<>> = <<>>  OBVIOUS
  <2>3. Idles(<<>>, 0, h, L)  BY FairNone, IdlesFair
  <2>4. QED  BY <1>2, <2>1, <2>2, <2>3
<1>3. CASE t > 8 /\ t % 8 # 0
  <2>1. zeros \in Nat /\ zeros > 0 /\ n = zeros + 1 /\ n <= 65536 /\ t <= 8 * zeros + 8
    <3> DEFINE q == t \div 8
               m == t % 8
    <3>1. q \in Nat /\ m \in 0..7 /\ t = 8 * q + m /\ m # 0 /\ q > 0 /\ q < 65536
      BY <1>3
    <3>2. (t + 7) \div 8 = q + 1
      <4> HIDE DEF q, m
      <4>1. t + 7 = 8 * (q + 1) + (m - 1) /\ m - 1 \in Nat /\ m - 1 < 8 /\ q + 1 \in Nat  BY <3>1
      <4> DEFINE x == t + 7
                 y == q + 1
                 d == m - 1
      <4>2. x = 8 * y + d /\ d \in Nat /\ d < 8 /\ y \in Nat  BY <4>1
      <4> HIDE DEF x, y, d
      <4>3. x \div 8 = y  BY ONLY <4>2, SMT
      <4>4. QED  BY <4>3 DEF x, y
    <3>3. q % 65536 = q
      <4>1. q \in Nat /\ q < 65536  BY <3>1
      <4> HIDE DEF q
      <4>2. QED  BY ONLY <4>1, SMT
    <3>4. n = q + 1  BY <3>3
    <3>5. zeros = q  BY <3>1, <3>2
    <3> HIDE DEF zeros, n, q, m
    <3>6. QED  BY <3>1, <3>4, <3>5
  <2> HIDE DEF zeros, n
  <2>2. Apt("bytes", "idle", 0, n, 0, TRUE, FALSE)
    <3>1. "bytes" \in ClockNames /\ "bytes" \notin DataNames /\ "bytes" # "payload" /\ "idle" \in RunKinds
      BY DEF ClockNames, DataNames, RunKinds
    <3>2. n \in Nat /\ 0 \in Nat /\ 0 \in Int  BY <2>1
    <3>3. QED  BY <3>1, <3>2, <2>1 DEF Apt
  <2> DEFINE s == <<Add(a), fill>> \o <<Add(b)>>
             g == 8 * zeros + 8
  <2>3. Idles(s, g, h, L)
    <3>1. h \in Nat /\ L \in [Nat -> Nat] /\ zeros \in Nat \ {0} /\ n = zeros + 1 /\ g = 8 * zeros + 8
      BY <2>1
    <3> HIDE DEF g
    <3>2. QED  BY ONLY <2>2, <3>1, IdlesZeros
  <2>4. IdleSlow(t) = s
    <3>1. t > 8 /\ t > 0  BY <1>3
    <3> HIDE DEF a, b, fill
    <3>2. QED  BY <1>1, <3>1 DEF If
  <2>5. g \in Nat /\ t <= g  BY <2>1
  <2> HIDE DEF s, g
  <2>6. Idles(s, t, h, L)  BY <2>3, <2>5, IdlesLess
  <2>7. QED  BY <2>4, <2>6
<1>4. QED  BY <1>2, <1>3

(* The clocks a call is known to get.                                      *)
Enough(c) == c.op = "sleep" /\ c.len < 20000 /\ FitsIn32(c.len) /\ Ticks(c.len) < 8 * 65536
Gain(c) == IF Enough(c) THEN Needed(c.len) ELSE 0

LEMMA GainNat ==
  ASSUME freq \in Nat, NEW c, GoodCall(c)
  PROVE  Gain(c) \in Nat
BY TicksEnough DEF Gain, Enough, GoodCall

LEMMA ScriptIdles ==
  ASSUME freq \in Nat, NEW c, GoodCall(c), ~CutsCommand(c),
         NEW h \in Nat, NEW L \in [Nat -> Nat]
  PROVE  Idles(FtdiScript(c), Gain(c), h, L)
<1>1. CASE c.op = "block"
  <2>1. FtdiScript(c) = FtdiBlock(c) /\ Gain(c) = 0  BY <1>1 DEF FtdiScript, Gain, Enough
  <2>2. QED  BY <1>1, <2>1, FairBlock, IdlesFair
<1>2. CASE c.op = "tms"
  <2>1. FtdiScript(c) = FtdiTms(c) /\ Gain(c) = 0  BY <1>2 DEF FtdiScript, Gain, Enough
  <2>2. QED  BY <2>1, FairTms, IdlesFair
<1>3. CASE c.op = "sleep"
  <2>1. FtdiScript(c) = FtdiSleep(c)  BY <1>3 DEF FtdiScript
  <2>2. c.len \in Nat /\ Ticks(c.len) \in Nat  BY TicksNat DEF GoodCall
  <2>3. Gain(c) \in Nat /\ (Enough(c) => Gain(c) <= Ticks(c.len))
    <3>1. Enough(c) => Needed(c.len) <= Ticks(c.len)  BY <2>2, TicksEnough DEF Enough
    <3>2. QED  BY <3>1, GainNat DEF Gain
  <2>4. CASE c.len >= 20000
    <3>1. Gain(c) = 0  BY <2>2, <2>4 DEF Gain, Enough
    <3>2. FtdiSleep(c) = <<Send>>  BY <2>4 DEF FtdiSleep
    <3>3. QED  BY <2>1, <3>1, <3>2, FairSend, IdlesFair
  <2>5. CASE c.len < 20000 /\ Fast
    <3>1. FtdiSleep(c) = IdleFast(Ticks(c.len))  BY <2>2, <2>5 DEF FtdiSleep
    <3>2. Idles(IdleFast(Ticks(c.len)), 0, h, L)
          /\ (Ticks(c.len) < 8 * 65536 => Idles(IdleFast(Ticks(c.len)), Ticks(c.len), h, L))
      BY <2>2, IdlesFast
    <3>3. CASE Enough(c)
      <4>1. Idles(IdleFast(Ticks(c.len)), Ticks(c.len), h, L)  BY <3>2, <3>3 DEF Enough
      <4>2. QED  BY <2>1, <2>2, <2>3, <3>1, <3>3, <4>1, IdlesLess
    <3>4. CASE ~Enough(c)
      BY <2>1, <3>1, <3>2, <3>4 DEF Gain
    <3>5. QED  BY <3>3, <3>4
  <2>6. CASE c.len < 20000 /\ ~Fast
    <3>1. FtdiSleep(c) = IdleSlow(Ticks(c.len))  BY <2>2, <2>6 DEF FtdiSleep
    <3>2. Ticks(c.len) < 8 * 65536  BY <2>2, <2>6, SlowTicks
    <3>3. Ticks(c.len) = 0 \/ (Ticks(c.len) > 8 /\ Ticks(c.len) % 8 # 0)
      BY <1>3, <2>2, <2>6 DEF CutsCommand
    <3>4. Idles(IdleSlow(Ticks(c.len)), Ticks(c.len), h, L)  BY <2>2, <3>2, <3>3, IdlesSlow
    <3>5. Gain(c) <= Ticks(c.len)  BY <2>2, <2>3 DEF Gain
    <3>6. QED  BY <2>1, <2>2, <2>3, <3>1, <3>4, <3>5, IdlesLess
  <2>7. QED  BY <2>2, <2>4, <2>5, <2>6
<1>4. QED  BY <1>1, <1>2, <1>3 DEF GoodCall, Ops

(* The clocks of each call made so far.                                    *)
Marks == [k \in Nat |-> IF k \in 1..Here THEN Gain(calls[k]) ELSE 0]

LEMMA MarksIn ==
  ASSUME Linked
  PROVE  /\ Marks \in [Nat -> Nat]
         /\ \A k \in Nat : Marks[k] = IF k \in 1..Here THEN Gain(calls[k]) ELSE 0
<1>1. \A k \in 1..Here : GoodCall(calls[k])
  <2>1. kind \in Kinds /\ calls \in Seq(Calls[kind])  BY DEF Linked
  <2>2. \A k \in 1..Here : calls[k] \in Calls[kind]  BY <2>1 DEF Here
  <2>3. QED  BY <2>1, <2>2, GoodCalls
<1>2. \A k \in 1..Here : Gain(calls[k]) \in Nat  BY <1>1, GainNat DEF Linked
<1>3. \A k \in Nat : (IF k \in 1..Here THEN Gain(calls[k]) ELSE 0) \in Nat  BY <1>2
<1>4. QED  BY <1>3 DEF Marks

LEMMA GainStays ==
  ASSUME UNCHANGED <<kind, freq>>
  PROVE  \A c : Gain(c)' = Gain(c)
<1>1. tck_freq' = tck_freq
  BY DEF tck_freq, UsesFastClock, Fast, FastDivisor, SlowDivisor, ShareBits, Bit, Capped
<1> SUFFICES ASSUME NEW c PROVE Gain(c)' = Gain(c)
  OBVIOUS
<1>2. \A u : Ticks(u)' = Ticks(u) /\ FitsIn32(u)' = FitsIn32(u) /\ Needed(u)' = Needed(u)
  BY <1>1 DEF Ticks, FitsIn32, Needed
<1>3. QED  BY <1>2 DEF Gain, Enough

LEMMA MarksStay ==
  ASSUME UNCHANGED <<kind, freq, calls>>
  PROVE  Marks' = Marks /\ Here' = Here
<1>1. Here' = Here  BY DEF Here
<1>2. \A c : Gain(c)' = Gain(c)  BY GainStays
<1>3. QED  BY <1>1, <1>2 DEF Marks

LEMMA MarksBegin ==
  ASSUME Linked, Linked', UNCHANGED <<kind, freq>>, NEW c, calls' = Append(calls, c)
  PROVE  /\ Here' = Here + 1 /\ Marks' \in [Nat -> Nat] /\ Marks'[Here + 1] = Gain(c)
         /\ \A k \in 1..Here : Marks'[k] = Marks[k]
<1>1. Here \in Nat /\ calls \in Seq(Calls[kind])  BY HereIs DEF Linked
<1>2. calls' \in Seq(Calls[kind])  BY DEF Linked
<1>3. Here' = Here + 1 /\ \A k \in 1..Here : calls'[k] = calls[k]
  BY <1>1 DEF Here
<1>4. calls'[Here + 1] = c  BY <1>1 DEF Here
<1>5. \A d : Gain(d)' = Gain(d)  BY GainStays
<1>6. Marks' = [k \in Nat |-> IF k \in 1..Here' THEN Gain(calls'[k]) ELSE 0]
  BY <1>5 DEF Marks
<1>7. Marks' \in [Nat -> Nat]
  <2>1. \A k \in 1..Here' : calls'[k] \in Calls[kind]  BY <1>2 DEF Here
  <2>2. kind \in Kinds /\ freq \in Nat  BY DEF Linked
  <2>3. \A k \in 1..Here' : Gain(calls'[k]) \in Nat  BY <2>1, <2>2, GoodCalls, GainNat
  <2>4. \A k \in Nat : (IF k \in 1..Here' THEN Gain(calls'[k]) ELSE 0) \in Nat  BY <2>3
  <2>5. QED  BY <2>4, <1>6
<1>8. \A k \in 1..Here : Marks'[k] = Gain(calls[k])
  <2> SUFFICES ASSUME NEW k \in 1..Here PROVE Marks'[k] = Gain(calls[k])
    OBVIOUS
  <2>1. k \in Nat /\ k \in 1..Here'  BY <1>1, <1>3
  <2>2. QED  BY <2>1, <1>3, <1>6
<1>9. Marks'[Here + 1] = Gain(c)
  <2>1. Here + 1 \in Nat /\ Here + 1 \in 1..Here'  BY <1>1, <1>3
  <2>2. QED  BY <2>1, <1>4, <1>6
<1>10. \A k \in 1..Here : k \in Nat /\ Marks[k] = Gain(calls[k])  BY MarksIn
<1>11. QED  BY <1>3, <1>7, <1>8, <1>9, <1>10

(* Only what the calls so far need is asked of their commands.             *)
LEMMA LinksAgree ==
  ASSUME NEW i \in Nat, NEW s \in Seq(Kept(i)), NEW L, NEW M, \A k \in 1..i : L[k] = M[k],
         NEW p \in Ideal, NEW q, Leads(s, p, q, Links(L))
  PROVE  Leads(s, p, q, Links(M))
<1> DEFINE f == [v \in Ideal |-> v]
<1>1. ASSUME NEW x \in 1..Len(s), NEW u \in Ideal, NEW v, <<u, s[x], v>> \in Links(L)
      PROVE  v \in Ideal /\ <<f[u], s[x], f[v]>> \in Links(M)
  <2>1. s[x] \in Commands /\ v \in Ideal /\ Carries(u, s[x], v, s[x].call, L)
    BY <1>1, LinkIs
  <2>2. s[x].call \in 0..i
    <3>1. s[x] \in Kept(i)  OBVIOUS
    <3>2. s[x] \in ItemRecords(i)  BY <3>1 DEF Kept, Items
    <3>3. QED  BY <3>2 DEF ItemRecords
  <2>3. Served(u, s[x].call, L) => Served(u, s[x].call, M)
    <3>1. \A k \in Nat : 1 <= k /\ k < s[x].call => k \in 1..i  BY <2>2
    <3>2. QED  BY <3>1 DEF Served
  <2>4. Carries(u, s[x], v, s[x].call, M)
    <3> HIDE DEF Served, Runs, Due
    <3>1. QED  BY <2>1, <2>3 DEF Carries
  <2>5. f[u] = u /\ f[v] = v  BY <2>1
  <2> HIDE DEF f
  <2>6. QED  BY <2>1, <2>4, <2>5, LinkIs
<1>2. \A x \in 1..Len(s) : \A u \in Ideal : \A v :
        <<u, s[x], v>> \in Links(L) => v \in Ideal /\ <<f[u], s[x], f[v]>> \in Links(M)
  BY <1>1
<1>3. f[p] = p /\ (q \in Ideal => f[q] = q)  OBVIOUS
<1> HIDE DEF f
<1>4. q \in Ideal /\ Leads(s, f[p], f[q], Links(M))  BY <1>2, LeadsMapped
<1>5. QED  BY <1>3, <1>4

(* What has been taken is owed no longer, along the whole way.             *)
LEMMA LinksTaken ==
  ASSUME NEW S, NEW s \in Seq(S), NEW L, NEW p \in Ideal, NEW q, NEW n \in Int,
         Leads(s, p, q, Links(L))
  PROVE  q \in Ideal /\ Leads(s, Taken(p, n), Taken(q, n), Links(L))
<1> DEFINE f == [v \in Ideal |-> Taken(v, n)]
<1>1. ASSUME NEW x \in 1..Len(s), NEW u \in Ideal, NEW v, <<u, s[x], v>> \in Links(L)
      PROVE  v \in Ideal /\ <<f[u], s[x], f[v]>> \in Links(L)
  <2>1. s[x] \in Commands /\ v \in Ideal /\ Carries(u, s[x], v, s[x].call, L)
    BY <1>1, LinkIs
  <2> DEFINE a == Taken(u, n)
             b == Taken(v, n)
             it == s[x]
  <2>2. /\ a \in Ideal /\ a.owed = u.owed - n /\ a.need = u.need /\ a.clocks = u.clocks
        /\ a.drained = u.drained
        /\ b \in Ideal /\ b.owed = v.owed - n /\ b.need = v.need /\ b.clocks = v.clocks
        /\ b.drained = v.drained
    BY <2>1, TakenIs
  <2>3. f[u] = a /\ f[v] = b  BY <2>1
  <2>4. Due(it) \in Nat /\ v.owed = u.owed + Due(it) /\ u.owed \in Int
    <3>1. it.n \in Nat  BY <2>1 DEF Commands
    <3>2. QED  BY <3>1, <2>1 DEF Carries, Due, Ideal
  <2> HIDE DEF f, a, b, it
  <2>5. b.owed = a.owed + Due(it)  BY <2>2, <2>4
  <2>6. Served(u, it.call, L) => Served(a, it.call, L)  BY <2>2 DEF Served
  <2>7. Carries(a, it, b, it.call, L)
    <3>1. Carries(u, it, v, it.call, L)  BY <2>1 DEF it
    <3> HIDE DEF Served, Runs, Due
    <3>2. QED  BY <3>1, <2>2, <2>5, <2>6 DEF Carries
  <2>8. it \in Commands  BY <2>1 DEF it
  <2>9. <<a, it, b>> \in Links(L)  BY <2>2, <2>7, <2>8, LinkIs
  <2>10. QED  BY <2>1, <2>3, <2>9 DEF it
<1>2. \A x \in 1..Len(s) : \A u \in Ideal : \A v :
        <<u, s[x], v>> \in Links(L) => v \in Ideal /\ <<f[u], s[x], f[v]>> \in Links(L)
  BY <1>1
<1>3. f[p] = Taken(p, n) /\ (q \in Ideal => f[q] = Taken(q, n))  OBVIOUS
<1> HIDE DEF f
<1>4. q \in Ideal /\ Leads(s, f[p], f[q], Links(L))  BY <1>2, LeadsMapped
<1>5. QED  BY <1>3, <1>4

(* When no answer is owed any more, and the last was asked for after the   *)
(* last clocks, all of them have come.                                     *)
LEMMA LinksDrained ==
  ASSUME NEW S, NEW s \in Seq(S), NEW L, NEW p \in Ideal, NEW q, Leads(s, p, q, Links(L)),
         p.owed >= 0, q.owed = 0, q.drained
  PROVE  q.clocks = p.clocks
<1> DEFINE V == {v \in Ideal : /\ v.owed >= p.owed
                               /\ v.drained /\ v.owed = p.owed => v.clocks = p.clocks}
<1>1. PICK h : Path(h, s, Links(L)) /\ h[0] = p /\ h[Len(s)] = q  BY DEF Leads
<1>2. p \in V  BY SMTT(30) DEF Ideal
<1>3. ASSUME NEW x \in 1..Len(s), NEW u \in V, NEW v, <<u, s[x], v>> \in Links(L)
      PROVE  v \in V
  <2> DEFINE it == s[x]
  <2>1. it \in Commands /\ u \in Ideal /\ v \in Ideal /\ Carries(u, it, v, it.call, L)
    BY <1>3, LinkIs
  <2>2. /\ u.owed \in Int /\ v.owed \in Int /\ p.owed \in Int /\ it.n \in Nat
        /\ u.drained \in BOOLEAN /\ v.drained \in BOOLEAN
        /\ u.owed >= p.owed /\ (u.drained /\ u.owed = p.owed => u.clocks = p.clocks)
    BY <2>1 DEF Ideal, Commands
  <2> HIDE DEF it, V
  <2>3. Due(it) \in Nat /\ v.owed = u.owed + Due(it)  BY <2>1, <2>2 DEF Due, Carries
  <2>4. v.owed >= p.owed  BY <2>2, <2>3
  <2>5. v.drained /\ v.owed = p.owed => v.clocks = p.clocks
    <3> SUFFICES ASSUME v.drained, v.owed = p.owed PROVE v.clocks = p.clocks
      OBVIOUS
    <3>1. u.owed = p.owed /\ Due(it) = 0  BY <2>2, <2>3
    <3>2. it.op # "loop"
      <4> SUFFICES ASSUME it.op = "loop" PROVE FALSE
        OBVIOUS
      <4>1. Due(it) = it.n /\ it.n > 0  BY <2>1 DEF Due, Carries
      <4>2. QED  BY <4>1, <3>1
    <3>3. ~Runs(it) /\ u.drained  BY <2>1, <3>2 DEF Carries
    <3>4. v.clocks = u.clocks  BY <2>1, <3>3 DEF Carries
    <3>5. QED  BY <2>2, <3>1, <3>3, <3>4
  <2>6. QED  BY <2>1, <2>4, <2>5 DEF V
<1> HIDE DEF V
<1>4. \A x \in 1..Len(s) : \A u \in V : \A v : <<u, s[x], v>> \in Links(L) => v \in V
  BY <1>3
<1>5. h[0] \in V  BY <1>1, <1>2
<1>6. \A x \in 0..Len(s) : h[x] \in V  BY <1>1, <1>4, <1>5, PathKeeps
<1>7. q \in V
  <2>1. Len(s) \in 0..Len(s)  OBVIOUS
  <2>2. QED  BY <2>1, <1>1, <1>6
<1>8. p.owed \in Int /\ q.owed >= p.owed  BY <1>7 DEF V, Ideal
<1>9. q.owed = p.owed  BY <1>8
<1>10. QED  BY <1>7, <1>9 DEF V

------------------------------------------------------------------------------
(***************************************************************************)
(* The invariant.  Unless a failure was told, the chip, carrying out what  *)
(* it was sent and will be, keeps as it is meant to be, and gives each     *)
(* call its clocks before those of the next, and all of them at the end.   *)
(*                                                                         *)
(* After a failure this may hold no longer of all that was sent: what is   *)
(* sent twice is not what was meant.  But every command that makes clocks  *)
(* comes after those of the calls before its own, or the chip is lost; and *)
(* no call follows, as an exception is on its way.  A read that gave up    *)
(* without an exception leaves what was sent as it was.                    *)
(***************************************************************************)
Lags(p) == p \in Ideal /\ \A k \in Nat : p.clocks[k] <= Clocks(k)

Ordered == \A x \in DOMAIN wire : \A k \in Nat :
             1 <= k /\ k < wire[x].call => Marks[k] <= Clocks(k)

OrderlyBy(p, q, u) ==
  /\ p \in Ideal /\ q \in Ideal /\ u \in Ideal
  /\ Sync(p)
  /\ Leads(chip \o usbuf, p, q, Links(Marks))
  /\ Leads(script, q, u, Turns(Here, Marks))
  /\ u.need = 0 /\ Served(u, Here + 1, Marks)
  /\ ~told => u.owed = 0
  /\ state \in {"closing", "closed"} /\ ~told => u.drained
Orderly == \E p, q, u : OrderlyBy(p, q, u)

(* The first n commands lead the chip through h; those after them find the *)
(* clocks they ask for after these.                                        *)
Astray(s, h, n, L) ==
  /\ n \in 0..Len(s)
  /\ \A x \in 1..n : <<h[x - 1], s[x], h[x]>> \in Links(L)
  /\ \A x \in 1..Len(s) : x > n /\ Runs(s[x]) => Served(h[n], s[x].call, L)
DisturbedBy(h, n) ==
  /\ Astray(chip \o usbuf, h, n, Marks)
  /\ Lags(h[0]) /\ (n > 0 => h[0].need = want.n)
Strayed == want.n = -1 \/ \E h, n : DisturbedBy(h, n)
Doomed == script # <<>> /\ script[Len(script)].do = "throw"
Over == state \in {"refused", "thrown", "closing", "closed", "aborted"}
Disturbed == told /\ script \in Seq(QuietOps \cup Ends) /\ Strayed /\ (Over \/ Doomed)

Waits == IsFtdi /\ ~Troubled => Ordered /\ (Orderly \/ Disturbed)

LEMMA ClocksUnmoved ==
  ASSUME UNCHANGED wire
  PROVE  \A k : Clocks(k)' = Clocks(k)
<1>1. \A k : Clocks(k) = ClocksOf(wire, k)  BY ClocksMine
<1>2. \A k : Clocks(k)' = ClocksOf(wire', k)
  <2>1. (\A k : Clocks(k) = ClocksOf(wire, k))'  BY ClocksMine, PTL
  <2>2. QED  BY <2>1
<1>3. QED  BY <1>1, <1>2

LEMMA LagsOn ==
  ASSUME NEW p, Lags(p), UNCHANGED wire
  PROVE  Lags(p)'
BY ClocksUnmoved DEF Lags

LEMMA AvailableUnmoved ==
  ASSUME UNCHANGED fifo
  PROVE  Available' = Available
<1>1. Available = BytesOf(fifo)  BY AvailableBytes
<1>2. Available' = BytesOf(fifo')
  <2>1. (Available = BytesOf(fifo))'  BY AvailableBytes, PTL
  <2>2. QED  BY <2>1
<1>3. QED  BY <1>1, <1>2

LEMMA SyncOn ==
  ASSUME NEW p, Sync(p), UNCHANGED <<wire, want, fifo, have>>, ~told' => ~told
  PROVE  Sync(p)'
<1>1. \A k : Clocks(k)' = Clocks(k)  BY ClocksUnmoved
<1>2. Available' = Available  BY AvailableUnmoved
<1>3. QED  BY <1>1, <1>2 DEF Sync

LEMMA OrderedOn ==
  ASSUME Ordered, UNCHANGED <<kind, freq, calls, wire>>
  PROVE  Ordered'
BY ClocksUnmoved, MarksStay DEF Ordered

(* What follows an orderly state.                                          *)
LEMMA OrderlyNext ==
  ASSUME UNCHANGED <<kind, freq, calls>>,
         NEW p \in Ideal, NEW q \in Ideal, NEW u \in Ideal, Sync(p)',
         Leads(chip' \o usbuf', p, q, Links(Marks)), Leads(script', q, u, Turns(Here, Marks)),
         u.need = 0, Served(u, Here + 1, Marks), ~told' => u.owed = 0,
         state' \in {"closing", "closed"} /\ ~told' => u.drained
  PROVE  Orderly'
<1>1. Marks' = Marks /\ Here' = Here  BY MarksStay
<1>2. OrderlyBy(p, q, u)'  BY <1>1 DEF OrderlyBy
<1>3. QED  BY <1>2 DEF Orderly

LEMMA GrowsSelf ==
  ASSUME NEW p \in Ideal
  PROVE  Grows(p, p)
<1>1. \A k \in Nat : p.clocks[k] \in Nat  BY DEF Ideal
<1>2. QED  BY <1>1 DEF Grows

(* The states on the way.                                                  *)
LEMMA AstrayIs ==
  ASSUME NEW s, Len(s) \in Nat, NEW h, NEW n, NEW L \in [Nat -> Nat], Astray(s, h, n, L), h[0] \in Ideal
  PROVE  /\ \A x \in 0..n : h[x] \in Ideal
         /\ \A x \in 0..n : \A y \in 0..n : x <= y => Grows(h[x], h[y])
<1>1. n \in Nat /\ n \in 0..Len(s)  BY DEF Astray
<1>2. ASSUME NEW x \in 1..n
      PROVE  h[x - 1] \in Ideal /\ h[x] \in Ideal /\ Grows(h[x - 1], h[x])
  <2>1. <<h[x - 1], s[x], h[x]>> \in Links(L)  BY DEF Astray
  <2> DEFINE a == h[x - 1]
             b == h[x]
             it == s[x]
  <2>2. a \in Ideal /\ it \in Commands /\ b \in Ideal /\ Carries(a, it, b, it.call, L)
    BY <2>1, LinkIs
  <2> HIDE DEF a, b, it
  <2>3. \A k \in Nat : a.clocks[k] <= b.clocks[k]
    <3> SUFFICES ASSUME NEW k \in Nat PROVE a.clocks[k] <= b.clocks[k]
      OBVIOUS
    <3>1. a.clocks \in [Nat -> Nat] /\ b.clocks \in [Nat -> Nat] /\ it.bits \in Nat /\ it.call \in Nat
      BY <2>2 DEF Ideal, Commands
    <3>2. b.clocks = IF Runs(it) THEN [a.clocks EXCEPT ![it.call] = @ + it.bits] ELSE a.clocks
      BY <2>2 DEF Carries
    <3>3. a.clocks[k] \in Nat  BY <3>1
    <3> DEFINE e == a.clocks
               g == b.clocks
               m == it.bits
    <3>4. /\ e \in [Nat -> Nat] /\ m \in Nat /\ it.call \in Nat /\ e[k] \in Nat
          /\ g = IF Runs(it) THEN [e EXCEPT ![it.call] = @ + m] ELSE e
      BY <3>1, <3>2, <3>3
    <3> HIDE DEF e, g, m
    <3>5. g[k] = e[k] + (IF Runs(it) /\ k = it.call THEN m ELSE 0)
      <4> HIDE DEF Runs
      <4> QED  BY ONLY k \in Nat, <3>4, SMT
    <3>6. e[k] <= g[k]  BY ONLY <3>4, <3>5, SMT
    <3>7. QED  BY <3>6 DEF e, g
  <2>4. Grows(a, b)  BY <2>3 DEF Grows
  <2>5. QED  BY <2>2, <2>4 DEF a, b
<1>3. \A x \in 0..n : h[x] \in Ideal
  <2>1. ASSUME NEW x \in 0..n PROVE h[x] \in Ideal
    <3>1. x = 0 \/ x \in 1..n  BY <1>1
    <3>2. QED  BY <3>1, <1>2
  <2>2. QED  BY <2>1
<1>4. ASSUME NEW x \in 0..n, NEW y \in 0..n, x <= y
      PROVE  Grows(h[x], h[y])
  <2> DEFINE T == {z \in 0..n : x <= z => Grows(h[x], h[z])}
  <2>1. Grows(h[x], h[x])
    <3> DEFINE a == h[x]
    <3>1. a \in Ideal  BY <1>3
    <3> HIDE DEF a
    <3>2. Grows(a, a)  BY <3>1, GrowsSelf
    <3>3. QED  BY <3>2 DEF a
  <2>2. 0 \in T
    <3>1. x <= 0 => x = 0  OBVIOUS
    <3>2. 0 \in 0..n  BY <1>1
    <3>3. QED  BY <2>1, <3>1, <3>2
  <2>3. ASSUME NEW z \in 1..n, z - 1 \in T
        PROVE  z \in T
    <3>1. z \in 0..n /\ z - 1 \in 0..n /\ (x <= z - 1 => Grows(h[x], h[z - 1]))  BY <2>3, <1>1
    <3> SUFFICES ASSUME x <= z PROVE Grows(h[x], h[z])
      BY <3>1
    <3>2. CASE x = z
      BY <3>2, <2>1
    <3>3. CASE x <= z - 1
      <4> DEFINE a == h[x]
                 b == h[z - 1]
                 c == h[z]
      <4>1. a \in Ideal /\ b \in Ideal /\ c \in Ideal /\ Grows(a, b) /\ Grows(b, c)
        BY <3>1, <3>3, <1>2, <1>3
      <4> HIDE DEF a, b, c
      <4>2. Grows(a, c)  BY <4>1, GrowsOn
      <4>3. QED  BY <4>2 DEF a, c
    <3>4. QED  BY <3>2, <3>3
  <2> HIDE DEF T
  <2>4. \A z \in 0..n : z \in T  BY <1>1, <2>2, <2>3, CountUp
  <2>5. QED  BY <1>4, <2>4 DEF T
<1>5. QED  BY <1>3, <1>4

(* What is on its way to the chip.                                         *)
LEMMA QueueIs ==
  ASSUME Linked, Buffered
  PROVE  /\ chip \o usbuf \in Seq(Kept(Here)) /\ Len(chip \o usbuf) = Len(chip) + Len(usbuf)
         /\ Len(chip) \in Nat /\ Len(usbuf) \in Nat
         /\ \A x \in 1..Len(chip) : (chip \o usbuf)[x] = chip[x]
         /\ \A x \in 1..Len(usbuf) : (chip \o usbuf)[Len(chip) + x] = usbuf[x]
<1> DEFINE S == Kept(Here)
<1>1. chip \in Seq(S) /\ usbuf \in Seq(S)  BY DEF Buffered
<1> HIDE DEF S
<1>2. /\ chip \o usbuf \in Seq(S) /\ Len(chip \o usbuf) = Len(chip) + Len(usbuf)
      /\ \A x \in 1..(Len(chip) + Len(usbuf)) :
           (chip \o usbuf)[x] = IF x <= Len(chip) THEN chip[x] ELSE usbuf[x - Len(chip)]
  BY <1>1, ConcatProperties
<1>3. Len(chip) \in Nat /\ Len(usbuf) \in Nat  BY <1>1
<1> DEFINE q == chip \o usbuf
           c == Len(chip)
           b == Len(usbuf)
<1>4. /\ q \in Seq(S) /\ Len(q) = c + b /\ c \in Nat /\ b \in Nat
      /\ \A x \in 1..(c + b) : q[x] = IF x <= c THEN chip[x] ELSE usbuf[x - c]
  BY <1>2, <1>3
<1> HIDE DEF q, c, b
<1>5. \A x \in 1..c : q[x] = chip[x]
  <2>1. \A x \in 1..c : x \in 1..(c + b) /\ x <= c  BY <1>4
  <2>2. QED  BY <2>1, <1>4
<1>6. \A x \in 1..b : q[c + x] = usbuf[x]
  <2>1. \A x \in 1..b : c + x \in 1..(c + b) /\ ~(c + x <= c) /\ (c + x) - c = x  BY <1>4
  <2>2. QED  BY <2>1, <1>4
<1>7. QED  BY <1>4, <1>5, <1>6 DEF q, c, b, S

LEMMA QueueGoes ==
  ASSUME Linked, Buffered, ChipStep
  PROVE  /\ chip \o usbuf # <<>> /\ Head(chip \o usbuf) = Head(chip)
         /\ chip' \o usbuf' = Tail(chip \o usbuf)
<1> DEFINE S == Kept(Here)
<1>1. chip \in Seq(S) /\ usbuf \in Seq(S) /\ chip # <<>> /\ chip' = Tail(chip) /\ usbuf' = usbuf
  BY DEF Buffered, ChipStep
<1> HIDE DEF S
<1> DEFINE q == chip \o usbuf
           t == Tail(chip) \o usbuf
<1>2. /\ Tail(chip) \in Seq(S) /\ Len(Tail(chip)) = Len(chip) - 1 /\ Head(chip) = chip[1]
      /\ \A x \in 1..Len(Tail(chip)) : Tail(chip)[x] = chip[x + 1]
      /\ Len(chip) \in Nat \ {0} /\ Len(usbuf) \in Nat
  BY <1>1, TailIn
<1>3. /\ q \in Seq(S) /\ Len(q) = Len(chip) + Len(usbuf)
      /\ \A x \in 1..(Len(chip) + Len(usbuf)) :
           q[x] = IF x <= Len(chip) THEN chip[x] ELSE usbuf[x - Len(chip)]
  BY <1>1, ConcatProperties
<1>4. /\ t \in Seq(S) /\ Len(t) = Len(Tail(chip)) + Len(usbuf)
      /\ \A x \in 1..(Len(Tail(chip)) + Len(usbuf)) :
           t[x] = IF x <= Len(Tail(chip)) THEN Tail(chip)[x] ELSE usbuf[x - Len(Tail(chip))]
  BY <1>1, <1>2, ConcatProperties
<1> DEFINE c == Len(chip)
           b == Len(usbuf)
           d == Tail(chip)
<1> HIDE DEF q, t
<1>5. q # <<>> /\ Head(q) = Head(chip)
  <2>1. Len(q) \in Nat \ {0} /\ 1 \in 1..(c + b) /\ 1 <= c  BY <1>2, <1>3
  <2>2. q[1] = chip[1]  BY <2>1, <1>3
  <2>3. q # <<>> /\ Head(q) = q[1]  BY <2>1, <1>3
  <2>4. QED  BY <2>2, <2>3, <1>2
<1>6. /\ Tail(q) \in Seq(S) /\ Len(Tail(q)) = Len(q) - 1
      /\ \A x \in 1..Len(Tail(q)) : Tail(q)[x] = q[x + 1]
  BY <1>3, <1>5, TailIn
<1> DEFINE v == Tail(q)
<1> HIDE DEF c, b, d, v
<1>7. /\ Len(t) = (c - 1) + b /\ Len(v) = (c + b) - 1 /\ c \in Nat \ {0} /\ b \in Nat
      /\ Len(d) = c - 1
  BY <1>2, <1>3, <1>4, <1>6 DEF c, b, d, v
<1>8. \A x \in 1..Len(t) : t[x] = v[x]
  <2> SUFFICES ASSUME NEW x \in 1..Len(t) PROVE t[x] = v[x]
    OBVIOUS
  <2>1. x \in 1..((c - 1) + b) /\ x + 1 \in 1..(c + b) /\ x \in 1..Len(v)  BY <1>7
  <2>2. v[x] = q[x + 1]  BY <2>1, <1>6 DEF v
  <2>3. v[x] = IF x + 1 <= c THEN chip[x + 1] ELSE usbuf[(x + 1) - c]
    BY <2>1, <2>2, <1>3 DEF c, b
  <2>4. t[x] = IF x <= c - 1 THEN d[x] ELSE usbuf[x - (c - 1)]
    <3>1. Len(Tail(chip)) + Len(usbuf) = (c - 1) + b /\ Len(Tail(chip)) = c - 1
      BY <1>2 DEF c, b
    <3>2. QED  BY <2>1, <3>1, <1>4 DEF d
  <2>5. CASE x + 1 <= c
    <3>1. x <= c - 1 /\ x \in 1..Len(d)  BY <2>1, <2>5, <1>7
    <3>2. d[x] = chip[x + 1]  BY <3>1, <1>2 DEF d
    <3>3. QED  BY <3>1, <3>2, <2>3, <2>4, <2>5
  <2>6. CASE ~(x + 1 <= c)
    <3>1. ~(x <= c - 1) /\ x - (c - 1) = (x + 1) - c  BY <2>1, <2>6, <1>7
    <3>2. QED  BY <3>1, <2>3, <2>4, <2>6
  <2>7. QED  BY <2>5, <2>6
<1>9. t \in Seq(S) /\ v \in Seq(S) /\ Len(t) = Len(v)
  <2>1. Len(t) = Len(v)  BY <1>7
  <2>2. QED  BY <2>1, <1>4, <1>6 DEF v
<1>10. t = v  BY <1>8, <1>9, SeqEqual
<1>11. QED  BY <1>1, <1>5, <1>10 DEF q, t, v

LEMMA QueueGrows ==
  ASSUME Linked, Buffered, NEW it \in Kept(Here), UNCHANGED chip, usbuf' = Append(usbuf, it)
  PROVE  chip' \o usbuf' = Append(chip \o usbuf, it)
<1> DEFINE S == Kept(Here)
<1>1. chip \in Seq(S) /\ usbuf \in Seq(S) /\ it \in S  BY DEF Buffered
<1> HIDE DEF S
<1> DEFINE q == chip \o usbuf
           e == <<it>>
<1>2. q \in Seq(S) /\ e \in Seq(S)  BY <1>1, ConcatProperties
<1>3. (chip \o usbuf) \o e = chip \o (usbuf \o e)  BY <1>1, <1>2, ConcatAssociative
<1> HIDE DEF q
<1>4. Append(q, it) = q \o e  BY <1>1, <1>2, AppendIsConcat
<1>5. Append(usbuf, it) = usbuf \o e  BY <1>1, AppendIsConcat
<1> HIDE DEF e
<1>6. q \o e = chip \o (usbuf \o e)  BY <1>3 DEF q
<1>7. chip' \o usbuf' = chip \o (usbuf \o e)  BY <1>5
<1>8. QED  BY <1>4, <1>6, <1>7 DEF q

(* After a failure all that was orderly may be taken for astray.           *)
LEMMA StrayedIs ==
  ASSUME Linked, Buffered, Orderly
  PROVE  Strayed
<1>1. PICK p, q, u : OrderlyBy(p, q, u)  BY DEF Orderly
<1> DEFINE s == chip \o usbuf
<1>2. s \in Seq(Kept(Here))  BY QueueIs
<1>3. p \in Ideal /\ Sync(p) /\ Leads(s, p, q, Links(Marks))  BY <1>1 DEF OrderlyBy
<1> HIDE DEF s
<1>4. PICK h : Path(h, s, Links(Marks)) /\ h[0] = p  BY <1>3 DEF Leads
<1>5. Len(s) \in Nat  BY <1>2
<1>6. Astray(s, h, Len(s), Marks)
  <2>1. Len(s) \in 0..Len(s) /\ \A x \in 1..Len(s) : ~(x > Len(s))  BY <1>5
  <2>2. QED  BY <1>4, <2>1 DEF Astray, Path
<1>7. Lags(h[0]) /\ h[0].need = want.n  BY <1>3, <1>4 DEF Sync, Lags
<1>8. DisturbedBy(h, Len(s))  BY <1>6, <1>7 DEF DisturbedBy, s
<1>9. QED  BY <1>8 DEF Strayed

LEMMA StrayedOn ==
  ASSUME Strayed, UNCHANGED <<kind, freq, calls, wire>>, chip' \o usbuf' = chip \o usbuf,
         want' = want \/ want'.n = -1
  PROVE  Strayed'
<1>1. Marks' = Marks  BY MarksStay
<1>2. CASE want'.n = -1
  BY <1>2 DEF Strayed
<1>3. CASE want' = want /\ want.n = -1
  BY <1>3 DEF Strayed
<1>4. CASE want' = want /\ want.n # -1
  <2>1. PICK h, n : DisturbedBy(h, n)  BY <1>4 DEF Strayed
  <2>2. Astray(chip' \o usbuf', h, n, Marks') /\ Lags(h[0]) /\ (n > 0 => h[0].need = want'.n)
    BY <1>1, <1>4, <2>1 DEF DisturbedBy
  <2>3. Lags(h[0])'  BY <2>2, LagsOn
  <2>4. DisturbedBy(h, n)'  BY <2>2, <2>3 DEF DisturbedBy
  <2>5. QED  BY <2>4 DEF Strayed
<1>5. QED  BY <1>2, <1>3, <1>4

LEMMA StrayedAdd ==
  ASSUME Linked, Buffered, Strayed, UNCHANGED <<kind, freq, calls, wire, chip, want>>,
         NEW it \in Kept(Here), ~Runs(it), usbuf' = Append(usbuf, it)
  PROVE  Strayed'
<1>1. Marks' = Marks  BY MarksStay
<1>2. CASE want.n = -1
  BY <1>2 DEF Strayed
<1>3. CASE want.n # -1
  <2>1. PICK h, n : DisturbedBy(h, n)  BY <1>3 DEF Strayed
  <2> DEFINE s == chip \o usbuf
             t == chip' \o usbuf'
  <2>2. s \in Seq(Kept(Here))  BY QueueIs
  <2>3. t = Append(s, it)  BY QueueGrows
  <2> HIDE DEF s, t
  <2>4. /\ Len(t) = Len(s) + 1 /\ t[Len(s) + 1] = it /\ \A x \in 1..Len(s) : t[x] = s[x]
        /\ Len(s) \in Nat
    BY <2>2, <2>3, AppendIn
  <2>5. Astray(s, h, n, Marks)  BY <2>1 DEF DisturbedBy, s
  <2>6. Astray(t, h, n, Marks)
    <3>1. n \in 0..Len(s)  BY <2>5 DEF Astray
    <3>2. n \in 0..Len(t)  BY <3>1, <2>4
    <3>3. \A x \in 1..n : <<h[x - 1], t[x], h[x]>> \in Links(Marks)
      <4>1. \A x \in 1..n : x \in 1..Len(s)  BY <3>1, <2>4
      <4>2. QED  BY <4>1, <2>4, <2>5 DEF Astray
    <3>4. \A x \in 1..Len(t) : x > n /\ Runs(t[x]) => Served(h[n], t[x].call, Marks)
      <4>1. \A x \in 1..Len(t) : x \in 1..Len(s) \/ x = Len(s) + 1  BY <2>4
      <4>2. QED  BY <4>1, <2>4, <2>5 DEF Astray
    <3>5. QED  BY <3>2, <3>3, <3>4 DEF Astray
  <2>7. Lags(h[0]) /\ (n > 0 => h[0].need = want'.n)  BY <2>1 DEF DisturbedBy
  <2>8. Lags(h[0])'  BY <2>7, LagsOn
  <2>9. DisturbedBy(h, n)'  BY <1>1, <2>6, <2>7, <2>8 DEF DisturbedBy, t
  <2>10. QED  BY <2>9 DEF Strayed
<1>4. QED  BY <1>2, <1>3

(* t is s without its last element, and then again the last m + 1 of s.    *)
Repeats(s, t, m) ==
  /\ m < Len(s) /\ Len(t) = Len(s) + m
  /\ \A x \in 1..Len(t) : t[x] = s[IF x < Len(s) THEN x ELSE x - m]
Restarts(t, h, n, L) == \E o \in Nat : Astray(t, h, o, L) /\ (o > 0 => n > 0)

LEMMA AstrayAgain ==
  ASSUME NEW S, NEW s \in Seq(S), NEW t \in Seq(S), NEW m \in Nat, Repeats(s, t, m),
         NEW L \in [Nat -> Nat], NEW h, NEW n, Astray(s, h, n, L), h[0] \in Ideal
  PROVE  Restarts(t, h, n, L)
<1> DEFINE l == Len(s)
           o == IF n < l THEN n ELSE l - 1
<1>0. l = Len(s)  OBVIOUS
<1>1. /\ l \in Nat /\ l > 0 /\ n \in Nat /\ n <= l /\ m \in Nat /\ m < l
  <2>1. l \in Nat /\ n \in 0..l /\ m < l  BY DEF Astray, Repeats
  <2> HIDE DEF l
  <2>2. QED  BY <2>1
<1>6. Len(t) = l + m /\ \A x \in 1..(l + m) : t[x] = s[IF x < l THEN x ELSE x - m]
  BY DEF Repeats
<1> HIDE DEF l
<1>2. /\ o \in Nat /\ o <= n /\ n <= o + 1 /\ o < l /\ (o # n => n = l) /\ (o > 0 => n > 0)
  BY ONLY <1>1, SMT
<1> HIDE DEF o
<1>3. /\ \A x \in 0..n : h[x] \in Ideal
      /\ \A x \in 0..n : \A y \in 0..n : x <= y => Grows(h[x], h[y])
  <2>1. Len(s) \in Nat  OBVIOUS
  <2>2. QED  BY <2>1, AstrayIs
<1>4. \A x \in 1..n : <<h[x - 1], s[x], h[x]>> \in Links(L)  BY DEF Astray
<1>5. \A x \in 1..l : x > n /\ Runs(s[x]) => Served(h[n], s[x].call, L)  BY <1>0 DEF Astray
<1>7. o \in 0..Len(t)  BY <1>1, <1>2, <1>6
<1>8. ASSUME NEW x \in 1..o PROVE <<h[x - 1], t[x], h[x]>> \in Links(L)
  <2>1. x \in 1..(l + m) /\ x < l /\ x \in 1..n
    <3>1. x \in 1..o /\ m \in Nat  OBVIOUS
    <3>2. QED  BY ONLY <3>1, <1>1, <1>2, SMT
  <2>2. t[x] = s[x]  BY <2>1, <1>6
  <2>3. QED  BY <2>1, <2>2, <1>4
<1>9. ASSUME NEW x \in 1..Len(t), x > o, Runs(t[x])
      PROVE  Served(h[o], t[x].call, L)
  <2> DEFINE y == IF x < l THEN x ELSE x - m
  <2>1. y \in 1..l /\ t[x] = s[y]
    <3>1. x \in 1..(l + m)  BY <1>6
    <3>2. y \in 1..l
      <4>1. m \in Nat  OBVIOUS
      <4>2. QED  BY ONLY <3>1, <4>1, <1>1, SMTT(30)
    <3>3. QED  BY <3>1, <3>2, <1>6
  <2> HIDE DEF y
  <2>2. CASE y > n
    <3>1. o = n  BY <2>1, <2>2, <1>1, <1>2
    <3>2. Served(h[n], s[y].call, L)  BY <2>1, <2>2, <1>5, <1>9
    <3>3. QED  BY <2>1, <3>1, <3>2
  <2>3. CASE ~(y > n)
    <3>1. y \in 1..n /\ y - 1 \in 0..n /\ o \in 0..n /\ y - 1 <= o  BY <2>1, <2>3, <1>1, <1>2
    <3> DEFINE a == h[y - 1]
               b == h[y]
               it == s[y]
    <3>2. Carries(a, it, b, it.call, L) /\ a \in Ideal  BY <3>1, <1>4, LinkIs
    <3>3. Runs(it)  BY <2>1, <1>9
    <3> HIDE DEF a, b, it
    <3>4. Served(a, it.call, L)  BY <3>2, <3>3 DEF Carries
    <3> DEFINE c == h[o]
    <3>5. c \in Ideal /\ Grows(a, c)  BY <3>1, <1>3 DEF a
    <3> HIDE DEF c
    <3>6. Served(c, it.call, L)  BY <3>2, <3>4, <3>5, GrowsOn
    <3>7. QED  BY <2>1, <3>6 DEF c, it
  <2>4. QED  BY <2>2, <2>3
<1>10. Astray(t, h, o, L)  BY <1>7, <1>8, <1>9 DEF Astray
<1>11. QED  BY <1>2, <1>10 DEF Restarts

LEMMA QueueAgain ==
  ASSUME Linked, Buffered, ShortWrite
  PROVE  \/ chip' \o usbuf' = chip \o usbuf
         \/ \E m \in Nat :
              LET s == chip \o usbuf
                  t == chip' \o usbuf'
              IN  t \in Seq(Kept(Here)) /\ Repeats(s, t, m)
<1> DEFINE S == Kept(Here)
           b == Len(usbuf)
           c == Len(chip)
<1>1. chip \in Seq(S) /\ usbuf \in Seq(S) /\ bptr > 0 /\ usbuf' = usbuf
  BY DEF Buffered, ShortWrite
<1>2. PICK m \in {0, b - 1} : chip' = chip \o SubSeq(usbuf, 1, m)
  BY DEF ShortWrite
<1>3. usbuf # <<>>
  <2>1. SUFFICES ASSUME usbuf = <<>> PROVE FALSE  OBVIOUS
  <2>2. bptr = 0  BY <2>1, HeldEmpty DEF Buffered
  <2>3. QED  BY <2>2, <1>1
<1> HIDE DEF S
<1>4. b \in Nat \ {0} /\ c \in Nat  BY <1>1, <1>3
<1> DEFINE f == SubSeq(usbuf, 1, m)
<1>5. m \in Nat /\ m < b /\ m \in 0..b  BY <1>2, <1>4
<1>6. CASE m = 0
  <2>1. f = <<>>  BY <1>1, <1>6
  <2>2. chip \o <<>> = chip  BY <1>1, ConcatEmptySeq
  <2>3. chip' = chip  BY <1>2, <2>1, <2>2
  <2>4. QED  BY <1>1, <2>3
<1>7. CASE m # 0
  <2>1. m = b - 1  BY <1>2, <1>7
  <2>2. f \in Seq(S) /\ Len(f) = m /\ \A x \in 1..m : f[x] = usbuf[x]
    <3>1. 1 \in 1..(Len(usbuf) + 1) /\ m \in 0..Len(usbuf)  BY <1>4, <1>5
    <3>2. /\ f \in Seq(S) /\ Len(f) = IF 1 <= m THEN m - 1 + 1 ELSE 0
          /\ \A x \in 1..(m - 1 + 1) : f[x] = usbuf[1 + x - 1]
      BY <1>1, <3>1, SubSeqProperties
    <3>3. m - 1 + 1 = m /\ 1 <= m /\ \A x \in 1..m : 1 + x - 1 = x  BY <1>5, <1>7
    <3> HIDE DEF f
    <3>4. QED  BY <3>2, <3>3
  <2> HIDE DEF f
  <2> DEFINE s == chip \o usbuf
             g == chip \o f
             t == g \o usbuf
  <2>3. /\ s \in Seq(S) /\ Len(s) = c + b
        /\ \A x \in 1..(c + b) : s[x] = IF x <= c THEN chip[x] ELSE usbuf[x - c]
    BY <1>1, ConcatProperties
  <2>4. /\ g \in Seq(S) /\ Len(g) = c + m
        /\ \A x \in 1..(c + m) : g[x] = IF x <= c THEN chip[x] ELSE f[x - c]
    <3>1. /\ g \in Seq(S) /\ Len(g) = c + Len(f)
          /\ \A x \in 1..(c + Len(f)) : g[x] = IF x <= c THEN chip[x] ELSE f[x - c]
      BY <1>1, <2>2, ConcatProperties
    <3> HIDE DEF g, c
    <3>2. QED  BY <3>1, <2>2
  <2> HIDE DEF g
  <2>5. /\ t \in Seq(S) /\ Len(t) = (c + m) + b
        /\ \A x \in 1..((c + m) + b) : t[x] = IF x <= c + m THEN g[x] ELSE usbuf[x - (c + m)]
    <3>1. /\ t \in Seq(S) /\ Len(t) = Len(g) + b
          /\ \A x \in 1..(Len(g) + b) : t[x] = IF x <= Len(g) THEN g[x] ELSE usbuf[x - Len(g)]
      BY <1>1, <2>4, ConcatProperties
    <3> HIDE DEF t, b, c
    <3>2. QED  BY <3>1, <2>4
  <2>6. chip' \o usbuf' = t  BY <1>1, <1>2 DEF g, f
  <2> HIDE DEF s, t, b, c
  <2>7. m < Len(s) /\ Len(t) = Len(s) + m  BY <1>4, <1>5, <2>3, <2>5
  <2>8. ASSUME NEW x \in 1..Len(t)
        PROVE  t[x] = s[IF x < Len(s) THEN x ELSE x - m]
    <3>1. x \in 1..((c + m) + b)  BY <2>5
    <3>2. CASE x <= c
      <4>1. /\ x <= c + m /\ x \in 1..(c + m) /\ x \in 1..(c + b) /\ x < c + b
        BY <3>1, <3>2, <1>4, <1>5
      <4>2. QED  BY <3>1, <3>2, <4>1, <2>3, <2>4, <2>5
    <3>3. CASE ~(x <= c) /\ x <= c + m
      <4>1. /\ x \in 1..(c + m) /\ x \in 1..(c + b) /\ x < c + b /\ x - c \in 1..m
        BY <3>1, <3>3, <1>4, <1>5
      <4>2. QED  BY <3>1, <3>3, <4>1, <2>2, <2>3, <2>4, <2>5
    <3>4. CASE ~(x <= c + m)
      <4>1. /\ ~(x < c + b) /\ x - m \in 1..(c + b) /\ ~(x - m <= c) /\ (x - m) - c = x - (c + m)
        BY <3>1, <3>4, <1>4, <1>5, <2>1
      <4>2. QED  BY <3>1, <3>4, <4>1, <2>3, <2>5
    <3>5. QED  BY <3>2, <3>3, <3>4
  <2>9. Repeats(s, t, m)  BY <2>7, <2>8 DEF Repeats
  <2>10. QED  BY <1>5, <2>5, <2>6, <2>9 DEF s, S
<1>8. QED  BY <1>6, <1>7

(* What comes short is sent again, without what was read before it.        *)
LEMMA StrayedShort ==
  ASSUME Linked, Buffered, Strayed, ShortWrite, UNCHANGED <<kind, freq, calls, wire, want>>
  PROVE  Strayed'
<1>1. CASE chip' \o usbuf' = chip \o usbuf
  BY <1>1, StrayedOn
<1>2. CASE want.n = -1
  BY <1>2 DEF Strayed
<1> DEFINE s == chip \o usbuf
           t == chip' \o usbuf'
<1>3. CASE /\ want.n # -1
           /\ \E m \in Nat : t \in Seq(Kept(Here)) /\ Repeats(s, t, m)
  <2>1. PICK m \in Nat : t \in Seq(Kept(Here)) /\ Repeats(s, t, m)
    BY <1>3
  <2>2. PICK h, n : DisturbedBy(h, n)  BY <1>3 DEF Strayed
  <2>3. s \in Seq(Kept(Here))  BY QueueIs
  <2>4. Astray(s, h, n, Marks) /\ Lags(h[0]) /\ (n > 0 => h[0].need = want'.n)
    BY <2>2 DEF DisturbedBy
  <2> HIDE DEF s, t
  <2>5. h[0] \in Ideal /\ Marks \in [Nat -> Nat]  BY <2>4, MarksIn DEF Lags
  <2> DEFINE S == Kept(Here)
             L == Marks
  <2> HIDE DEF S, L
  <2>6. PICK o \in Nat : Astray(t, h, o, L) /\ (o > 0 => n > 0)
    <3>1. s \in Seq(S) /\ t \in Seq(S) /\ Repeats(s, t, m)  BY <2>1, <2>3 DEF S
    <3>2. L \in [Nat -> Nat] /\ Astray(s, h, n, L) /\ h[0] \in Ideal  BY <2>4, <2>5 DEF L
    <3>3. Restarts(t, h, n, L)  BY <3>1, <3>2, AstrayAgain
    <3>4. QED  BY <3>3 DEF Restarts
  <2>7. Marks' = Marks  BY MarksStay
  <2>8. Lags(h[0])'  BY <2>4, LagsOn
  <2>9. DisturbedBy(h, o)'  BY <2>4, <2>6, <2>7, <2>8 DEF DisturbedBy, t, L
  <2>10. QED  BY <2>9 DEF Strayed
<1>4. QED  BY <1>1, <1>2, <1>3, QueueAgain

(* The chip goes on.                                                       *)
InTurn(it) == Clocking(it) => \A k \in Nat : 1 <= k /\ k < it.call => Marks[k] <= Clocks(k)

LEMMA StrayedChip ==
  ASSUME Linked, Wired, Buffered, Reading, ChipStep, told, Strayed,
         UNCHANGED <<kind, freq, calls>>
  PROVE  Strayed' /\ InTurn(Head(chip))
<1> DEFINE it == Head(chip)
           s == chip \o usbuf
           t == chip' \o usbuf'
           L == Marks
<1>1. /\ it \in Commands /\ (Clocking(it) => Runs(it))
      /\ \A k : Clocks(k)' = Clocks(k) + (IF Clocking(it) /\ k = it.call THEN it.bits ELSE 0)
  BY ChipClocks
<1>2. \A k \in Nat : Clocks(k) \in Nat  BY ClocksAre
<1>3. L \in [Nat -> Nat] /\ Marks' = L  BY MarksIn, MarksStay
<1>4. s \in Seq(Kept(Here)) /\ s # <<>> /\ Head(s) = it /\ t = Tail(s)  BY QueueIs, QueueGoes
<1> HIDE DEF s, t, L
<1>5. /\ Len(t) = Len(s) - 1 /\ it = s[1] /\ Len(s) \in Nat \ {0}
      /\ \A x \in 1..Len(t) : t[x] = s[x + 1]
  BY <1>4, TailIn
<1>6. it.bits \in Nat  BY <1>1 DEF Commands
<1> HIDE DEF it
<1>7. CASE want.n = -1
  <2>1. want' = IF Takes(it) THEN [n |-> want.n - it.n, r |-> want.r]
                ELSE IF want.n # 0 \/ it.op \in DataNames THEN Lost
                ELSE IF it.w THEN [n |-> it.n, r |-> it.r] ELSE want
    BY ChipWants DEF it
  <2>2. ~Takes(it) /\ want.n # 0 /\ ~(want.n > 0)  BY <1>7 DEF Takes
  <2>3. want' = Lost  BY <2>1, <2>2
  <2>4. Strayed'  BY <2>3 DEF Strayed, Lost
  <2>5. ~Clocking(it)  BY <2>2 DEF Clocking, ChipTakes
  <2>6. QED  BY <2>4, <2>5 DEF InTurn, it
<1>8. CASE want.n # -1
  <2>1. PICK h, n : DisturbedBy(h, n)  BY <1>8 DEF Strayed
  <2>2. Astray(s, h, n, L) /\ Lags(h[0]) /\ (n > 0 => h[0].need = want.n)
    BY <2>1 DEF DisturbedBy, s, L
  <2>3. n \in 0..Len(s)  BY <2>2 DEF Astray
  <2>4. CASE n = 0
    <3> DEFINE p == h[0]
    <3>1. p \in Ideal /\ \A k \in Nat : p.clocks[k] <= Clocks(k)  BY <2>2 DEF Lags
    <3>2. \A x \in 1..Len(s) : Runs(s[x]) => Served(p, s[x].call, L)
      <4>1. \A x \in 1..Len(s) : x > 0  OBVIOUS
      <4>2. QED  BY <4>1, <2>2, <2>4 DEF Astray
    <3> HIDE DEF p
    <3>3. \A k \in Nat : p.clocks[k] \in Nat /\ L[k] \in Nat  BY <3>1, <1>3 DEF Ideal
    <3>4. InTurn(it)
      <4> SUFFICES ASSUME Clocking(it), NEW k \in Nat, 1 <= k, k < it.call PROVE L[k] <= Clocks(k)
        BY DEF InTurn, L
      <4>1. 1 \in 1..Len(s)  BY <1>5
      <4>2. Served(p, it.call, L)  BY <4>1, <3>2, <1>1, <1>5
      <4>3. L[k] <= p.clocks[k] /\ p.clocks[k] <= Clocks(k)  BY <4>2, <3>1 DEF Served
      <4>4. L[k] \in Nat /\ p.clocks[k] \in Nat /\ Clocks(k) \in Nat  BY <3>3, <1>2
      <4> HIDE DEF Clocks
      <4>5. QED  BY ONLY <4>3, <4>4, SMT
    <3>5. Lags(p)'
      <4> SUFFICES ASSUME NEW k \in Nat PROVE p.clocks[k] <= Clocks(k)'
        BY <3>1 DEF Lags
      <4>1. /\ Clocks(k)' = Clocks(k) + (IF Clocking(it) /\ k = it.call THEN it.bits ELSE 0)
            /\ Clocks(k) \in Nat /\ p.clocks[k] <= Clocks(k) /\ p.clocks[k] \in Nat
        BY <1>1, <1>2, <3>1, <3>3
      <4> HIDE DEF Clocks, Clocking
      <4>2. QED  BY <4>1, <1>6
    <3>6. Astray(t, h, 0, L)
      <4>1. 0 \in 0..Len(t) /\ \A x \in 1..0 : FALSE  BY <1>5
      <4>2. \A x \in 1..Len(t) : x + 1 \in 1..Len(s) /\ t[x] = s[x + 1]  BY <1>5
      <4>3. \A x \in 1..Len(t) : Runs(t[x]) => Served(h[0], t[x].call, L)
        BY <4>2, <3>2 DEF p
      <4>4. QED  BY <4>1, <4>3 DEF Astray
    <3>7. DisturbedBy(h, 0)'  BY <1>3, <3>5, <3>6 DEF DisturbedBy, t, p
    <3>8. QED  BY <3>4, <3>7 DEF Strayed, it
  <2>5. CASE n # 0
    <3>1. n \in Nat \ {0} /\ n > 0 /\ 1 \in 1..n /\ 1 - 1 = 0  BY <2>3, <2>5
    <3>2. <<h[0], it, h[1]>> \in Links(L)  BY <3>1, <2>2, <1>5 DEF Astray
    <3> DEFINE p == h[0]
               q == h[1]
               g == [x \in 0..(n - 1) |-> h[x + 1]]
    <3>3. p \in Ideal /\ q \in Ideal /\ Carries(p, it, q, it.call, L)  BY <3>2, LinkIs
    <3>4. Sync(p)  BY <2>2, <3>1 DEF Sync, Lags
    <3> HIDE DEF p, q
    <3>5. /\ Sync(q)'
          /\ Clocking(it) => \A k \in Nat : 1 <= k /\ k < it.call => L[k] <= Clocks(k)
      BY <3>3, <3>4, <1>3, ChipFollows DEF it
    <3>6. Lags(q)' /\ q.need = want'.n  BY <3>3, <3>5 DEF Lags, Sync
    <3>7. g[0] = q /\ \A x \in 0..(n - 1) : g[x] = h[x + 1]
      <4>1. 0 \in 0..(n - 1) /\ 0 + 1 = 1  BY <3>1
      <4>2. QED  BY <4>1 DEF q
    <3> HIDE DEF g
    <3>8. Astray(t, g, n - 1, L)
      <4>1. n - 1 \in 0..Len(t) /\ n - 1 \in Nat  BY <3>1, <2>3, <1>5
      <4>2. ASSUME NEW x \in 1..(n - 1) PROVE <<g[x - 1], t[x], g[x]>> \in Links(L)
        <5>1. /\ x + 1 \in 1..n /\ (x + 1) - 1 = x /\ x - 1 \in 0..(n - 1) /\ x \in 0..(n - 1)
              /\ (x - 1) + 1 = x /\ x \in 1..Len(t)
          BY <3>1, <4>1
        <5>2. <<h[(x + 1) - 1], s[x + 1], h[x + 1]>> \in Links(L)  BY <5>1, <2>2 DEF Astray
        <5>3. g[x - 1] = h[(x - 1) + 1] /\ g[x] = h[x + 1]  BY <5>1, <3>7
        <5>4. QED  BY <5>1, <5>2, <5>3, <1>5
      <4>3. ASSUME NEW x \in 1..Len(t), x > n - 1, Runs(t[x]) PROVE Served(g[n - 1], t[x].call, L)
        <5>1. x + 1 \in 1..Len(s) /\ x + 1 > n /\ n - 1 \in 0..(n - 1) /\ (n - 1) + 1 = n
          BY <4>3, <3>1, <1>5
        <5>2. t[x] = s[x + 1] /\ g[n - 1] = h[(n - 1) + 1]  BY <5>1, <3>7, <1>5
        <5>3. Served(h[n], s[x + 1].call, L)  BY <5>1, <5>2, <4>3, <2>2 DEF Astray
        <5>4. QED  BY <5>1, <5>2, <5>3
      <4>4. QED  BY <4>1, <4>2, <4>3 DEF Astray
    <3>9. DisturbedBy(g, n - 1)'
      <4>1. Astray(chip' \o usbuf', g, n - 1, Marks')  BY <1>3, <3>8 DEF t
      <4>2. QED  BY <4>1, <3>6, <3>7 DEF DisturbedBy
    <3>10. InTurn(it)  BY <3>5 DEF InTurn, L
    <3>11. QED  BY <3>9, <3>10 DEF Strayed, it
  <2>6. QED  BY <2>4, <2>5
<1>9. QED  BY <1>7, <1>8

LEMMA OrderlyChip ==
  ASSUME Linked, Wired, Buffered, Reading, ChipStep, Orderly, UNCHANGED <<kind, freq, calls>>
  PROVE  Orderly' /\ InTurn(Head(chip))
<1> DEFINE it == Head(chip)
           s == chip \o usbuf
           S == Kept(Here)
<1>1. PICK p, q, u : OrderlyBy(p, q, u)  BY DEF Orderly
<1>2. s \in Seq(S) /\ s # <<>> /\ Head(s) = it /\ chip' \o usbuf' = Tail(s)  BY QueueIs, QueueGoes
<1>3. Marks \in [Nat -> Nat]  BY MarksIn
<1>4. p \in Ideal /\ q \in Ideal /\ u \in Ideal /\ Sync(p) /\ Leads(s, p, q, Links(Marks))
  BY <1>1 DEF OrderlyBy
<1> HIDE DEF s, S
<1>5. PICK c : <<p, it, c>> \in Links(Marks) /\ Leads(Tail(s), c, q, Links(Marks))
  BY <1>2, <1>4, LeadsTail
<1>6. c \in Ideal /\ Carries(p, it, c, it.call, Marks)  BY <1>5, LinkIs
<1>7. Sync(c)' /\ InTurn(it)
  <2> DEFINE L == Marks
  <2> HIDE DEF L, it
  <2>1. L \in [Nat -> Nat] /\ Carries(p, it, c, it.call, L)  BY <1>3, <1>6 DEF L
  <2>2. /\ Sync(c)'
        /\ Clocking(it) => \A k \in Nat : 1 <= k /\ k < it.call => L[k] <= Clocks(k)
    BY <1>4, <1>6, <2>1, ChipFollows DEF it
  <2>3. QED  BY <2>2 DEF InTurn, L
<1>8. UNCHANGED <<script, state, told>>  BY DEF ChipStep, hist
<1>9. Orderly'
  <2>1. Leads(chip' \o usbuf', c, q, Links(Marks))  BY <1>2, <1>5
  <2>2. /\ Leads(script', q, u, Turns(Here, Marks)) /\ u.need = 0 /\ Served(u, Here + 1, Marks)
        /\ (~told' => u.owed = 0) /\ (state' \in {"closing", "closed"} /\ ~told' => u.drained)
    BY <1>1, <1>8 DEF OrderlyBy
  <2>3. QED  BY <1>4, <1>6, <1>7, <2>1, <2>2, OrderlyNext
<1>10. QED  BY <1>7, <1>9

LEMMA OrderedChip ==
  ASSUME Linked, Wired, Buffered, ChipStep, Ordered, InTurn(Head(chip)),
         UNCHANGED <<kind, freq, calls>>
  PROVE  Ordered'
<1> DEFINE it == Head(chip)
<1>1. /\ it \in Commands
      /\ \A k : Clocks(k)' = Clocks(k) + (IF Clocking(it) /\ k = it.call THEN it.bits ELSE 0)
      /\ \A x \in DOMAIN wire' :
           \/ Clocking(it) /\ wire'[x].call = it.call
           \/ \E y \in DOMAIN wire : wire'[x].call = wire[y].call
  BY ChipClocks
<1>2. \A k \in Nat : Clocks(k) \in Nat /\ Marks[k] \in Nat  BY ClocksAre, MarksIn
<1>3. it.bits \in Nat  BY <1>1 DEF Commands
<1>4. Marks' = Marks  BY MarksStay
<1> SUFFICES ASSUME NEW x \in DOMAIN wire', NEW k \in Nat, 1 <= k, k < wire'[x].call
             PROVE  Marks[k] <= Clocks(k)'
  BY <1>4 DEF Ordered
<1>5. Marks[k] <= Clocks(k)
  <2>1. CASE Clocking(it) /\ wire'[x].call = it.call
    <3>1. \A j \in Nat : 1 <= j /\ j < it.call => Marks[j] <= Clocks(j)  BY <2>1 DEF InTurn
    <3>2. QED  BY <2>1, <3>1
  <2>2. CASE \E y \in DOMAIN wire : wire'[x].call = wire[y].call
    BY <2>2 DEF Ordered
  <2>3. QED  BY <2>1, <2>2, <1>1
<1>6. QED
  <2> DEFINE m == Marks[k]
             c == Clocks(k)
             d == Clocks(k)'
             b == it.bits
  <2>1. m \in Nat /\ c \in Nat /\ m <= c /\ b \in Nat /\ (d = c + b \/ d = c + 0)
    BY <1>1, <1>2, <1>3, <1>5
  <2> HIDE DEF m, c, d, b
  <2>2. m <= d  BY ONLY <2>1, SMT
  <2>3. QED  BY <2>2 DEF m, d

(* What the script leads to, taken one operation on.                       *)
LEMMA TakesTurn ==
  ASSUME Linked, Scripted, IsFtdi, script # <<>>, NEW q, NEW u, NEW h, NEW L,
         Leads(script, q, u, Turns(h, L))
  PROVE  \E c \in Ideal : Turn(q, Op, c, h, L) /\ Leads(Tail(script), c, u, Turns(h, L))
<1>1. script \in Seq(FtdiOps \cup Ends)  BY DEF Scripted
<1>2. PICK c : <<q, Head(script), c>> \in Turns(h, L) /\ Leads(Tail(script), c, u, Turns(h, L))
  BY <1>1, LeadsTail
<1>3. c \in Ideal /\ Turn(q, Head(script), c, h, L)  BY <1>2, TurnIs
<1>4. QED  BY <1>2, <1>3 DEF Op

(* An item of call k, as it is sent.                                       *)
LEMMA SentLinks ==
  ASSUME NEW it \in Commands, NEW k \in Nat, NEW L, NEW p \in Ideal, NEW q \in Ideal,
         Carries(p, it, q, k, L)
  PROVE  <<p, [it EXCEPT !.call = k], q>> \in Links(L)
<1> DEFINE e == [it EXCEPT !.call = k]
<1>1. /\ e \in Commands /\ e.call = k /\ e.op = it.op /\ e.n = it.n /\ e.bits = it.bits
      /\ e.w = it.w /\ e.r = it.r
  BY DEF Commands
<1> HIDE DEF e
<1>2. (Runs(e) <=> Runs(it)) /\ Due(e) = Due(it)  BY <1>1 DEF Runs, Due
<1>3. Carries(p, e, q, e.call, L)  BY <1>1, <1>2 DEF Carries
<1>4. <<p, e, q>> \in Links(L)  BY <1>1, <1>3, LinkIs
<1>5. QED  BY <1>4 DEF e

(* One item more at the end of the queue.                                  *)
LEMMA QueueLeads ==
  ASSUME Linked, Buffered, NEW it \in Items(0), NEW e, e = [it EXCEPT !.call = Here],
         e \in Kept(Here), UNCHANGED chip, usbuf' = Append(usbuf, e),
         NEW p, NEW q \in Ideal, NEW c \in Ideal, NEW L,
         Leads(chip \o usbuf, p, q, Links(L)), Carries(q, it, c, Here, L)
  PROVE  Leads(chip' \o usbuf', p, c, Links(L))
<1>1. it \in Commands /\ Here \in Nat  BY ItemCommand, HereIs
<1>2. <<q, e, c>> \in Links(L)  BY <1>1, SentLinks
<1>3. chip' \o usbuf' = Append(chip \o usbuf, e) /\ chip \o usbuf \in Seq(Kept(Here))
  BY QueueGrows, QueueIs
<1> DEFINE s == chip \o usbuf
<1>4. s \in Seq(Kept(Here)) /\ Leads(s, p, q, Links(L))  BY <1>3
<1> HIDE DEF s
<1>5. Leads(Append(s, e), p, c, Links(L))  BY <1>2, <1>4, LeadsAppend
<1>6. QED  BY <1>3, <1>5 DEF s

LEMMA AddOrderly ==
  ASSUME Linked, Scripted, Buffered, Orderly, mpsse_add_cmd, UNCHANGED <<kind, freq>>
  PROVE  Orderly'
<1>1. /\ script # <<>> /\ Op.do = "add" /\ usbuf' = Append(usbuf, [Op.it EXCEPT !.call = Here])
      /\ script' = Tail(script)
      /\ UNCHANGED <<calls, wire, want, fifo, have, told, chip, state>>
  BY DEF mpsse_add_cmd, Doing, Done, hist, reading
<1>2. IsFtdi /\ Op.it \in Items(0) /\ (calls = <<>> => Op.it.op \in QuietNames)
  BY <1>1, Whose, OpIs
<1>3. [Op.it EXCEPT !.call = Here] \in Kept(Here)  BY <1>2, ItemSent
<1>4. PICK p, q, u : OrderlyBy(p, q, u)  BY DEF Orderly
<1>5. PICK c \in Ideal : /\ Turn(q, Op, c, Here, Marks)
                         /\ Leads(Tail(script), c, u, Turns(Here, Marks))
  BY <1>1, <1>2, <1>4, TakesTurn DEF OrderlyBy
<1>6. Carries(q, Op.it, c, Here, Marks)  BY <1>1, <1>5 DEF Turn
<1>7. p \in Ideal /\ q \in Ideal /\ u \in Ideal /\ Sync(p)
      /\ Leads(chip \o usbuf, p, q, Links(Marks))
  BY <1>4 DEF OrderlyBy
<1>8. Leads(chip' \o usbuf', p, c, Links(Marks))
  BY <1>1, <1>2, <1>3, <1>6, <1>7, QueueLeads
<1>9. Sync(p)'  BY <1>1, <1>7, SyncOn
<1>10. QED  BY <1>1, <1>4, <1>5, <1>7, <1>8, <1>9, OrderlyNext DEF OrderlyBy

LEMMA SendOrderly ==
  ASSUME Linked, Scripted, Buffered, Orderly, mpsse_send, UNCHANGED <<kind, freq>>
  PROVE  Orderly'
<1>1. /\ script # <<>> /\ Op.do \in {"send", "fill", "add"}
      /\ script' = IF Op.do = "send" THEN Tail(script) ELSE script
      /\ chip' = chip \o usbuf /\ usbuf' = <<>>
      /\ UNCHANGED <<calls, wire, want, fifo, have, told, state>>
  BY DEF mpsse_send, Sending, Doing, hist, reading
<1>2. IsFtdi  BY <1>1, Whose
<1>3. chip' \o usbuf' = chip \o usbuf
  <2>1. chip \in Seq(Kept(Here)) /\ usbuf \in Seq(Kept(Here))  BY DEF Buffered
  <2>2. chip \o usbuf \in Seq(Kept(Here))  BY <2>1, ConcatIn
  <2>3. QED  BY <1>1, <2>2, ConcatEmptySeq
<1>4. PICK p, q, u : OrderlyBy(p, q, u)  BY DEF Orderly
<1>5. Leads(script', q, u, Turns(Here, Marks))
  <2>1. CASE Op.do = "send"
    <3>1. PICK c \in Ideal : /\ Turn(q, Op, c, Here, Marks)
                             /\ Leads(Tail(script), c, u, Turns(Here, Marks))
      BY <1>1, <1>2, <1>4, TakesTurn DEF OrderlyBy
    <3>2. c = q  BY <2>1, <3>1 DEF Turn
    <3>3. QED  BY <1>1, <2>1, <3>1, <3>2
  <2>2. CASE Op.do # "send"  BY <1>1, <1>4, <2>2 DEF OrderlyBy
  <2>3. QED  BY <2>1, <2>2
<1>6. Sync(p)'  BY <1>1, <1>4, SyncOn DEF OrderlyBy
<1>7. QED  BY <1>1, <1>3, <1>4, <1>5, <1>6, OrderlyNext DEF OrderlyBy

FillingIs(it, from, n) ==
  /\ it = Filling(from, n) /\ it \in Items(0) /\ it \in Commands /\ it.op = "payload"
  /\ it.n = n /\ it.bits = 8 * n /\ ~it.w /\ Runs(it) /\ Due(it) = 0 /\ it.op \in DataNames
  /\ it.op # "loop"

LEMMA FillingIn ==
  ASSUME NEW from \in Int, NEW n \in Nat, n < TX_BUF
  PROVE  FillingIs(Filling(from, n), from, n)
<1>1. n <= 65536 /\ 8 * n \in Nat /\ 8 * n <= 8 * n + 8  BY BufferAssumption
<1>2. Apt("payload", "idle", from, n, 8 * n, FALSE, FALSE)
  BY <1>1 DEF Apt, DataNames, RunKinds
<1>3. ItemIs(Item("payload", "idle", from, n, 8 * n, FALSE, FALSE), "payload", n, 8 * n, FALSE, FALSE)
  BY <1>2, ItemIn
<1> DEFINE it == Filling(from, n)
<1>4. it \in Items(0) /\ it.op = "payload" /\ it.n = n /\ it.bits = 8 * n /\ it.w = FALSE
  BY <1>3 DEF ItemIs, Filling
<1>5. it = Filling(from, n)  OBVIOUS
<1> HIDE DEF it
<1>6. it \in Commands /\ it.op \in DataNames /\ it.op # "loop" /\ it.op \notin ClockNames
  BY <1>4, ItemCommand DEF DataNames, ClockNames
<1>7. Runs(it) /\ Due(it) = 0  BY <1>6 DEF Runs, Due
<1>8. FillingIs(it, from, n)  BY <1>4, <1>5, <1>6, <1>7 DEF FillingIs
<1>9. QED  BY <1>5, <1>8

LEMMA Eights == \A h, a, b, n, m \in Int : n = a + b /\ m = h + 8 * a => h + 8 * n = m + 8 * b
OBVIOUS

(* The bytes of one filling may go in two.                                 *)
LEMMA FillingSplits ==
  ASSUME NEW from \in Int, NEW n \in Nat, NEW m \in Nat, 0 < m, m < n, m < TX_BUF,
         NEW p \in Ideal, NEW q \in Ideal, NEW h \in Nat, NEW L \in [Nat -> Nat], NEW to \in Int,
         Carries(p, Filling(from, n), q, h, L)
  PROVE  \E c \in Ideal : /\ Carries(p, Filling(from, m), c, h, L)
                          /\ Carries(c, Filling(to, n - m), q, h, L)
<1> DEFINE i == Filling(from, n)
           j == Filling(from, m)
           k == Filling(to, n - m)
           l == n - m
<1>1. FillingIs(j, from, m)  BY FillingIn
<1>2. /\ i.op = "payload" /\ i.n = n /\ i.bits = 8 * n /\ ~i.w /\ i.op # "loop"
      /\ k.op = "payload" /\ k.n = l /\ k.bits = 8 * l /\ ~k.w /\ k.op # "loop"
  BY DEF Filling, Item
<1>3. l \in Nat /\ l > 0 /\ n = m + l /\ Carries(p, i, q, h, L)  OBVIOUS
<1> HIDE DEF i, j, k, l
<1>4. /\ i.op \in DataNames /\ Runs(i) /\ Due(i) = 0 /\ k.op \in DataNames /\ Runs(k) /\ Due(k) = 0
      /\ i.op \notin ClockNames
  BY <1>2 DEF Runs, Due, DataNames, ClockNames
<1>5. /\ p.need > 0 /\ n <= p.need /\ q.need = p.need - n /\ Served(p, h, L)
      /\ q.owed = p.owed /\ q.clocks = [p.clocks EXCEPT ![h] = @ + 8 * n] /\ q.drained = FALSE
  <2>1. q.owed = p.owed + 0 /\ p.owed \in Int  BY <1>3, <1>4 DEF Carries, Ideal
  <2>2. p.need > 0 /\ i.n <= p.need /\ q.need = p.need - i.n /\ Served(p, h, L)
    BY <1>3, <1>4 DEF Carries
  <2>3. q.clocks = [p.clocks EXCEPT ![h] = @ + i.bits]  BY <1>3, <1>4 DEF Carries
  <2>4. q.drained = FALSE  BY ONLY <1>3, <1>4, Zenon DEF Carries
  <2>5. QED  BY <1>2, <2>1, <2>2, <2>3, <2>4
<1>6. Welcome(p, j)
  <2>1. p.need \in Nat /\ m <= p.need  BY <1>3, <1>5 DEF Ideal
  <2>2. QED  BY <1>1, <1>5, <2>1 DEF Welcome, FillingIs
<1> DEFINE c == After(p, j, h)
<1>7. c \in Ideal /\ Carries(p, j, c, h, L) /\ Served(c, h, L)
  BY <1>1, <1>5, <1>6, AfterIs DEF FillingIs
<1>8. /\ c.need = p.need - m /\ c.owed = p.owed /\ c.clocks = [p.clocks EXCEPT ![h] = @ + 8 * m]
  <2>1. c.owed = p.owed + 0 /\ p.owed \in Int  BY <1>1 DEF After, FillingIs, Ideal
  <2>2. QED  BY <1>1, <2>1 DEF After, FillingIs
<1> HIDE DEF c
<1>9. c.need > 0 /\ l <= c.need /\ q.need = c.need - l /\ q.owed = c.owed + 0
  <2>1. p.need \in Nat /\ p.owed \in Int  BY DEF Ideal
  <2>2. QED  BY ONLY <1>3, <1>5, <1>8, <2>1, m \in Nat, n \in Nat, SMT
<1>10. q.clocks = [c.clocks EXCEPT ![h] = @ + 8 * l]
  <2> DEFINE P == p.clocks
             C == c.clocks
  <2>1. P \in [Nat -> Nat] /\ C \in [Nat -> Nat]  BY <1>7 DEF Ideal
  <2>2. C = [P EXCEPT ![h] = @ + 8 * m] /\ q.clocks = [P EXCEPT ![h] = @ + 8 * n]  BY <1>5, <1>8
  <2> HIDE DEF P, C
  <2>3. C[h] = P[h] + 8 * m /\ P[h] \in Int /\ C[h] \in Int  BY <2>1, <2>2
  <2>4. P[h] + 8 * n = C[h] + 8 * l  BY <1>3, <2>3, Eights
  <2>5. [P EXCEPT ![h] = @ + 8 * n] = [C EXCEPT ![h] = @ + 8 * l]
    <3>1. \A x \in Nat : [P EXCEPT ![h] = @ + 8 * n][x] = [C EXCEPT ![h] = @ + 8 * l][x]
      <4> TAKE x \in Nat
      <4>1. CASE x = h  BY <2>1, <2>4, <4>1
      <4>2. CASE x # h  BY <2>1, <2>2, <4>2
      <4>3. QED  BY <4>1, <4>2
    <3>2. QED  BY <2>1, <3>1
  <2>6. QED  BY <2>2, <2>5 DEF C
<1>11. Carries(c, k, q, h, L)
  BY <1>2, <1>4, <1>5, <1>7, <1>9, <1>10 DEF Carries
<1>12. QED  BY <1>3, <1>7, <1>11 DEF j, k, l

LEMMA FillGoesOn ==
  ASSUME Linked, Scripted, bptr \in Nat, FtdiFill
  PROVE  \E m \in Nat \ {0} :
           /\ m <= Op.n /\ m < TX_BUF
           /\ usbuf' = Append(usbuf, [Filling(Op.from, m) EXCEPT !.call = Here])
           /\ script' = IF m = Op.n THEN Tail(script)
                        ELSE <<[do |-> "fill", n |-> Op.n - m, from |-> Op.from + 8 * m]>>
                               \o Tail(script)
<1>1. script # <<>> /\ Op.do = "fill" /\ Op.n \in Nat /\ Op.n > 0 /\ Op.from \in Int
  BY OpIs DEF FtdiFill, Doing
<1> DEFINE room == TX_BUF - 1 - bptr - 1
           m == IF Op.n < room THEN Op.n ELSE room
<1>2. room \in Nat /\ room > 0 /\ room < TX_BUF
  BY BufferAssumption DEF FtdiFill, Fits
<1>3. m \in Nat /\ m > 0 /\ m <= Op.n /\ m < TX_BUF
  <2> DEFINE n == Op.n
             r == room
  <2>1. n \in Nat /\ n > 0 /\ r \in Nat /\ r > 0 /\ r < TX_BUF /\ TX_BUF \in Nat
    BY <1>1, <1>2, BufferAssumption
  <2>2. m = IF n < r THEN n ELSE r  OBVIOUS
  <2> HIDE DEF n, r, m
  <2>3. m \in Nat /\ m > 0 /\ m <= n /\ m < TX_BUF  BY ONLY <2>1, <2>2, SMT
  <2>4. QED  BY <2>3 DEF n
<1>4. /\ usbuf' = Append(usbuf, [Filling(Op.from, m) EXCEPT !.call = Here])
      /\ script' = IF m = Op.n THEN Tail(script)
                   ELSE <<[do |-> "fill", n |-> Op.n - m, from |-> Op.from + 8 * m]>>
                          \o Tail(script)
  BY DEF FtdiFill, Filling
<1>5. m \in Nat \ {0}  BY <1>3
<1> HIDE DEF m
<1>6. WITNESS m \in Nat \ {0}
<1>7. QED  BY <1>3, <1>4

LEMMA FillTurn ==
  ASSUME NEW n \in Nat \ {0}, NEW from \in Int, NEW h, NEW L, NEW p \in Ideal, NEW q \in Ideal,
         Carries(p, Filling(from, n), q, h, L)
  PROVE  Leads(<<[do |-> "fill", n |-> n, from |-> from]>>, p, q, Turns(h, L))
<1> DEFINE o == [do |-> "fill", n |-> n, from |-> from]
<1>1. o \in FtdiOps \cup Ends /\ o.do = "fill" /\ o.n = n /\ o.from = from
  BY DEF FtdiOps, Fills
<1> HIDE DEF o
<1>2. Turn(p, o, q, h, L)  BY <1>1 DEF Turn
<1>3. <<p, o, q>> \in Turns(h, L)  BY <1>1, <1>2, TurnIs
<1>4. Leads(<<o>>, p, q, Turns(h, L))  BY <1>3, LeadsOne
<1>5. QED  BY <1>4 DEF o

LEMMA FillOrderly ==
  ASSUME Linked, Scripted, Buffered, Orderly, FtdiFill, UNCHANGED <<kind, freq>>
  PROVE  Orderly'
<1>1. /\ script # <<>> /\ Op.do = "fill"
      /\ UNCHANGED <<calls, wire, want, fifo, have, told, chip, state>>
  BY DEF FtdiFill, Doing, hist, reading
<1>2. IsFtdi /\ calls # <<>> /\ Op.n \in Nat \ {0} /\ Op.from \in Int
  BY <1>1, Whose, OpIs
<1>3. bptr \in Nat  BY HereIs, HeldNat DEF Buffered
<1> DEFINE n == Op.n
           from == Op.from
<1>4. PICK m \in Nat \ {0} :
        /\ m <= n /\ m < TX_BUF
        /\ usbuf' = Append(usbuf, [Filling(from, m) EXCEPT !.call = Here])
        /\ script' = IF m = n THEN Tail(script)
                     ELSE <<[do |-> "fill", n |-> n - m, from |-> from + 8 * m]>> \o Tail(script)
  BY <1>3, FillGoesOn
<1>5. PICK p, q, u : OrderlyBy(p, q, u)  BY DEF Orderly
<1>6. PICK c \in Ideal : /\ Turn(q, Op, c, Here, Marks)
                         /\ Leads(Tail(script), c, u, Turns(Here, Marks))
  BY <1>1, <1>2, <1>5, TakesTurn DEF OrderlyBy
<1>7. Carries(q, Filling(from, n), c, Here, Marks)  BY <1>1, <1>6 DEF Turn
<1>8. p \in Ideal /\ q \in Ideal /\ u \in Ideal /\ Sync(p)
      /\ Leads(chip \o usbuf, p, q, Links(Marks))
  BY <1>5 DEF OrderlyBy
<1>9. from \in Int /\ n \in Nat \ {0}  BY <1>2
<1> HIDE DEF n, from
<1>10. FillingIs(Filling(from, m), from, m)  BY <1>4, <1>9, FillingIn
<1> DEFINE it == Filling(from, m)
           e == [it EXCEPT !.call = Here]
<1>11. it \in Items(0) /\ e \in Kept(Here) /\ usbuf' = Append(usbuf, e)
  BY <1>2, <1>4, <1>10, ItemSent DEF FillingIs
<1>12. Here \in Nat /\ Marks \in [Nat -> Nat]  BY HereIs, MarksIn
<1>13. \E d \in Ideal : Carries(q, it, d, Here, Marks) /\ Leads(script', d, u, Turns(Here, Marks))
  <2>1. CASE m = n
    BY <1>4, <1>6, <1>7, <2>1
  <2>2. CASE m # n
    <3>1. m < n /\ n - m \in Nat \ {0} /\ from + 8 * m \in Int  BY <1>4, <1>9, <2>2
    <3> DEFINE to == from + 8 * m
    <3>2. PICK d \in Ideal : /\ Carries(q, it, d, Here, Marks)
                             /\ Carries(d, Filling(to, n - m), c, Here, Marks)
      <4>1. n \in Nat /\ m \in Nat /\ 0 < m /\ m < TX_BUF /\ to \in Int  BY <1>4, <1>9, <3>1
      <4> HIDE DEF to
      <4>2. QED  BY <1>7, <1>8, <1>9, <1>12, <3>1, <4>1, FillingSplits
    <3>3. Leads(<<[do |-> "fill", n |-> n - m, from |-> to]>>, d, c, Turns(Here, Marks))
      BY <3>1, <3>2, FillTurn
    <3>4. script' = <<[do |-> "fill", n |-> n - m, from |-> to]>> \o Tail(script)  BY <1>4, <2>2
    <3>5. Tail(script) \in Seq(FtdiOps \cup Ends)  BY <1>1, <1>2, TailIn DEF Scripted
    <3>6. [do |-> "fill", n |-> n - m, from |-> to] \in FtdiOps \cup Ends
      BY <3>1 DEF FtdiOps, Fills
    <3> DEFINE o == [do |-> "fill", n |-> n - m, from |-> to]
    <3> HIDE DEF o
    <3>7. <<o>> \in Seq(FtdiOps \cup Ends)  BY <3>6, OneIn DEF o
    <3>8. Leads(<<o>> \o Tail(script), d, u, Turns(Here, Marks))
      BY <1>6, <3>3, <3>5, <3>7, LeadsConcat DEF o
    <3>9. QED  BY <3>2, <3>4, <3>8 DEF o
  <2>3. QED  BY <2>1, <2>2
<1>14. PICK d \in Ideal : Carries(q, it, d, Here, Marks) /\ Leads(script', d, u, Turns(Here, Marks))
  BY <1>13
<1> HIDE DEF it
<1>15. Leads(chip' \o usbuf', p, d, Links(Marks))
  BY <1>1, <1>8, <1>11, <1>14, QueueLeads
<1>16. Sync(p)'  BY <1>1, <1>8, SyncOn
<1>17. QED  BY <1>1, <1>5, <1>8, <1>14, <1>15, <1>16, OrderlyNext DEF OrderlyBy

LEMMA ReadOrderly ==
  ASSUME Linked, Scripted, Wired, Buffered, Reading, Orderly, FtdiRead, UNCHANGED <<kind, freq>>
  PROVE  Orderly'
<1>1. /\ script # <<>> /\ Op.do = "get"
      /\ UNCHANGED <<calls, wire, want, told, chip, usbuf, script, state>>
  BY DEF FtdiRead, Doing, hist
<1>2. Op.n \in Nat /\ Op.at \in Int /\ have \in Nat /\ have <= Op.n /\ put \in Int
  BY <1>1, OpIs DEF Reading, Doing
<1>3. fifo \in Seq(Answers) /\ got \in Seq(Captured) /\ Available \in Nat
  BY AvailableNat DEF Buffered, Wired
<1>4. \E m \in Nat : m <= Available /\ have' = have + m /\ fifo' = TakeBytes(m).rest
  <2> DEFINE most == IF Available < Op.n - have THEN Available ELSE Op.n - have
  <2>1. PICK m \in {0, most} : have' = have + m /\ fifo' = TakeBytes(m).rest
    BY DEF FtdiRead
  <2>2. most \in Nat /\ most <= Available  BY <1>2, <1>3
  <2>3. m \in Nat /\ m <= Available  BY <1>3, <2>1, <2>2
  <2>4. QED  BY <2>1, <2>3
<1>5. PICK m \in Nat : m <= Available /\ have' = have + m /\ fifo' = TakeBytes(m).rest
  BY <1>4
<1>6. Available' = Available - m
  <2>1. Op.at + put \in Int  BY <1>2
  <2>2. BytesOf(TakeBytes(m).rest) = Available - m  BY <1>3, <1>5, <2>1, BytesTaken
  <2>3. (Available = BytesOf(fifo))'  BY AvailableBytes, PTL
  <2>4. QED  BY <1>5, <2>2, <2>3
<1>7. Available' + have' = Available + have  BY <1>2, <1>3, <1>5, <1>6
<1>8. PICK p, q, u : OrderlyBy(p, q, u)  BY DEF Orderly
<1>9. Sync(p)'
  <2>1. Sync(p)  BY <1>8 DEF OrderlyBy
  <2>2. p.need = want'.n  BY <1>1, <2>1 DEF Sync
  <2>3. \A k \in Nat : p.clocks[k] <= Clocks(k)'  BY <1>1, <2>1, ClocksUnmoved DEF Sync
  <2>4. ~told' => p.owed = Available' + have' + (IF want'.r THEN want'.n ELSE 0)
    BY <1>1, <1>7, <2>1 DEF Sync
  <2>5. QED  BY <2>2, <2>3, <2>4 DEF Sync
<1>10. QED  BY <1>1, <1>8, <1>9, OrderlyNext DEF OrderlyBy

(* What only counts or closes leaves the order as it is.                   *)
LEMMA OrderlyOn ==
  ASSUME Orderly, UNCHANGED <<kind, freq, calls, wire, want, fifo, have, told, chip, usbuf, script>>,
         UNCHANGED state \/ (state \notin {"closing", "closed"} => state' \notin {"closing", "closed"})
  PROVE  Orderly'
<1>1. PICK p, q, u : OrderlyBy(p, q, u)  BY DEF Orderly
<1>2. Sync(p)'  BY <1>1, SyncOn DEF OrderlyBy
<1>3. QED  BY <1>1, <1>2, OrderlyNext DEF OrderlyBy

LEMMA CloseOrderly ==
  ASSUME Linked, Scripted, Orderly, FtdiClose, UNCHANGED <<kind, freq>>
  PROVE  Orderly'
<1>1. /\ script # <<>> /\ Op.do = "close" /\ script' = Tail(script)
      /\ UNCHANGED <<calls, wire, want, fifo, have, told, chip, usbuf, state>>
  BY DEF FtdiClose, Doing, Done, hist, reading
<1>2. IsFtdi  BY <1>1, Whose
<1>3. PICK p, q, u : OrderlyBy(p, q, u)  BY DEF Orderly
<1>4. PICK c \in Ideal : /\ Turn(q, Op, c, Here, Marks)
                         /\ Leads(Tail(script), c, u, Turns(Here, Marks))
  BY <1>1, <1>2, <1>3, TakesTurn DEF OrderlyBy
<1>5. c = q  BY <1>1, <1>4 DEF Turn
<1>6. Sync(p)'  BY <1>1, <1>3, SyncOn DEF OrderlyBy
<1>7. QED  BY <1>1, <1>3, <1>4, <1>5, <1>6, OrderlyNext DEF OrderlyBy

(* A read that has all its bytes takes them from what is owed.             *)
LEMMA DoneOrderly ==
  ASSUME Linked, Scripted, Buffered, Reading, Orderly, FtdiReadDone, ~ReadFailed,
         UNCHANGED <<kind, freq>>
  PROVE  Orderly'
<1>1. /\ script # <<>> /\ Op.do = "get" /\ script' = Tail(script) /\ have' = 0
      /\ ~told' => ~told /\ have = Op.n
      /\ UNCHANGED <<calls, wire, want, fifo, chip, usbuf, state>>
  BY DEF FtdiReadDone, Doing, Done, Fresh, ReadDone
<1>2. IsFtdi /\ Op.n \in Nat /\ have \in Nat  BY <1>1, Whose, OpIs DEF Reading
<1>3. PICK p, q, u : OrderlyBy(p, q, u)  BY DEF Orderly
<1>4. PICK c \in Ideal : /\ Turn(q, Op, c, Here, Marks)
                         /\ Leads(Tail(script), c, u, Turns(Here, Marks))
  BY <1>1, <1>2, <1>3, TakesTurn DEF OrderlyBy
<1>4a. PICK n \in Int : n = Op.n  BY <1>2
<1> DEFINE o == Taken(p, n)
<1>5. c = Taken(q, n)  BY <1>1, <1>4, <1>4a DEF Turn, Taken
<1>6. p \in Ideal /\ q \in Ideal /\ u \in Ideal /\ Sync(p) /\ n \in Int
      /\ Leads(chip \o usbuf, p, q, Links(Marks))
  BY <1>3 DEF OrderlyBy
<1>7. /\ o \in Ideal /\ o.owed = p.owed - n /\ o.need = p.need /\ o.clocks = p.clocks
  BY <1>6, TakenIs
<1>8. Leads(chip' \o usbuf', o, c, Links(Marks))
  <2> DEFINE s == chip \o usbuf
  <2>1. s \in Seq(Kept(Here)) /\ Leads(s, p, q, Links(Marks))  BY <1>6, QueueIs
  <2> HIDE DEF s
  <2>2. Leads(s, Taken(p, n), Taken(q, n), Links(Marks))  BY <1>6, <2>1, LinksTaken
  <2>3. QED  BY <1>1, <1>5, <2>2 DEF s
<1> HIDE DEF o
<1>9. Sync(o)'
  <2>1. o.need = want'.n  BY <1>1, <1>6, <1>7 DEF Sync
  <2>2. \A k \in Nat : o.clocks[k] <= Clocks(k)'  BY <1>1, <1>6, <1>7, ClocksUnmoved DEF Sync
  <2>3. ~told' => o.owed = Available' + have' + (IF want'.r THEN want'.n ELSE 0)
    <3>1. SUFFICES ASSUME ~told' PROVE o.owed = Available' + have' + (IF want'.r THEN want'.n ELSE 0)
      OBVIOUS
    <3> DEFINE x == IF want.r THEN want.n ELSE 0
               a == Available
    <3>2. p.owed = a + have + x  BY <1>1, <1>6, <3>1 DEF Sync
    <3>3. have = n /\ Available' = a /\ have' = 0 /\ want' = want
      BY <1>1, <1>4a, <3>1, AvailableUnmoved
    <3>4. a \in Nat /\ x \in Int  BY AvailableNat DEF Buffered
    <3>5. x = IF want'.r THEN want'.n ELSE 0  BY <3>3
    <3> HIDE DEF x, a
    <3>6. o.owed = a + 0 + x  BY ONLY <1>2, <1>7, <1>4a, <3>2, <3>3, <3>4, SMT
    <3>7. QED  BY <3>3, <3>5, <3>6
  <2>4. QED  BY <2>1, <2>2, <2>3 DEF Sync
<1>10. QED  BY <1>1, <1>3, <1>4, <1>6, <1>7, <1>8, <1>9, OrderlyNext DEF OrderlyBy

LEMMA OpenOrderly ==
  ASSUME Linked, Scripted, Buffered, Orderly, FtdiOpen, UNCHANGED <<kind, freq>>
  PROVE  Orderly'
<1>1. /\ script = <<>> /\ script' = FtdiSetup /\ state = "init"
      /\ UNCHANGED <<calls, wire, want, fifo, have, told, chip, usbuf, state>>
  BY DEF FtdiOpen, Scripted, hist, vars_ftdi, reading
<1>2. PICK p, q, u : OrderlyBy(p, q, u)  BY DEF Orderly
<1>3. q \in Ideal /\ q = u  BY <1>1, <1>2, LeadsSame DEF OrderlyBy
<1>4. Here \in Nat /\ Marks \in [Nat -> Nat]  BY HereIs, MarksIn
<1>5. Opens(q, Here, Marks)
  <2>1. Served(q, Here + 1, Marks) /\ q.need = 0  BY <1>2, <1>3 DEF OrderlyBy
  <2>2. \A k \in Nat : k < Here => k < Here + 1  BY <1>4
  <2>3. Served(q, Here, Marks)  BY <2>1, <2>2 DEF Served
  <2>4. QED  BY <1>3, <2>1, <2>3 DEF Opens
<1>6. PICK v : Lands(FtdiSetup, 0, q, v, Here, Marks)
  <2>1. Fair(FtdiSetup, 0, Here, Marks)  BY <1>4, FairSetup
  <2>2. QED  BY <1>5, <2>1 DEF Fair
<1>7. v \in Ideal /\ v.need = 0 /\ v.owed = q.owed /\ Grows(q, v)
      /\ Leads(script', q, v, Turns(Here, Marks))
  <2>1. v.owed = q.owed + 0 /\ q.owed \in Int  BY <1>3, <1>6 DEF Lands, Ideal
  <2>2. QED  BY <1>1, <1>6, <2>1 DEF Lands
<1>8. Served(v, Here + 1, Marks)  BY <1>2, <1>3, <1>4, <1>7, GrowsOn DEF OrderlyBy
<1>9. Sync(p)'  BY <1>1, <1>2, SyncOn DEF OrderlyBy
<1>10. ~told' => v.owed = 0  BY <1>1, <1>2, <1>3, <1>7 DEF OrderlyBy
<1>11. p \in Ideal /\ Leads(chip' \o usbuf', p, q, Links(Marks))  BY <1>1, <1>2 DEF OrderlyBy
<1>12. state' \notin {"closing", "closed"} /\ UNCHANGED <<kind, freq, calls>>  BY <1>1
<1>13. QED  BY <1>3, <1>7, <1>8, <1>9, <1>10, <1>11, <1>12, OrderlyNext

LEMMA DestroyOrderly ==
  ASSUME Linked, Scripted, Reading, Orderly, FtdiDestroy, UNCHANGED <<kind, freq>>
  PROVE  Orderly'
<1>1. /\ script = <<>> /\ script' = deinit_script /\ have' = 0
      /\ UNCHANGED <<calls, wire, want, fifo, told, chip, usbuf>>
  BY DEF FtdiDestroy, Scripted, hist, Fresh
<1>2. UNCHANGED have  BY <1>1 DEF Reading, Doing
<1>3. PICK p, q, u : OrderlyBy(p, q, u)  BY DEF Orderly
<1>4. q \in Ideal /\ q = u  BY <1>1, <1>3, LeadsSame DEF OrderlyBy
<1>5. Here \in Nat /\ Marks \in [Nat -> Nat]  BY HereIs, MarksIn
<1>6. PICK v : Drains(q, v) /\ Leads(deinit_script, q, v, Turns(Here, Marks))
  BY <1>3, <1>4, <1>5, DeinitDrains DEF OrderlyBy
<1>7. v \in Ideal /\ v.need = 0 /\ v.owed = q.owed /\ v.drained /\ v.clocks = q.clocks
  BY <1>6 DEF Drains
<1>8. Served(v, Here + 1, Marks)  BY <1>3, <1>4, <1>7 DEF OrderlyBy, Served
<1>9. Sync(p)'  BY <1>1, <1>2, <1>3, SyncOn DEF OrderlyBy
<1>10. ~told' => v.owed = 0  BY <1>1, <1>3, <1>4, <1>7 DEF OrderlyBy
<1>11. p \in Ideal /\ Leads(chip' \o usbuf', p, q, Links(Marks))  BY <1>1, <1>3 DEF OrderlyBy
<1>12. Leads(script', q, v, Turns(Here, Marks)) /\ UNCHANGED <<kind, freq, calls>>
  BY <1>1, <1>6
<1>13. QED  BY <1>4, <1>7, <1>8, <1>9, <1>10, <1>11, <1>12, OrderlyNext

(* A call of at most 20 ms clocks what its time needs, and leaves nothing. *)
LEMMA BeginOrderly ==
  ASSUME Linked, Linked', Scripted, Buffered, Orderly, FtdiBegin, UNCHANGED <<kind, freq>>,
         NEW c, GoodCall(c), calls' = Append(calls, c), script' = FtdiScript(c),
         ~CutsCommand(c)
  PROVE  Orderly'
<1>1. /\ script = <<>> /\ state' = "busy"
      /\ UNCHANGED <<wire, want, fifo, have, told, chip, usbuf>>
  BY DEF FtdiBegin, Begin, Scripted, hist, vars_ftdi, reading
<1>2. PICK p, q, u : OrderlyBy(p, q, u)  BY DEF Orderly
<1>3. q \in Ideal /\ q = u /\ p \in Ideal  BY <1>1, <1>2, LeadsSame DEF OrderlyBy
<1>4. /\ Here \in Nat /\ Marks \in [Nat -> Nat]  BY HereIs, MarksIn
<1> DEFINE h == Here
           L == Marks
<1>5. PICK M \in [Nat -> Nat] : M = Marks'
  <2>1. Marks' \in [Nat -> Nat]  BY MarksBegin
  <2>2. QED  BY <2>1
<1>6. /\ Here' = h + 1 /\ M[h + 1] = Gain(c) /\ \A k \in 1..h : M[k] = L[k]
  BY <1>5, MarksBegin
<1>7. PICK i \in Nat : i = Here  BY <1>4
<1>8. Opens(q, i + 1, M)
  <2>1. Served(q, i + 1, L) /\ q.need = 0  BY <1>2, <1>3, <1>7 DEF OrderlyBy
  <2>2. \A k \in Nat : 1 <= k /\ k < i + 1 => k \in 1..i  BY <1>7
  <2>3. \A k \in Nat : 1 <= k /\ k < i + 1 => L[k] = M[k]  BY <1>6, <1>7, <2>2
  <2>4. Served(q, i + 1, M)  BY <2>1, <2>3 DEF Served
  <2>5. QED  BY <1>3, <2>1, <2>4 DEF Opens
<1>9. PICK v : Rests(FtdiScript(c), Gain(c), q, v, i + 1, M)
  <2>1. freq \in Nat /\ i + 1 \in Nat  BY <1>7 DEF Linked
  <2>2. Idles(FtdiScript(c), Gain(c), i + 1, M)  BY <1>5, <2>1, ScriptIdles
  <2>3. QED  BY <1>8, <2>2 DEF Idles
<1>10. /\ v \in Ideal /\ v.need = 0 /\ v.owed = q.owed /\ Grows(q, v)
       /\ Leads(script', q, v, Turns(i + 1, M)) /\ q.clocks[i + 1] + Gain(c) <= v.clocks[i + 1]
  <2>1. v.owed = q.owed + 0 /\ q.owed \in Int  BY <1>3, <1>9 DEF Rests, Lands, Ideal
  <2>2. QED  BY <1>9, <2>1, SMTT(30) DEF Rests, Lands
<1>11. Served(v, i + 2, M)
  <2>1. Served(q, i + 1, M)  BY <1>8 DEF Opens
  <2>2. Served(v, i + 1, M)  BY <1>3, <1>5, <1>10, <2>1, GrowsOn
  <2>3. M[i + 1] <= v.clocks[i + 1]
    <3>1. q.clocks[i + 1] \in Nat /\ v.clocks[i + 1] \in Nat /\ M[i + 1] \in Nat
      <4>1. i + 1 \in Nat  BY <1>7
      <4>2. q.clocks \in [Nat -> Nat] /\ v.clocks \in [Nat -> Nat]  BY <1>3, <1>10 DEF Ideal
      <4>3. QED  BY <1>5, <4>1, <4>2
    <3>2. M[i + 1] = Gain(c)  BY <1>6, <1>7
    <3> DEFINE a == q.clocks[i + 1]
               b == v.clocks[i + 1]
               g == M[i + 1]
    <3>3. a \in Nat /\ b \in Nat /\ g \in Nat /\ a + g <= b  BY <1>10, <3>1, <3>2
    <3> HIDE DEF a, b, g
    <3>4. g <= b  BY ONLY <3>3, SMT
    <3>5. QED  BY <3>4 DEF b, g
  <2>4. \A k \in Nat : k < i + 2 => k < i + 1 \/ k = i + 1  BY <1>7
  <2>5. QED  BY <2>2, <2>3, <2>4 DEF Served
<1>12. Leads(chip' \o usbuf', p, q, Links(M))
  <2> DEFINE s == chip \o usbuf
  <2>1. s \in Seq(Kept(i)) /\ Leads(s, p, q, Links(L))  BY <1>2, <1>7, QueueIs DEF OrderlyBy
  <2>2. \A k \in 1..i : L[k] = M[k]  BY <1>6, <1>7
  <2> HIDE DEF s, L
  <2>3. Leads(s, p, q, Links(M))  BY <1>3, <2>1, <2>2, LinksAgree
  <2>4. QED  BY <1>1, <2>3 DEF s
<1>13. Sync(p)'  BY <1>1, <1>2, SyncOn DEF OrderlyBy
<1>14. ~told' => v.owed = 0  BY <1>1, <1>2, <1>3, <1>10 DEF OrderlyBy
<1>15. Here' = i + 1 /\ Here' + 1 = i + 2 /\ Marks' = M  BY <1>5, <1>6, <1>7
<1>16. OrderlyBy(p, q, v)'
  <2>1. Served(v, Here' + 1, Marks')  BY <1>11, <1>15
  <2>2. Leads(chip' \o usbuf', p, q, Links(Marks'))  BY <1>12, <1>15
  <2>3. Leads(script', q, v, Turns(Here', Marks'))  BY <1>10, <1>15
  <2>4. state' \notin {"closing", "closed"}  BY <1>1
  <2>5. QED  BY <1>3, <1>10, <1>13, <1>14, <2>1, <2>2, <2>3, <2>4 DEF OrderlyBy
<1>17. QED  BY <1>16 DEF Orderly

(* Once a failure is told, and only the last words are left to say.        *)
LEMMA DisturbedOn ==
  ASSUME Strayed, told', script' \in Seq(QuietOps \cup Ends), Over' \/ Doomed',
         UNCHANGED <<kind, freq, calls, wire>>, chip' \o usbuf' = chip \o usbuf,
         want' = want \/ want'.n = -1
  PROVE  Disturbed'
BY StrayedOn DEF Disturbed

(* An operation that is not the exception leaves it on its way.            *)
LEMMA DoomedOn ==
  ASSUME Disturbed, UNCHANGED state,
         UNCHANGED script \/ (script # <<>> /\ Op.do # "throw" /\ script' = Tail(script))
  PROVE  Over' \/ Doomed'
<1> DEFINE S == QuietOps \cup Ends
<1>1. script \in Seq(S) /\ (Over \/ Doomed)  BY DEF Disturbed
<1>2. CASE Over \/ UNCHANGED script
  BY <1>1, <1>2 DEF Over, Doomed
<1>3. CASE Doomed /\ script # <<>> /\ Op.do # "throw" /\ script' = Tail(script)
  <2>1. /\ script' \in Seq(S) /\ Op = script[1] /\ Len(script') = Len(script) - 1
        /\ \A x \in 1..Len(script') : script'[x] = script[x + 1]
        /\ Len(script) \in Nat \ {0}
    BY <1>1, <1>3, TailIn, SMTT(30) DEF Op
  <2>2. Len(script) # 1  BY <1>3, <2>1 DEF Doomed
  <2> HIDE DEF S
  <2>3. Len(script') \in 1..Len(script') /\ Len(script') + 1 = Len(script)  BY <2>1, <2>2
  <2>4. script'[Len(script')] = script[Len(script)]  BY <2>1, <2>3
  <2>5. script' # <<>>  BY <2>3
  <2>6. QED  BY <1>3, <2>4, <2>5 DEF Doomed
<1>4. QED  BY <1>1, <1>2, <1>3

(* No call begins or returns, and Init does not succeed.                   *)
LEMMA NothingBegins ==
  ASSUME Scripted, Disturbed
  PROVE  ~FtdiBegin /\ ~FtdiOpen /\ ~Return /\ ~Ready
BY DEF Disturbed, Over, Doomed, Scripted, FtdiBegin, Begin, FtdiOpen, Return, Ready

LEMMA EitherStrays ==
  ASSUME Linked, Buffered, Orderly \/ Disturbed
  PROVE  Strayed
BY StrayedIs DEF Disturbed

LEMMA QueueSent ==
  ASSUME Buffered, mpsse_send
  PROVE  chip' \o usbuf' = chip \o usbuf
<1>1. chip \in Seq(Kept(Here)) /\ usbuf \in Seq(Kept(Here))  BY DEF Buffered
<1>2. chip \o usbuf \in Seq(Kept(Here))  BY <1>1, ConcatIn
<1>3. chip' = chip \o usbuf /\ usbuf' = <<>>  BY DEF mpsse_send
<1>4. QED  BY <1>2, <1>3, ConcatEmptySeq

LEMMA AddDisturbed ==
  ASSUME Linked, Scripted, Buffered, Disturbed, mpsse_add_cmd, UNCHANGED <<kind, freq>>
  PROVE  Disturbed'
<1>1. /\ script # <<>> /\ Op.do = "add" /\ usbuf' = Append(usbuf, [Op.it EXCEPT !.call = Here])
      /\ script' = Tail(script) /\ UNCHANGED <<calls, wire, want, told, chip>>
  BY DEF mpsse_add_cmd, Doing, Done, hist
<1>2. Op \in QuietOps \cup Ends /\ script' \in Seq(QuietOps \cup Ends)
  BY <1>1, TailIn DEF Disturbed, Op
<1>3. Op.it \in Items(0) /\ Op.it.op \in QuietNames
  BY <1>1, <1>2 DEF QuietOps, Adds, QuietItems, Send, Gets, Ends
<1> DEFINE e == [Op.it EXCEPT !.call = Here]
<1>4. e \in Kept(Here)  BY <1>3, ItemSent
<1>5. e.op = Op.it.op  BY <1>3 DEF Items, ItemRecords
<1>6. usbuf' = Append(usbuf, e)  BY <1>1
<1> HIDE DEF e
<1>7. ~Runs(e)  BY <1>3, <1>5 DEF Runs, QuietNames, DataNames, ClockNames
<1>8. Strayed'  BY <1>1, <1>4, <1>6, <1>7, StrayedAdd DEF Disturbed
<1>9. Over' \/ Doomed'
  <2>1. UNCHANGED state  BY DEF mpsse_add_cmd
  <2>2. QED  BY <1>1, <2>1, DoomedOn
<1>10. QED  BY <1>1, <1>2, <1>8, <1>9 DEF Disturbed

LEMMA ShortDisturbed ==
  ASSUME Linked, Buffered, Strayed, ShortWrite, UNCHANGED <<kind, freq>>
  PROVE  Disturbed'
<1>1. script' = <<>> /\ told' /\ UNCHANGED <<calls, wire, want>>
  BY DEF ShortWrite, Throw
<1>2. Strayed'  BY <1>1, StrayedShort
<1>3. script' \in Seq(QuietOps \cup Ends)  BY <1>1
<1>4. Over'  BY DEF ShortWrite, Throw, Over
<1>5. QED  BY <1>1, <1>2, <1>3, <1>4 DEF Disturbed

(* A failed read: the device is torn down, and then the exception.         *)
LEMMA FailDisturbed ==
  ASSUME Strayed, FtdiReadDone, ReadFailed, UNCHANGED <<kind, freq>>
  PROVE  Disturbed'
<1>1. /\ script' = deinit_script \o <<[do |-> "throw"]>> /\ told'
      /\ UNCHANGED <<calls, wire, want, chip, usbuf>>
  BY DEF FtdiReadDone
<1>2. script' \in Seq(QuietOps \cup Ends)  BY <1>1, DeinitIs DEF LastWord
<1>3. Doomed'
  <2>1. Len(script') = 6 /\ script'[6].do = "throw"  BY <1>1, DeinitIs
  <2>2. script' # <<>>  BY <2>1
  <2>3. QED  BY <2>1, <2>2 DEF Doomed
<1>4. QED  BY <1>1, <1>2, <1>3, DisturbedOn

LEMMA RefusedDisturbed ==
  ASSUME Strayed, FtdiRefused, UNCHANGED <<kind, freq>>
  PROVE  Disturbed'
<1>1. script' = <<>> /\ told' /\ UNCHANGED <<calls, wire, chip, usbuf>>
  BY DEF FtdiRefused, Refuse
<1>2. want' = want \/ want'.n = -1  BY DEF FtdiRefused, Lost
<1>3. script' \in Seq(QuietOps \cup Ends) /\ Over'
  BY <1>1 DEF FtdiRefused, Refuse, Over
<1>4. QED  BY <1>1, <1>2, <1>3, DisturbedOn

(* What the host still does once it is disturbed.                          *)
LEMMA HostDisturbed ==
  ASSUME Linked, Scripted, Buffered, Disturbed, UNCHANGED <<kind, freq>>,
         \/ mpsse_send \/ FtdiRead \/ FtdiReadError \/ FtdiReadDone \/ FtdiThrow
         \/ FtdiClose \/ FtdiDestroy \/ FtdiEnd
  PROVE  Disturbed'
<1> DEFINE Q == Seq(QuietOps \cup Ends)
<1>1. script \in Q /\ told /\ Strayed  BY DEF Disturbed
<1>2. script # <<>> => Tail(script) \in Q  BY <1>1, TailIn
<1>3. <<>> \in Q  OBVIOUS
<1>4. deinit_script \in Q  BY DeinitIs DEF LastWord
<1> HIDE DEF Q
<1>5. CASE FtdiReadDone /\ ReadFailed  BY <1>1, <1>5, FailDisturbed
<1>6. CASE mpsse_send
  <2>1. /\ script # <<>> /\ script' = IF Doing("send") THEN Tail(script) ELSE script
        /\ UNCHANGED <<calls, wire, told, want, state>>
    BY <1>6 DEF mpsse_send, Sending, Doing, hist
  <2>2. script' \in Q  BY <1>1, <1>2, <2>1
  <2>3. Doing("send") => Op.do # "throw"  BY DEF Doing
  <2>4. Over' \/ Doomed'  BY <2>1, <2>3, DoomedOn
  <2>5. QED  BY <1>1, <1>6, <2>1, <2>2, <2>4, QueueSent, DisturbedOn DEF Q
<1>7. CASE FtdiRead \/ FtdiReadError
  <2>1. UNCHANGED <<script, state, told, calls, wire, want, chip, usbuf>>
    <3>1. CASE FtdiRead  BY <3>1 DEF FtdiRead, hist
    <3>2. CASE FtdiReadError  BY <3>2 DEF FtdiReadError, vars_cable
    <3>3. QED  BY <1>7, <3>1, <3>2
  <2>2. Over' \/ Doomed'  BY <2>1, DoomedOn
  <2>3. QED  BY <1>1, <2>1, <2>2, DisturbedOn DEF Q
<1>8. CASE (FtdiReadDone /\ ~ReadFailed) \/ FtdiClose
  <2>1. /\ script # <<>> /\ Op.do \in {"get", "close"} /\ script' = Tail(script) /\ told'
        /\ UNCHANGED <<state, calls, wire, want, chip, usbuf>>
    <3>1. CASE FtdiReadDone /\ ~ReadFailed
      BY <1>1, <3>1 DEF FtdiReadDone, Done, Doing
    <3>2. CASE FtdiClose
      BY <1>1, <3>2 DEF FtdiClose, Done, Doing, hist
    <3>3. QED  BY <1>8, <3>1, <3>2
  <2>2. Op.do # "throw" /\ script' \in Q  BY <1>2, <2>1
  <2>3. Over' \/ Doomed'  BY <2>1, <2>2, DoomedOn
  <2>4. QED  BY <1>1, <2>1, <2>2, <2>3, DisturbedOn DEF Q
<1>9. CASE FtdiThrow \/ FtdiDestroy \/ FtdiEnd
  <2>1. /\ script' \in {script, deinit_script, <<>>} /\ told' /\ Over'
        /\ UNCHANGED <<calls, wire, want, chip, usbuf>>
    <3>1. CASE FtdiThrow
      BY <1>1, <3>1 DEF FtdiThrow, Throw, hist, vars_ftdi, Over
    <3>2. CASE FtdiDestroy
      BY <1>1, <3>2 DEF FtdiDestroy, hist, Over
    <3>3. CASE FtdiEnd
      BY <1>1, <3>3 DEF FtdiEnd, hist, vars_ftdi, Over
    <3>4. QED  BY <1>9, <3>1, <3>2, <3>3
  <2>2. script' \in Q  BY <1>1, <1>3, <1>4, <2>1
  <2>3. QED  BY <1>1, <2>1, <2>2, DisturbedOn DEF Q
<1>10. QED  BY <1>5, <1>6, <1>7, <1>8, <1>9

LEMMA HostFollows ==
  ASSUME Linked, Scripted, Wired, Buffered, Reading, IsFtdi, UNCHANGED <<kind, freq>>,
         Orderly \/ Disturbed, FtdiHost, ~FtdiBegin
  PROVE  Orderly' \/ Disturbed'
<1>1. CASE ShortWrite  BY <1>1, EitherStrays, ShortDisturbed
<1>2. CASE FtdiReadDone /\ ReadFailed  BY <1>2, EitherStrays, FailDisturbed
<1>3. CASE FtdiRefused  BY <1>3, EitherStrays, RefusedDisturbed
<1>4. CASE Orderly /\ ~ShortWrite /\ ~(FtdiReadDone /\ ReadFailed) /\ ~FtdiRefused
  <2>1. CASE FtdiOpen  BY <1>4, <2>1, OpenOrderly
  <2>2. CASE mpsse_add_cmd  BY <1>4, <2>2, AddOrderly
  <2>3. CASE FtdiFill  BY <1>4, <2>3, FillOrderly
  <2>4. CASE mpsse_send  BY <1>4, <2>4, SendOrderly
  <2>5. CASE FtdiRead  BY <1>4, <2>5, ReadOrderly
  <2>6. CASE FtdiReadError
    <3>1. UNCHANGED <<calls, wire, want, fifo, have, told, chip, usbuf, script, state>>
      BY <2>6 DEF FtdiReadError, vars_cable
    <3>2. QED  BY <1>4, <3>1, OrderlyOn
  <2>7. CASE FtdiReadDone  BY <1>4, <2>7, DoneOrderly
  <2>8. CASE FtdiThrow
    <3>1. script # <<>> /\ Op.do = "throw"  BY <2>8 DEF FtdiThrow, Doing
    <3>2. PICK p, q, u : OrderlyBy(p, q, u)  BY <1>4 DEF Orderly
    <3>3. PICK c \in Ideal : Turn(q, Op, c, Here, Marks)
      BY <3>1, <3>2, TakesTurn DEF OrderlyBy
    <3>4. QED  BY <3>1, <3>3 DEF Turn
  <2>9. CASE FtdiClose  BY <1>4, <2>9, CloseOrderly
  <2>10. CASE FtdiDestroy  BY <1>4, <2>10, DestroyOrderly
  <2>11. CASE FtdiEnd
    <3>1. /\ UNCHANGED <<calls, wire, want, fifo, have, told, chip, usbuf, script>>
          /\ state = "closing"
      BY <2>11 DEF FtdiEnd, hist, vars_ftdi, reading
    <3>2. QED  BY <1>4, <3>1, OrderlyOn
  <2>12. QED
    BY <1>4, <2>1, <2>2, <2>3, <2>4, <2>5, <2>6, <2>7, <2>8, <2>9, <2>10, <2>11 DEF FtdiHost
<1>5. CASE Disturbed /\ ~ShortWrite /\ ~(FtdiReadDone /\ ReadFailed) /\ ~FtdiRefused
  <2>1. ~FtdiFill
    <3>1. SUFFICES ASSUME FtdiFill PROVE FALSE  OBVIOUS
    <3>2. script # <<>> /\ Op.do = "fill"  BY <3>1 DEF FtdiFill, Doing
    <3>3. Op \in QuietOps \cup Ends  BY <1>5, <3>2, TailIn DEF Disturbed, Op
    <3>4. QED  BY <3>2, <3>3, OpKinds
  <2>2. CASE mpsse_add_cmd  BY <1>5, <2>2, AddDisturbed
  <2>3. CASE ~mpsse_add_cmd
    <3>1. \/ mpsse_send \/ FtdiRead \/ FtdiReadError \/ FtdiReadDone \/ FtdiThrow
          \/ FtdiClose \/ FtdiDestroy \/ FtdiEnd
      BY <1>5, <2>1, <2>3, NothingBegins DEF FtdiHost
    <3>2. QED  BY <1>5, <3>1, HostDisturbed
  <2>4. QED  BY <2>2, <2>3
<1>6. QED  BY <1>1, <1>2, <1>3, <1>4, <1>5

(* The host clocks nothing itself.                                         *)
LEMMA HostQuiet ==
  ASSUME FtdiHost
  PROVE  UNCHANGED wire
BY DEF FtdiHost, FtdiOpen, FtdiRefused, FtdiBegin, Begin, mpsse_add_cmd, FtdiFill, mpsse_send,
   ShortWrite, FtdiRead, FtdiReadError, FtdiReadDone, FtdiThrow, FtdiClose, FtdiDestroy, FtdiEnd,
   vars_cable

LEMMA TroubledIs ==
  IsFtdi => (Troubled <=> \E k \in DOMAIN calls : CutsCommand(calls[k]))
<1> SUFFICES ASSUME IsFtdi
             PROVE  Troubled <=> \E k \in DOMAIN calls : CutsCommand(calls[k])
  OBVIOUS
<1>1. kind # "xpc" /\ kind # "fx2" /\ kind # "xpc_internal"  BY DEF IsFtdi
<1>2. \A c : Trouble(c) = CutsCommand(c)  BY <1>1 DEF Trouble
<1>3. QED  BY <1>2 DEF Troubled

LEMMA CutsStays ==
  ASSUME UNCHANGED <<kind, freq>>
  PROVE  \A c : CutsCommand(c)' <=> CutsCommand(c)
<1>1. tck_freq' = tck_freq /\ Fast' = Fast
  BY DEF tck_freq, UsesFastClock, Fast, FastDivisor, SlowDivisor, ShareBits, Bit, Capped
<1> SUFFICES ASSUME NEW c PROVE CutsCommand(c)' <=> CutsCommand(c)
  OBVIOUS
<1>2. \A u : Ticks(u)' = Ticks(u)  BY <1>1 DEF Ticks
<1>3. QED  BY <1>1, <1>2 DEF CutsCommand

LEMMA OrderedBegin ==
  ASSUME Linked, Linked', Wired, Ordered, UNCHANGED <<kind, freq, wire>>,
         NEW c, calls' = Append(calls, c)
  PROVE  Ordered'
<1>1. \A k \in 1..Here : Marks'[k] = Marks[k]  BY MarksBegin
<1>2. Here \in Nat /\ wire \in Seq(Seen(Here))  BY HereIs DEF Wired
<1>3. ASSUME NEW x \in DOMAIN wire, NEW k \in Nat, 1 <= k, k < wire[x].call
      PROVE  Marks'[k] <= Clocks(k)'
  <2>1. wire[x] \in Seen(Here)  BY <1>2
  <2>2. wire[x].call \in 1..Here  BY <2>1 DEF Seen
  <2>3. k \in 1..Here  BY <1>2, <1>3, <2>2
  <2>4. Marks[k] <= Clocks(k)  BY <1>3 DEF Ordered
  <2>5. Clocks(k)' = Clocks(k)  BY ClocksUnmoved
  <2>6. QED  BY <1>1, <2>3, <2>4, <2>5
<1>4. QED  BY <1>3 DEF Ordered

LEMMA WaitsInit == Init => Waits
<1> SUFFICES ASSUME Init PROVE Waits
  OBVIOUS
<1>1. /\ calls = <<>> /\ wire = <<>> /\ script = <<>> /\ state = "init" /\ told = FALSE
      /\ usbuf = <<>> /\ chip = <<>> /\ want = Nothing /\ fifo = <<>> /\ have = 0
  BY DEF Init, Open, FtdiInit
<1>2. Ordered  BY <1>1 DEF Ordered
<1>3. Here = 0 /\ Linked /\ Wired  BY <1>1, InitHolds DEF Here, IInv
<1> DEFINE p == [need |-> 0, owed |-> 0, clocks |-> [k \in Nat |-> 0], drained |-> FALSE]
<1>4. p \in Ideal /\ p.need = 0 /\ p.owed = 0 /\ \A k \in Nat : p.clocks[k] = 0
  BY DEF Ideal
<1> HIDE DEF p
<1>5. Sync(p)
  <2>1. want.n = 0 /\ want.r = FALSE  BY <1>1 DEF Nothing
  <2>2. Available = 0  BY <1>1, AvailableBytes, BytesNone
  <2>3. \A k : Clocks(k) \in Nat  BY <1>3, ClocksAre
  <2>4. \A k \in Nat : p.clocks[k] <= Clocks(k)  BY <1>4, <2>3
  <2>5. QED  BY <1>1, <1>4, <2>1, <2>2, <2>4 DEF Sync
<1>6. chip \o usbuf = <<>>  BY <1>1
<1>7. Leads(chip \o usbuf, p, p, Links(Marks)) /\ Leads(script, p, p, Turns(Here, Marks))
  BY <1>1, <1>6, LeadsNone
<1>8. Served(p, Here + 1, Marks)
  <2>1. \A k \in Nat : ~(1 <= k /\ k < 0 + 1)  OBVIOUS
  <2>2. QED  BY <1>3, <2>1 DEF Served
<1>9. OrderlyBy(p, p, p)  BY <1>1, <1>4, <1>5, <1>7, <1>8 DEF OrderlyBy
<1>10. QED  BY <1>2, <1>9 DEF Waits, Orderly

LEMMA WaitsBegin ==
  ASSUME Linked, Linked', Scripted, Wired, Buffered, IsFtdi, UNCHANGED <<kind, freq>>,
         Waits, FtdiBegin
  PROVE  Waits'
<1>1. IsFtdi'  BY DEF IsFtdi
<1>2. SUFFICES ASSUME ~Troubled' PROVE Ordered' /\ Orderly'
  BY DEF Waits
<1>3. PICK c : GoodCall(c) /\ calls' = Append(calls, c) /\ script' = FtdiScript(c)
  BY BeginIs DEF Begins
<1>4. \A d : CutsCommand(d)' <=> CutsCommand(d)  BY CutsStays
<1>5. Troubled' <=> \E k \in DOMAIN calls' : CutsCommand(calls'[k])
  <2>1. (IsFtdi => (Troubled <=> \E k \in DOMAIN calls : CutsCommand(calls[k])))'
    BY TroubledIs, PTL
  <2>2. QED  BY <1>1, <1>4, <2>1
<1>6. ~CutsCommand(c) /\ ~Troubled
  <2>1. calls \in Seq(Calls[kind])  BY DEF Linked
  <2>2. /\ DOMAIN calls' = 1..(Len(calls) + 1) /\ DOMAIN calls = 1..Len(calls)
        /\ calls'[Len(calls) + 1] = c /\ \A k \in 1..Len(calls) : calls'[k] = calls[k]
        /\ Len(calls) \in Nat
    BY <1>3, <2>1
  <2>3. Len(calls) + 1 \in DOMAIN calls' /\ \A k \in DOMAIN calls : k \in DOMAIN calls'
    BY <2>2
  <2>4. QED  BY <1>2, <1>5, <2>2, <2>3, TroubledIs
<1>7. Ordered /\ (Orderly \/ Disturbed)  BY <1>6 DEF Waits
<1>8. UNCHANGED wire  BY DEF FtdiBegin, Begin
<1>9. Orderly'  BY <1>3, <1>6, <1>7, NothingBegins, BeginOrderly
<1>10. Ordered'  BY <1>3, <1>7, <1>8, OrderedBegin
<1>11. QED  BY <1>9, <1>10

LEMMA ChipWaits ==
  ASSUME Linked, Wired, Buffered, Reading, ChipStep, Ordered, Orderly \/ Disturbed,
         UNCHANGED <<kind, freq, calls>>
  PROVE  Ordered' /\ (Orderly' \/ Disturbed')
<1>1. CASE Orderly
  BY <1>1, OrderlyChip, OrderedChip
<1>2. CASE Disturbed
  <2>1. told /\ Strayed /\ script \in Seq(QuietOps \cup Ends)  BY <1>2 DEF Disturbed
  <2>2. UNCHANGED <<script, state, told>>  BY DEF ChipStep, hist
  <2>3. Strayed' /\ InTurn(Head(chip))  BY <2>1, StrayedChip
  <2>4. Over' \/ Doomed'  BY <1>2, <2>2, DoomedOn
  <2>5. QED  BY <2>1, <2>2, <2>3, <2>4, OrderedChip DEF Disturbed
<1>3. QED  BY <1>1, <1>2

LEMMA WaitsKept ==
  ASSUME Linked, Linked', Scripted, Wired, Buffered, Reading, Waits, [Next]_vars
  PROVE  Waits'
<1> SUFFICES ASSUME IsFtdi' PROVE Waits'
  BY DEF Waits
<1>1. UNCHANGED <<kind, freq>>  BY LinkStays DEF link
<1>2. IsFtdi  BY <1>1 DEF IsFtdi
<1>3. CASE FtdiBegin  BY <1>1, <1>2, <1>3, WaitsBegin
<1>4. CASE ~FtdiBegin
  <2>1. UNCHANGED calls
    <3>1. ~Begins
      <4>1. kind # "xpc" /\ kind # "fx2" /\ kind \notin BitKinds  BY <1>2, KindCases
      <4>2. ~XpcBegin /\ ~Fx2Begin /\ ~BitBegin
        BY <4>1 DEF XpcBegin, Fx2Begin, BitBegin, BitKinds
      <4>3. QED  BY <1>4, <4>2 DEF Begins
    <3>2. QED  BY <3>1, CallsStay
  <2>2. Troubled' <=> Troubled
    <3>1. \A d : CutsCommand(d)' <=> CutsCommand(d)  BY <1>1, CutsStays
    <3>2. (IsFtdi => (Troubled <=> \E k \in DOMAIN calls : CutsCommand(calls[k])))'
      BY TroubledIs, PTL
    <3>3. QED  BY <1>2, <2>1, <3>1, <3>2, TroubledIs
  <2>3. SUFFICES ASSUME ~Troubled PROVE Ordered' /\ (Orderly' \/ Disturbed')
    BY <2>2 DEF Waits
  <2>4. Ordered /\ (Orderly \/ Disturbed)  BY <1>2, <2>3 DEF Waits
  <2>5. CASE FtdiHost
    BY <1>1, <1>2, <1>4, <2>1, <2>4, <2>5, HostFollows, HostQuiet, OrderedOn
  <2>6. CASE ChipStep
    BY <1>1, <2>1, <2>4, <2>6, ChipWaits
  <2>7. CASE (CommonStep /\ UNCHANGED vars_ftdi) \/ UNCHANGED vars
    <3>1. /\ kind' = kind /\ freq' = freq /\ calls' = calls /\ wire' = wire /\ want' = want
          /\ fifo' = fifo /\ have' = have /\ told' = told /\ chip' = chip /\ usbuf' = usbuf
          /\ script' = script
      BY <1>1, <2>7 DEF CommonStep, Ready, Return, Terminate, hist, vars_ftdi, reading, vars, vars_cable
    <3>2. Ordered'  BY <1>1, <2>4, <3>1, OrderedOn
    <3>3. UNCHANGED state \/ state' \notin {"closing", "closed"}
      BY <2>7 DEF CommonStep, Ready, Return, Terminate, vars, vars_cable
    <3>4. CASE Orderly  BY <3>1, <3>2, <3>3, <3>4, OrderlyOn
    <3>5. CASE Disturbed
      <4>1. told' /\ script' \in Seq(QuietOps \cup Ends) /\ Strayed  BY <3>1, <3>5 DEF Disturbed
      <4>2. chip' \o usbuf' = chip \o usbuf  BY <3>1
      <4>3. Over' \/ Doomed'
        <5>1. CASE Terminate  BY <5>1 DEF Terminate, Over
        <5>2. CASE UNCHANGED vars
          <6>1. UNCHANGED <<script, state>>  BY <5>2 DEF vars, vars_cable
          <6>2. QED  BY <3>5, <6>1, DoomedOn
        <5>3. QED  BY <2>7, <3>5, <5>1, <5>2, NothingBegins DEF CommonStep
      <4>4. QED  BY <3>1, <3>2, <4>1, <4>2, <4>3, DisturbedOn
    <3>6. QED  BY <2>4, <3>4, <3>5
  <2>8. QED  BY <1>2, <2>5, <2>6, <2>7, FtdiMoves DEF FtdiStep
<1>5. QED  BY <1>3, <1>4

(* What has been clocked is what the ideal chip was led to.                *)
LEMMA SleepsWell ==
  ASSUME Linked, Scripted, Wired, Buffered, Reading, Waits
  PROVE  SleepsLongEnough
<1> SUFFICES ASSUME IsFtdi, ~Troubled, NEW k \in DOMAIN calls,
                    calls[k].op = "sleep", calls[k].len < 20000, Passed(k),
                    FitsIn32(calls[k].len), Ticks(calls[k].len) < 8 * 65536
             PROVE  Clocks(k) >= Needed(calls[k].len)
  BY DEF SleepsLongEnough
<1>1. k \in Nat /\ k \in 1..Here /\ 1 <= k /\ k < Here + 1 /\ Here \in Nat
  BY DEF Linked, Here
<1>2. Enough(calls[k])  BY DEF Enough
<1>3. Marks[k] = Needed(calls[k].len)  BY <1>1, <1>2, MarksIn DEF Gain
<1>4. Clocks(k) \in Nat /\ Marks[k] \in Nat  BY <1>1, ClocksAre, MarksIn
<1>5. Marks[k] <= Clocks(k)
  <2>1. CASE \E x \in DOMAIN wire : wire[x].call > k
    <3>1. PICK x \in DOMAIN wire : wire[x].call > k  BY <2>1
    <3>2. wire[x].call \in Nat
      <4>1. wire[x] \in Seen(Here)  BY DEF Wired
      <4>2. QED  BY <4>1 DEF Seen
    <3>3. k < wire[x].call  BY <1>1, <3>1, <3>2
    <3>4. QED  BY <1>1, <3>3 DEF Waits, Ordered
  <2>2. CASE state = "closed" /\ ~told
    <3>1. script = <<>>  BY <2>2 DEF Scripted
    <3>2. PICK p, q, u : OrderlyBy(p, q, u)  BY <2>2 DEF Waits, Disturbed, Orderly
    <3>3. p \in Ideal /\ q = u /\ Sync(p) /\ u.drained /\ u.owed = 0
      BY <2>2, <3>1, <3>2, LeadsSame DEF OrderlyBy
    <3>4. p.owed >= 0
      <4>1. Available \in Nat /\ have \in Nat  BY AvailableNat DEF Buffered, Reading
      <4>2. want.n = p.need /\ p.need \in Nat  BY <3>3 DEF Sync, Ideal
      <4>3. p.owed = Available + have + (IF want.r THEN want.n ELSE 0)  BY <2>2, <3>3 DEF Sync
      <4>4. QED  BY <4>1, <4>2, <4>3
    <3>5. q.clocks = p.clocks
      <4> DEFINE s == chip \o usbuf
      <4>1. s \in Seq(Kept(Here)) /\ Leads(s, p, q, Links(Marks))  BY <3>2, QueueIs DEF OrderlyBy
      <4> HIDE DEF s
      <4>2. QED  BY <3>3, <3>4, <4>1, LinksDrained
    <3>6. Marks[k] <= p.clocks[k]  BY <1>1, <3>2, <3>3, <3>5 DEF OrderlyBy, Served
    <3>7. p.clocks[k] <= Clocks(k) /\ p.clocks[k] \in Nat  BY <1>1, <3>3 DEF Sync, Ideal
    <3>8. QED  BY <1>4, <3>6, <3>7
  <2>3. QED  BY <2>1, <2>2 DEF Passed
<1>6. QED  BY <1>3, <1>4, <1>5

------------------------------------------------------------------------------
(* A sleep of less than 20 ms clocks the chain for as long as its time     *)
(* needs at the frequency in use before any clock of a later call, and     *)
(* before the cable is closed without a message, whatever the cable was    *)
(* asked to do before and whatever fails (Usleep, ioftdi.cpp:805, with     *)
(* mpsse_add_cmd, mpsse_send and readusb); for the calls and the products  *)
(* SleepsLongEnough names.                                                 *)
THEOREM SleepsAreLongEnough == Spec => []SleepsLongEnough
<1>1. Init => IInv /\ Waits  BY InitHolds, WaitsInit
<1>2. IInv /\ Waits /\ [Next]_vars => (IInv /\ Waits)'
  <2> SUFFICES ASSUME IInv, Waits, [Next]_vars PROVE (IInv /\ Waits)'
    OBVIOUS
  <2>1. IInv'  BY StepHolds
  <2>2. Waits'  BY <2>1, WaitsKept DEF IInv
  <2>3. QED  BY <2>1, <2>2
<1>3. IInv /\ Waits => SleepsLongEnough  BY SleepsWell DEF IInv
<1>4. QED  BY <1>1, <1>2, <1>3, PTL DEF Spec
==============================================================================
