---------------------------- MODULE InductionFacts ----------------------------
(***************************************************************************)
(* What the proofs share: division, and induction in the form they need    *)
(* it, over sets, so that it holds of whatever is collected in a set, a    *)
(* recursive definition for instance.                                      *)
(***************************************************************************)
EXTENDS Integers, FiniteSetsExt, FiniteSetTheorems, WellFoundedInduction, TLAPS

(* What is divided without a rest is a multiple.                           *)
LEMMA Multiples ==
  ASSUME NEW d \in Nat, d > 0, NEW m \in Int
  PROVE  /\ m % d \in 0..(d - 1) /\ m = d * (m \div d) + (m % d) /\ m \div d \in Int
         /\ m % d = 0 => \E q \in Int : m = d * q
         /\ (d * m) % d = 0
<1>1. m % d \in 0..(d - 1) /\ m = d * (m \div d) + (m % d) /\ m \div d \in Int
  OBVIOUS
<1>2. (d * m) % d = 0
  OBVIOUS
<1>3. m % d = 0 => m = d * (m \div d)
  OBVIOUS
<1>4. QED  BY <1>1, <1>2, <1>3

LEMMA Order ==
  ASSUME NEW d \in Nat, d > 0, NEW m \in Int, NEW n \in Int
  PROVE  /\ d * m \in Int /\ d * (m + n) = d * m + d * n /\ d * (m - n) = d * m - d * n
         /\ m < n => d * m + d <= d * n
<1>1. m < n => d * m + d <= d * n
  <2>1. ASSUME NEW q \in Nat PROVE d * q >= 0  OBVIOUS
  <2>2. m < n => n - m - 1 \in Nat  OBVIOUS
  <2>3. m < n => d * (n - m - 1) >= 0  BY <2>1, <2>2
  <2>4. d * (n - m - 1) = d * n - d * m - d  OBVIOUS
  <2>5. d * n \in Int /\ d * m \in Int  OBVIOUS
  <2>6. QED  BY <2>3, <2>4, <2>5
<1>2. QED  BY <1>1

(* Sums of blocks are blocks, and a block that begins before another ends  *)
(* before it.                                                              *)
LEMMA Blocks ==
  ASSUME NEW d \in Nat, d > 0, NEW m \in Int, NEW n \in Int, m % d = 0, n % d = 0
  PROVE  /\ (m + n) % d = 0 /\ (m - n) % d = 0 /\ (m + d) % d = 0
         /\ m < n => m + d <= n
<1>1. PICK x \in Int : m = d * x  BY Multiples
<1>2. PICK y \in Int : n = d * y  BY Multiples
<1>3. m + n = d * (x + y) /\ m - n = d * (x - y) /\ m + d = d * (x + 1)
  BY <1>1, <1>2, Order
<1>4. x + y \in Int /\ x - y \in Int /\ x + 1 \in Int  OBVIOUS
<1>5. (m + n) % d = 0 /\ (m - n) % d = 0 /\ (m + d) % d = 0
  <2>1. \A q \in Int : (d * q) % d = 0  BY Multiples
  <2>2. QED  BY <1>3, <1>4, <2>1
<1>6. m < n => x < y
  <2>1. y <= x => d * y <= d * x  BY Order
  <2>2. QED  BY <2>1, <1>1, <1>2
<1>7. m < n => m + d <= n  BY <1>6, <1>1, <1>2, Order
<1>8. QED  BY <1>5, <1>7

(* There is one way to divide.                                             *)
LEMMA Division ==
  ASSUME NEW d \in Nat, d > 0, NEW m \in Int, NEW q \in Int, NEW r \in 0..(d - 1), m = d * q + r
  PROVE  m \div d = q /\ m % d = r
<1>1. /\ m % d \in 0..(d - 1) /\ m = d * (m \div d) + (m % d) /\ m \div d \in Int
  BY Multiples
<1> DEFINE x == m \div d
           y == m % d
<1>2. y \in 0..(d - 1) /\ m = d * x + y /\ x \in Int
  BY <1>1
<1> HIDE DEF x, y
<1>3. /\ d * x \in Int /\ d * q \in Int
      /\ x < q => d * x + d <= d * q
      /\ q < x => d * q + d <= d * x
  BY <1>2, Order
<1>4. x = q  BY <1>2, <1>3
<1>5. y = r  BY <1>2, <1>3, <1>4
<1>6. QED  BY <1>4, <1>5 DEF x, y

(* How often n goes into m, rounded up.                                    *)
LEMMA RoundedUp ==
  ASSUME NEW n \in Nat, n > 0, NEW m \in Nat, NEW c \in Int, c = (m + n - 1) \div n
  PROVE  /\ c \in Nat /\ (m > 0 => c > 0) /\ n * c \in Nat /\ m <= n * c
         /\ \A k \in 1..c : /\ n * (k - 1) \in Nat /\ n * k = n * (k - 1) + n /\ n * (k - 1) < m
                           /\ k < c => n * k < m
<1>1. /\ (m + n - 1) % n \in 0..(n - 1) /\ c \in Int
      /\ m + n - 1 = n * c + ((m + n - 1) % n)
  BY Multiples
<1>2. n * c \in Int /\ m <= n * c /\ n * c < m + n
  BY <1>1
<1>3. \A k \in Int : /\ n * k \in Int /\ n * (k - 1) \in Int /\ n * k = n * (k - 1) + n
                    /\ (k < c => n * k + n <= n * c) /\ (0 < k => n * 0 + n <= n * k)
                    /\ (c < k => n * c + n <= n * k)
  BY <1>1, Order
<1>4. n * 0 = 0 /\ n * (0 - 1) = - n  OBVIOUS
<1>5. c \in Nat /\ (m > 0 => c > 0)
  <2>1. c < 0 => n * c + n <= n * 0  BY <1>3
  <2>2. c = 0 => m <= 0  BY <1>2, <1>4
  <2>3. c >= 0  BY <2>1, <1>1, <1>2, <1>4
  <2>4. QED  BY <2>2, <2>3, <1>1
<1>6. ASSUME NEW k \in 1..c
      PROVE  /\ n * (k - 1) \in Nat /\ n * k = n * (k - 1) + n /\ n * (k - 1) < m
             /\ k < c => n * k < m
  <2>1. k \in Int /\ 0 < k /\ k <= c  BY <1>5
  <2>2. k = c => n * k = n * c  OBVIOUS
  <2>3. n * k <= n * c  BY <2>1, <2>2, <1>1, <1>2, <1>3
  <2>4. QED  BY <2>1, <2>3, <1>2, <1>3, <1>4
<1>7. QED  BY <1>2, <1>5, <1>6

LEMMA NatLeast ==
  ASSUME NEW T, T \subseteq Nat, T # {}
  PROVE  \E x \in T : \A y \in T : x <= y
<1> DEFINE Less == {ss \in Nat \X Nat : ss[1] < ss[2]}
<1>1. IsWellFoundedOn(Less, Nat)  BY NatLessThanWellFounded DEF OpToRel
<1>2. PICK x \in T : \A y \in T : ~(<<y, x>> \in Less)
  <2> HIDE DEF Less
  <2> QED  BY <1>1, WFMin, Zenon
<1>3. \A y \in T : ~(y < x)  BY <1>2
<1>4. QED  BY <1>3

(* What holds of the empty set, and of a set when it does of that set      *)
(* without the element c picks, holds of every part of a finite set.       *)
Inherited(S, c, T) ==
  \A s \in SUBSET S : s # {} => c[s] \in s /\ (s \ {c[s]} \in T => s \in T)

LEMMA SubsetInduction ==
  ASSUME NEW S, IsFiniteSet(S), NEW c, NEW T, {} \in T, Inherited(S, c, T)
  PROVE  \A s \in SUBSET S : s \in T
<1> DEFINE Sizes == {Cardinality(s) : s \in {z \in SUBSET S : z \notin T}}
<1>1. SUFFICES ASSUME NEW z \in SUBSET S, z \notin T PROVE FALSE
  OBVIOUS
<1>2. Sizes # {} /\ Sizes \subseteq Nat
  <2>1. \A s \in SUBSET S : Cardinality(s) \in Nat  BY FS_Subset, FS_CardinalityType
  <2>2. QED  BY <1>1, <2>1
<1>3. PICK n \in Sizes : \A m \in Sizes : n <= m
  <2> HIDE DEF Sizes
  <2> QED  BY <1>2, NatLeast
<1>4. PICK s \in SUBSET S : s \notin T /\ Cardinality(s) = n
  BY <1>3
<1>5. s # {} /\ c[s] \in s
  BY <1>4 DEF Inherited
<1>6. s \ {c[s]} \in SUBSET S /\ s \ {c[s]} \notin T
  BY <1>4, <1>5 DEF Inherited
<1>7. Cardinality(s \ {c[s]}) = Cardinality(s) - 1 /\ Cardinality(s) \in Nat
  BY <1>5, FS_Subset, FS_RemoveElement, FS_CardinalityType
<1>8. Cardinality(s \ {c[s]}) \in Sizes
  BY <1>6
<1> HIDE DEF Sizes
<1>9. QED  BY <1>3, <1>4, <1>7, <1>8

(* A function of the parts of a finite set may be defined by what it is    *)
(* for the part without the element c picks.                               *)
Recursive(g, S, c, base, F) ==
  \A s \in SUBSET S : g[s] = IF s = {} THEN base ELSE F[s][g[s \ {c[s]}]]

LEMMA SetRecursion ==
  ASSUME NEW S, IsFiniteSet(S), NEW c, NEW V, NEW base \in V, NEW F,
         \A s \in SUBSET S : s # {} => c[s] \in s /\ \A v \in V : F[s][v] \in V
  PROVE  \E g \in [SUBSET S -> V] : Recursive(g, S, c, base, F)
<1> DEFINE Upto(n) == {s \in SUBSET S : Cardinality(s) <= n}
           Good(n, g) == /\ g \in [Upto(n) -> V]
                         /\ \A s \in Upto(n) :
                              g[s] = IF s = {} THEN base ELSE F[s][g[s \ {c[s]}]]
           Bad == {n \in Nat : ~ \E g : Good(n, g)}
<1>1. \A s \in SUBSET S : IsFiniteSet(s) /\ Cardinality(s) \in Nat /\ Cardinality(s) <= Cardinality(S)
  BY FS_Subset, FS_CardinalityType
<1>2. Good(0, [s \in Upto(0) |-> base])
  <2>1. \A s \in Upto(0) : s = {}
    <3> SUFFICES ASSUME NEW s \in Upto(0) PROVE s = {}
      OBVIOUS
    <3>1. IsFiniteSet(s) /\ Cardinality(s) = 0  BY <1>1
    <3>2. QED  BY <3>1, FS_EmptySet
  <2>2. QED  BY <2>1
<1>3. ASSUME NEW n \in Nat, NEW g, Good(n, g)
      PROVE  \E h : Good(n + 1, h)
  <2> DEFINE h == [s \in Upto(n + 1) |-> IF s = {} THEN base ELSE F[s][g[s \ {c[s]}]]]
  <2>1. ASSUME NEW s \in Upto(n + 1), s # {}
        PROVE  s \ {c[s]} \in Upto(n) /\ c[s] \in s
    <3>1. c[s] \in s /\ IsFiniteSet(s) /\ Cardinality(s) \in Nat  BY <2>1, <1>1
    <3>2. Cardinality(s \ {c[s]}) = Cardinality(s) - 1  BY <3>1, FS_RemoveElement
    <3>3. QED  BY <3>1, <3>2
  <2>2. ASSUME NEW s \in Upto(n) PROVE s \in Upto(n + 1) /\ h[s] = g[s]
    <3>1. s \in Upto(n + 1)
      <4>1. Cardinality(s) \in Nat /\ Cardinality(s) <= n  BY <1>1
      <4>2. QED  BY <4>1
    <3>2. h[s] = IF s = {} THEN base ELSE F[s][g[s \ {c[s]}]]  BY <3>1
    <3>3. QED  BY <1>3, <3>1, <3>2
  <2>3. h \in [Upto(n + 1) -> V]
    <3>1. ASSUME NEW s \in Upto(n + 1)
          PROVE  (IF s = {} THEN base ELSE F[s][g[s \ {c[s]}]]) \in V
      <4>1. CASE s # {}
        <5>1. g[s \ {c[s]}] \in V /\ s \in SUBSET S  BY <4>1, <2>1, <1>3
        <5> HIDE DEF h
        <5>2. QED  BY <4>1, <5>1
      <4>2. QED  BY <4>1
    <3>2. QED  BY <3>1
  <2>4. ASSUME NEW s \in Upto(n + 1)
        PROVE  h[s] = IF s = {} THEN base ELSE F[s][h[s \ {c[s]}]]
    <3>1. s # {} => h[s \ {c[s]}] = g[s \ {c[s]}]  BY <2>1, <2>2
    <3>2. h[s] = IF s = {} THEN base ELSE F[s][g[s \ {c[s]}]]  OBVIOUS
    <3> HIDE DEF h
    <3>3. QED  BY <3>1, <3>2
  <2> HIDE DEF h
  <2>5. QED  BY <2>3, <2>4
<1>4. \A n \in Nat : \E g : Good(n, g)
  <2>1. SUFFICES ASSUME Bad # {} PROVE FALSE
    BY DEF Bad
  <2>2. PICK n \in Bad : \A m \in Bad : n <= m
    <3>1. Bad \subseteq Nat  OBVIOUS
    <3> HIDE DEF Bad
    <3>2. QED  BY <2>1, <3>1, NatLeast
  <2>3. n # 0
    <3> HIDE DEF Good
    <3> QED  BY <1>2
  <2>4. n \in Nat /\ n - 1 \in Nat /\ (n - 1) + 1 = n /\ ~(n <= n - 1)  BY <2>3
  <2>5. n - 1 \notin Bad
    <3> HIDE DEF Bad
    <3> QED  BY <2>2, <2>4
  <2>6. PICK g : Good(n - 1, g)
    <3> HIDE DEF Good
    <3> QED  BY <2>5, <2>4
  <2>7. \E h : Good(n, h)
    <3> HIDE DEF Good
    <3>1. \E h : Good((n - 1) + 1, h)  BY <1>3, <2>4, <2>6
    <3>2. QED  BY <3>1, <2>4
  <2>8. QED
    <3> HIDE DEF Good
    <3> QED  BY <2>7, <2>2
<1>5. PICK g : Good(Cardinality(S), g)
  <2>1. Cardinality(S) \in Nat  BY FS_CardinalityType
  <2> HIDE DEF Good
  <2>2. QED  BY <2>1, <1>4
<1>6. Upto(Cardinality(S)) = SUBSET S
  BY <1>1
<1> HIDE DEF Upto, Bad
<1>7. QED  BY <1>5, <1>6 DEF Recursive

------------------------------------------------------------------------------
(***************************************************************************)
(* Folds from the left, which take the elements of 1..n in their order.    *)
(***************************************************************************)
LEMMA MaxPicks ==
  ASSUME NEW n \in Nat, NEW s \in SUBSET (1..n), s # {}
  PROVE  Max(s) \in s /\ \A y \in s : y <= Max(s)
<1> DEFINE Bounds == {u \in Nat : \A y \in s : y <= u}
<1>1. n \in Bounds /\ Bounds \subseteq Nat
  OBVIOUS
<1>2. PICK u \in Bounds : \A v \in Bounds : u <= v
  <2> HIDE DEF Bounds
  <2> QED  BY <1>1, NatLeast
<1>3. u \in s
  <2>1. SUFFICES ASSUME u \notin s PROVE FALSE
    OBVIOUS
  <2>2. PICK x \in s : TRUE  OBVIOUS
  <2>3. u - 1 \in Bounds
    <3>1. \A y \in s : y \in Nat /\ y # u /\ y <= u  BY <2>1
    <3>2. u >= 1  BY <2>2
    <3>3. \A y \in s : y <= u - 1  BY <3>1, <3>2
    <3>4. QED  BY <3>2, <3>3
  <2>4. ~(u <= u - 1)  BY <1>2
  <2> HIDE DEF Bounds
  <2>5. QED  BY <1>2, <2>3, <2>4
<1>4. \A y \in s : u >= y
  OBVIOUS
<1>5. QED  BY <1>3, <1>4 DEF Max

LEMMA Prefix ==
  ASSUME NEW n \in Nat, NEW i \in 1..n
  PROVE  1..i \in SUBSET (1..n) /\ 1..i # {} /\ i \in Nat /\ Max(1..i) = i
<1>1. 1..i \in SUBSET (1..i) /\ i \in Nat /\ i \in 1..i /\ 1..i \in SUBSET (1..n)
  OBVIOUS
<1>2. Max(1..i) \in 1..i /\ i <= Max(1..i)  BY <1>1, MaxPicks
<1>3. QED  BY <1>1, <1>2

(* A fold from the left over n elements: it exists, and what holds at the  *)
(* start and after each element holds at the end.                          *)
IsFold(g, n, base, F) ==
  \A s \in SUBSET (1..n) : g[s] = IF s = {} THEN base ELSE F[Max(s)][g[s \ {Max(s)}]]

LEMMA FoldExists ==
  ASSUME NEW n \in Nat, NEW V, NEW base \in V, NEW F, \A k \in 1..n : \A v \in V : F[k][v] \in V
  PROVE  \E g \in [SUBSET (1..n) -> V] : IsFold(g, n, base, F)
<1> DEFINE S == 1..n
           c == [s \in SUBSET S |-> Max(s)]
           G == [s \in SUBSET S |-> F[Max(s)]]
<1>1. IsFiniteSet(S)  BY FS_Interval
<1>2. ASSUME NEW s \in SUBSET S, s # {}
      PROVE  /\ c[s] \in s /\ c[s] = Max(s) /\ G[s] = F[Max(s)]
             /\ \A v \in V : G[s][v] \in V
  BY <1>2, MaxPicks
<1>3. \E g \in [SUBSET S -> V] : Recursive(g, S, c, base, G)
  <2> HIDE DEF S, c, G
  <2> QED  BY <1>1, <1>2, SetRecursion
<1>4. PICK g \in [SUBSET S -> V] : Recursive(g, S, c, base, G)
  BY <1>3
<1>5. ASSUME NEW s \in SUBSET S
      PROVE  g[s] = IF s = {} THEN base ELSE F[Max(s)][g[s \ {Max(s)}]]
  <2> HIDE DEF S, c, G
  <2> QED  BY <1>2, <1>4 DEF Recursive
<1>6. QED  BY <1>4, <1>5 DEF IsFold

LEMMA FoldInduction ==
  ASSUME NEW n \in Nat, NEW T, {} \in T,
         \A s \in SUBSET (1..n) : s # {} /\ s \ {Max(s)} \in T => s \in T
  PROVE  \A s \in SUBSET (1..n) : s \in T
<1> DEFINE S == 1..n
           c == [s \in SUBSET S |-> Max(s)]
<1>1. IsFiniteSet(S)  BY FS_Interval
<1>2. \A s \in SUBSET S : s # {} => c[s] \in s /\ c[s] = Max(s)
  BY MaxPicks
<1>3. Inherited(S, c, T)
  <2> HIDE DEF c
  <2> QED  BY <1>2 DEF Inherited
<1>4. QED
  <2> HIDE DEF c, S
  <2>1. \A s \in SUBSET S : s \in T  BY <1>1, <1>3, SubsetInduction
  <2>2. QED  BY <2>1 DEF S

(* The value of a fold: f follows F as long as its values are in V.        *)
Follows(f, n, V, base, F) ==
  \A s \in SUBSET (1..n) :
    /\ s = {} => f[s] = base
    /\ s # {} /\ f[s \ {Max(s)}] \in V => f[s] = F[Max(s)][f[s \ {Max(s)}]]

LEMMA FoldLands ==
  ASSUME NEW n \in Nat, NEW V, NEW base \in V, NEW F, \A k \in 1..n : \A v \in V : F[k][v] \in V,
         NEW f, Follows(f, n, V, base, F)
  PROVE  f[1..n] \in V
<1> DEFINE T == {s \in SUBSET (1..n) : f[s] \in V}
<1>1. {} \in T
  BY DEF Follows
<1>2. ASSUME NEW s \in SUBSET (1..n), s # {}, s \ {Max(s)} \in T
      PROVE  s \in T
  <2>1. Max(s) \in 1..n  BY <1>2, MaxPicks
  <2>2. f[s] = F[Max(s)][f[s \ {Max(s)}]]  BY <1>2 DEF Follows
  <2>3. QED  BY <2>1, <2>2, <1>2
<1>3. \A s \in SUBSET (1..n) : s \in T
  <2> HIDE DEF T
  <2> QED  BY <1>1, <1>2, FoldInduction
<1>4. QED  BY <1>3

(* What holds of 0, and of k + 1 when it does of k.                        *)
LEMMA CountUp ==
  ASSUME NEW n \in Nat, NEW T, 0 \in T, \A k \in 1..n : k - 1 \in T => k \in T
  PROVE  \A k \in 0..n : k \in T
<1> DEFINE Bad == {k \in 0..n : k \notin T}
<1>1. SUFFICES ASSUME Bad # {} PROVE FALSE
  OBVIOUS
<1>2. PICK k \in Bad : \A m \in Bad : k <= m
  <2>1. Bad \subseteq Nat  OBVIOUS
  <2> HIDE DEF Bad
  <2>2. QED  BY <1>1, <2>1, NatLeast
<1>3. k \in 1..n /\ k - 1 \in 0..n /\ ~(k <= k - 1)
  OBVIOUS
<1>4. k - 1 \notin Bad
  <2> HIDE DEF Bad
  <2> QED  BY <1>2, <1>3
<1>5. QED  BY <1>3, <1>4

(* The values a fold goes through.                                         *)
History(h, n, V, base, F, end) ==
  /\ h \in [0..n -> V] /\ h[0] = base /\ h[n] = end
  /\ \A k \in 1..n : h[k] = F[k][h[k - 1]]

LEMMA FoldHistory ==
  ASSUME NEW n \in Nat, NEW V, NEW base \in V, NEW F, \A k \in 1..n : \A v \in V : F[k][v] \in V,
         NEW f, Follows(f, n, V, base, F)
  PROVE  \E h : History(h, n, V, base, F, f[1..n])
<1> DEFINE h == [k \in 0..n |-> f[1..k]]
           T == {k \in 0..n : f[1..k] \in V}
<1>1. f[1..0] = base
  <2>1. 1..0 = {} /\ {} \in SUBSET (1..n)  OBVIOUS
  <2>2. QED  BY <2>1 DEF Follows
<1>2. ASSUME NEW k \in 1..n, f[1..(k - 1)] \in V
      PROVE  f[1..k] = F[k][f[1..(k - 1)]] /\ f[1..k] \in V
  <2>1. 1..k \in SUBSET (1..n) /\ 1..k # {} /\ Max(1..k) = k  BY Prefix
  <2>2. (1..k) \ {k} = 1..(k - 1)  OBVIOUS
  <2>3. f[1..k] = F[k][f[1..(k - 1)]]  BY <1>2, <2>1, <2>2 DEF Follows
  <2>4. QED  BY <2>3, <1>2
<1>3. \A k \in 0..n : k \in T
  <2>1. 0 \in T  BY <1>1
  <2>2. \A k \in 1..n : k - 1 \in T => k \in T  BY <1>2
  <2> HIDE DEF T
  <2>3. QED  BY <2>1, <2>2, CountUp
<1>4. h \in [0..n -> V]
  BY <1>3
<1>5. h[0] = base /\ h[n] = f[1..n] /\ \A k \in 1..n : h[k] = f[1..k] /\ h[k - 1] = f[1..(k - 1)]
  BY <1>1
<1>6. \A k \in 1..n : h[k] = F[k][h[k - 1]]
  <2> HIDE DEF h
  <2> QED  BY <1>2, <1>3, <1>5
<1>7. QED
  <2> HIDE DEF h
  <2> QED  BY <1>4, <1>5, <1>6 DEF History

------------------------------------------------------------------------------
(* What holds of a set when it does of all its smaller parts.              *)
FromParts(S, T) ==
  \A s \in SUBSET S : (\A r \in SUBSET s : r # s => r \in T) => s \in T

LEMMA PartInduction ==
  ASSUME NEW S, IsFiniteSet(S), NEW T, FromParts(S, T)
  PROVE  \A s \in SUBSET S : s \in T
<1> DEFINE Sizes == {Cardinality(s) : s \in {z \in SUBSET S : z \notin T}}
<1>1. SUFFICES ASSUME NEW z \in SUBSET S, z \notin T PROVE FALSE
  OBVIOUS
<1>2. Sizes # {} /\ Sizes \subseteq Nat
  <2>1. \A s \in SUBSET S : Cardinality(s) \in Nat  BY FS_Subset, FS_CardinalityType
  <2>2. QED  BY <1>1, <2>1
<1>3. PICK n \in Sizes : \A m \in Sizes : n <= m
  <2> HIDE DEF Sizes
  <2> QED  BY <1>2, NatLeast
<1>4. PICK s \in SUBSET S : s \notin T /\ Cardinality(s) = n
  BY <1>3
<1>5. PICK r \in SUBSET s : r # s /\ r \notin T
  BY <1>4 DEF FromParts
<1>6. Cardinality(r) \in Sizes
  BY <1>5
<1>7. IsFiniteSet(s)  BY FS_Subset
<1>8. Cardinality(r) < Cardinality(s) /\ Cardinality(r) \in Nat /\ Cardinality(s) \in Nat
  <2>1. Cardinality(r) <= Cardinality(s) /\ (Cardinality(s) = Cardinality(r) => s = r) /\ IsFiniteSet(r)
    BY <1>7, FS_Subset
  <2>2. Cardinality(r) \in Nat /\ Cardinality(s) \in Nat
    BY <2>1, <1>7, FS_CardinalityType
  <2>3. QED  BY <2>1, <2>2, <1>5
<1> HIDE DEF Sizes
<1>9. QED  BY <1>3, <1>4, <1>6, <1>8

(* The sum of w over the parts of a finite set, in the order CHOOSE takes. *)
Some(s) == CHOOSE x \in s : TRUE
Sums(g, S, w) ==
  \A s \in SUBSET S : g[s] = IF s = {} THEN 0 ELSE g[s \ {Some(s)}] + w[Some(s)]

LEMMA SumExists ==
  ASSUME NEW S, IsFiniteSet(S), NEW w, \A x \in S : w[x] \in Nat
  PROVE  \E g \in [SUBSET S -> Nat] : Sums(g, S, w)
<1> DEFINE c == [s \in SUBSET S |-> Some(s)]
           F == [s \in SUBSET S |-> [v \in Nat |-> v + w[Some(s)]]]
<1>1. ASSUME NEW s \in SUBSET S, s # {}
      PROVE  Some(s) \in s /\ c[s] = Some(s) /\ \A v \in Nat : F[s][v] = v + w[Some(s)] /\ F[s][v] \in Nat
  <2>1. Some(s) \in s  BY <1>1 DEF Some
  <2>2. w[Some(s)] \in Nat  BY <2>1
  <2>3. QED  BY <2>1, <2>2
<1>2. PICK g \in [SUBSET S -> Nat] : Recursive(g, S, c, 0, F)
  <2>1. 0 \in Nat  OBVIOUS
  <2>2. \A s \in SUBSET S : s # {} => c[s] \in s /\ \A v \in Nat : F[s][v] \in Nat
    <3> HIDE DEF c, F
    <3> QED  BY <1>1
  <2> HIDE DEF c, F
  <2>3. QED  BY <2>1, <2>2, SetRecursion
<1>3. ASSUME NEW s \in SUBSET S
      PROVE  g[s] = IF s = {} THEN 0 ELSE g[s \ {Some(s)}] + w[Some(s)]
  <2> HIDE DEF c, F
  <2>1. g[s] = IF s = {} THEN 0 ELSE F[s][g[s \ {c[s]}]]  BY <1>2 DEF Recursive
  <2>2. g[s \ {c[s]}] \in Nat  OBVIOUS
  <2>3. QED  BY <2>1, <2>2, <1>1
<1>4. QED  BY <1>3 DEF Sums

(* The sum is a number, and one of its terms can be taken out.             *)
LEMMA SumTerm ==
  ASSUME NEW S, IsFiniteSet(S), NEW w, \A x \in S : w[x] \in Nat, NEW g, Sums(g, S, w)
  PROVE  \A s \in SUBSET S : g[s] \in Nat /\ \A x \in s : g[s] = g[s \ {x}] + w[x]
<1> DEFINE T == {s \in SUBSET S : g[s] \in Nat /\ \A x \in s : g[s] = g[s \ {x}] + w[x]}
<1>1. ASSUME NEW s \in SUBSET S, \A r \in SUBSET s : r # s => r \in T
      PROVE  s \in T
  <2>1. CASE s = {}
    BY <2>1 DEF Sums
  <2>2. CASE s # {}
    <3> DEFINE y == Some(s)
    <3>1. y \in s  BY <2>2 DEF Some
    <3>2. g[s] = g[s \ {y}] + w[y]  BY <2>2 DEF Sums
    <3> HIDE DEF y
    <3>3. s \ {y} \in T  BY <1>1, <3>1
    <3>4. ASSUME NEW x \in s
          PROVE  g[s] = g[s \ {x}] + w[x]
      <4>1. CASE x = y
        BY <4>1, <3>2
      <4>2. CASE x # y
        <5>1. s \ {x} \in T  BY <1>1
        <5>2. g[s \ {y}] = g[(s \ {y}) \ {x}] + w[x]  BY <3>3, <4>2
        <5>3. g[s \ {x}] = g[(s \ {x}) \ {y}] + w[y]  BY <5>1, <3>1, <4>2
        <5>4. (s \ {y}) \ {x} = (s \ {x}) \ {y}  OBVIOUS
        <5>5. (s \ {x}) \ {y} \in T  BY <1>1
        <5>6. g[(s \ {x}) \ {y}] \in Nat /\ w[x] \in Nat /\ w[y] \in Nat  BY <5>5, <3>1
        <5> DEFINE z == g[(s \ {x}) \ {y}]
        <5>7. g[s] = (z + w[x]) + w[y] /\ g[s \ {x}] = z + w[y] /\ z \in Nat
          BY <5>2, <5>3, <5>4, <5>6, <3>2
        <5> HIDE DEF z
        <5>8. QED  BY <5>6, <5>7
      <4>3. QED  BY <4>1, <4>2
    <3>5. g[s] \in Nat
      <4>1. g[s \ {y}] \in Nat /\ w[y] \in Nat  BY <3>1, <3>3
      <4>2. QED  BY <4>1, <3>2
    <3>6. QED  BY <3>4, <3>5
  <2>3. QED  BY <2>1, <2>2
<1>2. FromParts(S, T)
  <2> HIDE DEF T
  <2> QED  BY <1>1 DEF FromParts
<1>3. \A s \in SUBSET S : s \in T
  <2> HIDE DEF T
  <2> QED  BY <1>2, PartInduction
<1>4. QED  BY <1>3

(* It depends on the terms alone.                                          *)
SumAlike(g, S, w, h, R, v) ==
  /\ S \subseteq R /\ \A x \in S : w[x] = v[x]
  /\ Sums(g, S, w) /\ Sums(h, R, v)

LEMMA SumAgrees ==
  ASSUME NEW S, NEW R, IsFiniteSet(S), NEW w, NEW v, NEW g, NEW h, SumAlike(g, S, w, h, R, v)
  PROVE  \A s \in SUBSET S : g[s] = h[s]
<1> DEFINE T == {s \in SUBSET S : g[s] = h[s]}
<1>1. ASSUME NEW s \in SUBSET S, \A r \in SUBSET s : r # s => r \in T
      PROVE  s \in T
  <2>1. /\ s \in SUBSET R /\ \A x \in S : w[x] = v[x]
        /\ Sums(g, S, w) /\ Sums(h, R, v)
    BY DEF SumAlike
  <2>2. CASE s = {}
    BY <2>1, <2>2 DEF Sums
  <2>3. CASE s # {}
    <3>1. Some(s) \in s  BY <2>3 DEF Some
    <3>2. s \ {Some(s)} \in T  BY <1>1, <3>1
    <3>3. QED  BY <2>1, <2>3, <3>1, <3>2 DEF Sums
  <2>4. QED  BY <2>2, <2>3
<1>2. FromParts(S, T)
  <2> HIDE DEF T
  <2> QED  BY <1>1 DEF FromParts
<1>3. \A s \in SUBSET S : s \in T
  <2> HIDE DEF T
  <2> QED  BY <1>2, PartInduction
<1>4. QED  BY <1>3
==============================================================================
