--------------------------- MODULE PromChainProofs ---------------------------
(***************************************************************************)
(* Proofs about PromChain for every chain of PROMs, block and array size,  *)
(* limit and set of arguments.                                             *)
(*                                                                         *)
(* TypeInv says how a call stands to the PROM and to the range it is for.  *)
(* The invariants after it follow the bytes: what verify has compared,     *)
(* what read has fetched, and what is done of the range before prom_pos.   *)
(***************************************************************************)
EXTENDS PromChain, SequenceTheorems, InductionFacts, TLAPS

Erasing  == {"erase", "erasing", "erased"}
Writing  == {"program", "block", "programming", "registers", "programmed"}
Checking == {"verify", "compare", "registers?", "verified"}
Reading  == {"read", "fetch", "fetched"}
InCall   == Erasing \cup Writing \cup Checking \cup Reading
InBlocks == {"block", "programming", "compare", "fetch"}

(***************************************************************************)
(* The type invariant.                                                     *)
(***************************************************************************)
PromSet(n) ==
  [cells : [0..(n - 1) -> {0, 1}], todo : [0..(n - 1) -> {0, 1}], busy : BOOLEAN,
   fault : BOOLEAN, isc : BOOLEAN, addr : 0..n, protect : BOOLEAN,
   regs : [Registers -> 0..15]]

PromsOK ==
  /\ prom = [p \in PromNr |-> prom[p]]
  /\ \A p \in PromNr : prom[p] \in PromSet(chain[p].size) /\ prom[p].addr % BlockSize = 0

BasicOK ==
  /\ chain \in Chains /\ pc \in Stages
  /\ all \in BOOLEAN /\ dropped \in BOOLEAN /\ late \in BOOLEAN
  /\ files \in 0..MaxFiles /\ out \in Seq({0, 1}) /\ k \in 1..(Len(chain) + 1)
  /\ i \in Nat /\ j \in Nat /\ ret \in {-1, 0, 1}
  /\ pc \in {"erasing", "programming"} => j < Polls
  /\ exit \in {"none", "ok", "erase", "program", "abort"}

(* Which call each stage is part of.                                       *)
StageOK ==
  /\ pc = "eraseAll" => all
  /\ all => pc \in Erasing \cup {"eraseAll"}
  /\ pc \in Erasing /\ ~all => job.action = "w"
  /\ pc \in Writing => job.action \in {"w", "W"}
  /\ pc \in Checking => job.action # "r"
  /\ pc \in Reading => job.action = "r"
  /\ pc \in InCall \cup {"advance"} \/ exit \in {"program", "abort"} => k \in PromNr
  /\ exit # "none" <=> pc = "exit"

(* The range fits the space, and the PROM begins at prom_pos.              *)
RangeOK ==
  /\ job \in [action : Actions \cup {"v"}, offset : Nat, data : Seq({0, 1}), rlength : Nat]
  /\ Fits(job)
  /\ job.action # "r" /\ job.rlength = 0 => job.data = <<>>
  /\ pos \in {0, Base[k]} /\ (all => pos = 0)
  /\ pc \in {"prom", "advance"} \cup InCall /\ ~all => pos = Base[k]
  /\ pc \in InCall /\ ~all => ~Before /\ pos < RangeEnd

(* The piece of the file a call other than read is given: Span bytes of    *)
(* it go to the PROM from `offset' on.                                     *)
PieceOK ==
  /\ cur \in [offset : Nat, data : Seq({0, 1}), rlength : Nat]
  /\ pc \in InCall /\ ~all => /\ cur.offset = CurrentOffset
                              /\ cur.rlength \in {0, CurrentLength}
                              /\ cur.rlength = 0 => CurrentLength \in {0, FileLength}
  /\ pc \in InCall /\ ~all /\ job.action # "r"
       => IF Single THEN cur.data = job.data
          ELSE /\ Len(cur.data) = Take /\ Source + Take \in 0..Length
               /\ \A b \in 1..Take : Source + b >= 1 => cur.data[b] = job.data[Source + b]
  /\ pc = "read" => cur.data = IF Single THEN out ELSE <<>>
  /\ pc = "fetch" => Len(cur.data) = Room /\ (IsP => ~BadBtc)
  /\ pc = "fetched" /\ ~Single => cur.data = <<>> \/ Len(cur.data) <= Take

(* How far the call has come.                                              *)
PlaceOK ==
  /\ pc \in InBlocks => /\ i % BlockSize = 0 /\ cur.offset % BlockSize = 0
                        /\ IsP => cur.offset = 0
  /\ pc = "programming" => i < Span
  /\ pc = "registers" => IsP /\ j \in 1..Len(RegisterOrder)
  /\ pc \in {"block", "compare"} /\ IsP /\ i % ArraySize # 0 => prom[k].addr <= i
  /\ pc = "programming" /\ IsP => prom[k].addr <= i + BlockSize
  /\ pc = "fetch" /\ IsP =>
       /\ cur.rlength \in {0, Size}
       /\ i % ArraySize # 0 => prom[k].addr = FirstArray * ArraySize + i

TypeInv == BasicOK /\ PromsOK /\ StageOK /\ RangeOK /\ PieceOK /\ PlaceOK

------------------------------------------------------------------------------
(***************************************************************************)
(* Blocks and arrays.                                                      *)
(***************************************************************************)
LEMMA Sizes ==
  /\ BlockSize \in Nat /\ BlockSize > 0 /\ ArraySize \in Nat /\ ArraySize > 0
  /\ Polls \in Nat /\ Polls > 0 /\ MaxFiles \in Nat
  /\ ArraySize % BlockSize = 0
BY SizeAssumption

LEMMA BlockSums ==
  \A m, n \in Int : m % BlockSize = 0 /\ n % BlockSize = 0
    => /\ (m + n) % BlockSize = 0 /\ (m + BlockSize) % BlockSize = 0
       /\ m < n => m + BlockSize <= n
BY Blocks, Sizes

(* Arrays consist of blocks.                                               *)
LEMMA Arrays ==
  ASSUME NEW m \in Int
  PROVE  /\ (m * ArraySize) % ArraySize = 0 /\ (m * ArraySize) % BlockSize = 0
         /\ m % ArraySize = 0 => m % BlockSize = 0
         /\ m < (m \div ArraySize + 1) * ArraySize
<1>1. ASSUME NEW x \in Int PROVE (ArraySize * x) % BlockSize = 0
  <2>0. \A n \in Int : /\ n % BlockSize = 0 => \E q \in Int : n = BlockSize * q
                       /\ (BlockSize * n) % BlockSize = 0
    BY Multiples, Sizes
  <2>1. PICK q \in Int : ArraySize = BlockSize * q  BY <2>0, Sizes
  <2>2. ArraySize * x = BlockSize * (q * x) /\ q * x \in Int  BY <2>1, Sizes
  <2>3. ArraySize * x \in Int  BY Sizes
  <2>4. QED  BY <2>0, <2>2
<1>2. m * ArraySize = ArraySize * m /\ m * ArraySize \in Int  BY Sizes
<1>3. m % ArraySize = 0 => m % BlockSize = 0
  <2>1. m % ArraySize = 0 => \E q \in Int : m = ArraySize * q  BY Multiples, Sizes
  <2>2. QED  BY <1>1, <2>1
<1>4. /\ m \div ArraySize \in Int /\ m % ArraySize < ArraySize
      /\ m = ArraySize * (m \div ArraySize) + (m % ArraySize)
  BY Multiples, Sizes
<1>5. m < (m \div ArraySize + 1) * ArraySize
  <2> DEFINE q == m \div ArraySize
  <2>1. (q + 1) * ArraySize = ArraySize * q + ArraySize /\ ArraySize * q \in Int /\ m % ArraySize \in Int
    BY <1>4, Sizes
  <2> HIDE DEF q
  <2>2. m = ArraySize * q + (m % ArraySize) /\ m % ArraySize < ArraySize  BY <1>4 DEF q
  <2>3. m < (q + 1) * ArraySize  BY <2>1, <2>2, Sizes
  <2>4. QED  BY <2>3 DEF q
<1>6. QED  BY <1>1, <1>2, <1>3, <1>5, Multiples, Sizes

------------------------------------------------------------------------------
(***************************************************************************)
(* Where the PROMs begin.  Base is defined by recursion, and what it is    *)
(* needs induction: every set of numbers that is not empty has a least.    *)
(***************************************************************************)
(* Base up to n: the recursive definition, cut off.                        *)
BaseUpTo(n, f) ==
  /\ f = [m \in 0..n |-> f[m]]
  /\ \A m \in 0..n : f[m] = IF m <= 1 THEN 0 ELSE f[m - 1] + chain[m - 1].size

LEMMA BaseUpToUnique ==
  ASSUME NEW n \in Nat, NEW m \in Nat, NEW f, NEW h, BaseUpTo(n, f), BaseUpTo(m, h), n <= m
  PROVE  \A x \in 0..n : f[x] = h[x]
<1> DEFINE T == {x \in 0..n : f[x] # h[x]}
<1>1. SUFFICES ASSUME T # {} PROVE FALSE
  OBVIOUS
<1>2. PICK x \in T : \A y \in T : x <= y
  <2>1. T \subseteq Nat  OBVIOUS
  <2> HIDE DEF T
  <2>2. QED  BY <1>1, <2>1, NatLeast
<1>3. x \in 0..n /\ x \in 0..m /\ x \in Nat /\ f[x] # h[x]
  OBVIOUS
<1>4. x > 1 => f[x - 1] = h[x - 1]
  <2>1. x > 1 => x - 1 \in 0..n /\ ~(x <= x - 1)  BY <1>3
  <2>2. x > 1 => x - 1 \notin T  BY <1>2, <2>1
  <2>3. QED  BY <2>1, <2>2
<1>5. /\ f[x] = IF x <= 1 THEN 0 ELSE f[x - 1] + chain[x - 1].size
      /\ h[x] = IF x <= 1 THEN 0 ELSE h[x - 1] + chain[x - 1].size
  <2> HIDE DEF T
  <2> QED  BY <1>3 DEF BaseUpTo
<1> HIDE DEF T
<1>6. QED  BY <1>3, <1>4, <1>5

LEMMA BaseUpToExists ==
  ASSUME NEW n \in Nat
  PROVE  \E f : BaseUpTo(n, f)
<1> DEFINE T == {x \in Nat : ~ \E f : BaseUpTo(x, f)}
<1>1. SUFFICES ASSUME T # {} PROVE FALSE
  OBVIOUS
<1>2. PICK x \in T : \A y \in T : x <= y
  <2>1. T \subseteq Nat  OBVIOUS
  <2> HIDE DEF T
  <2>2. QED  BY <1>1, <2>1, NatLeast
<1>3. CASE x = 0
  <2>1. BaseUpTo(0, [m \in 0..0 |-> 0])  BY DEF BaseUpTo
  <2>2. QED  BY <2>1, <1>2, <1>3
<1>4. CASE x > 0
  <2>1. PICK f : BaseUpTo(x - 1, f)
    BY <1>2, <1>4
  <2> DEFINE v == IF x <= 1 THEN 0 ELSE f[x - 1] + chain[x - 1].size
             h == [m \in 0..x |-> IF m = x THEN v ELSE f[m]]
  <2>2. /\ h = [m \in 0..x |-> h[m]] /\ h[x] = v
        /\ \A m \in 0..(x - 1) : h[m] = f[m]
    BY <1>4
  <2>3. ASSUME NEW m \in 0..x
        PROVE  h[m] = IF m <= 1 THEN 0 ELSE h[m - 1] + chain[m - 1].size
    <3>1. CASE m = x
      <4>1. x > 1 => h[x - 1] = f[x - 1]  BY <2>2
      <4> HIDE DEF h
      <4>2. QED  BY <3>1, <2>2, <4>1, <1>4
    <3>2. CASE m # x
      <4>1. m \in 0..(x - 1) /\ (m > 1 => m - 1 \in 0..(x - 1))  BY <3>2
      <4>2. h[m] = f[m] /\ (m > 1 => h[m - 1] = f[m - 1])  BY <4>1, <2>2
      <4>3. f[m] = IF m <= 1 THEN 0 ELSE f[m - 1] + chain[m - 1].size
        BY <4>1, <2>1 DEF BaseUpTo
      <4> HIDE DEF h
      <4>4. QED  BY <4>1, <4>2, <4>3
    <3>3. QED  BY <3>1, <3>2
  <2>4. BaseUpTo(x, h)
    <3> HIDE DEF h
    <3> QED  BY <2>2, <2>3 DEF BaseUpTo
  <2>5. QED  BY <2>4, <1>2
<1>5. QED  BY <1>3, <1>4, <1>2

LEMMA BaseUnfolds ==
  Base = [n \in Nat |-> IF n <= 1 THEN 0 ELSE Base[n - 1] + chain[n - 1].size]
<1> DEFINE A(n) == CHOOSE f : BaseUpTo(n, f)
           F == [n \in Nat |-> A(n)[n]]
<1>1. \A n \in Nat : BaseUpTo(n, A(n))  BY BaseUpToExists
<1>2. \A n \in Nat : F[n] = A(n)[n]  OBVIOUS
<1>3. ASSUME NEW n \in Nat
      PROVE  F[n] = IF n <= 1 THEN 0 ELSE F[n - 1] + chain[n - 1].size
  <2>1. CASE n <= 1
    <3> HIDE DEF F, A
    <3> QED  BY <2>1, <1>1, <1>2 DEF BaseUpTo
  <2>2. CASE n > 1
    <3>1. F[n - 1] = A(n - 1)[n - 1]  BY <2>2
    <3> HIDE DEF F, A
    <3>2. A(n)[n] = A(n)[n - 1] + chain[n - 1].size
      BY <2>2, <1>1 DEF BaseUpTo
    <3>3. A(n)[n - 1] = A(n - 1)[n - 1]
      <4>1. BaseUpTo(n - 1, A(n - 1)) /\ BaseUpTo(n, A(n))  BY <1>1, <2>2
      <4>2. n - 1 \in Nat /\ n - 1 <= n /\ n - 1 \in 0..(n - 1)  BY <2>2
      <4>3. \A x \in 0..(n - 1) : A(n - 1)[x] = A(n)[x]  BY <4>1, <4>2, BaseUpToUnique
      <4>4. QED  BY <4>3, <4>2
    <3>4. QED  BY <3>1, <3>2, <3>3, <1>2, <2>2
  <2>3. QED  BY <2>1, <2>2
<1>4. F = [n \in Nat |-> IF n <= 1 THEN 0 ELSE F[n - 1] + chain[n - 1].size]
  <2>1. F = [n \in Nat |-> F[n]]  OBVIOUS
  <2> HIDE DEF F, A
  <2>2. QED  BY <1>3, <2>1
<1>5. \E f : f = [n \in Nat |-> IF n <= 1 THEN 0 ELSE f[n - 1] + chain[n - 1].size]
  <2> HIDE DEF F, A
  <2> QED  BY <1>4
<1>6. QED  BY <1>5 DEF Base

(* The kinds and sizes of the PROMs of a chain.                            *)
LEMMA PromKinds ==
  ASSUME chain \in Chains
  PROVE  /\ Len(chain) \in Nat /\ Len(chain) > 0 /\ PromNr = 1..Len(chain)
         /\ \A p \in PromNr : /\ p \in Nat /\ chain[p].kind \in Kinds
                              /\ chain[p].size \in Nat /\ chain[p].size > 0
                              /\ chain[p].size % BlockSize = 0
                              /\ chain[p].kind = "xcfp" => /\ chain[p].size % ArraySize = 0
                                                           /\ chain[p].size <= 4 * ArraySize
<1>1. chain \in Seq([kind : Kinds, size : Nat \ {0}]) /\ Len(chain) > 0
  BY ChainAssumption
<1>2. \A p \in DOMAIN chain : /\ chain[p].size % BlockSize = 0
                              /\ chain[p].kind = "xcfp" => /\ chain[p].size % ArraySize = 0
                                                           /\ chain[p].size <= 4 * ArraySize
  BY ChainAssumption
<1>3. DOMAIN chain = 1..Len(chain) /\ Len(chain) \in Nat
  BY <1>1
<1>4. \A p \in 1..Len(chain) : chain[p] \in [kind : Kinds, size : Nat \ {0}]
  <2> DEFINE S == [kind : Kinds, size : Nat \ {0}]
  <2>1. chain \in Seq(S)  BY <1>1
  <2> HIDE DEF S
  <2>2. \A p \in 1..Len(chain) : chain[p] \in S  BY <2>1
  <2>3. QED  BY <2>2 DEF S
<1>5. QED  BY <1>1, <1>2, <1>3, <1>4 DEF PromNr

(* A PROM ends where the next one begins.                                  *)
LEMMA BaseStep ==
  ASSUME chain \in Chains
  PROVE  /\ Base[1] = 0 /\ Total = Base[Len(chain) + 1]
         /\ \A p \in PromNr : Base[p + 1] = Base[p] + chain[p].size
<1>1. Base[1] = 0  BY BaseUnfolds
<1>2. ASSUME NEW p \in PromNr PROVE Base[p + 1] = Base[p] + chain[p].size
  <2>1. p \in Nat /\ p >= 1  BY PromKinds
  <2>2. p + 1 \in Nat /\ ~(p + 1 <= 1) /\ (p + 1) - 1 = p  BY <2>1
  <2>3. Base[p + 1] = Base[(p + 1) - 1] + chain[(p + 1) - 1].size
    BY <2>2, BaseUnfolds
  <2>4. QED  BY <2>2, <2>3
<1>3. QED  BY <1>1, <1>2 DEF Total

LEMMA BaseType ==
  ASSUME chain \in Chains
  PROVE  \A n \in 1..(Len(chain) + 1) : Base[n] \in Nat
<1> DEFINE T == {n \in 1..(Len(chain) + 1) : Base[n] \notin Nat}
<1>1. SUFFICES ASSUME T # {} PROVE FALSE
  OBVIOUS
<1>2. PICK n \in T : \A m \in T : n <= m
  <2>1. T \subseteq Nat  BY PromKinds
  <2> HIDE DEF T
  <2>2. QED  BY <1>1, <2>1, NatLeast
<1>3. n # 1  BY BaseStep
<1>4. n - 1 \in PromNr /\ n - 1 \notin T /\ (n - 1) + 1 = n
  BY <1>2, <1>3, PromKinds
<1>5. Base[n - 1] \in Nat  BY <1>4, PromKinds
<1>6. Base[n] = Base[n - 1] + chain[n - 1].size  BY <1>4, BaseStep
<1>7. QED  BY <1>4, <1>5, <1>6, PromKinds

LEMMA BaseOrder ==
  ASSUME chain \in Chains
  PROVE  \A p \in PromNr : \A q \in (p + 1)..(Len(chain) + 1) : Base[p + 1] <= Base[q]
<1>1. SUFFICES ASSUME NEW p \in PromNr
               PROVE  \A q \in (p + 1)..(Len(chain) + 1) : Base[p + 1] <= Base[q]
  OBVIOUS
<1> DEFINE T == {q \in (p + 1)..(Len(chain) + 1) : ~(Base[p + 1] <= Base[q])}
<1>2. SUFFICES ASSUME T # {} PROVE FALSE
  OBVIOUS
<1>3. PICK q \in T : \A m \in T : q <= m
  <2>1. T \subseteq Nat  BY PromKinds
  <2> HIDE DEF T
  <2>2. QED  BY <1>2, <2>1, NatLeast
<1>4. p + 1 \in 1..(Len(chain) + 1) /\ Base[p + 1] \in Nat  BY PromKinds, BaseType
<1>5. q # p + 1  BY <1>4
<1>6. /\ q - 1 \in PromNr /\ q - 1 \in (p + 1)..(Len(chain) + 1) /\ q - 1 \notin T
      /\ (q - 1) + 1 = q /\ q - 1 \in 1..(Len(chain) + 1)
  BY <1>3, <1>5, PromKinds
<1>7. Base[p + 1] <= Base[q - 1] /\ Base[q - 1] \in Nat  BY <1>6, BaseType
<1>8. Base[q] = Base[q - 1] + chain[q - 1].size  BY <1>6, BaseStep
<1>9. QED  BY <1>4, <1>6, <1>7, <1>8, PromKinds

(* Each byte of the space is in one PROM.                                  *)
LEMMA HomeExists ==
  ASSUME chain \in Chains, NEW x \in 0..(Total - 1)
  PROVE  \E p \in PromNr : x \in Base[p]..(Base[p + 1] - 1)
<1> DEFINE T == {n \in 1..(Len(chain) + 1) : x < Base[n]}
<1>1. T # {}
  <2>1. Len(chain) + 1 \in 1..(Len(chain) + 1)  BY PromKinds
  <2>2. Base[Len(chain) + 1] \in Nat /\ Total = Base[Len(chain) + 1]
    BY <2>1, BaseType, BaseStep
  <2>3. QED  BY <2>1, <2>2
<1>2. PICK n \in T : \A m \in T : n <= m
  <2>1. T \subseteq Nat  BY PromKinds
  <2> HIDE DEF T
  <2>2. QED  BY <1>1, <2>1, NatLeast
<1>3. n # 1  BY BaseStep
<1>4. n - 1 \in PromNr /\ n - 1 \notin T /\ (n - 1) + 1 = n /\ n - 1 \in 1..(Len(chain) + 1)
  BY <1>2, <1>3, PromKinds
<1>5. Base[n - 1] \in Nat /\ ~(x < Base[n - 1]) /\ Base[n] \in Nat /\ x < Base[n]
  BY <1>4, BaseType
<1>6. QED  BY <1>4, <1>5

LEMMA HomeUnique ==
  ASSUME chain \in Chains, NEW p \in PromNr, NEW a \in 0..(chain[p].size - 1)
  PROVE  /\ HomeOf(Base[p] + a) = p /\ At(Base[p] + a) = prom[p].cells[a]
         /\ Base[p] + a \in 0..(Total - 1)
<1>1. /\ p \in Nat /\ p >= 1 /\ p <= Len(chain) /\ Len(chain) \in Nat /\ chain[p].size \in Nat
      /\ Base[p] \in Nat /\ Base[p + 1] \in Nat /\ Base[p + 1] = Base[p] + chain[p].size
  BY PromKinds, BaseType, BaseStep
<1> DEFINE x == Base[p] + a
<1>2. x \in Base[p]..(Base[p + 1] - 1) /\ x - Base[p] = a  BY <1>1
<1>3. ASSUME NEW q \in PromNr, x \in Base[q]..(Base[q + 1] - 1)
      PROVE  q = p
  <2>1. q \in Nat /\ q >= 1 /\ q <= Len(chain) /\ Base[q] \in Nat /\ Base[q + 1] \in Nat
    BY PromKinds, BaseType
  <2>2. p < q => Base[p + 1] <= Base[q]
    <3>1. p < q => q \in (p + 1)..(Len(chain) + 1)  BY <1>1, <2>1
    <3>2. QED  BY <3>1, BaseOrder
  <2>3. q < p => Base[q + 1] <= Base[p]
    <3>1. q < p => p \in (q + 1)..(Len(chain) + 1)  BY <1>1, <2>1
    <3>2. QED  BY <3>1, BaseOrder
  <2> HIDE DEF x
  <2>4. x \in Int /\ Base[p] <= x /\ x < Base[p + 1]  BY <1>1, <1>2
  <2>5. Base[q] <= x /\ x < Base[q + 1]  BY <1>3, <2>1
  <2>6. ~(p < q) /\ ~(q < p)  BY <1>1, <2>1, <2>2, <2>3, <2>4, <2>5
  <2>7. QED  BY <1>1, <2>1, <2>6
<1>4. Base[p + 1] <= Total /\ Total \in Nat
  <2>1. Len(chain) + 1 \in (p + 1)..(Len(chain) + 1) /\ Len(chain) + 1 \in 1..(Len(chain) + 1)
    BY <1>1
  <2>2. QED  BY <2>1, BaseOrder, BaseStep, BaseType
<1> HIDE DEF x
<1>5. HomeOf(x) = p  BY <1>2, <1>3 DEF HomeOf
<1>6. At(x) = prom[p].cells[a]  BY <1>5, <1>2 DEF At
<1>7. x \in 0..(Total - 1)  BY <1>1, <1>2, <1>4
<1>8. QED  BY <1>5, <1>6, <1>7 DEF x

------------------------------------------------------------------------------
(***************************************************************************)
(* The piece of the range inside a PROM.                                   *)
(***************************************************************************)

(* The PROM the range meets at prom_pos.                                   *)
Meeting ==
  /\ chain \in Chains /\ k \in PromNr /\ pos = Base[k] /\ ~Before /\ pos < RangeEnd
  /\ job \in [action : Actions \cup {"v"}, offset : Nat, data : Seq({0, 1}), rlength : Nat]
  /\ Fits(job)
  /\ job.action # "r" /\ job.rlength = 0 => job.data = <<>>

LEMMA MeetingTypes ==
  Meeting => /\ Size \in Nat /\ Size > 0 /\ Size % BlockSize = 0 /\ pos \in Nat
             /\ IsP => Size % ArraySize = 0 /\ Size <= 4 * ArraySize
             /\ job.offset \in Nat /\ job.rlength \in Nat /\ job.data \in Seq({0, 1})
             /\ Len(job.data) \in Nat /\ Length \in Nat /\ job.rlength <= Length
             /\ RangeEnd = job.offset + job.rlength /\ RangeEnd \in Nat
             /\ pos + Size > job.offset /\ pos < RangeEnd
<1> SUFFICES ASSUME Meeting
             PROVE  /\ Size \in Nat /\ Size > 0 /\ Size % BlockSize = 0 /\ pos \in Nat
                    /\ IsP => Size % ArraySize = 0 /\ Size <= 4 * ArraySize
                    /\ job.offset \in Nat /\ job.rlength \in Nat /\ job.data \in Seq({0, 1})
                    /\ Len(job.data) \in Nat /\ Length \in Nat /\ job.rlength <= Length
                    /\ RangeEnd = job.offset + job.rlength /\ RangeEnd \in Nat
                    /\ pos + Size > job.offset /\ pos < RangeEnd
  OBVIOUS
<1>1. /\ Size \in Nat /\ Size > 0 /\ Size % BlockSize = 0
      /\ IsP => Size % ArraySize = 0 /\ Size <= 4 * ArraySize
  BY PromKinds DEF Meeting, Size, IsP, Kind
<1>2. pos \in Nat
  <2>1. k \in 1..(Len(chain) + 1)  BY PromKinds DEF Meeting
  <2>2. QED  BY <2>1, BaseType DEF Meeting
<1>3. job.offset \in Nat /\ job.rlength \in Nat /\ job.data \in Seq({0, 1})
  BY DEF Meeting
<1>4. Len(job.data) \in Nat  BY <1>3
<1>5. job.action # "r" => job.rlength <= Len(job.data)  BY DEF Meeting, Fits
<1>6. Length \in Nat /\ job.rlength <= Length  BY <1>3, <1>4, <1>5 DEF Length
<1>7. RangeEnd = job.offset + job.rlength /\ RangeEnd \in Nat  BY <1>3 DEF RangeEnd
<1>8. pos + Size > job.offset /\ pos < RangeEnd
  BY <1>1, <1>2, <1>3 DEF Meeting, Before
<1>9. QED  BY <1>1, <1>2, <1>3, <1>4, <1>6, <1>7, <1>8

LEMMA PieceSizes ==
  Meeting => /\ CurrentOffset \in Nat /\ CurrentOffset < Size
             /\ pos + CurrentOffset >= job.offset
             /\ CurrentLength \in Nat /\ CurrentOffset + CurrentLength <= Size
             /\ CurrentLength <= Length
             /\ Take \in Nat /\ Take > 0 /\ CurrentOffset + Take <= Size
             /\ Source \in Int
             /\ CurrentLength # 0 => pos + CurrentOffset + CurrentLength = RangeEnd
             /\ CurrentLength = 0 => pos + Size <= RangeEnd \/ job.rlength = 0
<1> SUFFICES ASSUME Meeting
             PROVE  /\ CurrentOffset \in Nat /\ CurrentOffset < Size
                    /\ pos + CurrentOffset >= job.offset
                    /\ CurrentLength \in Nat /\ CurrentOffset + CurrentLength <= Size
                    /\ CurrentLength <= Length
                    /\ Take \in Nat /\ Take > 0 /\ CurrentOffset + Take <= Size
                    /\ Source \in Int
                    /\ CurrentLength # 0 => pos + CurrentOffset + CurrentLength = RangeEnd
                    /\ CurrentLength = 0 => pos + Size <= RangeEnd \/ job.rlength = 0
  OBVIOUS
<1>1. /\ Size \in Nat /\ Size > 0 /\ pos \in Nat
      /\ job.offset \in Nat /\ job.rlength \in Nat /\ Length \in Nat /\ job.rlength <= Length
      /\ RangeEnd = job.offset + job.rlength
      /\ pos + Size > job.offset /\ pos < RangeEnd
  BY MeetingTypes
<1>2. /\ CurrentOffset \in Nat /\ CurrentOffset < Size /\ pos + CurrentOffset >= job.offset
      /\ pos + CurrentOffset <= RangeEnd
      /\ CurrentOffset = 0 \/ pos + CurrentOffset = job.offset
  BY <1>1 DEF CurrentOffset
<1>3. /\ CurrentLength \in Nat /\ CurrentOffset + CurrentLength <= Size
      /\ CurrentLength <= Length
      /\ CurrentLength # 0 => pos + CurrentOffset + CurrentLength = RangeEnd
      /\ CurrentLength = 0 => pos + Size <= RangeEnd \/ job.rlength = 0
  BY <1>1, <1>2 DEF CurrentLength
<1>4. Take \in Nat /\ Take > 0 /\ CurrentOffset + Take <= Size
  BY <1>1, <1>2, <1>3 DEF Take
<1>5. Source \in Int  BY <1>1 DEF Source
<1>6. QED  BY <1>2, <1>3, <1>4, <1>5

LEMMA LeastType ==
  ASSUME NEW a \in Int, NEW b \in Int
  PROVE  /\ Least(a, b) \in Int /\ Least(a, b) <= a /\ Least(a, b) <= b
         /\ Least(a, b) = a \/ Least(a, b) = b
BY DEF Least

(* A call other than read, with its piece.                                 *)
PieceGiven ==
  /\ cur \in [offset : Nat, data : Seq({0, 1}), rlength : Nat]
  /\ cur.offset = CurrentOffset /\ cur.rlength \in {0, CurrentLength}
  /\ cur.rlength = 0 => CurrentLength \in {0, FileLength}
  /\ IF Single THEN cur.data = job.data
     ELSE /\ Len(cur.data) = Take /\ Source + Take \in 0..Length
          /\ \A b \in 1..Take : Source + b >= 1 => cur.data[b] = job.data[Source + b]

(* What goes to the PROM are bytes of the file, and fits the PROM.         *)
LEMMA SpanType ==
  Meeting /\ PieceGiven /\ job.action # "r"
    => /\ Span \in Nat /\ Span <= Len(cur.data) /\ cur.offset + Span <= Size
       /\ cur.offset \in Nat /\ cur.offset < Size /\ Len(cur.data) \in Nat
       /\ \A b \in 1..Span : cur.data[b] \in {0, 1}
<1> SUFFICES ASSUME Meeting, PieceGiven, job.action # "r"
             PROVE  /\ Span \in Nat /\ Span <= Len(cur.data) /\ cur.offset + Span <= Size
                    /\ cur.offset \in Nat /\ cur.offset < Size /\ Len(cur.data) \in Nat
                    /\ \A b \in 1..Span : cur.data[b] \in {0, 1}
  OBVIOUS
<1>1. /\ Size \in Nat /\ Length \in Nat /\ Length = Len(job.data)
  BY MeetingTypes DEF Length
<1>2. /\ CurrentOffset \in Nat /\ CurrentOffset < Size /\ CurrentLength \in Nat
      /\ CurrentLength <= Length /\ Take \in Nat
      /\ CurrentLength # 0 => Take = CurrentLength
  BY PieceSizes DEF Take
<1>3. /\ cur.offset = CurrentOffset /\ cur.data \in Seq({0, 1}) /\ Len(cur.data) \in Nat
      /\ cur.rlength \in Nat /\ cur.rlength \in {0, CurrentLength}
  BY DEF PieceGiven
<1>4. CurrentLength # 0 => CurrentLength <= Len(cur.data)
  BY <1>1, <1>2 DEF PieceGiven
<1> DEFINE n == IF cur.rlength # 0 THEN cur.rlength ELSE Len(cur.data)
<1>5. n \in Nat /\ n <= Len(cur.data)  BY <1>2, <1>3, <1>4
<1>6. Span = Least(n, Size - cur.offset)  BY DEF Span
<1>7. Size - cur.offset \in Nat  BY <1>1, <1>2, <1>3
<1> HIDE DEF n
<1>8. Span \in Nat /\ Span <= n /\ Span <= Size - cur.offset
  BY <1>5, <1>6, <1>7 DEF Least
<1>9. \A b \in 1..Span : b \in 1..Len(cur.data)  BY <1>3, <1>5, <1>8
<1>10. \A b \in 1..Len(cur.data) : cur.data[b] \in {0, 1}  BY <1>3
<1>11. QED  BY <1>1, <1>2, <1>3, <1>5, <1>8, <1>9, <1>10


(* Where a call is: TypeInv has the PROM and the piece.                    *)
LEMMA InCallFacts ==
  TypeInv /\ pc \in InCall
    => /\ k \in PromNr /\ prom[k] \in PromSet(Size) /\ prom[k].addr % BlockSize = 0
       /\ Kind \in Kinds /\ Size \in Nat /\ Size > 0 /\ Size % BlockSize = 0
       /\ IsP => Size % ArraySize = 0 /\ Size <= 4 * ArraySize
       /\ ~all => Meeting
       /\ ~all /\ job.action # "r" => PieceGiven
BY PromKinds DEF TypeInv, BasicOK, PromsOK, StageOK, RangeOK, PieceOK, Meeting, PieceGiven,
                 Kind, Size, IsP

LEMMA TypeParts == TypeInv => TypeOK
<1> SUFFICES ASSUME TypeInv PROVE TypeOK
  OBVIOUS
<1>1. \A p \in PromNr : PromTypeOK(p)
  BY DEF TypeInv, PromsOK, PromSet, PromTypeOK
<1>2. pos \in 0..Total
  <2>1. Base[k] \in Nat /\ Total = Base[Len(chain) + 1] /\ Total \in Nat
    BY BaseType, BaseStep, PromKinds DEF TypeInv, BasicOK
  <2>2. Base[k] <= Total
    <3>1. CASE k = Len(chain) + 1
      BY <3>1, <2>1
    <3>2. CASE k = 1
      BY <3>2, <2>1, BaseStep DEF TypeInv, BasicOK
    <3>3. CASE k # 1 /\ k # Len(chain) + 1
      <4>1. k - 1 \in PromNr /\ (k - 1) + 1 = k /\ Len(chain) + 1 \in ((k - 1) + 1)..(Len(chain) + 1)
        BY <3>3, PromKinds DEF TypeInv, BasicOK
      <4>2. QED  BY <4>1, <2>1, BaseOrder DEF TypeInv, BasicOK
    <3>4. QED  BY <3>1, <3>2, <3>3
  <2>3. QED  BY <2>1, <2>2 DEF TypeInv, RangeOK
<1>3. {all, dropped, late} \subseteq BOOLEAN /\ {i, j} \subseteq Nat
  BY DEF TypeInv, BasicOK
<1>4. /\ job.action \in Actions \cup {"v"} /\ {job.offset, job.rlength} \subseteq Nat
      /\ cur.data \in Seq({0, 1}) /\ {cur.offset, cur.rlength} \subseteq Nat
  BY DEF TypeInv, RangeOK, PieceOK
<1>5. QED  BY <1>1, <1>2, <1>3, <1>4 DEF TypeInv, BasicOK, TypeOK

------------------------------------------------------------------------------
(***************************************************************************)
(* The PROMs keep their type under every command.                          *)
(***************************************************************************)
LEMMA SwitchType ==
  ASSUME NEW n \in Nat, NEW c \in PromSet(n)
  PROVE  /\ Enabled(c) \in PromSet(n) /\ Enabled(c).addr = c.addr /\ Enabled(c).isc
         /\ Disabled(c) \in PromSet(n) /\ Disabled(c).addr = c.addr /\ ~Disabled(c).isc
BY DEF Enabled, Disabled, PromSet

LEMMA AddressType ==
  ASSUME NEW n \in Nat, NEW c \in PromSet(n), NEW a \in 0..n
  PROVE  IscAddress(c, a) \in PromSet(n) /\ IscAddress(c, a).addr = a
BY DEF IscAddress, PromSet

LEMMA EraseType ==
  ASSUME NEW n \in Nat, NEW c \in PromSet(n)
  PROVE  IscErase(c) \in PromSet(n) /\ IscErase(c).addr = c.addr
<1> DEFINE blank == [a \in DOMAIN c.cells |-> 1]
<1>1. blank \in [0..(n - 1) -> {0, 1}]  BY DEF PromSet
<1>2. Unwritten \in [Registers -> 0..15]  BY DEF Unwritten
<1> HIDE DEF blank
<1>3. IscErase(c) = IF c.busy \/ ~c.isc THEN c ELSE [Start(c, blank) EXCEPT !.regs = Unwritten]
  BY DEF IscErase, blank
<1>4. Start(c, blank) \in PromSet(n) /\ Start(c, blank).addr = c.addr
  BY <1>1 DEF Start, PromSet
<1>5. QED  BY <1>2, <1>3, <1>4 DEF PromSet

LEMMA ProgramType ==
  ASSUME NEW n \in Nat, NEW c \in PromSet(n), NEW data, c.addr + BlockSize <= n
  PROVE  /\ IscProgram(c, data) \in PromSet(n)
         /\ IscProgram(c, data).addr \in {c.addr, c.addr + BlockSize}
<1> DEFINE burnt == [a \in DOMAIN c.cells |->
                       IF /\ ~c.protect /\ a \in c.addr..(c.addr + BlockSize - 1)
                          /\ data[a - c.addr + 1] = 0
                       THEN 0 ELSE c.cells[a]]
<1>1. burnt \in [0..(n - 1) -> {0, 1}]  BY DEF PromSet
<1> HIDE DEF burnt
<1>2. IscProgram(c, data) = IF c.busy \/ ~c.isc THEN c
                            ELSE [Start(c, burnt) EXCEPT !.addr = c.addr + BlockSize]
  BY DEF IscProgram, burnt
<1>3. Start(c, burnt) \in PromSet(n)
  BY <1>1 DEF Start, PromSet
<1>4. c.addr \in Nat  BY DEF PromSet
<1>5. c.addr + BlockSize \in 0..n  BY <1>4, Sizes
<1>6. QED  BY <1>2, <1>3, <1>5 DEF PromSet

LEMMA PassedType ==
  ASSUME NEW n \in Nat, NEW c \in PromSet(n), c.addr + BlockSize <= n
  PROVE  Passed(c) \in PromSet(n) /\ Passed(c).addr = c.addr + BlockSize
<1>1. c.addr \in Nat  BY DEF PromSet
<1>2. c.addr + BlockSize \in 0..n  BY <1>1, Sizes
<1>3. QED  BY <1>2 DEF Passed, PromSet

(* What SetProm does, and what changes with none of the PROMs.             *)
LEMMA SetPromEffect ==
  ASSUME PromsOK, k \in PromNr, chain' = chain, NEW c, SetProm(c),
         c \in PromSet(Size), c.addr % BlockSize = 0
  PROVE  /\ PromsOK' /\ prom'[k] = c /\ PromNr' = PromNr
         /\ \A p \in PromNr : p # k => prom'[p] = prom[p]
<1>1. PromNr' = PromNr  BY DEF PromNr
<1>2. /\ prom'[k] = c /\ \A p \in PromNr : p # k => prom'[p] = prom[p]
      /\ prom' = [p \in PromNr |-> prom'[p]]
  BY DEF SetProm, PromsOK
<1>3. \A p \in PromNr : prom'[p] \in PromSet(chain[p].size) /\ prom'[p].addr % BlockSize = 0
  BY <1>2 DEF PromsOK, Size
<1>4. QED  BY <1>1, <1>2, <1>3 DEF PromsOK

------------------------------------------------------------------------------
(***************************************************************************)
(* Every step keeps the type invariant.                                    *)
(***************************************************************************)
LEMMA Steady ==
  ASSUME UNCHANGED <<chain, job, k, pos>>
  PROVE  /\ PromNr' = PromNr /\ Kind' = Kind /\ Size' = Size /\ IsP' = IsP
         /\ Base' = Base /\ Total' = Total /\ Single' = Single
         /\ RangeEnd' = RangeEnd /\ Before' = Before /\ Source' = Source
         /\ Length' = Length /\ FileLength' = FileLength /\ Fits(job)' = Fits(job)
         /\ CurrentOffset' = CurrentOffset /\ CurrentLength' = CurrentLength /\ Take' = Take
BY DEF PromNr, Kind, Size, IsP, Base, Total, Single, RangeEnd, Before, Source, Length,
       FileLength, Fits, CurrentOffset, CurrentLength, Take

LEMMA SteadyPiece ==
  ASSUME UNCHANGED <<chain, job, k, pos, cur>>
  PROVE  Span' = Span
BY Steady DEF Span, Size

(* What the steps of erase, program and verify leave alone.                *)
Working ==
  /\ pc \in InCall \ Reading /\ (pc' \in InCall \ Reading \/ pc' \in {"exit", "advance"})
  /\ UNCHANGED <<args, all, out, piece, cur>>

LEMMA WorkingShape ==
  ASSUME TypeInv, Working
  PROVE  /\ chain' \in Chains /\ all' \in BOOLEAN /\ files' \in 0..MaxFiles
         /\ out' \in Seq({0, 1}) /\ k' \in 1..(Len(chain) + 1)' /\ k' \in PromNr'
         /\ RangeOK' /\ PieceOK'
<1>1. UNCHANGED <<chain, files, job, all, out, k, pos, cur>>
  BY DEF Working, args, piece
<1>2. k \in PromNr  BY InCallFacts DEF Working
<1>3. RangeOK'
  <2>1. pc' \notin {"prom"} /\ (pc' \in {"advance"} \cup InCall => pc \in InCall)
    BY DEF Working, InCall, Erasing, Writing, Checking, Reading
  <2>2. QED  BY <1>1, <2>1, Steady DEF TypeInv, RangeOK
<1>4. PieceOK'
  <2>1. pc \in InCall /\ pc' \notin {"read", "fetch", "fetched"}
    BY DEF Working, InCall, Erasing, Writing, Checking, Reading
  <2>2. QED  BY <1>1, <2>1, Steady DEF TypeInv, PieceOK
<1>5. QED  BY <1>1, <1>2, <1>3, <1>4, Steady DEF TypeInv, BasicOK

LEMMA EraseTyped ==
  ASSUME TypeInv, EraseRefused \/ Erase \/ ErasePoll
  PROVE  TypeInv'
<1>1. Working
  BY DEF EraseRefused, Erase, ErasePoll, Working, InCall, Erasing, Writing, Checking, Reading,
         Result
<1>2. /\ k \in PromNr /\ prom[k] \in PromSet(Size) /\ prom[k].addr % BlockSize = 0
      /\ Size \in Nat
  BY <1>1, InCallFacts DEF Working
<1>3. PromsOK'
  <2>1. UNCHANGED <<chain, k, job, pos>>  BY <1>1 DEF Working, args, piece
  <2>2. CASE UNCHANGED prom
    BY <2>1, <2>2, Steady DEF TypeInv, PromsOK
  <2> DEFINE Fine(c) == SetProm(c) /\ c \in PromSet(Size) /\ c.addr % BlockSize = 0
  <2>3. ASSUME NEW c, Fine(c) PROVE PromsOK'
    BY <2>1, <2>3, <1>2, SetPromEffect DEF TypeInv
  <2>4. CASE EraseRefused
    BY <2>2, <2>3, <2>4, <1>2, SwitchType DEF EraseRefused
  <2>5. CASE Erase
    <3>1. Enabled(prom[k]) \in PromSet(Size) /\ Enabled(prom[k]).addr % BlockSize = 0
      BY <1>2, SwitchType
    <3>2. Fine(IscErase(Enabled(prom[k])))  BY <3>1, <2>5, <1>2, EraseType DEF Erase
    <3>3. QED  BY <2>3, <3>2
  <2>6. CASE ErasePoll
    BY <2>2, <2>3, <2>6, <1>2, SwitchType DEF ErasePoll
  <2>7. QED  BY <2>4, <2>5, <2>6
<1>4. BasicOK' /\ StageOK' /\ PlaceOK'
  <2>1. pc' \in Erasing /\ pc \in Erasing
    BY DEF EraseRefused, Erase, ErasePoll, Erasing, Result
  <2>2. UNCHANGED <<chain, files, job, all, out, k, pos, cur, exit>>
    BY DEF EraseRefused, Erase, ErasePoll, args, piece
  <2>3. StageOK'
    BY <1>1, <2>1, <2>2, WorkingShape DEF TypeInv, StageOK, Erasing, Writing, Checking, Reading, InCall
  <2>4. PlaceOK'
    BY <2>1 DEF PlaceOK, Erasing, InBlocks
  <2>5. BasicOK'
    <3>1. i' \in Nat /\ dropped' \in BOOLEAN /\ exit' = exit
      BY DEF TypeInv, BasicOK, EraseRefused, Erase, ErasePoll, GivesUp, hist
    <3>2. late' \in BOOLEAN
      BY DEF TypeInv, BasicOK, EraseRefused, Erase, ErasePoll, GivesUp, hist
    <3>3. j' \in Nat /\ (pc' = "erasing" => j' < Polls)
      BY Sizes DEF TypeInv, BasicOK, EraseRefused, Erase, ErasePoll, Result, StillBusy
    <3>4. ret' \in {-1, 0, 1}
      BY DEF TypeInv, BasicOK, EraseRefused, Erase, ErasePoll, Result
    <3>5. QED
      BY <1>1, <2>1, <2>2, <3>1, <3>2, <3>3, <3>4, WorkingShape
      DEF TypeInv, BasicOK, Stages, Erasing
  <2>6. QED  BY <2>3, <2>4, <2>5
<1>5. QED  BY <1>1, <1>3, <1>4, WorkingShape DEF TypeInv


LEMMA EraseAllTyped ==
  ASSUME TypeInv, Erased \/ EraseAll
  PROVE  TypeInv'
<1>1. /\ UNCHANGED <<chain, job, files, prom, out, pos, cur, i, j, ret, dropped, late>>
      /\ k' = k \/ k' = k + 1
  BY DEF Erased, EraseAll, args, piece, hist
<1>2. k' \in 1..(Len(chain) + 1)
  BY InCallFacts, PromKinds DEF TypeInv, BasicOK, Erased, EraseAll, InCall, Erasing, piece
<1>3. PromsOK'
  BY <1>1 DEF TypeInv, PromsOK, PromNr
<1>4. pc \in {"erased", "eraseAll"} /\ pc' \in {"eraseAll", "program", "exit", "erase", "arg"}
  BY DEF Erased, EraseAll, Fail
<1>5. BasicOK'
  <2>1. all' \in BOOLEAN /\ exit' \in {exit, "erase"}
    BY DEF TypeInv, BasicOK, Erased, EraseAll, Fail
  <2>2. QED  BY <1>1, <1>2, <1>4, <2>1 DEF TypeInv, BasicOK, Stages
<1>6. StageOK'
  BY <1>1 DEF TypeInv, StageOK, Erased, EraseAll, Fail, piece, PromNr, InCall, Erasing, Writing, Checking,
              Reading
<1>7. PlaceOK'
  BY <1>4 DEF PlaceOK, InBlocks
<1>8. cur' \in [offset : Nat, data : Seq({0, 1}), rlength : Nat]
  BY <1>1 DEF TypeInv, PieceOK
<1>9. RangeOK' /\ PieceOK'
  <2>1. CASE all
    <3>1. pos = 0 /\ pc' \in {"eraseAll", "erase", "arg"} /\ (pc' # "arg" => all')
      BY <2>1, <1>1 DEF TypeInv, RangeOK, StageOK, Erased, EraseAll
    <3>2. PieceOK'
      BY <3>1, <1>8 DEF PieceOK, InCall, Erasing, Writing, Checking, Reading
    <3>3. Fits(job)' = Fits(job)
      BY <1>1 DEF Fits, Total, Base
    <3>4. RangeOK'
      BY <1>1, <3>1, <3>3 DEF TypeInv, RangeOK, InCall, Erasing, Writing, Checking, Reading
    <3>5. QED  BY <3>2, <3>4
  <2>2. CASE ~all
    <3>1. pc = "erased" /\ k' = k /\ pc' \in {"program", "exit"} /\ all' = all
      BY <2>2 DEF TypeInv, StageOK, Erased, EraseAll, Fail
    <3>2. Working
      BY <3>1, <1>1 DEF Working, args, piece, InCall, Erasing, Writing, Checking, Reading
    <3>3. QED  BY <3>2, WorkingShape
  <2>3. QED  BY <2>1, <2>2
<1>10. QED  BY <1>3, <1>5, <1>6, <1>7, <1>9 DEF TypeInv

(* How a call that may not refuse its piece begins.                        *)
LEMMA BeginOffset ==
  ASSUME NEW whole, TypeInv, pc \in InCall, ~Throws(whole), ~Refuses
  PROVE  cur.offset % BlockSize = 0 /\ (IsP => cur.offset = 0 /\ cur.rlength \in {0, whole})
<1>1. IsP => cur.offset = 0 /\ cur.rlength \in {0, whole}  BY DEF Throws
<1>2. ~IsP => cur.offset % BlockSize = 0  BY DEF Refuses
<1>3. 0 % BlockSize = 0  BY Sizes
<1>4. QED  BY <1>1, <1>2, <1>3

LEMMA BeginEffect ==
  ASSUME TypeInv, pc \in InCall, NEW whole, NEW stage, NEW next,
         Begin(whole, stage, next), UNCHANGED args, UNCHANGED piece
  PROVE  /\ PromsOK' /\ i' \in Nat /\ ret' \in {-1, 0, 1}
         /\ \/ pc' = "exit" /\ exit' = "abort" /\ prom' = prom
            \/ pc' = next /\ exit' = exit /\ prom' = prom
            \/ /\ pc' = stage /\ exit' = exit /\ i' = 0 /\ ret' = 0
               /\ cur.offset % BlockSize = 0
               /\ IsP => cur.offset = 0 /\ cur.rlength \in {0, whole}
               /\ prom'[k] = Enabled(prom[k])
<1>1. i \in Nat /\ ret \in {-1, 0, 1}  BY DEF TypeInv, BasicOK
<1>2. k \in PromNr /\ prom[k] \in PromSet(Size) /\ prom[k].addr % BlockSize = 0 /\ Size \in Nat
  BY InCallFacts
<1>3. chain' = chain  BY DEF args
<1>4. prom' = prom => PromsOK'  BY <1>3 DEF TypeInv, PromsOK, PromNr
<1>5. SetProm(Enabled(prom[k])) => PromsOK' /\ prom'[k] = Enabled(prom[k])
  <2>1. Enabled(prom[k]) \in PromSet(Size) /\ Enabled(prom[k]).addr % BlockSize = 0
    BY <1>2, SwitchType
  <2>2. QED  BY <2>1, <1>2, <1>3, SetPromEffect DEF TypeInv
<1>6. CASE Throws(whole) /\ Throw
  BY <1>1, <1>4, <1>6 DEF Throw, Fail
<1>7. CASE Refuses /\ Result(next, -1) /\ UNCHANGED <<prom, i, exit>>
  BY <1>1, <1>4, <1>7 DEF Result
<1>8. CASE IsP /\ ~Throws(whole) /\ Result(next, 1) /\ UNCHANGED <<prom, i, exit>>
  BY <1>1, <1>4, <1>8 DEF Result
<1>9. CASE /\ ~Throws(whole) /\ ~Refuses
           /\ Result(stage, 0) /\ i' = 0
           /\ SetProm(Enabled(prom[k])) /\ UNCHANGED exit
  BY <1>5, <1>9, BeginOffset DEF Result
<1>10. QED  BY <1>6, <1>7, <1>8, <1>9 DEF Begin

LEMMA BeginTyped ==
  ASSUME TypeInv, Program \/ Verify
  PROVE  TypeInv'
<1>1. /\ pc \in {"program", "verify"} /\ UNCHANGED <<args, all, out, piece, cur, j, hist>>
      /\ \/ pc = "program" /\ Begin(Len(cur.data), "block", "programmed")
         \/ pc = "verify" /\ Begin(Len(cur.data), "compare", "verified")
  BY DEF Program, Verify
<1>2. /\ PromsOK' /\ i' \in Nat /\ ret' \in {-1, 0, 1}
      /\ \/ pc' = "exit" /\ exit' = "abort"
         \/ /\ pc' = IF pc = "program" THEN "programmed" ELSE "verified"
            /\ exit' = exit
         \/ /\ pc' = IF pc = "program" THEN "block" ELSE "compare"
            /\ exit' = exit /\ i' = 0
            /\ cur.offset % BlockSize = 0 /\ (IsP => cur.offset = 0)
  BY <1>1, BeginEffect DEF InCall, Erasing, Writing, Checking, Reading
<1>3. Working
  BY <1>1, <1>2 DEF Working, InCall, Erasing, Writing, Checking, Reading
<1>4. BasicOK'
  BY <1>1, <1>2, <1>3, WorkingShape DEF TypeInv, BasicOK, Stages, hist
<1>5. StageOK'
  BY <1>1, <1>2, <1>3, WorkingShape
  DEF TypeInv, StageOK, InCall, Erasing, Writing, Checking, Reading, args
<1>6. PlaceOK'
  <2>1. 0 % BlockSize = 0 /\ 0 % ArraySize = 0  BY Sizes
  <2>2. UNCHANGED <<chain, k, job, pos, cur>>  BY <1>1 DEF args, piece
  <2>3. QED  BY <1>1, <1>2, <2>1, <2>2, Steady DEF PlaceOK, InBlocks
<1>7. QED  BY <1>2, <1>3, <1>4, <1>5, <1>6, WorkingShape DEF TypeInv

(* The address a block goes to or comes from.                              *)
LEMMA AddressedType ==
  ASSUME TypeInv, pc \in {"block", "compare"}, i < Span
  PROVE  LET c == Addressed(prom[k], 0)
         IN  /\ c \in PromSet(Size) /\ c.addr % BlockSize = 0
             /\ c.addr <= cur.offset + i /\ c.addr + BlockSize <= Size
             /\ IsP => c.addr <= i
<1> DEFINE c == Addressed(prom[k], 0)
<1>1. /\ prom[k] \in PromSet(Size) /\ prom[k].addr % BlockSize = 0
      /\ Size \in Nat /\ Size % BlockSize = 0 /\ prom[k].addr \in Nat
  BY InCallFacts DEF InCall, Writing, Checking, PromSet
<1>2. job.action # "r" /\ ~all
  BY DEF TypeInv, StageOK, Erasing, Writing, Checking
<1>3. Span \in Nat /\ cur.offset \in Nat /\ cur.offset + Span <= Size
  BY <1>2, InCallFacts, SpanType DEF InCall, Writing, Checking
<1>4. /\ i \in Nat /\ i % BlockSize = 0 /\ cur.offset % BlockSize = 0
      /\ IsP => cur.offset = 0
      /\ IsP /\ i % ArraySize # 0 => prom[k].addr <= i
  BY DEF TypeInv, BasicOK, PlaceOK, InBlocks
<1>5. cur.offset + i \in 0..Size /\ cur.offset + i < Size
  BY <1>1, <1>3, <1>4
<1> DEFINE a == cur.offset + i
<1>6. a \in Int /\ a % BlockSize = 0 /\ a + BlockSize <= Size
  <2>1. cur.offset \in Int /\ i \in Int /\ i % BlockSize = 0 /\ cur.offset % BlockSize = 0
    BY <1>3, <1>4
  <2>2. a \in Int /\ a % BlockSize = 0
    <3>1. ASSUME NEW x \in Int, NEW y \in Int, x % BlockSize = 0, y % BlockSize = 0
          PROVE  x + y \in Int /\ (x + y) % BlockSize = 0
      BY <3>1, BlockSums
    <3>2. QED  BY <2>1, <3>1
  <2>3. Size \in Int /\ a < Size  BY <1>1, <1>5
  <2> HIDE DEF a
  <2>4. QED  BY <2>2, <2>3, <1>1, BlockSums
<1>7. CASE ~IsP
  <2>1. c = IscAddress(prom[k], cur.offset + i)  BY <1>7 DEF Addressed
  <2>2. c \in PromSet(Size) /\ c.addr = cur.offset + i
    BY <2>1, <1>1, <1>5, AddressType
  <2>3. QED  BY <2>2, <1>5, <1>6, <1>7, <1>3, <1>4
<1>8. CASE IsP /\ i % ArraySize = 0
  <2>1. c = IscAddress(prom[k], 0 + i) /\ 0 + i = i /\ cur.offset + i = i
    BY <1>8, <1>4 DEF Addressed
  <2>2. c \in PromSet(Size) /\ c.addr = i
    BY <2>1, <1>1, <1>5, AddressType
  <2>3. QED  BY <2>1, <2>2, <1>4, <1>6
<1>9. CASE IsP /\ i % ArraySize # 0
  <2>1. c = prom[k] /\ cur.offset + i = i
    BY <1>9, <1>4 DEF Addressed
  <2>2. c.addr < Size /\ c.addr \in Int /\ Size \in Int  BY <2>1, <1>1, <1>4, <1>5, <1>9
  <2>3. c.addr + BlockSize <= Size
    BY <2>1, <2>2, <1>1, BlockSums, Sizes
  <2>4. QED  BY <2>1, <2>3, <1>1, <1>4, <1>9
<1>10. QED  BY <1>7, <1>8, <1>9


LEMMA SendBlockTyped ==
  ASSUME TypeInv, SendBlock
  PROVE  TypeInv'
<1> DEFINE c == Addressed(prom[k], 0)
           d == IscProgram(c, BlockData)
<1>1. /\ pc = "block" /\ i < Span /\ SetProm(d) /\ pc' = "programming" /\ j' = 0
      /\ UNCHANGED <<args, all, out, piece, cur, i, ret, hist, exit>>
  BY DEF SendBlock
<1>2. Working
  BY <1>1 DEF Working, InCall, Erasing, Writing, Checking, Reading
<1>3. /\ c \in PromSet(Size) /\ c.addr % BlockSize = 0 /\ c.addr + BlockSize <= Size
      /\ IsP => c.addr <= i
  BY <1>1, AddressedType
<1>4. k \in PromNr /\ Size \in Nat /\ i \in Nat
  BY <1>1, InCallFacts DEF InCall, Writing, TypeInv, BasicOK
<1> HIDE DEF c
<1>5. d \in PromSet(Size) /\ d.addr \in {c.addr, c.addr + BlockSize}
  BY <1>3, <1>4, ProgramType
<1>6. c.addr \in Nat  BY <1>3 DEF PromSet
<1>7. d.addr % BlockSize = 0  BY <1>3, <1>5, <1>6, BlockSums
<1> HIDE DEF d
<1>8. UNCHANGED <<chain, k, job, pos, cur>>  BY <1>1 DEF args, piece
<1>9. PromsOK' /\ prom'[k] = d
  BY <1>1, <1>4, <1>5, <1>7, <1>8, SetPromEffect DEF TypeInv
<1>10. BasicOK'
  BY <1>1, <1>2, WorkingShape, Sizes DEF TypeInv, BasicOK, Stages, hist
<1>11. StageOK'
  BY <1>1, <1>2, WorkingShape
  DEF TypeInv, StageOK, InCall, Erasing, Writing, Checking, Reading, args
<1>12. PlaceOK'
  <2>1. IsP => d.addr <= i + BlockSize
    BY <1>3, <1>4, <1>5, <1>6, Sizes
  <2>2. QED
    BY <1>1, <1>8, <1>9, <2>1, Steady, SteadyPiece DEF TypeInv, PlaceOK, InBlocks
<1>13. QED  BY <1>2, <1>9, <1>10, <1>11, <1>12, WorkingShape DEF TypeInv

LEMMA ProgramPollTyped ==
  ASSUME TypeInv, ProgramPoll
  PROVE  TypeInv'
<1> DEFINE failed == prom[k].busy \/ (IsP /\ prom[k].fault)
<1>1. /\ pc = "programming"
      /\ UNCHANGED <<args, prom, all, out, piece, cur, exit>> /\ dropped' = dropped
      /\ \/ j' = j + 1 /\ j + 1 < Polls /\ pc' = pc /\ i' = i /\ ret' = ret /\ late' = late
         \/ /\ pc' = IF failed /\ ~IsP THEN "programmed" ELSE "block"
            /\ ret' = IF failed THEN 1 ELSE ret
            /\ i' = IF failed THEN (i \div ArraySize + 1) * ArraySize ELSE i + BlockSize
            /\ late' = (late \/ prom[k].busy) /\ j' = j
  BY DEF ProgramPoll, StillBusy, GivesUp, Result, hist
<1> HIDE DEF failed
<1>2. Working
  BY <1>1 DEF Working, InCall, Erasing, Writing, Checking, Reading
<1>3. UNCHANGED <<chain, k, job, pos, cur>>  BY <1>1 DEF args, piece
<1>4. PromsOK'
  BY <1>1, <1>3, Steady DEF TypeInv, PromsOK
<1>5. i \in Nat /\ i % BlockSize = 0
  BY <1>1 DEF TypeInv, BasicOK, PlaceOK, InBlocks
<1>6. i + BlockSize \in Nat /\ (i + BlockSize) % BlockSize = 0
  BY <1>5, BlockSums, Sizes
<1> DEFINE n == (i \div ArraySize + 1) * ArraySize
<1>7. n \in Nat /\ n % BlockSize = 0 /\ n % ArraySize = 0
  <2>1. i \div ArraySize + 1 \in Nat  BY <1>5, Sizes
  <2>2. \A m \in Int : (m * ArraySize) % BlockSize = 0 /\ (m * ArraySize) % ArraySize = 0
    BY Arrays
  <2>3. ASSUME NEW x \in Nat PROVE x * ArraySize \in Nat  BY Sizes
  <2>4. QED  BY <2>1, <2>2, <2>3
<1> HIDE DEF n
<1>8. i' \in Nat /\ i' % BlockSize = 0 /\ j' \in Nat
  BY <1>1, <1>5, <1>6, <1>7 DEF n, TypeInv, BasicOK
<1>9. BasicOK'
  BY <1>1, <1>2, <1>8, WorkingShape DEF TypeInv, BasicOK, Stages
<1>10. StageOK'
  BY <1>1, <1>2, <1>3, WorkingShape
  DEF TypeInv, StageOK, InCall, Erasing, Writing, Checking, Reading
<1>11. PlaceOK'
  <2>1. /\ cur'.offset % BlockSize = 0 /\ (IsP' => cur'.offset = 0)
        /\ prom' = prom /\ k' = k /\ IsP' = IsP /\ Span' = Span
        /\ IsP => prom[k].addr <= i + BlockSize
    BY <1>1, <1>3, Steady, SteadyPiece DEF TypeInv, PlaceOK, InBlocks
  <2>2. pc' = "programming" => i' < Span
    BY <1>1 DEF TypeInv, PlaceOK
  <2>3. pc' = "programming" => i' = i
    BY <1>1
  <2>4. pc' = "block" /\ IsP /\ i' % ArraySize # 0 => i' = i + BlockSize
    BY <1>1, <1>7 DEF n
  <2>5. pc' \in {"programming", "block", "programmed"}  BY <1>1
  <2>6. QED  BY <1>8, <2>1, <2>2, <2>3, <2>4, <2>5 DEF PlaceOK, InBlocks
<1>12. QED  BY <1>2, <1>4, <1>9, <1>10, <1>11, WorkingShape DEF TypeInv

LEMMA Parts ==
  ASSUME NEW s \in Nat, s > 0, s % ArraySize = 0, s <= 4 * ArraySize
  PROVE  s \div ArraySize \in 1..4 /\ (s \div ArraySize) * ArraySize = s
<1>1. ASSUME NEW d \in Nat, d > 0, s % d = 0, s <= 4 * d
      PROVE  s \div d \in 1..4 /\ (s \div d) * d = s
  <2> DEFINE q == s \div d
  <2>1. q \in Int /\ s = d * q  BY <1>1, Multiples
  <2> HIDE DEF q
  <2>2. q > 0
    <3>1. q <= 0 => d * q <= 0  BY <2>1, <1>1
    <3>2. QED  BY <3>1, <2>1, <1>1
  <2>3. q <= 4
    <3>1. 4 < q => d * 4 + d <= d * q  BY <2>1, <1>1, Order
    <3>2. QED  BY <3>1, <2>1, <1>1
  <2>4. q * d = d * q  BY <2>1
  <2>5. QED  BY <2>1, <2>2, <2>3, <2>4 DEF q
<1>2. QED  BY <1>1, Sizes

LEMMA ArrayCount ==
  ASSUME TypeInv, pc \in InCall, IsP
  PROVE  /\ Size \div ArraySize \in 1..4
         /\ (Size \div ArraySize) * ArraySize = Size
<1>1. Size \in Nat /\ Size > 0 /\ Size % ArraySize = 0 /\ Size <= 4 * ArraySize
  BY InCallFacts
<1>2. QED  BY <1>1, Parts

LEMMA WantedType ==
  ASSUME TypeInv, pc \in InCall, IsP, NEW r \in Registers
  PROVE  Wanted(r) \in 0..15
<1>1. Size \div ArraySize \in 1..4  BY ArrayCount
<1>2. Len(cur.data) \in Nat
  BY DEF TypeInv, PieceOK
<1> DEFINE n == IF Len(cur.data) = 0 THEN 1 ELSE (Len(cur.data) + ArraySize - 1) \div ArraySize
<1>3. n \in Nat /\ n >= 1
  <2>1. ASSUME NEW d \in Nat, d > 0, NEW m \in Nat, m >= d
        PROVE  m \div d \in Nat /\ m \div d >= 1
    BY <2>1
  <2>2. Len(cur.data) # 0 => /\ Len(cur.data) + ArraySize - 1 \in Nat
                             /\ Len(cur.data) + ArraySize - 1 >= ArraySize
    BY <1>2, Sizes
  <2> DEFINE m == Len(cur.data) + ArraySize - 1
  <2>3. Len(cur.data) # 0 => m \in Nat /\ m >= ArraySize  BY <2>2
  <2> HIDE DEF m
  <2>4. Len(cur.data) # 0 => m \div ArraySize \in Nat /\ m \div ArraySize >= 1
    BY <2>1, <2>3, Sizes
  <2>5. QED  BY <2>4 DEF m
<1>4. UsedArrays = Least(n, Size \div ArraySize)  BY DEF UsedArrays
<1> HIDE DEF n
<1>5. UsedArrays \in 1..4
  <2>1. ASSUME NEW x \in Nat, x >= 1, NEW y \in 1..4 PROVE Least(x, y) \in 1..4
    BY <2>1 DEF Least
  <2>2. QED  BY <1>1, <1>3, <1>4, <2>1
<1>6. QED  BY <1>5 DEF Wanted, Value

LEMMA WriteRegisterTyped ==
  ASSUME TypeInv, WriteRegister
  PROVE  TypeInv'
<1> DEFINE r == RegisterOrder[j]
<1>1. /\ pc = "registers" /\ IsP /\ j \in 1..4 /\ r \in Registers
      /\ Len(RegisterOrder) = 4
      /\ UNCHANGED <<args, all, out, piece, cur, i, hist, exit>>
  BY DEF WriteRegister, TypeInv, PlaceOK, RegisterOrder, Registers
<1>2. k \in PromNr /\ prom[k] \in PromSet(Size) /\ prom[k].addr % BlockSize = 0 /\ Size \in Nat
  BY <1>1, InCallFacts DEF InCall, Writing
<1>3. Wanted(r) \in 0..15
  BY <1>1, WantedType DEF InCall, Writing
<1> HIDE DEF r
<1>4. PICK works \in BOOLEAN :
        LET new == IF works THEN Wanted(r) ELSE prom[k].regs[r]
            c == [prom[k] EXCEPT !.regs[r] = new]
        IN  IF new = Wanted(r) /\ j < Len(RegisterOrder)
            THEN SetProm(c) /\ j' = j + 1 /\ UNCHANGED <<pc, ret>>
            ELSE /\ SetProm(Disabled(c)) /\ UNCHANGED j
                 /\ Result("programmed", IF new = Wanted(r) THEN 0 ELSE 1)
  BY DEF WriteRegister, r
<1> DEFINE new == IF works THEN Wanted(r) ELSE prom[k].regs[r]
           c == [prom[k] EXCEPT !.regs[r] = new]
<1>5. new \in 0..15
  BY <1>1, <1>2, <1>3 DEF PromSet
<1>6. /\ \/ SetProm(c) /\ pc' = pc /\ j < 4 /\ j' = j + 1 /\ ret' = ret
         \/ SetProm(Disabled(c)) /\ pc' = "programmed" /\ j' = j /\ ret' \in {0, 1}
  BY <1>1, <1>4 DEF Result
<1> HIDE DEF new
<1>7. c \in PromSet(Size) /\ c.addr = prom[k].addr
  BY <1>1, <1>2, <1>5 DEF PromSet
<1> HIDE DEF c
<1>8. Disabled(c) \in PromSet(Size) /\ Disabled(c).addr = c.addr
  BY <1>2, <1>7, SwitchType
<1>9. UNCHANGED <<chain, k, job, pos, cur>>  BY <1>1 DEF args, piece
<1>10. PromsOK'
  <2>1. chain' = chain /\ PromsOK  BY <1>9 DEF TypeInv
  <2>2. CASE SetProm(c)  BY <2>1, <2>2, <1>2, <1>7, SetPromEffect
  <2>3. CASE SetProm(Disabled(c))  BY <2>1, <2>3, <1>2, <1>7, <1>8, SetPromEffect
  <2>4. QED  BY <1>6, <2>2, <2>3
<1>11. Working
  BY <1>1, <1>6 DEF Working, InCall, Erasing, Writing, Checking, Reading
<1>12. BasicOK'
  BY <1>1, <1>6, <1>11, WorkingShape DEF TypeInv, BasicOK, Stages, hist
<1>13. StageOK'
  BY <1>1, <1>6, <1>9, <1>11, WorkingShape
  DEF TypeInv, StageOK, InCall, Erasing, Writing, Checking, Reading
<1>14. PlaceOK'
  BY <1>1, <1>6, <1>9, Steady DEF TypeInv, PlaceOK, InBlocks
<1>15. QED  BY <1>10, <1>11, <1>12, <1>13, <1>14, WorkingShape DEF TypeInv


(* The steps between the loops: they change the PROM by Disabled at most.  *)
LEMMA BetweenTyped ==
  ASSUME TypeInv, BlocksDone \/ Programmed \/ CompareEnd \/ CompareRegisters \/ Verified
  PROVE  TypeInv'
<1>1. /\ UNCHANGED <<args, all, out, piece, cur, i>> /\ late' = late
      /\ pc \in {"block", "programmed", "compare", "registers?", "verified"}
      /\ prom' = prom \/ SetProm(Disabled(prom[k]))
  BY DEF BlocksDone, Programmed, CompareEnd, CompareRegisters, Verified, Drop, hist
<1>2. /\ pc = "block" => pc' \in {"registers", "programmed"}
      /\ pc = "programmed" => pc' = "verify" \/ (pc' = "exit" /\ exit' = "program")
      /\ pc = "compare" => pc' \in {"registers?", "verified"}
      /\ pc = "registers?" => pc' = "verified"
      /\ pc = "verified" => pc' = "advance"
      /\ pc' # "exit" => exit' = exit
      /\ pc' = "registers" => IsP /\ j' = 1
      /\ j' \in {1, j} /\ ret' \in {1, ret}
  BY DEF BlocksDone, Programmed, CompareEnd, CompareRegisters, Verified, Drop, hist, Result, Fail
<1>11. dropped' \in BOOLEAN
  BY DEF TypeInv, BasicOK, BlocksDone, Programmed, CompareEnd, CompareRegisters, Verified, Drop,
         hist
<1>3. Working
  BY <1>1, <1>2 DEF Working, InCall, Erasing, Writing, Checking, Reading
<1>4. /\ k \in PromNr /\ prom[k] \in PromSet(Size) /\ prom[k].addr % BlockSize = 0 /\ Size \in Nat
      /\ pc \in InCall
  BY <1>3, InCallFacts DEF Working
<1>5. UNCHANGED <<chain, k, job, pos, cur>>  BY <1>1 DEF args, piece
<1>6. PromsOK'
  <2>1. CASE prom' = prom
    BY <1>5, <2>1, Steady DEF TypeInv, PromsOK
  <2>2. CASE SetProm(Disabled(prom[k]))
    <3>1. Disabled(prom[k]) \in PromSet(Size) /\ Disabled(prom[k]).addr = prom[k].addr
      BY <1>4, SwitchType
    <3>2. QED  BY <2>2, <3>1, <1>4, <1>5, SetPromEffect DEF TypeInv
  <2>3. QED  BY <1>1, <2>1, <2>2
<1>7. BasicOK'
  BY <1>1, <1>2, <1>11, <1>3, WorkingShape DEF TypeInv, BasicOK, Stages
<1>8. StageOK'
  BY <1>1, <1>2, <1>3, <1>5, WorkingShape
  DEF TypeInv, StageOK, InCall, Erasing, Writing, Checking, Reading
<1>9. PlaceOK'
  BY <1>1, <1>2, <1>5, Steady DEF TypeInv, PlaceOK, InBlocks, RegisterOrder
<1>10. QED  BY <1>3, <1>6, <1>7, <1>8, <1>9, WorkingShape DEF TypeInv

LEMMA CompareBlockTyped ==
  ASSUME TypeInv, CompareBlock
  PROVE  TypeInv'
<1> DEFINE c == Addressed(prom[k], 0)
           d == Passed(c)
<1>1. /\ pc = "compare" /\ i < Span /\ SetProm(d) /\ i' = i + BlockSize
      /\ UNCHANGED <<args, all, out, piece, cur, j, hist, exit>>
      /\ pc' \in {"compare", "registers?", "verified"} /\ ret' \in {ret, 1}
  BY DEF CompareBlock, Result
<1>2. Working
  BY <1>1 DEF Working, InCall, Erasing, Writing, Checking, Reading
<1>3. /\ c \in PromSet(Size) /\ c.addr % BlockSize = 0 /\ c.addr + BlockSize <= Size
      /\ IsP => c.addr <= i
  BY <1>1, AddressedType
<1>4. k \in PromNr /\ Size \in Nat /\ i \in Nat /\ i % BlockSize = 0
  BY <1>1, InCallFacts DEF InCall, Checking, TypeInv, BasicOK, PlaceOK, InBlocks
<1> HIDE DEF c
<1>5. d \in PromSet(Size) /\ d.addr = c.addr + BlockSize
  BY <1>3, <1>4, PassedType
<1>6. c.addr \in Nat  BY <1>3 DEF PromSet
<1>7. d.addr % BlockSize = 0  BY <1>3, <1>5, <1>6, BlockSums
<1> HIDE DEF d
<1>8. UNCHANGED <<chain, k, job, pos, cur>>  BY <1>1 DEF args, piece
<1>9. PromsOK' /\ prom'[k] = d
  BY <1>1, <1>4, <1>5, <1>7, <1>8, SetPromEffect DEF TypeInv
<1>10. i' \in Nat /\ i' % BlockSize = 0
  BY <1>1, <1>4, BlockSums, Sizes
<1>11. BasicOK'
  BY <1>1, <1>2, <1>10, WorkingShape DEF TypeInv, BasicOK, Stages, hist
<1>12. StageOK'
  BY <1>1, <1>2, WorkingShape
  DEF TypeInv, StageOK, InCall, Erasing, Writing, Checking, Reading, args
<1>13. PlaceOK'
  <2>1. IsP => d.addr <= i'
    BY <1>1, <1>3, <1>4, <1>5, <1>6, Sizes
  <2>2. QED
    BY <1>1, <1>8, <1>9, <1>10, <2>1, Steady, SteadyPiece DEF TypeInv, PlaceOK, InBlocks
<1>14. QED  BY <1>2, <1>9, <1>11, <1>12, <1>13, WorkingShape DEF TypeInv

------------------------------------------------------------------------------
(***************************************************************************)
(* The steps of read.                                                      *)
(***************************************************************************)

(* How much is read fits the PROM and, with several PROMs, the range.      *)
ReadGiven ==
  /\ cur \in [offset : Nat, data : Seq({0, 1}), rlength : Nat]
  /\ cur.offset = CurrentOffset /\ cur.rlength \in {0, CurrentLength}
  /\ cur.rlength = 0 => CurrentLength \in {0, FileLength}

LEMMA ReadFacts ==
  TypeInv /\ pc \in Reading => ReadGiven /\ Meeting /\ ~all /\ pc \in InCall
<1> SUFFICES ASSUME TypeInv, pc \in Reading
             PROVE  ReadGiven /\ Meeting /\ ~all /\ pc \in InCall
  OBVIOUS
<1>1. ~all /\ pc \in InCall
  BY DEF TypeInv, StageOK, InCall, Reading, Erasing
<1>2. QED  BY <1>1, InCallFacts DEF TypeInv, PieceOK, ReadGiven

LEMMA RoomType ==
  ASSUME TypeInv, pc \in Reading, IsP => ~BadBtc
  PROVE  /\ Room \in Nat /\ FirstArray \in 0..3 /\ LastArray \in 0..3
         /\ IsP => /\ FirstArray * ArraySize \in Nat
                   /\ FirstArray * ArraySize + Room <= Size
                   /\ (FirstArray * ArraySize + Room) % BlockSize = 0
         /\ ~IsP => cur.offset + Room <= Size
         /\ ~Single /\ (IsP => cur.rlength \in {0, Size} /\ cur.offset = 0) => Room <= Take
<1>0. ReadGiven /\ Meeting /\ pc \in InCall  BY ReadFacts
<1>1. FirstArray \in 0..3 /\ LastArray \in 0..3
  <2>1. prom[k].regs["BTC"] \in 0..15
    BY <1>0, InCallFacts DEF PromSet, Registers
  <2>2. QED  BY <2>1 DEF FirstArray, LastArray
<1>2. /\ Size \in Nat /\ CurrentOffset \in Nat /\ CurrentOffset < Size
      /\ CurrentLength \in Nat /\ CurrentOffset + CurrentLength <= Size
      /\ Take \in Nat /\ CurrentOffset + Take <= Size
      /\ Take = IF CurrentLength # 0 THEN CurrentLength ELSE Size - CurrentOffset
  BY <1>0, MeetingTypes, PieceSizes DEF Take
<1>3. /\ cur.offset = CurrentOffset /\ cur.rlength \in {0, CurrentLength}
      /\ ~Single => FileLength = 0
      /\ cur.rlength = 0 => CurrentLength \in {0, FileLength}
  BY <1>0 DEF ReadGiven, FileLength
<1>4. CASE IsP
  <2>1. /\ FirstArray <= LastArray /\ LastArray < Size \div ArraySize
        /\ Size \div ArraySize \in 1..4 /\ (Size \div ArraySize) * ArraySize = Size
    BY <1>0, <1>1, <1>4, ArrayCount DEF BadBtc
  <2>2. Room = (LastArray + 1 - FirstArray) * ArraySize  BY <1>4 DEF Room
  <2>3. ASSUME NEW f \in 0..3, NEW l \in 0..3, NEW s \in 1..4, f <= l, l < s
        PROVE  /\ (l + 1 - f) * ArraySize \in Nat /\ f * ArraySize \in Nat
               /\ f * ArraySize + (l + 1 - f) * ArraySize = (l + 1) * ArraySize
               /\ (l + 1) * ArraySize <= s * ArraySize
    <3>1. f \in {0, 1, 2, 3} /\ l \in {0, 1, 2, 3} /\ s \in {1, 2, 3, 4}  OBVIOUS
    <3>2. QED  BY <3>1, <2>3, Sizes
  <2>4. /\ Room \in Nat /\ FirstArray * ArraySize \in Nat
        /\ FirstArray * ArraySize + Room = (LastArray + 1) * ArraySize
        /\ (LastArray + 1) * ArraySize <= Size
    BY <1>1, <2>1, <2>2, <2>3
  <2>5. ((LastArray + 1) * ArraySize) % BlockSize = 0
    <3>1. LastArray + 1 \in Int  BY <1>1
    <3>2. \A m \in Int : (m * ArraySize) % BlockSize = 0  BY Arrays
    <3>3. QED  BY <3>1, <3>2
  <2>6. Room <= Size  BY <2>4, <1>2
  <2>7. ~Single /\ cur.rlength \in {0, Size} /\ cur.offset = 0 => Room <= Take
    BY <1>2, <1>3, <2>6
  <2>8. QED  BY <1>1, <1>4, <2>4, <2>5, <2>7
<1>5. CASE ~IsP
  <2> DEFINE m == IF cur.rlength # 0 THEN cur.rlength ELSE Size
  <2>1. m \in Nat /\ Size - cur.offset \in Nat  BY <1>2, <1>3
  <2>2. Room = Least(m, Size - cur.offset)  BY <1>5 DEF Room
  <2> HIDE DEF m
  <2>3. Room \in Nat /\ Room <= m /\ Room <= Size - cur.offset
    BY <2>1, <2>2 DEF Least
  <2>4. cur.offset + Room <= Size  BY <1>2, <1>3, <2>3
  <2>5. ~Single => Room <= Take
    BY <1>2, <1>3, <2>3 DEF m
  <2>6. QED  BY <1>1, <1>5, <2>3, <2>4, <2>5
<1>6. QED  BY <1>4, <1>5


(* What the steps of read leave alone; they may change the piece's bytes.  *)
LEMMA ReadingShape ==
  ASSUME TypeInv, pc \in Reading, pc' \in Reading \cup {"exit", "advance"},
         UNCHANGED <<args, all, piece>>
  PROVE  /\ chain' \in Chains /\ all' \in BOOLEAN /\ files' \in 0..MaxFiles
         /\ k' \in 1..(Len(chain) + 1)' /\ k' \in PromNr'
         /\ RangeOK' /\ UNCHANGED <<chain, job, k, pos>>
<1>1. UNCHANGED <<chain, files, job, all, k, pos>>
  BY DEF args, piece
<1>2. k \in PromNr  BY ReadFacts, InCallFacts
<1>3. RangeOK'
  <2>1. pc' \notin {"prom"} /\ pc \in InCall
    BY ReadFacts DEF Reading
  <2>2. QED  BY <1>1, <2>1, Steady DEF TypeInv, RangeOK
<1>4. QED  BY <1>1, <1>2, <1>3, Steady DEF TypeInv, BasicOK

LEMMA OnesType ==
  ASSUME NEW n \in Nat
  PROVE  Ones(n) \in Seq({0, 1}) /\ Len(Ones(n)) = n
BY DEF Ones

LEMMA ReadTyped ==
  ASSUME TypeInv, Read
  PROVE  TypeInv'
<1>1. /\ pc = "read" /\ UNCHANGED <<args, all, out, piece, j, hist>>
      /\ cur' = IF pc' = "fetch" THEN [cur EXCEPT !.data = Ones(Room)] ELSE cur
      /\ pc \in Reading /\ pc \in InCall
  BY ReadFacts DEF Read, Reading
<1>2. UNCHANGED <<chain, k, job, pos>>  BY <1>1 DEF args, piece
<1>3. /\ ReadGiven /\ k \in PromNr /\ prom[k] \in PromSet(Size)
      /\ prom[k].addr % BlockSize = 0 /\ Size \in Nat
  BY <1>1, ReadFacts, InCallFacts
<1>4. /\ PromsOK' /\ i' \in Nat /\ ret' \in {-1, 0, 1}
      /\ \/ pc' = "exit" /\ exit' = "abort"
         \/ pc' = "fetched" /\ exit' = exit
         \/ /\ pc' = "fetch" /\ exit' = exit /\ i' = 0
            /\ cur.offset % BlockSize = 0 /\ (IsP => cur.offset = 0 /\ ~BadBtc)
            /\ IsP => cur.rlength \in {0, Size}
            /\ prom'[k] = Enabled(prom[k])
  <2>1. CASE Begin(Size, "fetch", "fetched") /\ (pc' = "fetch" => ~(IsP /\ BadBtc))
    BY <1>1, <2>1, BeginEffect
  <2>2. CASE /\ ~Throws(Size) /\ IsP /\ BadBtc
             /\ Result("fetched", 1) /\ SetProm(Enabled(prom[k])) /\ UNCHANGED <<i, exit>>
    <3>1. Enabled(prom[k]) \in PromSet(Size) /\ Enabled(prom[k]).addr = prom[k].addr
      BY <1>3, SwitchType
    <3>2. PromsOK'  BY <2>2, <3>1, <1>2, <1>3, SetPromEffect DEF TypeInv
    <3>3. QED  BY <2>2, <3>2 DEF Result, TypeInv, BasicOK
  <2>3. QED  BY <2>1, <2>2 DEF Read
<1>5. /\ chain' \in Chains /\ all' \in BOOLEAN /\ files' \in 0..MaxFiles
      /\ k' \in 1..(Len(chain) + 1)' /\ k' \in PromNr' /\ RangeOK'
  BY <1>1, <1>4, ReadingShape DEF Reading
<1>6. BasicOK'
  BY <1>1, <1>4, <1>5 DEF TypeInv, BasicOK, Stages, hist
<1>7. StageOK'
  BY <1>1, <1>2, <1>4, <1>5
  DEF TypeInv, StageOK, InCall, Erasing, Writing, Checking, Reading
<1>8. pc' = "fetch" =>
        /\ Room' = Room /\ BadBtc' = BadBtc /\ Room \in Nat
        /\ cur'.data = Ones(Room) /\ cur'.offset = cur.offset /\ cur'.rlength = cur.rlength
  <2>1. SUFFICES ASSUME pc' = "fetch"
                 PROVE  /\ Room' = Room /\ BadBtc' = BadBtc /\ Room \in Nat
                        /\ cur'.data = Ones(Room) /\ cur'.offset = cur.offset
                        /\ cur'.rlength = cur.rlength
    OBVIOUS
  <2>2. cur' = [cur EXCEPT !.data = Ones(Room)] /\ prom'[k] = Enabled(prom[k]) /\ (IsP => ~BadBtc)
    BY <1>1, <1>4, <2>1
  <2>3. cur'.data = Ones(Room) /\ cur'.offset = cur.offset /\ cur'.rlength = cur.rlength
    BY <2>2, <1>3 DEF ReadGiven
  <2>4. prom'[k].regs = prom[k].regs
    BY <2>2, <1>3 DEF Enabled, PromSet
  <2>5. FirstArray' = FirstArray /\ LastArray' = LastArray
    BY <2>4, <1>2 DEF FirstArray, LastArray
  <2>6. Room' = Room /\ BadBtc' = BadBtc
    BY <2>3, <2>5, <1>2, Steady DEF Room, BadBtc
  <2>7. QED  BY <2>2, <2>3, <2>6, <1>1, RoomType
<1>9. PlaceOK'
  <2>1. 0 % BlockSize = 0 /\ 0 % ArraySize = 0  BY Sizes
  <2>2. QED  BY <1>2, <1>4, <1>8, <2>1, Steady DEF PlaceOK, InBlocks
<1>10. PieceOK'
  <2>1. cur' \in [offset : Nat, data : Seq({0, 1}), rlength : Nat]
    <3>1. CASE pc' # "fetch"  BY <3>1, <1>1, <1>3 DEF ReadGiven
    <3>2. CASE pc' = "fetch"
      <4>1. cur' = [cur EXCEPT !.data = Ones(Room)] /\ Ones(Room) \in Seq({0, 1})
        BY <3>2, <1>1, <1>8, OnesType
      <4> DEFINE new == Ones(Room)
      <4>2. cur' = [cur EXCEPT !.data = new] /\ new \in Seq({0, 1})  BY <4>1
      <4> HIDE DEF new
      <4>3. QED  BY <4>2, <1>3 DEF ReadGiven
    <3>3. QED  BY <3>1, <3>2
  <2>2. cur'.offset = cur.offset /\ cur'.rlength = cur.rlength /\ (pc' # "fetch" => cur' = cur)
    BY <1>1, <1>8
  <2>3. pc' = "fetch" => Len(cur'.data) = Room' /\ (IsP' => ~BadBtc')
    BY <1>2, <1>4, <1>8, OnesType, Steady
  <2>4. cur.data = IF Single THEN out ELSE <<>>
    BY <1>1 DEF TypeInv, PieceOK
  <2>5. job'.action = "r" /\ pc' # "read"
    BY <1>1, <1>2, <1>4 DEF TypeInv, StageOK
  <2>6. QED
    BY <1>2, <1>3, <1>4, <2>1, <2>2, <2>3, <2>4, <2>5, Steady DEF PieceOK, ReadGiven
<1>11. QED  BY <1>4, <1>5, <1>6, <1>7, <1>9, <1>10 DEF TypeInv


(* Where the bytes of a read come from.                                    *)
From == IF IsP THEN FirstArray * ArraySize ELSE cur.offset

LEMMA FetchAddress ==
  ASSUME TypeInv, pc = "fetch", i < Len(cur.data)
  PROVE  LET c == Addressed(prom[k], FirstArray * ArraySize)
         IN  /\ c \in PromSet(Size) /\ c.addr = From + i /\ c.addr % BlockSize = 0
             /\ c.addr + BlockSize <= Size /\ c.cells = prom[k].cells /\ c.isc = prom[k].isc
             /\ c.busy = prom[k].busy /\ c.todo = prom[k].todo /\ c.regs = prom[k].regs
<1> DEFINE c == Addressed(prom[k], FirstArray * ArraySize)
           a == From + i
<1>1. /\ prom[k] \in PromSet(Size) /\ prom[k].addr % BlockSize = 0
      /\ Size \in Nat /\ Size % BlockSize = 0 /\ prom[k].addr \in Nat /\ Kind \in Kinds
  BY ReadFacts, InCallFacts DEF Reading, PromSet
<1>2. /\ i \in Nat /\ i % BlockSize = 0 /\ cur.offset % BlockSize = 0 /\ cur.offset \in Nat
      /\ Len(cur.data) = Room /\ (IsP => ~BadBtc)
      /\ IsP /\ i % ArraySize # 0 => prom[k].addr = FirstArray * ArraySize + i
  BY DEF TypeInv, BasicOK, PlaceOK, PieceOK, InBlocks
<1>3. From \in Nat /\ Room \in Nat /\ From + Room <= Size
  BY <1>2, RoomType DEF From, Reading
<1>4. From % BlockSize = 0
  <2>1. FirstArray \in Int  BY <1>2, RoomType DEF Reading
  <2>2. \A m \in Int : (m * ArraySize) % BlockSize = 0  BY Arrays
  <2>3. (FirstArray * ArraySize) % BlockSize = 0  BY <2>1, <2>2
  <2>4. QED  BY <2>3, <1>2 DEF From
<1>5. a \in Nat /\ a % BlockSize = 0 /\ a < Size
  <2>1. ASSUME NEW x \in Int, NEW y \in Int, x % BlockSize = 0, y % BlockSize = 0
        PROVE  (x + y) % BlockSize = 0
    BY <2>1, BlockSums
  <2>2. (From + i) % BlockSize = 0  BY <2>1, <1>2, <1>3, <1>4
  <2>3. QED  BY <2>2, <1>2, <1>3, <1>1
<1> HIDE DEF a
<1>6. a + BlockSize <= Size
  BY <1>1, <1>5, BlockSums
<1>7. CASE IsP /\ i % ArraySize # 0
  <2>1. c = prom[k] /\ prom[k].addr = a
    BY <1>7, <1>2 DEF Addressed, From, a
  <2>2. QED  BY <2>1, <1>1, <1>5, <1>6 DEF a
<1>8. CASE ~(IsP /\ i % ArraySize # 0)
  <2>1. c = IscAddress(prom[k], a)
    BY <1>8 DEF Addressed, From, a
  <2>2. c \in PromSet(Size) /\ c.addr = a
    BY <2>1, <1>1, <1>5, AddressType
  <2>3. /\ c.cells = prom[k].cells /\ c.isc = prom[k].isc
        /\ c.busy = prom[k].busy /\ c.todo = prom[k].todo /\ c.regs = prom[k].regs
    BY <2>1, <1>1 DEF IscAddress, PromSet
  <2>4. QED  BY <2>2, <2>3, <1>5, <1>6 DEF a
<1>9. QED  BY <1>7, <1>8

LEMMA FetchTyped ==
  ASSUME TypeInv, Fetch
  PROVE  TypeInv'
<1> DEFINE c == Addressed(prom[k], FirstArray * ArraySize)
           d == Passed(c)
           new == [b \in DOMAIN cur.data |->
                     IF b \in (i + 1)..(i + BlockSize) THEN IscRead(c)[b - i] ELSE cur.data[b]]
<1>1. /\ pc = "fetch" /\ i < Len(cur.data) /\ SetProm(d) /\ i' = i + BlockSize
      /\ cur' = [cur EXCEPT !.data = new]
      /\ UNCHANGED <<args, pc, all, out, piece, j, ret, hist, exit>>
  BY DEF Fetch
<1>2. UNCHANGED <<chain, k, job, pos, pc>>  BY <1>1 DEF args, piece
<1>3. /\ ReadGiven /\ k \in PromNr /\ Size \in Nat
  BY <1>1, ReadFacts, InCallFacts DEF Reading
<1>4. /\ c \in PromSet(Size) /\ c.addr = From + i /\ c.addr % BlockSize = 0
      /\ c.addr + BlockSize <= Size /\ c.cells = prom[k].cells /\ c.regs = prom[k].regs
  BY <1>1, FetchAddress
<1>5. new \in Seq({0, 1}) /\ Len(new) = Len(cur.data)
  <2>1. cur.data \in Seq({0, 1})  BY <1>3 DEF ReadGiven
  <2>2. DOMAIN cur.data = 1..Len(cur.data) /\ Len(cur.data) \in Nat
        /\ \A b \in 1..Len(cur.data) : cur.data[b] \in {0, 1}
    BY <2>1
  <2>3. \A b \in 1..BlockSize : IscRead(c)[b] \in {0, 1}
    <3> HIDE DEF c
    <3>1. \A a \in DOMAIN c.cells : c.cells[a] \in {0, 1}  BY <1>4 DEF PromSet
    <3>2. QED  BY <3>1 DEF IscRead
  <2>4. \A b \in DOMAIN cur.data : b \in (i + 1)..(i + BlockSize) => b - i \in 1..BlockSize
    BY <2>2, Sizes DEF TypeInv, BasicOK
  <2> HIDE DEF c
  <2>5. \A b \in 1..Len(cur.data) : new[b] \in {0, 1}
    BY <2>2, <2>3, <2>4
  <2>6. new = [b \in 1..Len(cur.data) |-> new[b]]  BY <2>2
  <2> HIDE DEF new
  <2>7. QED  BY <2>2, <2>5, <2>6
<1> HIDE DEF c, new
<1>6. d \in PromSet(Size) /\ d.addr = c.addr + BlockSize /\ d.regs = c.regs
  <2>1. c \in PromSet(Size) /\ c.addr + BlockSize <= Size  BY <1>4
  <2>2. d \in PromSet(Size)  BY <1>3, <2>1, PassedType
  <2>3. d.addr = c.addr + BlockSize /\ d.regs = c.regs  BY <2>1 DEF Passed, PromSet
  <2>4. QED  BY <2>2, <2>3
<1>7. c.addr \in Nat  BY <1>4 DEF PromSet
<1>8. d.addr % BlockSize = 0  BY <1>4, <1>6, <1>7, BlockSums
<1> HIDE DEF d
<1>9. PromsOK' /\ prom'[k] = d
  BY <1>1, <1>2, <1>3, <1>6, <1>8, SetPromEffect DEF TypeInv
<1>10. i \in Nat /\ i' \in Nat /\ i' % BlockSize = 0
  <2>1. i \in Nat /\ i % BlockSize = 0  BY <1>1 DEF TypeInv, BasicOK, PlaceOK, InBlocks
  <2>2. \A m \in Int : m % BlockSize = 0 => (m + BlockSize) % BlockSize = 0  BY BlockSums
  <2>3. i' = i + BlockSize  BY <1>1
  <2>4. i + BlockSize \in Nat  BY <2>1, Sizes
  <2>5. QED  BY <2>1, <2>2, <2>3, <2>4
<1>11. /\ chain' \in Chains /\ all' \in BOOLEAN /\ files' \in 0..MaxFiles
       /\ k' \in 1..(Len(chain) + 1)' /\ k' \in PromNr' /\ RangeOK'
  BY <1>1, ReadingShape DEF Reading
<1>12. /\ cur'.data = new /\ cur'.offset = cur.offset /\ cur'.rlength = cur.rlength
       /\ cur' \in [offset : Nat, data : Seq({0, 1}), rlength : Nat]
  BY <1>1, <1>3, <1>5 DEF ReadGiven
<1>13. FirstArray' = FirstArray /\ LastArray' = LastArray
  BY <1>2, <1>4, <1>6, <1>9 DEF FirstArray, LastArray
<1>14. Room' = Room /\ BadBtc' = BadBtc
  BY <1>2, <1>12, <1>13, Steady DEF Room, BadBtc
<1>15. BasicOK'
  BY <1>1, <1>2, <1>10, <1>11 DEF TypeInv, BasicOK, hist
<1>16. StageOK'
  BY <1>1, <1>2, <1>11 DEF TypeInv, StageOK, InCall, Reading, Erasing, Writing, Checking
<1>17. PieceOK'
  BY <1>1, <1>2, <1>5, <1>11, <1>12, <1>14, Steady DEF TypeInv, PieceOK, StageOK, Reading
<1>18. PlaceOK'
  <2>1. IsP => d.addr = FirstArray * ArraySize + i'
    <3>1. FirstArray * ArraySize \in Nat \/ ~IsP
      BY <1>1, RoomType DEF TypeInv, PieceOK, Reading
    <3>2. QED  BY <1>1, <1>4, <1>6, <1>10, <3>1, Sizes DEF From
  <2>2. QED
    BY <1>1, <1>2, <1>9, <1>10, <1>12, <1>13, <2>1, Steady DEF TypeInv, PlaceOK, InBlocks
<1>19. QED  BY <1>9, <1>11, <1>15, <1>16, <1>17, <1>18 DEF TypeInv


LEMMA FetchEndTyped ==
  ASSUME TypeInv, FetchEnd
  PROVE  TypeInv'
<1>1. /\ pc = "fetch" /\ pc' = "fetched" /\ ret' = 0
      /\ prom' = prom \/ SetProm(Disabled(prom[k]))
      /\ UNCHANGED <<args, all, out, piece, cur, i, j, hist, exit>>
  BY DEF FetchEnd, Result
<1>2. UNCHANGED <<chain, k, job, pos>>  BY <1>1 DEF args, piece
<1>3. /\ ReadGiven /\ k \in PromNr /\ prom[k] \in PromSet(Size)
      /\ prom[k].addr % BlockSize = 0 /\ Size \in Nat
  BY <1>1, ReadFacts, InCallFacts DEF Reading
<1>4. PromsOK'
  <2>1. CASE prom' = prom
    BY <1>2, <2>1, Steady DEF TypeInv, PromsOK
  <2>2. CASE SetProm(Disabled(prom[k]))
    <3>1. Disabled(prom[k]) \in PromSet(Size) /\ Disabled(prom[k]).addr = prom[k].addr
      BY <1>3, SwitchType
    <3>2. QED  BY <2>2, <3>1, <1>2, <1>3, SetPromEffect DEF TypeInv
  <2>3. QED  BY <1>1, <2>1, <2>2
<1>5. /\ chain' \in Chains /\ all' \in BOOLEAN /\ files' \in 0..MaxFiles
      /\ k' \in 1..(Len(chain) + 1)' /\ k' \in PromNr' /\ RangeOK'
  BY <1>1, ReadingShape DEF Reading
<1>6. BasicOK'
  BY <1>1, <1>5 DEF TypeInv, BasicOK, hist, Stages
<1>7. StageOK'
  BY <1>1, <1>2, <1>5 DEF TypeInv, StageOK, InCall, Reading, Erasing, Writing, Checking
<1>8. PieceOK'
  <2>1. ~Single => Len(cur.data) <= Take
    <3>1. Len(cur.data) = Room /\ (IsP => ~BadBtc) /\ (IsP => cur.rlength \in {0, Size} /\ cur.offset = 0)
      BY <1>1 DEF TypeInv, PieceOK, PlaceOK, InBlocks
    <3>2. QED  BY <1>1, <3>1, RoomType DEF Reading
  <2>2. job'.action = "r"  BY <1>1, <1>2 DEF TypeInv, StageOK, Reading
  <2>3. QED
    BY <1>1, <1>2, <1>3, <2>1, <2>2, Steady DEF PieceOK, ReadGiven
<1>9. PlaceOK'
  BY <1>1 DEF PlaceOK, InBlocks
<1>10. QED  BY <1>4, <1>5, <1>6, <1>7, <1>8, <1>9 DEF TypeInv

LEMMA FetchedTyped ==
  ASSUME TypeInv, Fetched
  PROVE  TypeInv'
<1>1. /\ pc = "fetched" /\ dropped' = (dropped \/ ret # 0) /\ late' = late
      /\ UNCHANGED <<args, prom, all, piece, cur, i, j, ret>>
      /\ \/ pc' = "advance" /\ exit' = exit
         \/ pc' = "exit" /\ exit' = "abort"
  BY DEF Fetched, Drop, Fail
<1>2. UNCHANGED <<chain, k, job, pos>>  BY <1>1 DEF args, piece
<1>3. ReadGiven  BY <1>1, ReadFacts DEF Reading
<1>4. PromsOK'
  BY <1>1, <1>2, Steady DEF TypeInv, PromsOK
<1>5. /\ chain' \in Chains /\ all' \in BOOLEAN /\ files' \in 0..MaxFiles
      /\ k' \in 1..(Len(chain) + 1)' /\ k' \in PromNr' /\ RangeOK'
  BY <1>1, ReadingShape DEF Reading
<1>6. out' \in Seq({0, 1})
  <2>1. out \in Seq({0, 1}) /\ cur.data \in Seq({0, 1})
    BY <1>3 DEF TypeInv, BasicOK, ReadGiven
  <2> DEFINE n == Len(cur.data)
             new == [b \in DOMAIN out |-> IF b - Source \in 1..n THEN cur.data[b - Source] ELSE out[b]]
  <2>2. out' \in {out, cur.data, new}
    BY DEF Fetched
  <2>3. new \in Seq({0, 1})
    <3>1. /\ DOMAIN out = 1..Len(out) /\ Len(out) \in Nat
          /\ \A b \in 1..Len(out) : out[b] \in {0, 1}
          /\ \A b \in 1..n : cur.data[b] \in {0, 1}
      BY <2>1
    <3> HIDE DEF n
    <3>2. \A b \in 1..Len(out) : new[b] \in {0, 1}  BY <3>1
    <3>3. new = [b \in 1..Len(out) |-> new[b]]  BY <3>1
    <3> HIDE DEF new
    <3>4. QED  BY <3>1, <3>2, <3>3
  <2> HIDE DEF new
  <2>4. QED  BY <2>1, <2>2, <2>3
<1>7. BasicOK'
  <2>1. dropped' \in BOOLEAN /\ late' \in BOOLEAN  BY <1>1 DEF TypeInv, BasicOK
  <2>2. QED  BY <1>1, <2>1, <1>5, <1>6 DEF TypeInv, BasicOK, Stages
<1>8. StageOK'
  BY <1>1, <1>2, <1>5 DEF TypeInv, StageOK, InCall, Reading, Erasing, Writing, Checking
<1>9. PieceOK'
  BY <1>1, <1>3 DEF PieceOK, ReadGiven, InCall, Reading, Erasing, Writing, Checking
<1>10. PlaceOK'
  BY <1>1 DEF PlaceOK, InBlocks
<1>11. QED  BY <1>4, <1>5, <1>7, <1>8, <1>9, <1>10 DEF TypeInv

------------------------------------------------------------------------------
(***************************************************************************)
(* The steps of programXCF.                                                *)
(***************************************************************************)
LEMMA PosType ==
  ASSUME TypeInv
  PROVE  /\ pos \in Nat /\ pos <= Total /\ Total \in Nat /\ RangeEnd \in Nat /\ RangeEnd <= Total
         /\ job.offset \in Nat /\ job.rlength \in Nat /\ RangeEnd = job.offset + job.rlength
<1>1. pos \in 0..Total  BY TypeParts DEF TypeOK
<1>2. Total \in Nat
  <2>1. chain \in Chains  BY DEF TypeInv, BasicOK
  <2>2. Len(chain) + 1 \in 1..(Len(chain) + 1)  BY <2>1, PromKinds
  <2>3. QED  BY <2>1, <2>2, BaseType, BaseStep
<1>3. job.offset \in Nat /\ job.rlength \in Nat /\ Fits(job)
  BY DEF TypeInv, RangeOK
<1>4. QED  BY <1>1, <1>2, <1>3 DEF Fits, RangeEnd

LEMMA AdvanceTyped ==
  ASSUME TypeInv, Advance
  PROVE  TypeInv'
<1>1. /\ pc \in {"advance", "prom"} /\ k \in PromNr
      /\ pc' = "prom" /\ k' = k + 1 /\ pos' = pos + Size
      /\ UNCHANGED <<args, prom, all, out, cur, i, j, ret, hist, exit>>
  BY DEF Advance, TypeInv, StageOK
<1>2. chain \in Chains /\ chain' = chain /\ job' = job /\ files' = files
  BY <1>1 DEF TypeInv, BasicOK, args
<1>3. k' \in 1..(Len(chain) + 1)  BY <1>1, <1>2, PromKinds
<1>4. ~all /\ pos = Base[k]
  BY <1>1 DEF TypeInv, StageOK, RangeOK, Erasing
<1>5. Base' = Base /\ Total' = Total  BY <1>2 DEF Base, Total
<1>6. pos' = Base[k']
  BY <1>1, <1>2, <1>4, BaseStep DEF Size
<1>7. PromsOK'
  BY <1>1, <1>2 DEF TypeInv, PromsOK, PromNr
<1>8. BasicOK'
  BY <1>1, <1>2, <1>3 DEF TypeInv, BasicOK, Stages, hist
<1>9. StageOK'
  BY <1>1, <1>4 DEF TypeInv, StageOK, InCall, Reading, Erasing, Writing, Checking
<1>10. RangeOK'
  BY <1>1, <1>2, <1>4, <1>5, <1>6
  DEF TypeInv, RangeOK, Fits, InCall, Reading, Erasing, Writing, Checking
<1>11. PieceOK'
  BY <1>1 DEF TypeInv, PieceOK, InCall, Reading, Erasing, Writing, Checking
<1>12. PlaceOK'
  BY <1>1 DEF PlaceOK, InBlocks
<1>13. QED  BY <1>7, <1>8, <1>9, <1>10, <1>11, <1>12 DEF TypeInv

LEMMA EndTyped ==
  ASSUME TypeInv, EndOfRange \/ CloseFile \/ Return
  PROVE  TypeInv'
<1>1. /\ pc \in {"prom", "saved", "arg"} /\ pc' \in {"saved", "arg", "exit"}
      /\ pc' = "exit" => exit' = "ok"
      /\ pc' # "exit" => exit' = exit
      /\ UNCHANGED <<args, prom, all, out, piece, cur, i, j, ret, hist>>
  BY DEF EndOfRange, CloseFile, Return, Fail
<1>2. UNCHANGED <<chain, files, job, k, pos>>  BY <1>1 DEF args, piece
<1>3. PromsOK'
  BY <1>1, <1>2 DEF TypeInv, PromsOK, PromNr
<1>4. BasicOK'
  BY <1>1, <1>2 DEF TypeInv, BasicOK, Stages, hist
<1>5. StageOK'
  BY <1>1 DEF TypeInv, StageOK, InCall, Reading, Erasing, Writing, Checking
<1>6. RangeOK'
  BY <1>1, <1>2, Steady DEF TypeInv, RangeOK, InCall, Reading, Erasing, Writing, Checking
<1>7. PieceOK'
  BY <1>1 DEF TypeInv, PieceOK, InCall, Reading, Erasing, Writing, Checking
<1>8. PlaceOK'
  BY <1>1 DEF PlaceOK, InBlocks
<1>9. QED  BY <1>3, <1>4, <1>5, <1>6, <1>7, <1>8 DEF TypeInv

LEMMA ServeTyped ==
  ASSUME TypeInv, ServeProm
  PROVE  TypeInv'
<1>1. /\ pc = "prom" /\ k \in PromNr /\ ~Before /\ pos < RangeEnd
      /\ UNCHANGED <<args, prom, all, out, piece, i, j, ret, hist>>
  BY DEF ServeProm
<1>2. UNCHANGED <<chain, files, job, k, pos>>  BY <1>1 DEF args, piece
<1>3. Meeting /\ ~all /\ exit = "none"
  BY <1>1 DEF TypeInv, BasicOK, StageOK, RangeOK, Meeting, Erasing
<1>4. \/ pc' = "exit" /\ exit' = "abort" /\ cur' = cur
      \/ /\ pc' = Called /\ exit' = exit
         /\ \/ Single /\ cur' = Piece(IF job.action = "r" THEN out ELSE job.data)
            \/ ~Single /\ job.action = "r" /\ cur' = Piece(<<>>)
            \/ /\ ~Single /\ job.action # "r" /\ Source + Take \in 0..Length
               /\ \E garbage \in {0, 1} : cur' = Piece(Copied(garbage))
  BY DEF ServeProm, Fail, OutOfBounds
<1>5. /\ job.action = "w" => Called = "erase"
      /\ job.action = "W" => Called = "program"
      /\ job.action = "v" => Called = "verify"
      /\ job.action = "r" => Called = "read"
      /\ job.action \in {"w", "W", "v", "r"}
  BY <1>3, ArgumentAssumption DEF Called, Meeting
<1>6. PromsOK'
  BY <1>1, <1>2 DEF TypeInv, PromsOK, PromNr
<1>7. BasicOK'
  BY <1>1, <1>2, <1>4, <1>5 DEF TypeInv, BasicOK, Stages, hist
<1>8. StageOK'
  BY <1>1, <1>2, <1>3, <1>4, <1>5, Steady
  DEF TypeInv, StageOK, InCall, Reading, Erasing, Writing, Checking
<1>9. RangeOK'
  BY <1>1, <1>2, <1>3, Steady DEF TypeInv, RangeOK, Meeting
<1>10. PieceOK'
  <2>1. CurrentOffset \in Nat /\ CurrentLength \in Nat /\ Take \in Nat /\ Source \in Int
    BY <1>3, PieceSizes
  <2>2. ASSUME NEW data \in Seq({0, 1}), cur' = Piece(data)
        PROVE  /\ cur' \in [offset : Nat, data : Seq({0, 1}), rlength : Nat]
               /\ cur'.offset = CurrentOffset /\ cur'.rlength \in {0, CurrentLength}
               /\ cur'.rlength = 0 => CurrentLength \in {0, FileLength}
               /\ cur'.data = data
    BY <2>1, <2>2 DEF Piece
  <2>3. out \in Seq({0, 1}) /\ job.data \in Seq({0, 1}) /\ <<>> \in Seq({0, 1})
    BY <1>3 DEF TypeInv, BasicOK, Meeting
  <2>4. ASSUME NEW garbage \in {0, 1}, Source + Take \in 0..Length, job.action # "r"
        PROVE  /\ Copied(garbage) \in Seq({0, 1}) /\ Len(Copied(garbage)) = Take
               /\ \A b \in 1..Take : Source + b >= 1 => Copied(garbage)[b] = job.data[Source + b]
    <3>1. \A b \in 1..Take : Source + b >= 1 => Source + b \in 1..Len(job.data)
      BY <2>1, <2>4, <1>3, MeetingTypes DEF Length
    <3>2. \A x \in 1..Len(job.data) : job.data[x] \in {0, 1}  BY <2>3
    <3>3. \A b \in 1..Take : Copied(garbage)[b] \in {0, 1}
      BY <3>1, <3>2 DEF Copied
    <3>4. Copied(garbage) = [b \in 1..Take |-> Copied(garbage)[b]]  BY DEF Copied
    <3>5. Copied(garbage) \in Seq({0, 1}) /\ Len(Copied(garbage)) = Take
      BY <2>1, <3>3, <3>4
    <3>6. \A b \in 1..Take : Source + b >= 1 => Copied(garbage)[b] = job.data[Source + b]
      BY DEF Copied
    <3>7. QED  BY <3>5, <3>6
  <2>5. CASE pc' = "exit"
    <3>1. cur' = cur  BY <2>5, <1>4, <1>5
    <3>2. QED  BY <2>5, <3>1 DEF TypeInv, PieceOK, InCall, Reading, Erasing, Writing, Checking
  <2>6. CASE pc' = Called /\ Single /\ cur' = Piece(IF job.action = "r" THEN out ELSE job.data)
    BY <2>2, <2>3, <2>6, <1>1, <1>2, <1>5, Steady DEF PieceOK
  <2>7. CASE pc' = Called /\ ~Single /\ job.action = "r" /\ cur' = Piece(<<>>)
    <3> DEFINE data == <<>>
    <3>1. data \in Seq({0, 1}) /\ cur' = Piece(data)  BY <2>3, <2>7
    <3>2. /\ cur' \in [offset : Nat, data : Seq({0, 1}), rlength : Nat]
          /\ cur'.offset = CurrentOffset /\ cur'.rlength \in {0, CurrentLength}
          /\ cur'.rlength = 0 => CurrentLength \in {0, FileLength}
          /\ cur'.data = <<>>
      BY <2>2, <3>1
    <3>3. pc' = "read" /\ job'.action = "r" /\ ~Single'  BY <2>7, <1>2, <1>5, Steady
    <3> HIDE DEF data
    <3>4. QED  BY <3>2, <3>3, <1>2, Steady DEF PieceOK
  <2>8. CASE /\ pc' = Called /\ ~Single /\ job.action # "r" /\ Source + Take \in 0..Length
             /\ \E garbage \in {0, 1} : cur' = Piece(Copied(garbage))
    <3>1. PICK garbage \in {0, 1} : cur' = Piece(Copied(garbage))  BY <2>8
    <3> DEFINE data == Copied(garbage)
    <3>2. /\ data \in Seq({0, 1}) /\ Len(data) = Take /\ cur' = Piece(data)
          /\ \A b \in 1..Take : Source + b >= 1 => data[b] = job.data[Source + b]
      BY <2>4, <2>8, <3>1
    <3> HIDE DEF data
    <3>3. QED
      BY <2>2, <2>8, <3>2, <1>1, <1>2, <1>5, Steady DEF PieceOK
  <2>9. QED  BY <1>4, <2>5, <2>6, <2>7, <2>8
<1>11. PlaceOK'
  BY <1>4, <1>5 DEF PlaceOK, InBlocks
<1>12. QED  BY <1>6, <1>7, <1>8, <1>9, <1>10, <1>11 DEF TypeInv


LEMMA OpenTyped ==
  ASSUME TypeInv, Open
  PROVE  TypeInv'
<1>0. PICK action \in Actions, offset \in Offsets, rlength \in RLengths :
        \E f \in IF action = "r" THEN {<<>>} ELSE Files : OpenFile(action, offset, rlength, f)
  BY DEF Open
<1>1. PICK data \in IF action = "r" THEN {<<>>} ELSE Files :
        OpenFile(action, offset, rlength, data)
  BY <1>0
<1> DEFINE a == Argument(action, offset, rlength, data)
<1>2. /\ pc = "arg" /\ files < MaxFiles /\ files' = files + 1
      /\ UNCHANGED <<chain, prom, all, cur, i, j, ret, late, exit>>
      /\ \/ /\ Fits(a) /\ pc' = "prom" /\ job' = a /\ k' = 1 /\ pos' = 0 /\ dropped' = FALSE
            /\ out' = IF action = "r" THEN Ones(a.rlength) ELSE <<>>
         \/ UNCHANGED <<pc, job, k, pos, dropped, out>>
  BY <1>1 DEF OpenFile, piece
<1>3. /\ action \in {"w", "W", "v", "r"} /\ offset \in Nat /\ rlength \in Nat
      /\ data \in Seq({0, 1}) /\ (action = "r" => data = <<>>) /\ Len(data) \in Nat
  <2>1. action \in {"w", "W", "v", "r"} /\ offset \in Nat /\ rlength \in Nat
    BY ArgumentAssumption
  <2>2. action = "r" => data = <<>>  OBVIOUS
  <2>3. action # "r" => data \in Files  OBVIOUS
  <2>4. \A f \in Files : f \in Seq({0, 1})  BY ArgumentAssumption
  <2>5. <<>> \in Seq({0, 1})  OBVIOUS
  <2>6. data \in Seq({0, 1})  BY <2>2, <2>3, <2>4, <2>5
  <2>7. Len(data) \in Nat  BY <2>6
  <2>8. QED  BY <2>1, <2>2, <2>6, <2>7
<1>4. Total \in Nat /\ Base[1] = 0 /\ chain \in Chains
  BY PosType, BaseStep DEF TypeInv, BasicOK
<1>5. Fits(a) => /\ a \in [action : Actions \cup {"v"}, offset : Nat, data : Seq({0, 1}), rlength : Nat]
                 /\ a.action # "r" /\ a.rlength = 0 => a.data = <<>>
                 /\ a.rlength \in Nat /\ (action = "r" <=> a.action = "r")
  <2>1. /\ a.action = action /\ a.offset = offset /\ a.data = data
        /\ a.rlength = IF rlength # 0 THEN rlength
                       ELSE IF action = "r" THEN Total - offset ELSE Len(data)
        /\ a = [action |-> a.action, offset |-> a.offset, data |-> a.data, rlength |-> a.rlength]
    BY DEF Argument
  <2> HIDE DEF a
  <2>2. Fits(a) => a.rlength \in Nat
    BY <2>1, <1>3, <1>4 DEF Fits
  <2>3. a.action # "r" /\ a.rlength = 0 => a.data = <<>>
    <3>1. Len(data) = 0 => data = <<>>  BY <1>3
    <3>2. QED  BY <2>1, <3>1, <1>3
  <2>4. QED  BY <2>1, <2>2, <2>3, <1>3
<1> HIDE DEF a
<1>6. Base' = Base /\ Total' = Total /\ PromNr' = PromNr  BY <1>2 DEF Base, Total, PromNr
<1>7. ~all  BY <1>2 DEF TypeInv, StageOK, Erasing
<1>8. PromsOK'
  BY <1>2, <1>6 DEF TypeInv, PromsOK
<1>9. files' \in 0..MaxFiles
  BY <1>2, Sizes DEF TypeInv, BasicOK
<1>10. CASE /\ Fits(a) /\ pc' = "prom" /\ job' = a /\ k' = 1 /\ pos' = 0 /\ dropped' = FALSE
            /\ out' = IF action = "r" THEN Ones(a.rlength) ELSE <<>>
  <2>1. out' \in Seq({0, 1})
    BY <1>5, <1>10, OnesType
  <2>2. k' \in 1..(Len(chain) + 1)'
    BY <1>2, <1>4, <1>10, PromKinds
  <2>3. BasicOK'
    BY <1>2, <1>9, <1>10, <2>1, <2>2 DEF TypeInv, BasicOK, Stages
  <2>4. StageOK'
    BY <1>2, <1>7, <1>10 DEF TypeInv, StageOK, InCall, Reading, Erasing, Writing, Checking
  <2>5. RangeOK'
    BY <1>2, <1>4, <1>5, <1>6, <1>7, <1>10
    DEF RangeOK, Fits, InCall, Reading, Erasing, Writing, Checking
  <2>6. PieceOK' /\ PlaceOK'
    BY <1>2, <1>10
    DEF TypeInv, PieceOK, PlaceOK, InBlocks, InCall, Reading, Erasing, Writing, Checking
  <2>7. QED  BY <1>8, <2>3, <2>4, <2>5, <2>6 DEF TypeInv
<1>11. CASE UNCHANGED <<pc, job, k, pos, dropped, out>>
  <2>1. BasicOK'
    BY <1>2, <1>9, <1>11 DEF TypeInv, BasicOK
  <2>2. StageOK' /\ RangeOK'
    BY <1>2, <1>6, <1>7, <1>11
    DEF TypeInv, StageOK, RangeOK, Fits, InCall, Reading, Erasing, Writing, Checking
  <2>3. PieceOK' /\ PlaceOK'
    BY <1>2, <1>11
    DEF TypeInv, PieceOK, PlaceOK, InBlocks, InCall, Reading, Erasing, Writing, Checking
  <2>4. QED  BY <1>8, <2>1, <2>2, <2>3 DEF TypeInv
<1>12. QED  BY <1>2, <1>10, <1>11

(* A PROM done with its work: what the host sees of it but its status and  *)
(* its bytes stays the same.                                               *)
LEMMA DoneEffect ==
  ASSUME PromsOK, chain' = chain, NEW p \in PromNr, PromDone(p)
  PROVE  /\ PromsOK' /\ prom[p].busy /\ ~prom'[p].busy /\ PromNr' = PromNr
         /\ prom'[p].cells \in {prom[p].cells, prom[p].todo} /\ prom'[p].todo = prom'[p].cells
         /\ prom'[p].addr = prom[p].addr /\ prom'[p].regs = prom[p].regs
         /\ prom'[p].isc = prom[p].isc /\ prom'[p].protect = prom[p].protect
         /\ \A q \in PromNr : q # p => prom'[q] = prom[q]
<1>1. PICK fault \in BOOLEAN :
        LET cells == IF fault THEN prom[p].cells ELSE prom[p].todo IN
        prom' = [prom EXCEPT ![p].cells = cells, ![p].todo = cells,
                             ![p].busy = FALSE, ![p].fault = fault]
  BY DEF PromDone
<1> DEFINE cells == IF fault THEN prom[p].cells ELSE prom[p].todo
           c == [prom[p] EXCEPT !.cells = cells, !.todo = cells, !.busy = FALSE, !.fault = fault]
<1>2. prom[p] \in PromSet(chain[p].size) /\ prom = [q \in PromNr |-> prom[q]]
      /\ prom[p].addr % BlockSize = 0
  BY DEF PromsOK
<1>3. prom' = [prom EXCEPT ![p] = c]
  BY <1>1, <1>2
<1>4. cells \in [0..(chain[p].size - 1) -> {0, 1}]
  BY <1>2 DEF PromSet
<1>5. cells \in {prom[p].cells, prom[p].todo}  OBVIOUS
<1> HIDE DEF cells
<1>6. /\ c \in PromSet(chain[p].size) /\ c.cells = cells /\ c.todo = cells /\ ~c.busy
      /\ c.addr = prom[p].addr /\ c.regs = prom[p].regs
      /\ c.isc = prom[p].isc /\ c.protect = prom[p].protect
  BY <1>2, <1>4 DEF PromSet
<1> HIDE DEF c
<1>7. prom'[p] = c /\ \A q \in PromNr : q # p => prom'[q] = prom[q]
  BY <1>2, <1>3
<1>8. prom' = [q \in PromNr |-> prom'[q]]
  BY <1>2, <1>3
<1>9. PromNr' = PromNr  BY DEF PromNr
<1>10. PromsOK'
  BY <1>2, <1>6, <1>7, <1>8, <1>9 DEF PromsOK
<1>11. prom[p].busy  BY DEF PromDone
<1>12. QED  BY <1>5, <1>6, <1>7, <1>9, <1>10, <1>11

LEMMA DoneTyped ==
  ASSUME TypeInv, NEW p \in PromNr, PromDone(p)
  PROVE  TypeInv'
<1>1. UNCHANGED <<args, pc, all, out, piece, cur, i, j, ret, hist, exit>>
  BY DEF PromDone
<1>2. UNCHANGED <<chain, files, job, k, pos, pc, all, out, cur, i, j, ret, dropped, late, exit>>
  BY <1>1 DEF args, piece, hist
<1>3. /\ PromsOK' /\ PromNr' = PromNr /\ prom'[p].addr = prom[p].addr
      /\ prom'[p].regs = prom[p].regs /\ \A q \in PromNr : q # p => prom'[q] = prom[q]
  BY <1>2, DoneEffect DEF TypeInv
<1>4. k \in PromNr => prom'[k].addr = prom[k].addr /\ prom'[k].regs = prom[k].regs
  BY <1>3
<1>5. pc \in InBlocks => k \in PromNr
  BY DEF TypeInv, StageOK, InBlocks, InCall, Reading, Writing, Checking
<1>6. pc = "fetch" => FirstArray' = FirstArray /\ Room' = Room /\ BadBtc' = BadBtc
  <2>1. pc = "fetch" => prom'[k].regs = prom[k].regs  BY <1>4, <1>5 DEF InBlocks
  <2>2. pc = "fetch" => FirstArray' = FirstArray /\ LastArray' = LastArray
    BY <2>1, <1>2 DEF FirstArray, LastArray
  <2>3. QED  BY <2>2, <1>2, Steady DEF Room, BadBtc
<1>7. BasicOK' /\ StageOK'
  BY <1>2, <1>3 DEF TypeInv, BasicOK, StageOK
<1>8. RangeOK'
  BY <1>2, Steady DEF TypeInv, RangeOK
<1>9. PieceOK'
  BY <1>2, <1>6, Steady DEF TypeInv, PieceOK
<1>10. PlaceOK'
  <2>1. pc \in InBlocks => prom'[k].addr = prom[k].addr  BY <1>4, <1>5
  <2>2. QED  BY <1>2, <1>6, <2>1, Steady, SteadyPiece DEF TypeInv, PlaceOK, InBlocks
<1>11. QED  BY <1>3, <1>7, <1>8, <1>9, <1>10 DEF TypeInv

LEMMA StutterTyped ==
  ASSUME TypeInv, UNCHANGED vars
  PROVE  TypeInv'
<1>1. /\ UNCHANGED <<chain, files, job, k, pos, pc, all, out, cur, i, j, ret, dropped, late, exit>>
      /\ prom' = prom
  BY DEF vars, args, piece, hist
<1>2. /\ BasicOK' /\ StageOK' /\ RangeOK' /\ PromsOK'
      /\ FirstArray' = FirstArray /\ LastArray' = LastArray
  BY <1>1, Steady
  DEF TypeInv, BasicOK, StageOK, RangeOK, PromsOK, FirstArray, LastArray
<1>3. Room' = Room /\ BadBtc' = BadBtc  BY <1>1, <1>2, Steady DEF Room, BadBtc
<1>4. PieceOK' /\ PlaceOK'
  BY <1>1, <1>2, <1>3, Steady, SteadyPiece DEF TypeInv, PieceOK, PlaceOK
<1>5. QED  BY <1>2, <1>4 DEF TypeInv

LEMMA TypeInit == Init => TypeInv
<1> SUFFICES ASSUME Init PROVE TypeInv
  OBVIOUS
<1>1. chain \in Chains  BY DEF Init
<1>2. PICK content \in Contents, protect \in BOOLEAN, used \in BOOLEAN :
        /\ 0..(Total - 1) \subseteq DOMAIN content
        /\ prom = [p \in PromNr |-> Fresh(chain[p].kind, chain[p].size, Base[p], content,
                                          protect, used)]
  BY DEF Init
<1>3. \A x \in 0..(Total - 1) : content[x] \in {0, 1}
  BY <1>2, ContentAssumption
<1>4. ASSUME NEW p \in PromNr
      PROVE  prom[p] \in PromSet(chain[p].size) /\ prom[p].addr % BlockSize = 0
  <2> DEFINE size == chain[p].size
             cells == [a \in 0..(size - 1) |-> content[Base[p] + a]]
             regs == IF used /\ chain[p].kind = "xcfp"
                     THEN [r \in Registers |-> IF r = "BTC" THEN 4 * (size \div ArraySize - 1)
                                               ELSE Value]
                     ELSE Unwritten
  <2>1. prom[p] = [cells |-> cells, todo |-> cells, busy |-> FALSE, fault |-> FALSE, isc |-> FALSE,
                   addr |-> 0, protect |-> protect /\ chain[p].kind # "xcfp", regs |-> regs]
    BY <1>2 DEF Fresh
  <2>2. size \in Nat /\ size > 0
    BY <1>1, PromKinds
  <2>3. cells \in [0..(size - 1) -> {0, 1}]
    <3>1. \A a \in 0..(size - 1) : Base[p] + a \in 0..(Total - 1)  BY <1>1, HomeUnique
    <3>2. QED  BY <3>1, <1>3
  <2>4. regs \in [Registers -> 0..15]
    <3>1. chain[p].kind = "xcfp" => size \div ArraySize \in 1..4
      <4>1. chain[p].kind = "xcfp" => size % ArraySize = 0 /\ size <= 4 * ArraySize
        BY <1>1, PromKinds
      <4>2. QED  BY <4>1, <2>2, Parts
    <3> HIDE DEF size
    <3>2. chain[p].kind = "xcfp" => 4 * (size \div ArraySize - 1) \in 0..15  BY <3>1
    <3>3. QED  BY <3>2 DEF Unwritten, Value
  <2>5. 0 % BlockSize = 0 /\ 0 \in 0..size  BY Sizes, <2>2
  <2>6. (protect /\ chain[p].kind # "xcfp") \in BOOLEAN  OBVIOUS
  <2> HIDE DEF cells, regs, size
  <2>7. prom[p] \in PromSet(size) /\ prom[p].addr = 0
    BY <2>1, <2>3, <2>4, <2>5, <2>6 DEF PromSet
  <2>8. QED  BY <2>5, <2>7 DEF size
<1>5. PromsOK
  BY <1>2, <1>4 DEF PromsOK
<1>6. Len(chain) \in Nat /\ Base[1] = 0 /\ Total \in Nat
  <2>1. Len(chain) \in Nat  BY <1>1, PromKinds
  <2>2. Len(chain) + 1 \in 1..(Len(chain) + 1)  BY <2>1
  <2>3. QED  BY <2>1, <2>2, <1>1, BaseType, BaseStep
<1>7. <<>> \in Seq({0, 1}) /\ Len(<<>>) = 0  OBVIOUS
<1>8. BasicOK /\ StageOK
  <2>1. k \in 1..(Len(chain) + 1) /\ files \in 0..MaxFiles
    BY <1>6, Sizes DEF Init
  <2>2. BasicOK
    BY <1>1, <1>7, <2>1 DEF Init, BasicOK, Stages
  <2>3. StageOK
    BY DEF Init, StageOK, InCall, Erasing, Writing, Checking, Reading
  <2>4. QED  BY <2>2, <2>3
<1>9. RangeOK /\ PieceOK /\ PlaceOK
  BY <1>6, <1>7
  DEF Init, RangeOK, PieceOK, PlaceOK, Fits, InCall, Erasing, Writing, Checking, Reading, InBlocks
<1>10. QED  BY <1>5, <1>8, <1>9 DEF TypeInv

LEMMA TypeStep == TypeInv /\ [Next]_vars => TypeInv'
<1> SUFFICES ASSUME TypeInv, [Next]_vars PROVE TypeInv'
  OBVIOUS
<1>1. CASE EraseStep
  BY <1>1, EraseTyped, EraseAllTyped DEF EraseStep
<1>2. CASE ProgramStep
  BY <1>2, BeginTyped, SendBlockTyped, ProgramPollTyped, BetweenTyped, WriteRegisterTyped
  DEF ProgramStep
<1>3. CASE VerifyStep
  BY <1>3, BeginTyped, CompareBlockTyped, BetweenTyped DEF VerifyStep
<1>4. CASE ReadStep
  BY <1>4, ReadTyped, FetchTyped, FetchEndTyped, FetchedTyped DEF ReadStep
<1>5. CASE RangeStep
  BY <1>5, AdvanceTyped, EndTyped, ServeTyped DEF RangeStep
<1>6. CASE Open
  BY <1>6, OpenTyped
<1>7. CASE \E p \in PromNr : PromDone(p)
  BY <1>7, DoneTyped
<1>8. CASE UNCHANGED vars
  BY <1>8, StutterTyped
<1>9. QED  BY <1>1, <1>2, <1>3, <1>4, <1>5, <1>6, <1>7, <1>8 DEF Next, Host

(* Every variable keeps its type in every run: no poll beyond its bound,   *)
(* no address outside a PROM, no byte of a file beyond its end.            *)
THEOREM TypeCorrect == Spec => []TypeOK
<1>1. Spec => []TypeInv
  BY TypeInit, TypeStep, PTL DEF Spec
<1>2. TypeInv => TypeOK  BY TypeParts
<1>3. QED  BY <1>1, <1>2, PTL

------------------------------------------------------------------------------
(***************************************************************************)
(* How the program ends, and how it leaves the PROMs.                      *)
(***************************************************************************)

(* A range that starts where a PROM does is in no PROM before its start.   *)
LEMMA StartsAtProm ==
  Meeting /\ ~Single /\ ~StartsInside => job.offset <= pos
<1> SUFFICES ASSUME Meeting, ~Single, ~StartsInside PROVE job.offset <= pos
  OBVIOUS
<1>1. PICK q \in 1..(Len(chain) + 1) : job.offset = Base[q]
  BY DEF StartsInside
<1>2. /\ chain \in Chains /\ k \in PromNr /\ pos = Base[k] /\ k \in Nat /\ q \in Nat
      /\ Len(chain) \in Nat /\ k <= Len(chain) /\ k >= 1
  BY PromKinds DEF Meeting
<1>3. pos \in Nat /\ Size \in Nat /\ pos + Size > job.offset /\ job.offset \in Nat
  BY MeetingTypes
<1>4. Base[k + 1] = pos + Size  BY <1>2, BaseStep DEF Size
<1>5. k < q => Base[k + 1] <= Base[q]
  <2>1. k < q => q \in (k + 1)..(Len(chain) + 1)  BY <1>2
  <2>2. QED  BY <2>1, <1>2, BaseOrder
<1>6. q = k => job.offset <= pos  BY <1>1, <1>2, <1>3
<1>7. q < k => Base[q + 1] <= Base[k] /\ Base[q] <= Base[q + 1]
  <2>1. q < k => q \in PromNr /\ k \in (q + 1)..(Len(chain) + 1) /\ q + 1 \in 1..(Len(chain) + 1)
    BY <1>2, PromKinds
  <2>2. q < k => Base[q + 1] <= Base[k]  BY <2>1, <1>2, BaseOrder
  <2>3. q < k => Base[q + 1] = Base[q] + chain[q].size  BY <2>1, <1>2, BaseStep
  <2>4. q < k => chain[q].size \in Nat  BY <2>1, <1>2, PromKinds
  <2>5. Base[q] \in Nat  BY <1>2, BaseType
  <2>6. QED  BY <2>2, <2>3, <2>4, <2>5
<1>8. Base[k + 1] \in Nat /\ Base[q] \in Nat /\ (q < k => Base[q + 1] \in Nat)
  <2>1. k + 1 \in 1..(Len(chain) + 1) /\ (q < k => q + 1 \in 1..(Len(chain) + 1))  BY <1>2
  <2>2. QED  BY <2>1, <1>2, BaseType
<1>9. ~(k < q)
  BY <1>1, <1>3, <1>4, <1>5, <1>8
<1>10. q < k => job.offset <= pos
  BY <1>1, <1>2, <1>3, <1>7, <1>8
<1>11. QED  BY <1>2, <1>6, <1>9, <1>10

(* What such a range has of a PROM lies within the bytes of the file.      *)
LEMMA SourceFits ==
  Meeting /\ ~Single /\ ~StartsInside
    => /\ Source \in Nat /\ CurrentOffset = 0 /\ job.rlength > 0
       /\ \A n \in 0..Take : Source + n \in 0..Length
<1> SUFFICES ASSUME Meeting, ~Single, ~StartsInside
             PROVE  /\ Source \in Nat /\ CurrentOffset = 0 /\ job.rlength > 0
                    /\ \A n \in 0..Take : Source + n \in 0..Length
  OBVIOUS
<1>1. job.offset <= pos  BY StartsAtProm
<1>2. /\ Size \in Nat /\ pos \in Nat /\ job.offset \in Nat /\ job.rlength \in Nat
      /\ Length \in Nat /\ job.rlength <= Length
      /\ RangeEnd = job.offset + job.rlength /\ pos < RangeEnd
  BY MeetingTypes
<1>3. CurrentOffset = 0 /\ Source = pos - job.offset /\ Source \in Nat
  BY <1>1, <1>2 DEF CurrentOffset, Source
<1>4. job.rlength > 0  BY <1>1, <1>2
<1>5. /\ CurrentLength \in Nat /\ Take \in Nat
      /\ CurrentLength # 0 => pos + CurrentOffset + CurrentLength = RangeEnd
      /\ CurrentLength = 0 => pos + Size <= RangeEnd \/ job.rlength = 0
      /\ Take = IF CurrentLength # 0 THEN CurrentLength ELSE Size - CurrentOffset
  BY PieceSizes DEF Take
<1>6. Source + Take <= job.rlength
  BY <1>2, <1>3, <1>4, <1>5
<1>7. QED  BY <1>2, <1>3, <1>4, <1>5, <1>6

(* A refused or torn range is one that AbortExplained names.               *)
LEMMA ThrowExplained ==
  ASSUME TypeInv, pc \in InCall, ~all, NEW whole, Throws(whole)
  PROVE  IsP /\ (pos < job.offset \/ RangeEnd < pos + Size)
<1>1. Meeting  BY InCallFacts
<1>2. IsP /\ (cur.offset # 0 \/ cur.rlength \notin {0, whole})  BY DEF Throws
<1>3. cur.offset = CurrentOffset /\ cur.rlength \in {0, CurrentLength}
  BY DEF TypeInv, PieceOK
<1>4. CurrentOffset # 0 => pos < job.offset  BY DEF CurrentOffset
<1>5. CurrentLength # 0 => RangeEnd < pos + Size
  BY <1>1, MeetingTypes DEF CurrentLength
<1>6. QED  BY <1>2, <1>3, <1>4, <1>5

LEMMA BeginAbort ==
  ASSUME TypeInv, pc \in InCall, ~all, NEW whole, NEW stage, NEW next, Begin(whole, stage, next),
         exit # "abort", exit' = "abort"
  PROVE  IsP /\ (pos < job.offset \/ RangeEnd < pos + Size)
<1>1. Throws(whole)  BY DEF Begin
<1>2. QED  BY <1>1, ThrowExplained

Explained == StartsInside \/ (IsP /\ (pos < job.offset \/ RangeEnd < pos + Size))

LEMMA SteadyStart ==
  ASSUME UNCHANGED <<chain, job, k, pos>>
  PROVE  (StartsInside' <=> StartsInside) /\ (Explained' <=> Explained)
<1>1. StartsInside' <=> StartsInside  BY Steady DEF StartsInside
<1>2. IsP' = IsP /\ RangeEnd' = RangeEnd /\ Size' = Size  BY Steady
<1>3. QED  BY <1>1, <1>2 DEF Explained

(* Where the stages of each call lead.                                     *)
LEMMA StagesAfter ==
  /\ EraseStep => /\ pc \in {"eraseAll", "erase", "erasing", "erased"}
                  /\ pc' \in {"eraseAll", "arg", "erase", "erasing", "erased", "program", "exit"}
                  /\ pc' = "erasing" => Erase \/ pc = "erasing"
  /\ ProgramStep => /\ pc \in Writing
                    /\ pc' \in Writing \cup {"verify", "exit"}
                    /\ pc' = "programming" => SendBlock \/ pc = "programming"
  /\ VerifyStep => /\ pc \in Checking /\ pc' \in Checking \cup {"advance", "exit"}
                   /\ pc' = "advance" => Verified
  /\ Verified => pc' = "advance"
  /\ ReadStep => /\ pc \in Reading /\ pc' \in Reading \cup {"advance", "exit"}
                 /\ pc' = "advance" => Fetched
  /\ Fetched => pc' \in {"advance", "exit"}
  /\ RangeStep \/ Open => /\ pc \in {"prom", "advance", "saved", "arg"}
                          /\ pc' \in {"prom", "saved", "arg", "exit",
                                      "erase", "program", "verify", "read"}
<1>1. ASSUME EraseStep
      PROVE  /\ pc \in {"eraseAll", "erase", "erasing", "erased"}
             /\ pc' \in {"eraseAll", "arg", "erase", "erasing", "erased", "program", "exit"}
             /\ pc' = "erasing" => Erase \/ pc = "erasing"
  BY <1>1 DEF EraseStep, EraseAll, EraseRefused, Erase, ErasePoll, Erased, Result, Fail
<1>2. ASSUME ProgramStep
      PROVE  /\ pc \in Writing
             /\ pc' \in Writing \cup {"verify", "exit"}
             /\ pc' = "programming" => SendBlock \/ pc = "programming"
  BY <1>2 DEF ProgramStep, Program, SendBlock, ProgramPoll, BlocksDone, WriteRegister,
     Programmed, Begin, Throw, Result, Fail, Writing
<1>3. ASSUME VerifyStep
      PROVE  /\ pc \in Checking /\ pc' \in Checking \cup {"advance", "exit"}
             /\ pc' = "advance" => Verified
  BY <1>3 DEF VerifyStep, Verify, CompareBlock, CompareEnd, CompareRegisters, Verified,
     Begin, Throw, Result, Fail, Checking
<1>4. ASSUME ReadStep
      PROVE  /\ pc \in Reading /\ pc' \in Reading \cup {"advance", "exit"}
             /\ pc' = "advance" => Fetched
  BY <1>4 DEF ReadStep, Read, Fetch, FetchEnd, Fetched, Begin, Throw, Result, Fail, Reading
<1>5. ASSUME RangeStep \/ Open
      PROVE  /\ pc \in {"prom", "advance", "saved", "arg"}
             /\ pc' \in {"prom", "saved", "arg", "exit", "erase", "program", "verify", "read"}
  BY <1>5 DEF RangeStep, Advance, EndOfRange, ServeProm, CloseFile, Return, Open, OpenFile,
     Fail, Called
<1>6. (Verified => pc' = "advance") /\ (Fetched => pc' \in {"advance", "exit"})
  BY DEF Verified, Fetched, Fail
<1>7. QED  BY <1>1, <1>2, <1>3, <1>4, <1>5, <1>6

(* Once the program has ended only the PROMs go on.                        *)
LEMMA Frozen ==
  ASSUME TypeInv, pc = "exit", [Next]_vars
  PROVE  /\ UNCHANGED <<args, pc, all, out, piece, cur, i, j, ret, hist, exit>>
         /\ prom' = prom \/ \E p \in PromNr : PromDone(p)
<1>1. ~Host
  BY StagesAfter, ZenonT(60) DEF Host, Writing, Checking, Reading
<1>2. QED  BY <1>1 DEF Next, PromDone, vars

(* The steps that end the program, or not.                                 *)
LEMMA AbortingSteps ==
  ASSUME [Next]_vars, exit # "abort", exit' = "abort"
  PROVE  Program \/ Verify \/ Read \/ ServeProm \/ Fetched
BY DEF Next, Host, EraseStep, EraseAll, EraseRefused, Erase, ErasePoll, Erased,
   ProgramStep, SendBlock, ProgramPoll, BlocksDone, WriteRegister, Programmed,
   VerifyStep, CompareBlock, CompareEnd, CompareRegisters, Verified,
   ReadStep, Fetch, FetchEnd, RangeStep, Advance, EndOfRange,
   CloseFile, Return, Open, OpenFile, Fail, PromDone, vars

LEMMA AbortStep == TypeInv /\ AbortExplained /\ [Next]_vars => AbortExplained'
<1> SUFFICES ASSUME TypeInv, AbortExplained, [Next]_vars, exit' = "abort"
             PROVE  Explained'
  BY DEF AbortExplained, Explained
<1>1. UNCHANGED <<chain, job, k, pos>> /\ Explained => Explained'
  BY SteadyStart
<1>2. CASE exit = "abort"
  <2>1. pc = "exit"  BY <1>2 DEF TypeInv, StageOK
  <2>2. UNCHANGED <<args, piece>>  BY <2>1, Frozen
  <2>3. Explained  BY <1>2 DEF AbortExplained, Explained
  <2>4. QED  BY <1>1, <2>2, <2>3 DEF args, piece
<1>3. CASE exit # "abort"
  <2>1. CASE Program \/ Verify \/ Read
    <3>1. /\ pc \in InCall /\ ~all /\ UNCHANGED <<args, piece>>
          /\ \E whole, stage, next : Begin(whole, stage, next)
      BY <2>1, <1>3
      DEF Program, Verify, Read, TypeInv, StageOK, InCall, Erasing, Writing, Checking, Reading
    <3>2. IsP /\ (pos < job.offset \/ RangeEnd < pos + Size)
      BY <3>1, <1>3, BeginAbort
    <3>3. Explained  BY <3>2 DEF Explained
    <3>4. QED  BY <1>1, <3>1, <3>3 DEF args, piece
  <2>2. CASE ServeProm
    <3>1. /\ pc = "prom" /\ UNCHANGED <<args, piece>> /\ ~Single /\ OutOfBounds(Take)
          /\ k \in PromNr /\ ~Before /\ pos < RangeEnd
      BY <2>2, <1>3 DEF ServeProm, Fail
    <3>2. Meeting
      BY <3>1 DEF TypeInv, BasicOK, StageOK, RangeOK, Meeting, Erasing
    <3>3. Take \in 0..Take  BY <3>2, PieceSizes
    <3>4. StartsInside  BY <3>1, <3>2, <3>3, SourceFits DEF OutOfBounds
    <3>5. Explained  BY <3>4 DEF Explained
    <3>6. QED  BY <1>1, <3>1, <3>5 DEF args, piece
  <2>3. CASE Fetched
    <3> DEFINE n == Len(cur.data)
    <3>1. /\ pc = "fetched" /\ UNCHANGED <<args, piece>> /\ ~Single
          /\ OutOfBounds(n) \/ (Source < 0 /\ n > 0)
      BY <2>3, <1>3 DEF Fetched, Fail
    <3>2. Meeting  BY <3>1, ReadFacts DEF Reading
    <3>3. n \in 0..Take
      <4>1. Take \in Nat  BY <3>2, PieceSizes
      <4>2. cur.data \in Seq({0, 1}) /\ (cur.data = <<>> \/ Len(cur.data) <= Take)
        BY <3>1 DEF TypeInv, PieceOK
      <4>3. QED  BY <4>1, <4>2
    <3> HIDE DEF n
    <3>4. StartsInside  BY <3>1, <3>2, <3>3, SourceFits DEF OutOfBounds
    <3>5. Explained  BY <3>4 DEF Explained
    <3>6. QED  BY <1>1, <3>1, <3>5 DEF args, piece
  <2>4. QED  BY <2>1, <2>2, <2>3, <1>3, AbortingSteps
<1>4. QED  BY <1>2, <1>3

(* programXCF dies of an exception or an assertion only for a range that   *)
(* starts inside one of several PROMs, or that an XCFP does not fill.      *)
THEOREM AbortIsExplained == Spec => []AbortExplained
<1>1. Init => TypeInv /\ AbortExplained
  <2>1. Init => AbortExplained  BY DEF Init, AbortExplained
  <2>2. QED  BY <2>1, TypeInit
<1>2. TypeInv /\ AbortExplained /\ [Next]_vars => (TypeInv /\ AbortExplained)'
  BY TypeStep, AbortStep
<1>3. QED  BY <1>1, <1>2, PTL DEF Spec

LEMMA IscStep == TypeInv /\ IscClosed /\ [Next]_vars => IscClosed'
<1> SUFFICES ASSUME TypeInv, IscClosed, [Next]_vars PROVE IscClosed'
  OBVIOUS
<1>1. CASE \E p \in PromNr : PromDone(p)
  <2>1. UNCHANGED <<chain, job, k, pc, exit>>
    BY <1>1 DEF PromDone, args, piece
  <2>2. \A p \in PromNr : prom'[p].isc = prom[p].isc
    BY <1>1, <2>1, DoneEffect DEF TypeInv
  <2>3. pc = "advance" \/ exit = "program" => k \in PromNr  BY DEF TypeInv, StageOK
  <2>4. QED  BY <2>1, <2>2, <2>3 DEF IscClosed
<1>2. CASE UNCHANGED vars
  BY <1>2 DEF IscClosed, vars, args, piece
<1>3. CASE Verified \/ Programmed
  <2>1. /\ pc \in InCall /\ pc \in {"verified", "programmed"}
        /\ UNCHANGED <<chain, job, k>>
        /\ pc' = "advance" \/ exit' = "program" => SetProm(Disabled(prom[k]))
        /\ exit' \in {exit, "program"} /\ exit = "none"
    BY <1>3 DEF Verified, Programmed, Fail, Drop, args, piece, InCall, Writing, Checking,
                TypeInv, BasicOK, StageOK
  <2>2. SetProm(Disabled(prom[k])) => ~prom'[k].isc
    <3>1. /\ k \in PromNr /\ prom[k] \in PromSet(Size) /\ prom[k].addr % BlockSize = 0
          /\ Size \in Nat
      BY <2>1, InCallFacts
    <3>2. Disabled(prom[k]) \in PromSet(Size) /\ Disabled(prom[k]).addr = prom[k].addr
          /\ ~Disabled(prom[k]).isc
      BY <3>1, SwitchType
    <3>3. QED  BY <2>1, <3>1, <3>2, SetPromEffect DEF TypeInv
  <2>3. QED  BY <2>1, <2>2 DEF IscClosed
<1>4. CASE Fetched
  <2>1. pc = "fetched" /\ job' = job /\ exit' # "program"
    BY <1>4 DEF Fetched, Fail, args, TypeInv, StageOK
  <2>2. job.action = "r"  BY <2>1 DEF TypeInv, StageOK, Reading
  <2>3. QED  BY <2>1, <2>2 DEF IscClosed
<1>5. CASE Host /\ ~(Verified \/ Programmed \/ Fetched)
  <2>1. pc' # "advance"  BY <1>5, StagesAfter DEF Host, Writing
  <2>2. exit = "none"
    BY <1>5, StagesAfter DEF Host, Writing, Checking, Reading, TypeInv, StageOK
  <2>3. EraseStep => exit' # "program"
    BY <2>2 DEF EraseStep, EraseAll, EraseRefused, Erase, ErasePoll, Erased, Fail
  <2>4. ProgramStep => exit' # "program"
    BY <1>5, <2>2 DEF ProgramStep, Program, SendBlock, ProgramPoll, BlocksDone,
                      WriteRegister, Begin, Throw, Fail
  <2>5. VerifyStep \/ ReadStep => exit' # "program"
    BY <1>5, <2>2 DEF VerifyStep, Verify, CompareBlock, CompareEnd, CompareRegisters,
                      ReadStep, Read, Fetch, FetchEnd, Begin, Throw, Fail
  <2>6. RangeStep \/ Open => exit' # "program"
    BY <2>2 DEF RangeStep, Advance, EndOfRange, ServeProm, CloseFile, Return, Open,
                OpenFile, Fail
  <2>7. QED  BY <1>5, <2>1, <2>3, <2>4, <2>5, <2>6 DEF Host, IscClosed
<1>6. QED  BY <1>1, <1>2, <1>3, <1>4, <1>5 DEF Next

(* A PROM that was verified, or that program failed on, is out of ISC      *)
(* mode, so that the FPGA can be configured from it.                       *)
THEOREM IscIsClosed == Spec => []IscClosed
<1>1. Init => TypeInv /\ IscClosed
  <2>1. Init => IscClosed  BY DEF Init, IscClosed
  <2>2. QED  BY <2>1, TypeInit
<1>2. TypeInv /\ IscClosed /\ [Next]_vars => (TypeInv /\ IscClosed)'
  BY TypeStep, IscStep
<1>3. QED  BY <1>1, <1>2, PTL DEF Spec

------------------------------------------------------------------------------
(***************************************************************************)
(* What the bytes of the PROMs, of the piece and of the file have to do    *)
(* with each other.                                                        *)
(***************************************************************************)

(* Unless a call gave up, only the PROM waited for is at work.             *)
BusyOK ==
  /\ \A p \in PromNr : ~prom[p].busy => prom[p].todo = prom[p].cells
  /\ ~late => \A p \in PromNr : prom[p].busy => p = k /\ pc \in {"erasing", "programming"}

(* The bytes of the piece verify has found right.                          *)
SameTo(n) == \A b \in 1..Span : b <= n => prom[k].cells[cur.offset + b - 1] = cur.data[b]

CompareOK ==
  /\ pc = "compare" => /\ prom[k].isc /\ ret = 0 /\ SameTo(i)
                       /\ IsP /\ i % ArraySize # 0 => prom[k].addr = i
  /\ pc = "registers?" => IsP /\ (ret = 0 => SameTo(Span))
  /\ pc = "verified" => /\ ret = 0 => SameTo(Span)
                        /\ ~IsP /\ SameTo(Span) /\ ~Refuses => ret = 0

(* The bytes of the piece read has fetched.                                *)
FetchedTo(n) ==
  \A b \in 1..Len(cur.data) : b <= n => cur.data[b] = prom[k].cells[From + b - 1]

FetchOK ==
  /\ pc = "fetch" => prom[k].isc /\ FetchedTo(i)
  /\ pc = "fetched" /\ ret = 0 => /\ FetchedTo(Len(cur.data)) /\ Len(cur.data) = Room
                                  /\ IsP => cur.offset = 0 /\ cur.rlength \in {0, Size} /\ ~BadBtc

(* A PROM holds, or the file has, what the range has of it.                *)
InRange(p, a) == job.offset <= Base[p] + a /\ Base[p] + a < RangeEnd
PlaceIn(p, a) == Base[p] + a - job.offset + 1
PromHolds(p) ==
  \A a \in 0..(chain[p].size - 1) :
    InRange(p, a) => prom[p].cells[a] = job.data[PlaceIn(p, a)]
PromRead(p) ==
  \A a \in 0..(chain[p].size - 1) :
    InRange(p, a) /\ Given(p) => PlaceIn(p, a) \in DOMAIN out /\ out[PlaceIn(p, a)] = prom[p].cells[a]

(* The PROMs the file argument is done with.                               *)
Past(p) == \/ pc \in InCall \cup {"prom", "advance"} /\ p < k
           \/ pc = "advance" /\ p = k
           \/ pc = "saved"

Served(p) == IF job.action = "r" THEN PromRead(p) ELSE PromHolds(p)

FileOK ==
  ~all /\ ~dropped /\ ~late /\ ~StartsInside => \A p \in PromNr : Past(p) => Served(p)

OutOK ==
  ~all /\ ~Single /\ job.action = "r" /\ pc \in InCall \cup {"prom", "advance", "saved"}
    => Len(out) = job.rlength

------------------------------------------------------------------------------
(***************************************************************************)
(* Which steps change bytes, and which PROM's.                             *)
(***************************************************************************)
SameBytes(c, d) == c.cells = d.cells /\ c.todo = d.todo /\ c.busy = d.busy

(* Only erase and program change what a PROM holds or works towards.       *)
LEMMA OtherCommands ==
  ASSUME NEW n \in Nat, NEW c \in PromSet(n), NEW a, NEW r, NEW new
  PROVE  /\ SameBytes(Enabled(c), c) /\ SameBytes(Disabled(c), c)
         /\ SameBytes(IscAddress(c, a), c) /\ SameBytes(Passed(c), c)
         /\ SameBytes([c EXCEPT !.regs[r] = new], c)
         /\ Enabled(c).regs = c.regs /\ Disabled(c).regs = c.regs
         /\ Passed(c).regs = c.regs /\ Passed(c).isc = c.isc
BY DEF SameBytes, Enabled, Disabled, IscAddress, Passed, PromSet

LEMMA AddressedBytes ==
  ASSUME NEW n \in Nat, NEW c \in PromSet(n), NEW first
  PROVE  SameBytes(Addressed(c, first), c) /\ Addressed(c, first).isc = c.isc
BY DEF SameBytes, Addressed, IscAddress, PromSet

LEMMA SetBytes ==
  ASSUME PromsOK, k \in PromNr, NEW c, SetProm(c)
  PROVE  prom'[k] = c /\ \A p \in PromNr : p # k => prom'[p] = prom[p]
BY DEF SetProm, PromsOK

(* The host works on one PROM at a time.                                   *)
LEMMA HostBytes ==
  ASSUME TypeInv, Host
  PROVE  /\ UNCHANGED chain /\ \A p \in PromNr : p # k => prom'[p] = prom[p]
         /\ ~Erase /\ ~SendBlock => \A p \in PromNr : SameBytes(prom'[p], prom[p])
<1>1. chain' = chain
  BY DEF Host, EraseStep, EraseAll, EraseRefused, Erase, ErasePoll, Erased,
     ProgramStep, Program, SendBlock, ProgramPoll, BlocksDone, WriteRegister, Programmed,
     VerifyStep, Verify, CompareBlock, CompareEnd, CompareRegisters, Verified,
     ReadStep, Read, Fetch, FetchEnd, Fetched, RangeStep, Advance, EndOfRange, ServeProm,
     CloseFile, Return, Open, OpenFile, args
<1> DEFINE Kept == /\ \A p \in PromNr : p # k => prom'[p] = prom[p]
                   /\ \A p \in PromNr : SameBytes(prom'[p], prom[p])
<1>2. CASE prom' = prom
  BY <1>1, <1>2 DEF SameBytes
<1>3. CASE pc \in InCall /\ Erase
  <2>1. k \in PromNr /\ \E c : SetProm(c)  BY <1>3, InCallFacts DEF Erase
  <2>2. QED  BY <1>1, <1>3, <2>1, SetBytes DEF TypeInv
<1>4. CASE pc \in InCall /\ SendBlock
  <2>1. k \in PromNr /\ \E c : SetProm(c)  BY <1>4, InCallFacts DEF SendBlock
  <2>2. QED  BY <1>1, <1>4, <2>1, SetBytes DEF TypeInv
<1>5. ASSUME NEW c, pc \in InCall, SetProm(c), SameBytes(c, prom[k]) PROVE Kept
  <2>1. k \in PromNr  BY <1>5, InCallFacts
  <2>2. prom'[k] = c /\ \A p \in PromNr : p # k => prom'[p] = prom[p]
    BY <2>1, <1>5, SetBytes DEF TypeInv
  <2>3. QED  BY <2>2, <1>5 DEF SameBytes
<1>6. CASE pc \in InCall /\ Host /\ ~Erase /\ ~SendBlock /\ prom' # prom
  <2>1. prom[k] \in PromSet(Size) /\ Size \in Nat  BY <1>6, InCallFacts
  <2>2. CASE SetProm(Disabled(prom[k])) \/ SetProm(Enabled(prom[k]))
    <3>1. SameBytes(Enabled(prom[k]), prom[k]) /\ SameBytes(Disabled(prom[k]), prom[k])
      BY <2>1, OtherCommands
    <3>2. QED  BY <3>1, <2>2, <1>5, <1>6, <1>1
  <2>3. CASE CompareBlock
    <3>1. SetProm(Passed(Addressed(prom[k], 0))) /\ pc = "compare" /\ i < Span
      BY <2>3 DEF CompareBlock
    <3>2. Addressed(prom[k], 0) \in PromSet(Size)  BY <3>1, AddressedType
    <3>3. SameBytes(Passed(Addressed(prom[k], 0)), Addressed(prom[k], 0))
      BY <2>1, <3>2, OtherCommands
    <3>4. SameBytes(Passed(Addressed(prom[k], 0)), prom[k])
      BY <2>1, <3>3, AddressedBytes DEF SameBytes
    <3>5. QED  BY <3>1, <3>4, <1>5, <1>6, <1>1
  <2>4. CASE Fetch
    <3> DEFINE c == Addressed(prom[k], FirstArray * ArraySize)
    <3>1. SetProm(Passed(c)) /\ pc = "fetch" /\ i < Len(cur.data)
      BY <2>4 DEF Fetch
    <3>2. c \in PromSet(Size)  BY <3>1, FetchAddress
    <3>3. SameBytes(c, prom[k])  BY <2>1, AddressedBytes
    <3> HIDE DEF c
    <3>4. SameBytes(Passed(c), prom[k])
      BY <2>1, <3>2, <3>3, OtherCommands DEF SameBytes
    <3>5. QED  BY <3>1, <3>4, <1>5, <1>6, <1>1
  <2>5. CASE WriteRegister
    <3>1. PICK r, new : \/ SetProm([prom[k] EXCEPT !.regs[r] = new])
                        \/ SetProm(Disabled([prom[k] EXCEPT !.regs[r] = new]))
      BY <2>5 DEF WriteRegister
    <3>2. SameBytes([prom[k] EXCEPT !.regs[r] = new], prom[k])  BY <2>1, OtherCommands
    <3>3. SameBytes(Disabled([prom[k] EXCEPT !.regs[r] = new]), prom[k])
      BY <2>1 DEF SameBytes, Disabled, PromSet
    <3>4. QED  BY <3>1, <3>2, <3>3, <1>5, <1>6, <1>1
  <2>6. CASE ~CompareBlock /\ ~Fetch /\ ~WriteRegister
    <3>1. SetProm(Disabled(prom[k])) \/ SetProm(Enabled(prom[k]))
      BY <1>6, <2>6
      DEF Host, EraseStep, EraseAll, EraseRefused, ErasePoll, Erased,
        ProgramStep, Program, ProgramPoll, BlocksDone, Programmed,
        VerifyStep, Verify, CompareEnd, CompareRegisters, Verified,
        ReadStep, Read, FetchEnd, Fetched, RangeStep, Advance, EndOfRange, ServeProm,
        CloseFile, Return, Open, OpenFile, Begin, Throw
    <3>2. QED  BY <2>2, <3>1
  <2>7. QED  BY <2>3, <2>4, <2>5, <2>6
<1>7. prom' # prom => pc \in InCall
  BY DEF Host, EraseStep, EraseAll, EraseRefused, Erase, ErasePoll, Erased,
     ProgramStep, Program, SendBlock, ProgramPoll, BlocksDone, WriteRegister, Programmed,
     VerifyStep, Verify, CompareBlock, CompareEnd, CompareRegisters, Verified,
     ReadStep, Read, Fetch, FetchEnd, Fetched, RangeStep, Advance, EndOfRange, ServeProm,
     CloseFile, Return, Open, OpenFile, InCall, Erasing, Writing, Checking, Reading
<1>8. QED  BY <1>2, <1>3, <1>4, <1>6, <1>7


(* A PROM at rest has nothing left to do, whatever the command.            *)
LEMMA CommandRest ==
  ASSUME NEW n \in Nat, NEW c \in PromSet(n), NEW data, ~c.busy => c.todo = c.cells
  PROVE  /\ ~IscErase(c).busy => IscErase(c).todo = IscErase(c).cells
         /\ ~IscProgram(c, data).busy => IscProgram(c, data).todo = IscProgram(c, data).cells
<1>1. ASSUME NEW cells PROVE ~Start(c, cells).busy => Start(c, cells).todo = Start(c, cells).cells
  BY DEF Start, PromSet
<1>2. ASSUME NEW cells, NEW v
      PROVE  LET d == [Start(c, cells) EXCEPT !.regs = v] IN ~d.busy => d.todo = d.cells
  BY DEF Start, PromSet
<1>3. ASSUME NEW cells, NEW v
      PROVE  LET d == [Start(c, cells) EXCEPT !.addr = v] IN ~d.busy => d.todo = d.cells
  BY DEF Start, PromSet
<1>4. ~IscErase(c).busy => IscErase(c).todo = IscErase(c).cells
  BY <1>2 DEF IscErase
<1>5. ~IscProgram(c, data).busy => IscProgram(c, data).todo = IscProgram(c, data).cells
  <2> DEFINE burnt == [a \in DOMAIN c.cells |->
                         IF /\ ~c.protect /\ a \in c.addr..(c.addr + BlockSize - 1)
                            /\ data[a - c.addr + 1] = 0
                         THEN 0 ELSE c.cells[a]]
  <2> HIDE DEF burnt
  <2>1. IscProgram(c, data) = IF c.busy \/ ~c.isc THEN c
                              ELSE [Start(c, burnt) EXCEPT !.addr = c.addr + BlockSize]
    BY DEF IscProgram, burnt
  <2>2. QED  BY <2>1, <1>3
<1>6. QED  BY <1>4, <1>5

(* When the host waits for a PROM, and that it only stops waiting for one  *)
(* at work by giving up.                                                   *)
LEMMA WaitSteps ==
  ASSUME TypeInv, Host, ~late'
  PROVE  /\ ~late
         /\ pc \in {"erasing", "programming"}
              => k' = k /\ (pc' = pc \/ ~prom[k].busy)
         /\ Erase \/ SendBlock
              => k' = k /\ pc' \in {"erasing", "programming"} /\ pc \notin {"erasing", "programming"}
         /\ pc' \in {"erasing", "programming"} => pc' = pc \/ Erase \/ SendBlock
<1>1. ~late
  BY DEF Host, EraseStep, EraseAll, EraseRefused, Erase, ErasePoll, Erased,
     ProgramStep, Program, SendBlock, ProgramPoll, BlocksDone, WriteRegister, Programmed,
     VerifyStep, Verify, CompareBlock, CompareEnd, CompareRegisters, Verified,
     ReadStep, Read, Fetch, FetchEnd, Fetched, RangeStep, Advance, EndOfRange, ServeProm,
     CloseFile, Return, Open, OpenFile, hist, GivesUp, Drop
<1>2. CASE pc \in {"erasing", "programming"}
  <2>1. ErasePoll \/ ProgramPoll
    <3>1. EraseStep \/ ProgramStep  BY <1>2, StagesAfter DEF Host, Checking, Reading
    <3>2. CASE EraseStep
      BY <1>2, <3>2, StagesAfter
      DEF EraseStep, EraseAll, EraseRefused, Erase, Erased
    <3>3. CASE ProgramStep
      BY <1>2, <3>3
      DEF ProgramStep, Program, SendBlock, BlocksDone, WriteRegister, Programmed, ErasePoll
    <3>4. QED  BY <3>1, <3>2, <3>3
  <2>2. k' = k /\ (pc' = pc \/ ~prom[k].busy)
    BY <2>1 DEF ErasePoll, ProgramPoll, GivesUp, piece
  <2>3. pc' \in {"erasing", "programming"} => pc' = pc
    BY <2>1 DEF ErasePoll, ProgramPoll, Result
  <2>4. ~Erase /\ ~SendBlock  BY <1>2 DEF Erase, SendBlock
  <2>5. QED  BY <1>1, <1>2, <2>2, <2>3, <2>4
<1>3. CASE pc \notin {"erasing", "programming"}
  <2>1. Erase \/ SendBlock => k' = k /\ pc' \in {"erasing", "programming"}
    BY DEF Erase, SendBlock, piece
  <2>2. pc' \in {"erasing", "programming"} => Erase \/ SendBlock
    BY <1>3, StagesAfter DEF Host, Writing, Checking, Reading
  <2>3. QED  BY <1>1, <1>3, <2>1, <2>2
<1>4. QED  BY <1>2, <1>3

LEMMA BusyStep == TypeInv /\ BusyOK /\ [Next]_vars => BusyOK'
<1> SUFFICES ASSUME TypeInv, BusyOK, [Next]_vars PROVE BusyOK'
  OBVIOUS
<1>1. CASE UNCHANGED vars
  BY <1>1 DEF BusyOK, vars, args, piece, hist, PromNr
<1>2. ASSUME NEW q \in PromNr, PromDone(q) PROVE BusyOK'
  <2>1. UNCHANGED <<chain, k, pc, late>>  BY <1>2 DEF PromDone, args, piece, hist
  <2>2. /\ PromNr' = PromNr /\ ~prom'[q].busy /\ prom'[q].todo = prom'[q].cells
        /\ \A p \in PromNr : p # q => prom'[p] = prom[p]
    BY <1>2, <2>1, DoneEffect DEF TypeInv
  <2>3. QED  BY <2>1, <2>2 DEF BusyOK
<1>3. CASE Host
  <2>1. /\ PromNr' = PromNr /\ \A p \in PromNr : p # k => prom'[p] = prom[p]
        /\ ~Erase /\ ~SendBlock => \A p \in PromNr : SameBytes(prom'[p], prom[p])
    BY <1>3, HostBytes DEF PromNr
  <2>2. CASE Erase \/ SendBlock
    <3>1. ~prom'[k].busy => prom'[k].todo = prom'[k].cells
      <4>1. /\ k \in PromNr /\ prom[k] \in PromSet(Size) /\ Size \in Nat
            /\ ~prom[k].busy => prom[k].todo = prom[k].cells
        BY <2>2, InCallFacts DEF Erase, SendBlock, InCall, Erasing, Writing, BusyOK
      <4>2. CASE Erase
        <5>1. /\ Enabled(prom[k]) \in PromSet(Size)
              /\ SameBytes(Enabled(prom[k]), prom[k])
          BY <4>1, SwitchType, OtherCommands
        <5>2. prom'[k] = IscErase(Enabled(prom[k]))
          BY <4>1, <4>2, SetBytes DEF Erase, TypeInv
        <5>3. QED  BY <4>1, <5>1, <5>2, CommandRest DEF SameBytes
      <4>3. CASE SendBlock
        <5> DEFINE c == Addressed(prom[k], 0)
        <5>1. c \in PromSet(Size) /\ SameBytes(c, prom[k])
          BY <4>1, <4>3, AddressedType, AddressedBytes DEF SendBlock
        <5>2. prom'[k] = IscProgram(c, BlockData)
          BY <4>1, <4>3, SetBytes DEF SendBlock, TypeInv
        <5> HIDE DEF c
        <5>3. QED  BY <4>1, <5>1, <5>2, CommandRest DEF SameBytes
      <4>4. QED  BY <2>2, <4>2, <4>3
    <3>2. \A p \in PromNr : ~prom'[p].busy => prom'[p].todo = prom'[p].cells
      BY <2>1, <3>1 DEF BusyOK
    <3>3. ~late' => \A p \in PromNr : prom'[p].busy => p = k' /\ pc' \in {"erasing", "programming"}
      BY <2>1, <2>2, <1>3, WaitSteps DEF BusyOK
    <3>4. QED  BY <2>1, <3>2, <3>3 DEF BusyOK
  <2>3. CASE ~Erase /\ ~SendBlock
    <3>1. \A p \in PromNr : ~prom'[p].busy => prom'[p].todo = prom'[p].cells
      BY <2>1, <2>3 DEF BusyOK, SameBytes
    <3>2. ASSUME ~late', NEW p \in PromNr, prom'[p].busy
          PROVE  p = k' /\ pc' \in {"erasing", "programming"}
      <4>1. prom[p].busy  BY <2>1, <2>3, <3>2 DEF SameBytes
      <4>2. p = k /\ pc \in {"erasing", "programming"}
        BY <4>1, <3>2, <1>3, WaitSteps DEF BusyOK
      <4>3. QED  BY <4>1, <4>2, <3>2, <1>3, WaitSteps
    <3>3. QED  BY <2>1, <3>1, <3>2 DEF BusyOK
  <2>4. QED  BY <2>2, <2>3
<1>4. QED  BY <1>1, <1>2, <1>3 DEF Next

LEMMA BusyInit == Init => BusyOK
<1> SUFFICES ASSUME Init PROVE BusyOK
  OBVIOUS
<1>1. PICK content \in Contents, protect, used \in BOOLEAN :
        prom = [p \in PromNr |-> Fresh(chain[p].kind, chain[p].size, Base[p], content,
                                       protect, used)]
  BY DEF Init
<1>2. ASSUME NEW p \in PromNr PROVE ~prom[p].busy /\ prom[p].todo = prom[p].cells
  <2> DEFINE cells == [a \in 0..(chain[p].size - 1) |-> content[Base[p] + a]]
  <2>1. prom[p].cells = cells /\ prom[p].todo = cells /\ prom[p].busy = FALSE
    BY <1>1 DEF Fresh
  <2>2. QED  BY <2>1
<1>3. QED  BY <1>2 DEF BusyOK

------------------------------------------------------------------------------
(***************************************************************************)
(* Where a command changes bytes.                                          *)
(***************************************************************************)

(* Programming a block begins to change bytes of that block only.          *)
LEMMA ProgramBytes ==
  ASSUME NEW n \in Nat, NEW c \in PromSet(n), NEW data, NEW a \in 0..(n - 1),
         ~c.busy => c.todo = c.cells, IscProgram(c, data).todo[a] # c.todo[a]
  PROVE  a \in c.addr..(c.addr + BlockSize - 1)
<1> DEFINE burnt == [x \in DOMAIN c.cells |->
                       IF /\ ~c.protect /\ x \in c.addr..(c.addr + BlockSize - 1)
                          /\ data[x - c.addr + 1] = 0
                       THEN 0 ELSE c.cells[x]]
<1>1. a \in DOMAIN c.cells  BY DEF PromSet
<1>2. SUFFICES ASSUME a \notin c.addr..(c.addr + BlockSize - 1) PROVE FALSE
  OBVIOUS
<1>3. burnt[a] = c.cells[a]  BY <1>1, <1>2
<1> HIDE DEF burnt
<1>4. IscProgram(c, data) = IF c.busy \/ ~c.isc THEN c
                            ELSE [Start(c, burnt) EXCEPT !.addr = c.addr + BlockSize]
  BY DEF IscProgram, burnt
<1>5. Start(c, burnt).todo = burnt  BY DEF Start, PromSet
<1>6. [Start(c, burnt) EXCEPT !.addr = c.addr + BlockSize].todo = burnt
  BY <1>5 DEF Start, PromSet
<1>7. QED  BY <1>3, <1>4, <1>6

(* A range that is not empty ends behind what goes to the PROM of it.      *)
LEMMA SpanInRange ==
  Meeting /\ PieceGiven /\ job.action # "r" /\ job.rlength # 0
    => pos + cur.offset + Span <= RangeEnd
<1> SUFFICES ASSUME Meeting, PieceGiven, job.action # "r", job.rlength # 0
             PROVE  pos + cur.offset + Span <= RangeEnd
  OBVIOUS
<1>1. /\ Size \in Nat /\ pos \in Nat /\ RangeEnd \in Nat /\ Length = Len(job.data)
  BY MeetingTypes DEF Length
<1>2. /\ CurrentOffset \in Nat /\ CurrentOffset < Size /\ CurrentLength \in Nat
      /\ CurrentLength # 0 => pos + CurrentOffset + CurrentLength = RangeEnd
      /\ CurrentLength = 0 => pos + Size <= RangeEnd
  BY PieceSizes
<1>3. /\ cur.offset = CurrentOffset /\ cur.rlength \in {0, CurrentLength}
      /\ cur.rlength = 0 => CurrentLength \in {0, FileLength}
      /\ Len(cur.data) \in Nat /\ Span \in Nat /\ cur.offset + Span <= Size
  BY SpanType DEF PieceGiven
<1>4. CASE CurrentLength = 0
  BY <1>1, <1>2, <1>3, <1>4
<1>5. CASE CurrentLength # 0
  <2> DEFINE n == IF cur.rlength # 0 THEN cur.rlength ELSE Len(cur.data)
  <2>1. n = CurrentLength
    BY <1>1, <1>3, <1>5 DEF FileLength, PieceGiven
  <2>2. Span = Least(n, Size - cur.offset)  BY DEF Span
  <2> HIDE DEF n
  <2>3. Span <= CurrentLength  BY <2>1, <2>2, <1>1, <1>2, <1>3 DEF Least
  <2>4. QED  BY <2>3, <1>1, <1>2, <1>3, <1>5
<1>6. QED  BY <1>4, <1>5

(* A PROM that is called for a file argument meets its range.              *)
LEMMA CalledMeets ==
  ASSUME Meeting
  PROVE  Meets(Base[k], Base[k + 1])
BY MeetingTypes, BaseStep DEF Meeting, Meets, Size

LEMMA EraseScope ==
  ASSUME TypeInv, Erase, NEW p \in PromNr, NEW a \in DOMAIN prom[p].cells,
         prom'[p].todo[a] # prom[p].todo[a]
  PROVE  InScope(p, a)
<1>1. pc = "erase" /\ k \in PromNr /\ (~all => Meeting)
  BY InCallFacts DEF Erase, InCall, Erasing
<1>2. p = k  BY HostBytes DEF Host, EraseStep
<1>3. ~all => job.action = "w"
  BY <1>1 DEF TypeInv, StageOK, Erasing
<1>4. QED  BY <1>1, <1>2, <1>3, CalledMeets DEF InScope

LEMMA SendScope ==
  ASSUME TypeInv, BusyOK, SendBlock, NEW p \in PromNr, NEW a \in DOMAIN prom[p].cells,
         prom'[p].todo[a] # prom[p].todo[a]
  PROVE  InScope(p, a)
<1> DEFINE c == Addressed(prom[k], 0)
<1>1. /\ pc = "block" /\ i < Span /\ k \in PromNr /\ Meeting /\ PieceGiven /\ Size \in Nat
      /\ prom[k] \in PromSet(Size) /\ job.action \in {"w", "W"}
  BY InCallFacts DEF SendBlock, InCall, Writing, Erasing, TypeInv, StageOK
<1>2. p = k  BY HostBytes DEF Host, ProgramStep
<1>3. /\ c \in PromSet(Size) /\ SameBytes(c, prom[k]) /\ c.addr % BlockSize = 0
      /\ c.addr <= cur.offset + i
  BY <1>1, AddressedType, AddressedBytes
<1>4. prom'[k] = IscProgram(c, BlockData)
  BY <1>1, SetBytes DEF SendBlock, TypeInv
<1>5. ~IsP => c.addr = cur.offset + i
  BY <1>1 DEF Addressed, IscAddress, PromSet
<1> HIDE DEF c
<1>6. a \in 0..(Size - 1)  BY <1>1, <1>2 DEF PromSet
<1>7. a \in c.addr..(c.addr + BlockSize - 1)
  BY <1>1, <1>2, <1>3, <1>4, <1>6, ProgramBytes DEF SameBytes, BusyOK
<1>8. CASE job.action = "w" \/ job.rlength = 0
  BY <1>1, <1>2, <1>8, CalledMeets DEF InScope
<1>9. CASE job.action = "W" /\ job.rlength # 0
  <2>1. (a \div BlockSize) * BlockSize = c.addr
    <3>1. c.addr \in Nat /\ c.addr % BlockSize = 0  BY <1>3 DEF PromSet
    <3>2. PICK q \in Int : c.addr = BlockSize * q
      <4>1. \A m \in Int : m % BlockSize = 0 => \E q \in Int : m = BlockSize * q
        BY Multiples, Sizes
      <4>2. QED  BY <3>1, <4>1
    <3>3. a \div BlockSize \in Int /\ a % BlockSize \in 0..(BlockSize - 1)
          /\ a = BlockSize * (a \div BlockSize) + (a % BlockSize)
      <4>1. \A m \in Int : /\ m % BlockSize \in 0..(BlockSize - 1)
                           /\ m = BlockSize * (m \div BlockSize) + (m % BlockSize)
                           /\ m \div BlockSize \in Int
        BY Multiples, Sizes
      <4>2. QED  BY <4>1, <1>6
    <3> DEFINE d == a \div BlockSize
    <3> HIDE DEF d
    <3>4. d \in Int /\ BlockSize * d <= a /\ a < BlockSize * d + BlockSize
      BY <3>3, Sizes DEF d
    <3>5. BlockSize * q <= a /\ a < BlockSize * q + BlockSize
      BY <3>1, <3>2, <1>7, Sizes
    <3>6. \A m, n \in Int : m < n => BlockSize * m + BlockSize <= BlockSize * n
      BY Order, Sizes
    <3>7. BlockSize * q \in Int /\ BlockSize * d \in Int  BY <3>4, Sizes
    <3>8. d = q  BY <3>4, <3>5, <3>6, <3>7, <1>6, Sizes
    <3>9. d * BlockSize = BlockSize * d  BY <3>4, Sizes
    <3>10. QED  BY <3>2, <3>8, <3>9 DEF d
  <2>2. /\ pos \in Nat /\ RangeEnd \in Nat /\ job.offset \in Nat /\ c.addr \in Nat
        /\ cur.offset \in Nat /\ Span \in Nat /\ i \in Nat
    <3>1. pos \in Nat /\ RangeEnd \in Nat /\ job.offset \in Nat  BY <1>1, MeetingTypes
    <3>2. cur.offset \in Nat /\ Span \in Nat  BY <1>1, SpanType
    <3>3. c.addr \in Nat  BY <1>3 DEF PromSet
    <3>4. i \in Nat  BY DEF TypeInv, BasicOK
    <3>5. QED  BY <3>1, <3>2, <3>3, <3>4
  <2>3. pos + cur.offset + Span <= RangeEnd
    BY <1>1, <1>9, SpanInRange
  <2>4. pos + c.addr < RangeEnd  BY <2>2, <2>3, <1>1, <1>3
  <2>5. job.offset <= pos + c.addr
    <3>1. pos + cur.offset >= job.offset
      BY <1>1, PieceSizes DEF PieceGiven
    <3>2. IsP => cur.offset = 0
      BY <1>1 DEF TypeInv, PlaceOK, InBlocks
    <3>3. QED  BY <3>1, <3>2, <2>2, <1>5
  <2>6. Base[k] = pos  BY <1>1 DEF Meeting
  <2>7. Meets(Base[k] + c.addr, Base[k] + c.addr + BlockSize)
    BY <2>2, <2>4, <2>5, <2>6, Sizes DEF Meets
  <2>8. QED  BY <2>1, <2>7, <1>2, <1>9 DEF InScope
<1>10. QED  BY <1>1, <1>8, <1>9

LEMMA ScopeStep ==
  ASSUME TypeInv, BusyOK, [Next]_vars
  PROVE  [\A p \in PromNr : \A a \in DOMAIN prom[p].cells :
            prom'[p].todo[a] # prom[p].todo[a]
              => (prom[p].busy /\ ~prom'[p].busy) \/ InScope(p, a)]_vars
<1> SUFFICES ASSUME Next, NEW p \in PromNr, NEW a \in DOMAIN prom[p].cells,
                    prom'[p].todo[a] # prom[p].todo[a]
             PROVE  (prom[p].busy /\ ~prom'[p].busy) \/ InScope(p, a)
  OBVIOUS
<1>1. ASSUME NEW q \in PromNr, PromDone(q)
      PROVE  prom[p].busy /\ ~prom'[p].busy
  <2>1. chain' = chain  BY <1>1 DEF PromDone, args
  <2>2. /\ prom[q].busy /\ ~prom'[q].busy
        /\ \A x \in PromNr : x # q => prom'[x] = prom[x]
    BY <1>1, <2>1, DoneEffect DEF TypeInv
  <2>3. QED  BY <2>2
<1>2. CASE Erase  BY <1>2, EraseScope
<1>3. CASE SendBlock  BY <1>3, SendScope
<1>4. CASE Host /\ ~Erase /\ ~SendBlock
  BY <1>4, HostBytes DEF SameBytes
<1>5. QED  BY <1>1, <1>2, <1>3, <1>4 DEF Next

(* No command changes a byte outside the scope of the argument at work:    *)
(* -e the PROM it is at, w the PROMs the range meets, W the blocks of it.  *)
THEOREM CommandStaysInScope == Spec => StaysInScope
<1>1. TypeInv /\ BusyOK /\ [Next]_vars
        => [\A p \in PromNr : \A a \in DOMAIN prom[p].cells :
              prom'[p].todo[a] # prom[p].todo[a]
                => (prom[p].busy /\ ~prom'[p].busy) \/ InScope(p, a)]_vars
  BY ScopeStep
<1>2. QED
  BY <1>1, TypeInit, TypeStep, BusyInit, BusyStep, PTL DEF Spec, StaysInScope

------------------------------------------------------------------------------
(***************************************************************************)
(* What verify says is so.                                                 *)
(***************************************************************************)
CompareInv == ~late => CompareOK

(* A block read from a PROM in ISC mode and at rest is what it holds.      *)
LEMMA ReadBytes ==
  ASSUME NEW n \in Nat, NEW c \in PromSet(n), c.addr + BlockSize <= n, ~c.busy, c.isc,
         NEW b \in 1..BlockSize
  PROVE  IscRead(c)[b] = c.cells[c.addr + b - 1]
<1>1. c.addr \in Nat /\ DOMAIN c.cells = 0..(n - 1)  BY DEF PromSet
<1>2. c.addr + b - 1 \in DOMAIN c.cells  BY <1>1, Sizes
<1>3. QED  BY <1>2 DEF IscRead

LEMMA Resting ==
  TypeInv /\ BusyOK /\ ~late /\ pc \notin {"erasing", "programming"}
    => \A p \in PromNr : ~prom[p].busy
BY DEF BusyOK

(* The address a block to compare comes from is where it should be.        *)
LEMMA CompareAddress ==
  ASSUME TypeInv, CompareOK, pc = "compare", i < Span
  PROVE  Addressed(prom[k], 0).addr = cur.offset + i
<1>1. prom[k] \in PromSet(Size) /\ i \in Nat /\ cur.offset \in Nat
  BY InCallFacts DEF InCall, Checking, TypeInv, BasicOK, PieceOK
<1>2. /\ IsP => cur.offset = 0
      /\ IsP /\ i % ArraySize # 0 => prom[k].addr = i
  BY DEF TypeInv, PlaceOK, InBlocks, CompareOK
<1>3. CASE ~IsP
  BY <1>1, <1>3 DEF Addressed, IscAddress, PromSet
<1>4. CASE IsP /\ i % ArraySize = 0
  BY <1>1, <1>2, <1>4 DEF Addressed, IscAddress, PromSet
<1>5. CASE IsP /\ i % ArraySize # 0
  BY <1>1, <1>2, <1>5 DEF Addressed
<1>6. QED  BY <1>3, <1>4, <1>5

LEMMA CompareBlockStep ==
  ASSUME TypeInv, BusyOK, ~late, CompareOK, CompareBlock
  PROVE  CompareOK'
<1> DEFINE c == Addressed(prom[k], 0)
           same == \A b \in 1..BlockSize : i + b <= Span => IscRead(c)[b] = cur.data[i + b]
<1>1. /\ pc = "compare" /\ i < Span /\ SetProm(Passed(c)) /\ i' = i + BlockSize
      /\ IF same THEN UNCHANGED <<pc, ret>>
         ELSE Result(IF IsP THEN "registers?" ELSE "verified", 1)
      /\ UNCHANGED <<chain, job, k, pos, cur>>
  BY DEF CompareBlock, args, piece
<1>2. /\ k \in PromNr /\ Size \in Nat /\ prom[k] \in PromSet(Size) /\ ~prom[k].busy
      /\ i \in Nat /\ ret = 0 /\ prom[k].isc /\ SameTo(i)
  BY <1>1, InCallFacts, Resting DEF InCall, Checking, TypeInv, BasicOK, CompareOK
<1>3. Span \in Nat /\ cur.offset \in Nat /\ cur.offset + Span <= Size
  <2>1. Meeting /\ PieceGiven /\ job.action # "r"
    BY <1>1, InCallFacts DEF InCall, Checking, Erasing, TypeInv, StageOK
  <2>2. QED  BY <2>1, SpanType
<1>4. /\ c \in PromSet(Size) /\ c.addr = cur.offset + i /\ c.addr + BlockSize <= Size
      /\ c.cells = prom[k].cells /\ ~c.busy /\ c.isc
  BY <1>1, <1>2, AddressedType, AddressedBytes, CompareAddress DEF SameBytes
<1>5. prom'[k] = Passed(c)  BY <1>1, <1>2, SetBytes DEF TypeInv
<1> HIDE DEF c
<1>6. same <=> \A b \in 1..BlockSize : i + b <= Span
                 => prom[k].cells[cur.offset + (i + b) - 1] = cur.data[i + b]
  <2>1. ASSUME NEW b \in 1..BlockSize
        PROVE  IscRead(c)[b] = prom[k].cells[cur.offset + (i + b) - 1]
    <3>1. IscRead(c)[b] = c.cells[c.addr + b - 1]  BY <1>2, <1>4, ReadBytes
    <3>2. c.addr + b - 1 = cur.offset + (i + b) - 1  BY <1>2, <1>3, <1>4, Sizes
    <3>3. QED  BY <3>1, <3>2, <1>4
  <2>2. QED  BY <2>1
<1> HIDE DEF same
<1>7. /\ prom'[k].cells = prom[k].cells /\ prom'[k].isc
      /\ prom'[k].addr = cur.offset + i + BlockSize
  BY <1>4, <1>5 DEF Passed, PromSet
<1>8. Span' = Span /\ IsP' = IsP /\ Refuses' = Refuses
  BY <1>1, Steady, SteadyPiece DEF Refuses
<1>9. CASE same
  <2>1. pc' = "compare" /\ ret' = 0  BY <1>1, <1>2, <1>9
  <2>2. ASSUME NEW b \in 1..Span, b <= i + BlockSize
        PROVE  prom[k].cells[cur.offset + b - 1] = cur.data[b]
    <3>1. CASE b <= i  BY <3>1, <1>2 DEF SameTo
    <3>2. CASE b > i
      <4>1. b - i \in 1..BlockSize /\ i + (b - i) = b /\ b <= Span
        BY <3>2, <2>2, <1>2, <1>3, Sizes
      <4>2. QED  BY <4>1, <1>6, <1>9
    <3>3. QED  BY <3>1, <3>2, <1>2, <1>3
  <2>3. SameTo(i)'
    <3>1. /\ Span' = Span /\ k' = k /\ cur' = cur /\ i' = i + BlockSize
          /\ prom'[k].cells = prom[k].cells
      BY <1>1, <1>7, <1>8
    <3>2. QED  BY <3>1, <2>2 DEF SameTo
  <2>4. IsP => prom'[k].addr = i'
    <3>1. IsP => cur.offset = 0  BY <1>1 DEF TypeInv, PlaceOK, InBlocks
    <3>2. QED  BY <3>1, <1>1, <1>2, <1>7, Sizes
  <2>5. QED  BY <1>1, <1>7, <1>8, <2>1, <2>3, <2>4 DEF CompareOK
<1>10. CASE ~same
  <2>1. pc' = (IF IsP THEN "registers?" ELSE "verified") /\ ret' = 1
    BY <1>1, <1>10 DEF Result
  <2>2. ~SameTo(Span)'
    <3>1. PICK b \in 1..BlockSize : /\ i + b <= Span
                                    /\ prom[k].cells[cur.offset + (i + b) - 1] # cur.data[i + b]
      BY <1>6, <1>10
    <3>2. i + b \in 1..Span  BY <3>1, <1>2, <1>3, Sizes
    <3>3. ~SameTo(Span)  BY <3>1, <3>2, <1>3 DEF SameTo
    <3>4. SameTo(Span)' <=> SameTo(Span)
      BY <1>1, <1>7, <1>8 DEF SameTo
    <3>5. QED  BY <3>3, <3>4
  <2>3. QED  BY <1>8, <2>1, <2>2 DEF CompareOK
<1>11. QED  BY <1>9, <1>10

LEMMA VerifyStarts ==
  ASSUME TypeInv, Verify
  PROVE  CompareOK'
<1>1. /\ pc = "verify" /\ Begin(Len(cur.data), "compare", "verified")
      /\ UNCHANGED <<args, piece, cur>> /\ UNCHANGED <<chain, job, k, pos>>
  BY DEF Verify, args, piece
<1>2. IsP' = IsP /\ Refuses' = Refuses
  BY <1>1, Steady DEF Refuses
<1>3. k \in PromNr /\ prom[k] \in PromSet(Size) /\ Size \in Nat
  BY <1>1, InCallFacts DEF InCall, Checking
<1>4. CASE Throws(Len(cur.data)) /\ Throw
  BY <1>4 DEF Throw, Fail, CompareOK
<1>5. CASE Refuses /\ Result("verified", -1) /\ UNCHANGED <<prom, i, exit>>
  BY <1>2, <1>5 DEF Result, CompareOK
<1>6. CASE IsP /\ ~Throws(Len(cur.data)) /\ Result("verified", 1) /\ UNCHANGED <<prom, i, exit>>
  BY <1>2, <1>6 DEF Result, CompareOK
<1>7. CASE Result("compare", 0) /\ i' = 0 /\ SetProm(Enabled(prom[k]))
  <2>1. prom'[k].isc
    BY <1>3, <1>7, SetBytes, SwitchType DEF TypeInv
  <2>2. SameTo(i)'
    <3>1. \A b \in 1..Span' : ~(b <= 0)  OBVIOUS
    <3>2. QED  BY <3>1, <1>7 DEF SameTo
  <2>3. 0 % ArraySize = 0  BY Sizes
  <2>4. QED  BY <1>1, <1>7, <2>1, <2>2, <2>3 DEF Result, CompareOK
<1>8. QED  BY <1>1, <1>4, <1>5, <1>6, <1>7 DEF Begin

LEMMA CompareEnds ==
  ASSUME TypeInv, CompareOK, CompareEnd \/ CompareRegisters
  PROVE  CompareOK'
<1>1. UNCHANGED <<chain, job, k, pos, cur>> /\ UNCHANGED i
  BY DEF CompareEnd, CompareRegisters, args, piece
<1>2. Span' = Span /\ IsP' = IsP /\ Refuses' = Refuses
  BY <1>1, Steady, SteadyPiece DEF Refuses
<1>3. k \in PromNr /\ prom'[k].cells = prom[k].cells
  <2>1. k \in PromNr  BY InCallFacts DEF CompareEnd, CompareRegisters, InCall, Checking
  <2>2. QED  BY <2>1, HostBytes DEF Host, VerifyStep, CompareEnd, CompareRegisters, Erase, SendBlock,
                                     SameBytes
<1>4. SameTo(Span)' <=> SameTo(Span)
  BY <1>1, <1>2, <1>3 DEF SameTo
<1>5. CASE CompareEnd
  <2>1. /\ pc = "compare" /\ i >= Span /\ ret' = ret /\ ret = 0 /\ SameTo(i)
        /\ pc' = IF IsP THEN "registers?" ELSE "verified"
    BY <1>5 DEF CompareEnd, CompareOK
  <2>2. SameTo(Span)
    <3>1. i \in Nat /\ Span \in Nat
      <4>1. Meeting /\ PieceGiven /\ job.action # "r"
        BY <2>1, InCallFacts DEF InCall, Checking, Erasing, TypeInv, StageOK
      <4>2. QED  BY <4>1, SpanType DEF TypeInv, BasicOK
    <3>2. \A b \in 1..Span : b <= i  BY <2>1, <3>1
    <3>3. QED  BY <3>2, <2>1 DEF SameTo
  <2>3. QED  BY <1>2, <1>4, <2>1, <2>2 DEF CompareOK
<1>6. CASE CompareRegisters
  <2>1. /\ pc = "registers?" /\ IsP /\ pc' = "verified" /\ ret' \in {ret, 1}
        /\ ret = 0 => SameTo(Span)
    BY <1>6 DEF CompareRegisters, Result, CompareOK
  <2>2. ret' = 0 => ret = 0  BY <2>1
  <2>3. QED  BY <1>2, <1>4, <2>1, <2>2 DEF CompareOK
<1>7. QED  BY <1>5, <1>6

LEMMA CompareStep == TypeInv /\ BusyOK /\ CompareInv /\ [Next]_vars => CompareInv'
<1> SUFFICES ASSUME TypeInv, BusyOK, CompareInv, [Next]_vars, ~late' PROVE CompareOK'
  BY DEF CompareInv
<1>1. CASE UNCHANGED vars
  <2>1. UNCHANGED <<chain, job, k, pos, cur>> /\ UNCHANGED <<prom, pc, i, ret, late>>
    BY <1>1 DEF vars, args, piece, hist
  <2>2. CompareOK  BY <2>1 DEF CompareInv
  <2>3. QED
    BY <2>1, <2>2, Steady, SteadyPiece DEF CompareOK, SameTo, Refuses
<1>2. ASSUME NEW q \in PromNr, PromDone(q) PROVE CompareOK'
  <2>1. pc' = pc /\ ~late /\ prom[q].busy  BY <1>2 DEF PromDone, hist
  <2>2. pc \in {"erasing", "programming"}  BY <2>1 DEF BusyOK
  <2>3. QED  BY <2>1, <2>2 DEF CompareOK
<1>3. CASE Host
  <2>1. ~late /\ CompareOK  BY <1>3, WaitSteps DEF CompareInv
  <2>2. CASE Verify  BY <2>2, VerifyStarts
  <2>3. CASE CompareBlock  BY <2>1, <2>3, CompareBlockStep
  <2>4. CASE CompareEnd \/ CompareRegisters  BY <2>1, <2>4, CompareEnds
  <2>5. CASE ~(Verify \/ CompareBlock \/ CompareEnd \/ CompareRegisters)
    <3>1. pc' \notin {"compare", "registers?", "verified"}
      BY <1>3, <2>5, StagesAfter DEF Host, VerifyStep, Writing, Reading
    <3>2. QED  BY <3>1 DEF CompareOK
  <2>6. QED  BY <2>2, <2>3, <2>4, <2>5
<1>4. QED  BY <1>1, <1>2, <1>3 DEF Next

(* One call of verify: no false alarm from an XCF, and never a false pass. *)
THEOREM VerifyIsExact == Spec => []VerifyExact
<1>1. Init => CompareInv
  BY DEF Init, CompareInv, CompareOK
<1>2. CompareInv => VerifyExact
  BY DEF CompareInv, CompareOK, VerifyExact, SameTo
<1>3. QED
  BY <1>1, <1>2, TypeInit, TypeStep, BusyInit, BusyStep, CompareStep, PTL DEF Spec

------------------------------------------------------------------------------
(***************************************************************************)
(* What read fetches is what the PROM holds.                               *)
(***************************************************************************)
FetchInv == ~late => FetchOK

LEMMA SteadyArrays ==
  ASSUME UNCHANGED <<chain, job, k, pos>>, prom'[k].regs = prom[k].regs,
         cur'.offset = cur.offset, cur'.rlength = cur.rlength
  PROVE  From' = From /\ Room' = Room /\ BadBtc' = BadBtc /\ IsP' = IsP /\ Size' = Size
<1>1. IsP' = IsP /\ Size' = Size  BY Steady
<1>2. FirstArray' = FirstArray /\ LastArray' = LastArray
  BY DEF FirstArray, LastArray
<1>3. QED  BY <1>1, <1>2 DEF From, Room, BadBtc

LEMMA ReadStarts ==
  ASSUME TypeInv, Read
  PROVE  FetchOK'
<1>1. pc = "read" /\ UNCHANGED <<chain, job, k, pos>>
  BY DEF Read, args, piece
<1>2. k \in PromNr /\ prom[k] \in PromSet(Size) /\ Size \in Nat
  BY <1>1, InCallFacts DEF InCall, Reading
<1>3. \/ pc' = "exit"
      \/ pc' = "fetched" /\ ret' # 0
      \/ pc' = "fetch" /\ i' = 0 /\ SetProm(Enabled(prom[k]))
  BY DEF Read, Begin, Throw, Fail, Result
<1>4. CASE pc' = "fetch" /\ i' = 0 /\ SetProm(Enabled(prom[k]))
  <2>1. prom'[k].isc
    BY <1>2, <1>4, SetBytes, SwitchType DEF TypeInv
  <2>2. FetchedTo(i)'
    <3>1. \A b \in 1..Len(cur'.data) : ~(b <= 0)  OBVIOUS
    <3>2. QED  BY <3>1, <1>4 DEF FetchedTo
  <2>3. QED  BY <1>1, <1>4, <2>1, <2>2 DEF FetchOK
<1>5. QED  BY <1>3, <1>4 DEF FetchOK

LEMMA FetchBlockStep ==
  ASSUME TypeInv, BusyOK, ~late, FetchOK, Fetch
  PROVE  FetchOK'
<1> DEFINE c == Addressed(prom[k], FirstArray * ArraySize)
           new == [b \in DOMAIN cur.data |->
                     IF b \in (i + 1)..(i + BlockSize) THEN IscRead(c)[b - i] ELSE cur.data[b]]
<1>1. /\ pc = "fetch" /\ i < Len(cur.data) /\ SetProm(Passed(c)) /\ i' = i + BlockSize
      /\ cur' = [cur EXCEPT !.data = new]
      /\ UNCHANGED <<args, pc, all, out, piece, j, ret, hist, exit>>
  BY DEF Fetch
<1>2. UNCHANGED <<chain, k, job, pos, pc>>  BY <1>1 DEF args, piece
<1>3. /\ ReadGiven /\ k \in PromNr /\ Size \in Nat /\ prom[k] \in PromSet(Size) /\ ~prom[k].busy
      /\ i \in Nat /\ prom[k].isc /\ FetchedTo(i)
  BY <1>1, ReadFacts, InCallFacts, Resting DEF Reading, TypeInv, BasicOK, FetchOK
<1>4. From \in Nat
  BY <1>1, RoomType DEF From, Reading, TypeInv, PieceOK, ReadGiven
<1>5. /\ c \in PromSet(Size) /\ c.addr = From + i
      /\ c.addr + BlockSize <= Size /\ c.cells = prom[k].cells /\ c.regs = prom[k].regs
      /\ c.isc /\ ~c.busy
  BY <1>1, <1>3, FetchAddress
<1>6. prom'[k] = Passed(c)  BY <1>1, <1>3, SetBytes DEF TypeInv
<1> HIDE DEF c
<1>7. prom'[k].cells = prom[k].cells /\ prom'[k].isc /\ prom'[k].regs = prom[k].regs
  BY <1>5, <1>6 DEF Passed, PromSet
<1>8. DOMAIN cur.data = 1..Len(cur.data) /\ Len(cur.data) \in Nat
  BY <1>3 DEF ReadGiven
<1>9. ASSUME NEW b \in 1..Len(cur.data), b <= i + BlockSize
      PROVE  new[b] = prom[k].cells[From + b - 1]
  <2>1. CASE b <= i
    <3>1. b \notin (i + 1)..(i + BlockSize)  BY <2>1, <1>3
    <3>2. new[b] = cur.data[b]  BY <3>1, <1>8
    <3>3. QED  BY <3>2, <2>1, <1>3 DEF FetchedTo
  <2>2. CASE b > i
    <3>1. b \in (i + 1)..(i + BlockSize) /\ b - i \in 1..BlockSize
      BY <2>2, <1>3, <1>9, Sizes
    <3>2. new[b] = IscRead(c)[b - i]  BY <3>1, <1>8
    <3>3. IscRead(c)[b - i] = c.cells[c.addr + (b - i) - 1]
      BY <3>1, <1>3, <1>5, ReadBytes
    <3>4. c.addr + (b - i) - 1 = From + b - 1  BY <1>3, <1>4, <1>5
    <3>5. QED  BY <3>2, <3>3, <3>4, <1>5
  <2>3. QED  BY <2>1, <2>2, <1>3
<1> HIDE DEF new
<1>10. cur'.data = new /\ cur'.offset = cur.offset /\ cur'.rlength = cur.rlength
  BY <1>1, <1>3 DEF ReadGiven
<1>11. From' = From /\ Room' = Room  BY <1>2, <1>7, <1>10, SteadyArrays
<1>12. Len(cur'.data) = Len(cur.data)
  <2>1. Len(cur'.data) = Room'  BY <1>1, FetchTyped DEF TypeInv, PieceOK
  <2>2. QED  BY <2>1, <1>1, <1>11 DEF TypeInv, PieceOK
<1>13. FetchedTo(i)'
  BY <1>1, <1>2, <1>7, <1>9, <1>10, <1>11, <1>12 DEF FetchedTo
<1>14. QED  BY <1>1, <1>2, <1>7, <1>13 DEF FetchOK

LEMMA FetchEnds ==
  ASSUME TypeInv, FetchOK, FetchEnd
  PROVE  FetchOK'
<1>1. /\ pc = "fetch" /\ i >= Len(cur.data) /\ pc' = "fetched" /\ UNCHANGED cur
      /\ UNCHANGED <<chain, job, k, pos>>
      /\ prom' = prom \/ SetProm(Disabled(prom[k]))
  BY DEF FetchEnd, Result, args, piece
<1>2. k \in PromNr /\ Size \in Nat /\ prom[k] \in PromSet(Size) /\ i \in Nat
  BY <1>1, ReadFacts, InCallFacts DEF Reading, TypeInv, BasicOK
<1>3. prom'[k].cells = prom[k].cells /\ prom'[k].regs = prom[k].regs
  <2>1. CASE prom' = prom  BY <2>1
  <2>2. CASE SetProm(Disabled(prom[k]))
    BY <2>2, <1>2, SetBytes, OtherCommands DEF TypeInv, SameBytes
  <2>3. QED  BY <1>1, <2>1, <2>2
<1>4. From' = From /\ Room' = Room /\ BadBtc' = BadBtc /\ IsP' = IsP /\ Size' = Size
  BY <1>1, <1>3, SteadyArrays
<1>5. /\ Len(cur.data) = Room /\ (IsP => ~BadBtc)
      /\ IsP => cur.offset = 0 /\ cur.rlength \in {0, Size}
  BY <1>1 DEF TypeInv, PieceOK, PlaceOK, InBlocks
<1>6. FetchedTo(Len(cur.data))'
  <2>1. cur.data \in Seq({0, 1})  BY DEF TypeInv, PieceOK
  <2>2. \A b \in 1..Len(cur.data) : b <= i  BY <1>1, <1>2, <2>1
  <2>3. FetchedTo(i)  BY <1>1 DEF FetchOK
  <2>4. \A b \in 1..Len(cur.data) : cur.data[b] = prom[k].cells[From + b - 1]
    BY <2>2, <2>3 DEF FetchedTo
  <2>5. QED  BY <2>4, <1>1, <1>3, <1>4 DEF FetchedTo
<1>7. QED  BY <1>1, <1>4, <1>5, <1>6 DEF FetchOK

LEMMA FetchStep == TypeInv /\ BusyOK /\ FetchInv /\ [Next]_vars => FetchInv'
<1> SUFFICES ASSUME TypeInv, BusyOK, FetchInv, [Next]_vars, ~late' PROVE FetchOK'
  BY DEF FetchInv
<1>1. CASE UNCHANGED vars
  <2>1. UNCHANGED <<chain, job, k, pos, cur>> /\ UNCHANGED <<prom, pc, i, ret, late>>
    BY <1>1 DEF vars, args, piece, hist
  <2>2. FetchOK  BY <2>1 DEF FetchInv
  <2>3. QED
    BY <2>1, <2>2, SteadyArrays DEF FetchOK, FetchedTo
<1>2. ASSUME NEW q \in PromNr, PromDone(q) PROVE FetchOK'
  <2>1. pc' = pc /\ ~late /\ prom[q].busy  BY <1>2 DEF PromDone, hist
  <2>2. pc \in {"erasing", "programming"}  BY <2>1 DEF BusyOK
  <2>3. QED  BY <2>1, <2>2 DEF FetchOK
<1>3. CASE Host
  <2>1. ~late /\ FetchOK  BY <1>3, WaitSteps DEF FetchInv
  <2>2. CASE Read  BY <2>2, ReadStarts
  <2>3. CASE Fetch  BY <2>1, <2>3, FetchBlockStep
  <2>4. CASE FetchEnd  BY <2>1, <2>4, FetchEnds
  <2>5. CASE ~(Read \/ Fetch \/ FetchEnd)
    <3>1. pc' \notin {"fetch", "fetched"}
      BY <1>3, <2>5, StagesAfter DEF Host, ReadStep, Writing, Checking
    <3>2. QED  BY <3>1 DEF FetchOK
  <2>6. QED  BY <2>2, <2>3, <2>4, <2>5
<1>4. QED  BY <1>1, <1>2, <1>3 DEF Next

------------------------------------------------------------------------------
(***************************************************************************)
(* The file argument as a whole.                                           *)
(***************************************************************************)
Serving == InCall \cup {"prom", "advance"}

(* What is asked of a call covers the PROM's part of the range.            *)
LEMMA PieceCovers ==
  ASSUME Meeting, PieceGiven, job.action # "r", ~StartsInside,
         NEW a \in 0..(Size - 1), InRange(k, a)
  PROVE  /\ a - cur.offset + 1 \in 1..Span
         /\ cur.data[a - cur.offset + 1] = job.data[PlaceIn(k, a)]
<1> DEFINE b == a - cur.offset + 1
           n == IF cur.rlength # 0 THEN cur.rlength ELSE Len(cur.data)
<1>1. /\ Size \in Nat /\ pos \in Nat /\ job.offset \in Nat /\ job.rlength \in Nat
      /\ RangeEnd = job.offset + job.rlength /\ Length = Len(job.data) /\ Length \in Nat
      /\ job.rlength <= Length
  BY MeetingTypes DEF Length
<1>2. /\ CurrentOffset \in Nat /\ CurrentOffset < Size /\ CurrentLength \in Nat
      /\ CurrentLength # 0 => pos + CurrentOffset + CurrentLength = RangeEnd
      /\ CurrentLength = 0 => pos + Size <= RangeEnd \/ job.rlength = 0
      /\ Take = IF CurrentLength # 0 THEN CurrentLength ELSE Size - CurrentOffset
      /\ CurrentOffset + CurrentLength <= Size
  BY PieceSizes DEF Take
<1>3. /\ cur.offset = CurrentOffset /\ cur.rlength \in {0, CurrentLength}
      /\ cur.rlength = 0 => CurrentLength \in {0, FileLength}
      /\ Len(cur.data) \in Nat
  BY SpanType DEF PieceGiven
<1>4. Base[k] = pos  BY DEF Meeting
<1>5. job.offset <= pos + a /\ pos + a < RangeEnd /\ PlaceIn(k, a) = pos + a - job.offset + 1
  BY <1>4 DEF InRange, PlaceIn
<1>6. Span = Least(n, Size - cur.offset)  BY DEF Span
<1>7. CASE Single
  <2>1. pos = 0 /\ cur.data = job.data
    <3>1. k = 1  BY <1>7 DEF Meeting, PromNr, Single
    <3>2. QED  BY <3>1, <1>4, <1>7, BaseStep DEF Meeting, PieceGiven
  <2>2. CurrentOffset = job.offset  BY <2>1, <1>1 DEF CurrentOffset
  <2>3. b = PlaceIn(k, a) /\ b >= 1 /\ b \in Int  BY <2>1, <2>2, <1>1, <1>3, <1>5
  <2>4. b <= n /\ n \in Nat
    <3>1. CASE cur.rlength # 0
      <4>1. n = CurrentLength /\ CurrentLength # 0  BY <3>1, <1>3
      <4>2. a < CurrentOffset + CurrentLength  BY <4>1, <2>1, <1>1, <1>2, <1>5
      <4>3. QED  BY <4>1, <4>2, <1>2, <1>3
    <3>2. CASE cur.rlength = 0
      <4>1. n = Length  BY <3>2, <2>1, <1>1
      <4>2. a < job.offset + Length  BY <2>1, <1>1, <1>5
      <4>3. b = a - job.offset + 1  BY <2>2, <1>3
      <4>4. QED  BY <4>1, <4>2, <4>3, <1>1
    <3>3. QED  BY <3>1, <3>2
  <2>5. b <= Size - cur.offset  BY <1>1, <1>2, <1>3
  <2> HIDE DEF n, b
  <2>6. b <= Span /\ Span \in Int  BY <2>3, <2>4, <2>5, <1>1, <1>2, <1>3, <1>6 DEF Least
  <2>7. QED  BY <2>1, <2>3, <2>6 DEF b
<1>8. CASE ~Single
  <2>1. CurrentOffset = 0 /\ Source \in Nat /\ Source = pos - job.offset
    BY <1>8, SourceFits DEF Source
  <2>2. /\ Len(cur.data) = Take /\ FileLength = 0
        /\ \A x \in 1..Take : Source + x >= 1 => cur.data[x] = job.data[Source + x]
    BY <1>8 DEF PieceGiven, FileLength
  <2>3. b = a + 1 /\ b \in Nat /\ b >= 1 /\ Source + b = PlaceIn(k, a)
    <3>1. b = a + 1  BY <2>1, <1>3
    <3>2. a \in Nat  BY <1>1
    <3>3. PlaceIn(k, a) = (pos - job.offset) + (a + 1)  BY <3>2, <1>1, <1>5
    <3> HIDE DEF b
    <3>4. QED  BY <3>1, <3>2, <3>3, <2>1
  <2>4. b <= Take /\ Take \in Nat  BY <2>1, <2>3, <1>1, <1>2, <1>5
  <2>5. b <= n /\ n \in Nat
    BY <2>1, <2>2, <2>3, <2>4, <1>1, <1>2, <1>3
  <2>6. b <= Size - cur.offset  BY <2>1, <2>3, <1>1, <1>3
  <2> HIDE DEF n, b
  <2>7. b <= Span /\ Span \in Int  BY <2>3, <2>5, <2>6, <1>1, <1>2, <1>3, <1>6 DEF Least
  <2>8. Source + b >= 1 /\ b \in 1..Take  BY <2>1, <2>3, <2>4
  <2>9. cur.data[b] = job.data[PlaceIn(k, a)]  BY <2>2, <2>3, <2>8
  <2>10. QED  BY <2>3, <2>7, <2>9 DEF b
<1>9. QED  BY <1>7, <1>8

(* So does what a read that went well returns.                             *)
LEMMA RoomCovers ==
  ASSUME TypeInv, FetchOK, pc = "fetched", ret = 0, Given(k), ~StartsInside,
         NEW a \in 0..(Size - 1), InRange(k, a)
  PROVE  /\ a - CurrentOffset + 1 \in 1..Len(cur.data)
         /\ cur.data[a - CurrentOffset + 1] = prom[k].cells[a]
         /\ ~Single => CurrentOffset = 0 /\ Source \in Nat /\ Len(cur.data) <= Take
         /\ Single => CurrentOffset = job.offset /\ pos = 0
<1>1. Meeting /\ ReadGiven /\ job.action = "r"
  BY ReadFacts DEF Reading, TypeInv, StageOK
<1>2. /\ FetchedTo(Len(cur.data)) /\ Len(cur.data) = Room
      /\ IsP => cur.offset = 0 /\ cur.rlength \in {0, Size} /\ ~BadBtc
  BY DEF FetchOK
<1>3. /\ Size \in Nat /\ pos \in Nat /\ job.offset \in Nat /\ job.rlength \in Nat
      /\ RangeEnd = job.offset + job.rlength /\ Length = job.rlength
      /\ IsP => Size % ArraySize = 0 /\ Size <= 4 * ArraySize
  BY <1>1, MeetingTypes DEF Length
<1>4. /\ CurrentOffset \in Nat /\ CurrentOffset < Size /\ CurrentLength \in Nat
      /\ CurrentLength # 0 => pos + CurrentOffset + CurrentLength = RangeEnd
      /\ CurrentLength = 0 => pos + Size <= RangeEnd \/ job.rlength = 0
      /\ CurrentOffset + CurrentLength <= Size
  BY <1>1, PieceSizes
<1>5. /\ cur.offset = CurrentOffset /\ cur.rlength \in {0, CurrentLength}
  BY <1>1 DEF ReadGiven
<1>6. Base[k] = pos  BY <1>1 DEF Meeting
<1>7. job.offset <= pos + a /\ pos + a < RangeEnd
  BY <1>6 DEF InRange
<1>8. Single => CurrentOffset = job.offset /\ pos = 0
  <2>1. Single => pos = 0  BY <1>1, <1>6, BaseStep DEF Meeting, PromNr, Single
  <2>2. QED  BY <2>1, <1>3 DEF CurrentOffset
<1>9. ~Single => CurrentOffset = 0 /\ Source \in Nat
  BY <1>1, SourceFits
<1>10. From = CurrentOffset /\ Room \in Nat /\ a < From + Room
  <2>1. CASE IsP
    <3>1. prom[k].regs["BTC"] = 4 * (Size \div ArraySize - 1)
      BY <2>1 DEF Given, IsP, Kind, Size
    <3>2. Size \div ArraySize \in 1..4 /\ (Size \div ArraySize) * ArraySize = Size
      BY <2>1, ArrayCount DEF InCall, Reading
    <3>3. \A m \in 1..4 : (4 * (m - 1)) % 4 = 0 /\ (4 * (m - 1)) \div 4 = m - 1
      OBVIOUS
    <3>4. FirstArray = 0 /\ LastArray = Size \div ArraySize - 1
      BY <3>1, <3>2, <3>3 DEF FirstArray, LastArray
    <3>5. Room = Size
      <4>1. LastArray + 1 - FirstArray = Size \div ArraySize  BY <3>2, <3>4
      <4>2. QED  BY <4>1, <3>2, <2>1 DEF Room
    <3>6. From = 0  BY <3>4, <2>1, Sizes DEF From
    <3>7. QED  BY <3>5, <3>6, <1>2, <1>3, <1>5, <2>1
  <2>2. CASE ~IsP
    <3> DEFINE m == IF cur.rlength # 0 THEN cur.rlength ELSE Size
    <3>1. Room = Least(m, Size - cur.offset)  BY <2>2 DEF Room
    <3>2. m \in Nat /\ a < CurrentOffset + m
      BY <1>3, <1>4, <1>5, <1>7
    <3> HIDE DEF m
    <3>3. From = CurrentOffset  BY <2>2, <1>5 DEF From
    <3>4. QED  BY <3>1, <3>2, <3>3, <1>3, <1>4, <1>5 DEF Least
  <2>3. QED  BY <2>1, <2>2
<1>11. a >= CurrentOffset
  <2>1. CASE Single  BY <2>1, <1>3, <1>7, <1>8
  <2>2. CASE ~Single  BY <2>2, <1>9
  <2>3. QED  BY <2>1, <2>2
<1>12. a - CurrentOffset + 1 \in 1..Len(cur.data)
  BY <1>2, <1>4, <1>10, <1>11
<1>13. From + (a - CurrentOffset + 1) - 1 = a  BY <1>4, <1>10
<1>14. cur.data[a - CurrentOffset + 1] = prom[k].cells[a]
  <2>1. a - CurrentOffset + 1 <= Len(cur.data)  BY <1>12
  <2>2. QED  BY <2>1, <1>2, <1>12, <1>13 DEF FetchedTo
<1>15. ~Single => Len(cur.data) <= Take
  <2>1. Take > 0 /\ Take \in Nat  BY <1>1, PieceSizes
  <2>2. cur.data = <<>> => Len(cur.data) = 0  OBVIOUS
  <2>3. QED  BY <2>1, <2>2 DEF TypeInv, PieceOK
<1>16. QED  BY <1>8, <1>9, <1>12, <1>14, <1>15


(* The steps within a call, and those between the calls.                   *)
Inner == /\ pc \in InCall /\ pc' \in InCall
         /\ UNCHANGED <<chain, job, k, pos, out, dropped>> /\ ~Verified /\ ~Fetched
Opened == (\E a \in Actions, o \in Offsets, n \in RLengths :
             \E f \in IF a = "r" THEN {<<>>} ELSE Files : OpenFile(a, o, n, f)) /\ pc' = "prom"

LEMMA HostShape ==
  ASSUME TypeInv, Host, ~all', pc' \in Serving \cup {"saved"}
  PROVE  /\ ~all /\ exit' = "none"
         /\ Inner \/ Verified \/ Fetched \/ Advance \/ EndOfRange \/ ServeProm \/ Opened
<1>1. ~EraseAll
  BY DEF EraseAll, TypeInv, StageOK, Serving, InCall, Erasing, Writing, Checking, Reading
<1>2. all' = all
  BY <1>1
  DEF Host, EraseStep, EraseRefused, Erase, ErasePoll, Erased,
     ProgramStep, Program, SendBlock, ProgramPoll, BlocksDone, WriteRegister, Programmed,
     VerifyStep, Verify, CompareBlock, CompareEnd, CompareRegisters, Verified,
     ReadStep, Read, Fetch, FetchEnd, Fetched, RangeStep, Advance, EndOfRange, ServeProm,
     CloseFile, Return, Open, OpenFile
<1>3. ~CloseFile /\ ~Return /\ (Open => Opened)
  BY DEF CloseFile, Return, Fail, Open, OpenFile, Opened, Serving, InCall, Erasing, Writing,
         Checking, Reading
<1>4. exit' = "none"
  BY <1>2, TypeStep DEF TypeInv, StageOK, Serving, InCall, Erasing, Writing, Checking, Reading,
                        Next
<1>5. CASE EraseRefused \/ Erase \/ ErasePoll \/ Erased
  <2>1. pc \in InCall /\ pc' \in InCall
    BY <1>2, <1>5 DEF EraseRefused, Erase, ErasePoll, Erased, Result, Fail, Serving, InCall,
                      Erasing, Writing, Checking, Reading
  <2>2. UNCHANGED <<chain, job, k, pos, out, dropped>> /\ ~Verified /\ ~Fetched
    BY <1>2, <1>5 DEF EraseRefused, Erase, ErasePoll, Erased, GivesUp, args, piece, hist,
                      Verified, Fetched
  <2>3. QED  BY <1>2, <1>4, <2>1, <2>2 DEF Inner
<1>6. CASE ProgramStep
  <2>1. pc \in InCall /\ pc' \in InCall
    BY <1>6 DEF ProgramStep, Program, SendBlock, ProgramPoll, BlocksDone, WriteRegister, Programmed,
                Begin, Throw, Result, Fail, Serving, InCall, Erasing, Writing, Checking, Reading
  <2>2. UNCHANGED <<chain, job, k, pos, out, dropped>> /\ ~Verified /\ ~Fetched
    BY <1>6 DEF ProgramStep, Program, SendBlock, ProgramPoll, BlocksDone, WriteRegister, Programmed,
                GivesUp, args, piece, hist, Verified, Fetched
  <2>3. QED  BY <1>2, <1>4, <2>1, <2>2 DEF Inner
<1>7. CASE VerifyStep /\ ~Verified
  <2>1. pc \in InCall /\ pc' \in InCall
    BY <1>7 DEF VerifyStep, Verify, CompareBlock, CompareEnd, CompareRegisters,
                Begin, Throw, Result, Fail, Serving, InCall, Erasing, Writing, Checking, Reading
  <2>2. UNCHANGED <<chain, job, k, pos, out, dropped>> /\ ~Verified /\ ~Fetched
    BY <1>7 DEF VerifyStep, Verify, CompareBlock, CompareEnd, CompareRegisters,
                args, piece, hist, Fetched
  <2>3. QED  BY <1>2, <1>4, <2>1, <2>2 DEF Inner
<1>8. CASE ReadStep /\ ~Fetched
  <2>1. pc \in InCall /\ pc' \in InCall
    BY <1>8 DEF ReadStep, Read, Fetch, FetchEnd,
                Begin, Throw, Result, Fail, Serving, InCall, Erasing, Writing, Checking, Reading
  <2>2. UNCHANGED <<chain, job, k, pos, out, dropped>> /\ ~Verified /\ ~Fetched
    BY <1>8 DEF ReadStep, Read, Fetch, FetchEnd, args, piece, hist, Verified
  <2>3. QED  BY <1>2, <1>4, <2>1, <2>2 DEF Inner
<1>9. QED
  BY <1>1, <1>2, <1>3, <1>4, <1>5, <1>6, <1>7, <1>8
  DEF Host, EraseStep, ProgramStep, VerifyStep, ReadStep, RangeStep

(* The file read into keeps its length, unless a single PROM gives it.     *)
LEMMA OutStep == TypeInv /\ OutOK /\ [Next]_vars => OutOK'
<1> SUFFICES ASSUME TypeInv, OutOK, [Next]_vars,
                    ~all', ~Single', job'.action = "r", pc' \in Serving \cup {"saved"}
             PROVE  Len(out') = job'.rlength
  BY DEF OutOK, Serving
<1>1. CASE UNCHANGED vars \/ \E p \in PromNr : PromDone(p)
  <2>1. UNCHANGED <<all, chain, job, pc, out>>
    BY <1>1 DEF vars, args, PromDone
  <2>2. QED  BY <2>1, ZenonT(60) DEF OutOK, Single, Serving
<1>2. CASE Host
  <2>1. ~all /\ (Inner \/ Verified \/ Fetched \/ Advance \/ EndOfRange \/ ServeProm \/ Opened)
    BY <1>2, HostShape
  <2>2. CASE Inner \/ Verified \/ Advance \/ EndOfRange \/ ServeProm
    <3>1. UNCHANGED <<chain, job, out>> /\ pc \in Serving \cup {"saved"}
      BY <2>2 DEF Inner, Verified, Advance, EndOfRange, ServeProm, args, Serving,
                  InCall, Checking
    <3>2. QED  BY <2>1, <3>1 DEF OutOK, Single, Serving
  <2>3. CASE Fetched
    <3>1. UNCHANGED <<chain, job>> /\ pc \in Serving /\ pc' # "exit"
      BY <2>3 DEF Fetched, args, Serving, InCall, Reading, Erasing, Writing, Checking
    <3>2. out' = [b \in DOMAIN out |->
                   IF b - Source \in 1..Len(cur.data) THEN cur.data[b - Source] ELSE out[b]]
      BY <2>3, <3>1 DEF Fetched, Single, Fail
    <3>3. Len(out) = job.rlength  BY <2>1, <3>1 DEF OutOK, Single, Serving
    <3>4. DOMAIN out' = DOMAIN out /\ out' \in Seq({0, 1}) /\ out \in Seq({0, 1})
      <4>1. DOMAIN out' = DOMAIN out  BY <3>2
      <4>2. out' \in Seq({0, 1})  BY <1>2, TypeStep DEF TypeInv, BasicOK, Next
      <4>3. QED  BY <4>1, <4>2 DEF TypeInv, BasicOK
    <3>5. Len(out') = Len(out)
      <4>1. DOMAIN out' = 1..Len(out') /\ DOMAIN out = 1..Len(out)
            /\ Len(out') \in Nat /\ Len(out) \in Nat
        BY <3>4
      <4>2. ASSUME NEW m \in Nat, NEW n \in Nat, 1..m = 1..n PROVE m <= n
        <5>1. m > 0 => m \in 1..m  OBVIOUS
        <5>2. m > 0 => m \in 1..n  BY <5>1, <4>2
        <5>3. QED  BY <5>2
      <4>3. Len(out') <= Len(out)  BY <3>4, <4>1, <4>2
      <4>4. Len(out) <= Len(out')  BY <3>4, <4>1, <4>2
      <4>5. Len(out') \in Nat /\ Len(out) \in Nat  BY <4>1
      <4>6. \A m, n \in Nat : m <= n /\ n <= m => m = n  OBVIOUS
      <4>7. QED  BY <4>3, <4>4, <4>5, <4>6
    <3>6. QED  BY <3>1, <3>3, <3>5
  <2>4. CASE Opened
    <3>1. PICK a \in Actions, o \in Offsets, n \in RLengths :
            \E f \in IF a = "r" THEN {<<>>} ELSE Files : OpenFile(a, o, n, f) /\ pc' = "prom"
      BY <2>4 DEF Opened
    <3>2. PICK f \in IF a = "r" THEN {<<>>} ELSE Files : OpenFile(a, o, n, f) /\ pc' = "prom"
      BY <3>1
    <3> DEFINE x == Argument(a, o, n, f)
    <3>3. pc = "arg" /\ (~Fits(x) => UNCHANGED pc) /\ (Fits(x) => job' = x /\ out' = IF a = "r" THEN Ones(x.rlength) ELSE <<>>)
      BY <3>2 DEF OpenFile
    <3>4. job' = x /\ out' = IF a = "r" THEN Ones(x.rlength) ELSE <<>>
      BY <3>2, <3>3
    <3>5. x.action = a  BY DEF Argument
    <3>6. job'.rlength \in Nat
      BY <1>2, TypeStep DEF TypeInv, RangeOK, Next
    <3> HIDE DEF x
    <3>7. QED  BY <3>4, <3>5, <3>6, OnesType
  <2>5. QED  BY <2>1, <2>2, <2>3, <2>4
<1>3. QED  BY <1>1, <1>2 DEF Next


LEMMA SteadyRange ==
  ASSUME UNCHANGED <<chain, job>>
  PROVE  /\ PromNr' = PromNr /\ Base' = Base /\ Single' = Single
         /\ (StartsInside' <=> StartsInside) /\ RangeEnd' = RangeEnd
         /\ \A p : \A a : (InRange(p, a)' <=> InRange(p, a)) /\ PlaceIn(p, a)' = PlaceIn(p, a)
<1>1. PromNr' = PromNr /\ Base' = Base /\ Single' = Single /\ RangeEnd' = RangeEnd
  BY DEF PromNr, Base, Single, RangeEnd
<1>2. QED  BY <1>1 DEF StartsInside, InRange, PlaceIn

LEMMA SteadyServed ==
  ASSUME UNCHANGED <<chain, job>>, NEW p, prom'[p] = prom[p], out' = out, Served(p)
  PROVE  Served(p)'
<1>1. PromHolds(p) => PromHolds(p)'
  BY SteadyRange DEF PromHolds
<1>2. Given(p)' <=> Given(p)  BY DEF Given
<1>3. PromRead(p) => PromRead(p)'
  BY <1>2, SteadyRange DEF PromRead
<1>4. QED  BY <1>1, <1>3 DEF Served

(* A PROM that was verified holds its part of the range.                   *)
LEMMA VerifiedServes ==
  ASSUME TypeInv, CompareOK, Verified, ~dropped', ~StartsInside
  PROVE  Served(k)'
<1>1. /\ pc = "verified" /\ ret = 0 /\ SetProm(Disabled(prom[k]))
      /\ UNCHANGED <<chain, job, k, pos>>
  BY DEF Verified, Drop, args, piece
<1>2. /\ k \in PromNr /\ prom[k] \in PromSet(Size) /\ Size \in Nat
      /\ Meeting /\ PieceGiven /\ job.action # "r"
  BY <1>1, InCallFacts DEF InCall, Checking, Erasing, TypeInv, StageOK
<1>3. prom'[k].cells = prom[k].cells
  BY <1>1, <1>2, SetBytes, OtherCommands DEF TypeInv, SameBytes
<1>4. SameTo(Span)  BY <1>1 DEF CompareOK
<1>5. Span \in Nat /\ cur.offset \in Nat  BY <1>2, SpanType
<1>6. ASSUME NEW a \in 0..(chain[k].size - 1), InRange(k, a)
      PROVE  prom[k].cells[a] = job.data[PlaceIn(k, a)]
  <2>1. a \in 0..(Size - 1)  BY DEF Size
  <2>2. /\ a - cur.offset + 1 \in 1..Span
        /\ cur.data[a - cur.offset + 1] = job.data[PlaceIn(k, a)]
    BY <1>2, <1>6, <2>1, PieceCovers
  <2>3. cur.offset + (a - cur.offset + 1) - 1 = a  BY <1>5, <2>1
  <2>4. a - cur.offset + 1 <= Span  BY <2>2, <1>5
  <2>5. QED  BY <2>2, <2>3, <2>4, <1>4 DEF SameTo
<1>7. PromHolds(k)'
  BY <1>1, <1>3, <1>6, SteadyRange DEF PromHolds
<1>8. QED  BY <1>1, <1>2, <1>7 DEF Served

(* A PROM that comes before another ends before it.                        *)
LEMMA Behind ==
  ASSUME chain \in Chains, NEW p \in PromNr, NEW q \in 1..(Len(chain) + 1), p < q,
         NEW a \in 0..(chain[p].size - 1)
  PROVE  Base[p] + a < Base[q] /\ Base[p] \in Nat /\ Base[q] \in Nat
<1>1. /\ p \in Nat /\ p >= 1 /\ Len(chain) \in Nat /\ p <= Len(chain) /\ chain[p].size \in Nat
      /\ Base[p + 1] = Base[p] + chain[p].size
  BY PromKinds, BaseStep
<1>2. Base[p] \in Nat /\ Base[q] \in Nat
  <2>1. p \in 1..(Len(chain) + 1)  BY <1>1
  <2>2. QED  BY <2>1, BaseType
<1>3. q \in (p + 1)..(Len(chain) + 1)  BY <1>1
<1>4. Base[p + 1] <= Base[q]  BY <1>3, BaseOrder
<1>5. QED  BY <1>1, <1>2, <1>4

(* A read that went well gives the file what it has of the PROM, and       *)
(* leaves alone what it has of those before.                               *)
LEMMA FetchedServes ==
  ASSUME TypeInv, FetchOK, OutOK, Fetched, ~dropped', ~StartsInside, pc' # "exit",
         NEW p \in PromNr, p <= k, p < k => Served(p)
  PROVE  Served(p)'
<1>1. /\ pc = "fetched" /\ ret = 0 /\ prom' = prom /\ UNCHANGED <<chain, job, k, pos>>
      /\ IF Single THEN out' = cur.data
         ELSE out' = [b \in DOMAIN out |->
                       IF b - Source \in 1..Len(cur.data) THEN cur.data[b - Source] ELSE out[b]]
  BY DEF Fetched, Drop, Fail, args, piece
<1>2. /\ k \in PromNr /\ Size \in Nat /\ Meeting /\ job.action = "r" /\ ~all /\ ReadGiven
  BY <1>1, ReadFacts, InCallFacts DEF Reading, TypeInv, StageOK
<1>3. /\ pos \in Nat /\ job.offset \in Nat /\ job.rlength \in Nat /\ pos = Base[k]
      /\ RangeEnd = job.offset + job.rlength /\ chain \in Chains
  BY <1>2, MeetingTypes DEF Meeting
<1>4. ~Single => Len(out) = job.rlength /\ DOMAIN out = 1..job.rlength
  <2>1. out \in Seq({0, 1})  BY DEF TypeInv, BasicOK
  <2>2. ~Single => Len(out) = job.rlength
    BY <1>1, <1>2 DEF OutOK, InCall, Reading
  <2>3. QED  BY <2>1, <2>2
<1>5. Len(cur.data) \in Nat /\ DOMAIN cur.data = 1..Len(cur.data)
  BY <1>2 DEF ReadGiven
<1>6. Given(p)' <=> Given(p)  BY <1>1 DEF Given
<1>7. ASSUME NEW a \in 0..(chain[p].size - 1), InRange(p, a), Given(p)
      PROVE  PlaceIn(p, a) \in DOMAIN out' /\ out'[PlaceIn(p, a)] = prom[p].cells[a]
  <2>1. job.offset <= Base[p] + a /\ Base[p] + a < RangeEnd /\ a \in Nat /\ Base[p] \in Nat
    <3>1. Base[p] \in Nat  BY <1>3, BaseType, PromKinds
    <3>2. chain[p].size \in Nat  BY <1>3, PromKinds
    <3>3. QED  BY <3>1, <3>2, <1>7 DEF InRange
  <2>2. PlaceIn(p, a) \in 1..job.rlength /\ PlaceIn(p, a) = Base[p] + a - job.offset + 1
    BY <2>1, <1>3 DEF PlaceIn
  <2>3. CASE p = k
    <3>1. a \in 0..(Size - 1)  BY <2>3 DEF Size
    <3> DEFINE b == a - CurrentOffset + 1
    <3>2. /\ b \in 1..Len(cur.data) /\ cur.data[b] = prom[k].cells[a]
          /\ ~Single => CurrentOffset = 0 /\ Source \in Nat /\ Len(cur.data) <= Take
          /\ Single => CurrentOffset = job.offset /\ pos = 0
      BY <1>1, <1>7, <2>3, <3>1, RoomCovers
    <3>3. CASE Single
      <4>1. PlaceIn(p, a) = b  BY <2>1, <2>2, <2>3, <3>2, <3>3, <1>3
      <4>2. QED  BY <4>1, <3>2, <3>3, <1>1, <1>5, <2>3
    <3>4. CASE ~Single
      <4>1. PlaceIn(p, a) - Source = b
        <5>1. Source = pos - job.offset  BY DEF Source
        <5>2. b = a + 1  BY <3>2, <3>4, <2>1
        <5> HIDE DEF b
        <5>3. QED  BY <5>1, <5>2, <2>1, <2>2, <2>3, <1>3
      <4>2. PlaceIn(p, a) \in DOMAIN out  BY <2>2, <1>4, <3>4
      <4> HIDE DEF b
      <4>3. QED  BY <4>1, <4>2, <3>2, <3>4, <1>1, <2>3
    <3>5. QED  BY <3>3, <3>4
  <2>4. CASE p # k
    <3>1. p < k /\ k \in 1..(Len(chain) + 1) /\ Served(p)
      BY <2>4, <1>2, <1>3, PromKinds
    <3>2. ~Single
      <4>1. Len(chain) \in Nat /\ p \in 1..Len(chain) /\ k \in 1..Len(chain)
        BY <1>2, <1>3, PromKinds DEF PromNr
      <4>2. p < k  BY <3>1
      <4>3. Len(chain) # 1  BY <4>1, <4>2
      <4>4. QED  BY <4>3 DEF Single
    <3>3. Base[p] + a < pos  BY <3>1, <1>3, Behind
    <3>4. PlaceIn(p, a) - Source <= 0 /\ PlaceIn(p, a) - Source \in Int
      BY <3>3, <2>1, <2>2, <1>3 DEF Source
    <3>5. PlaceIn(p, a) \in DOMAIN out /\ out[PlaceIn(p, a)] = prom[p].cells[a]
      BY <3>1, <1>2, <1>7 DEF Served, PromRead
    <3>6. PlaceIn(p, a) - Source \notin 1..Len(cur.data)  BY <3>4, <1>5
    <3>7. QED  BY <3>2, <3>5, <3>6, <1>1
  <2>5. QED  BY <2>3, <2>4
<1>8. PromRead(p)'
  BY <1>1, <1>6, <1>7, SteadyRange DEF PromRead
<1>9. QED  BY <1>1, <1>2, <1>8 DEF Served


(* PROMs the range does not reach have no part in it.                      *)
LEMMA Outside ==
  ASSUME NEW p, \A a \in 0..(chain[p].size - 1) : ~InRange(p, a)
  PROVE  Served(p)
BY DEF Served, PromHolds, PromRead

LEMMA FileHostStep ==
  ASSUME TypeInv, BusyOK, CompareInv, FetchInv, OutOK, FileOK, Host,
         ~all', ~dropped', ~late', ~StartsInside', NEW p \in PromNr, Past(p)'
  PROVE  Served(p)'
<1>1. /\ pc' \in Serving \cup {"saved"} /\ ~late /\ CompareOK /\ FetchOK
      /\ pc' \in Serving => p <= k'
      /\ pc' \in Serving \ {"advance"} => p < k'
  <2>1. pc' \in Serving \cup {"saved"}
    BY DEF Past, Serving, InCall, Erasing, Writing, Checking, Reading
  <2>2. ~late  BY WaitSteps
  <2>3. /\ pc' \in Serving => p <= k'
        /\ pc' \in Serving \ {"advance"} => p < k'
    <3>1. k' \in Nat /\ p \in Nat
      <4>1. k' \in 1..(Len(chain) + 1)' /\ chain' \in Chains
        BY TypeStep DEF TypeInv, BasicOK, Next
      <4>2. (Len(chain) + 1)' \in Nat
        <5>1. Len(chain') \in Nat  BY <4>1, ChainAssumption
        <5>2. QED  BY <5>1
      <4>3. p \in Nat  BY PromKinds DEF TypeInv, BasicOK
      <4>4. QED  BY <4>1, <4>2, <4>3
    <3>2. QED
      BY <3>1 DEF Past, Serving, InCall, Erasing, Writing, Checking, Reading
  <2>4. QED  BY <2>1, <2>2, <2>3 DEF CompareInv, FetchInv
<1>2. ~all /\ (Inner \/ Verified \/ Fetched \/ Advance \/ EndOfRange \/ ServeProm \/ Opened)
      /\ exit' = "none"
  BY <1>1, HostShape
<1>3. /\ chain \in Chains /\ k \in 1..(Len(chain) + 1) /\ p \in Nat /\ k \in Nat
      /\ Len(chain) \in Nat /\ p <= Len(chain) /\ p >= 1
  BY PromKinds DEF TypeInv, BasicOK
<1>4. ASSUME UNCHANGED <<chain, job>>, ~dropped
      PROVE  ~StartsInside /\ (Past(p) => Served(p))
  <2>1. StartsInside' <=> StartsInside  BY <1>4, SteadyRange
  <2>2. ~StartsInside  BY <2>1
  <2>3. QED  BY <1>1, <1>2, <1>4, <2>2 DEF FileOK
<1>5. CASE Inner
  <2>1. /\ UNCHANGED <<chain, job, k, out, dropped>> /\ pc \in InCall /\ pc' \in InCall
    BY <1>5 DEF Inner
  <2>2. p < k /\ Past(p)
    BY <1>1, <2>1 DEF Serving, Past, InCall, Erasing, Writing, Checking, Reading
  <2>3. prom'[p] = prom[p]  BY <2>2, <1>3, HostBytes
  <2>4. QED  BY <1>4, <2>1, <2>2, <2>3, SteadyServed
<1>6. CASE Verified
  <2>1. /\ UNCHANGED <<chain, job, k, out>> /\ pc = "verified" /\ pc' = "advance" /\ ~dropped
    BY <1>6 DEF Verified, Drop, args, piece
  <2>2. CASE p = k
    BY <2>1, <2>2, <1>1, <1>4, <1>6, VerifiedServes
  <2>3. CASE p # k
    <3>1. p < k  BY <1>1, <2>1, <2>3, <1>3 DEF Serving
    <3>2. Past(p)  BY <2>1, <3>1 DEF Past, InCall, Checking
    <3>3. prom'[p] = prom[p]  BY <2>3, HostBytes
    <3>4. QED  BY <1>4, <2>1, <3>2, <3>3, SteadyServed
  <2>4. QED  BY <2>2, <2>3
<1>7. CASE Fetched
  <2>1. /\ UNCHANGED <<chain, job, k>> /\ pc = "fetched" /\ pc' = "advance" /\ ~dropped
    BY <1>7, <1>1 DEF Fetched, Drop, args, piece, Fail, Serving, InCall, Erasing, Writing,
                      Checking, Reading
  <2>2. p <= k  BY <1>1, <2>1 DEF Serving
  <2>3. p < k => Served(p)
    BY <1>4, <2>1 DEF Past, InCall, Reading
  <2>4. QED  BY <1>1, <1>4, <1>7, <2>1, <2>2, <2>3, FetchedServes
<1>8. CASE Advance
  <2>1. /\ UNCHANGED <<chain, job, out, dropped>> /\ prom' = prom /\ pc' = "prom" /\ k' = k + 1
        /\ pc = "advance" \/ (pc = "prom" /\ k \in PromNr /\ Before)
    BY <1>8 DEF Advance, args, hist
  <2>2. p < k + 1  BY <1>1, <2>1 DEF Serving
  <2>3. Served(p)
    <3>1. CASE p < k \/ pc = "advance"
      <4>1. Past(p)
        <5>1. p < k \/ p = k  BY <2>2, <1>3
        <5>2. QED  BY <2>1, <3>1, <5>1 DEF Past
      <4>2. QED  BY <4>1, <2>1, <1>4
    <3>2. CASE ~(p < k) /\ pc = "prom"
      <4>1. p = k /\ Before  BY <3>2, <2>1, <2>2, <1>3
      <4>2. pos = Base[k] /\ job.offset \in Nat /\ Size \in Nat /\ Base[k] \in Nat
        BY <2>1, <3>2, <1>2, <1>3, <4>1, PromKinds, BaseType DEF TypeInv, RangeOK, Size
      <4>3. \A a \in 0..(chain[p].size - 1) : ~InRange(p, a)
        BY <4>1, <4>2 DEF InRange, Before, Size
      <4>4. QED  BY <4>3, Outside
    <3>3. QED  BY <2>1, <3>1, <3>2
  <2>4. QED  BY <2>1, <2>3, SteadyServed
<1>9. CASE EndOfRange
  <2>1. /\ UNCHANGED <<chain, job, out, dropped>> /\ prom' = prom /\ pc' = "saved" /\ pc = "prom"
        /\ ~(k \in PromNr /\ (Before \/ pos < RangeEnd))
    BY <1>9 DEF EndOfRange, args, hist
  <2>2. Served(p)
    <3>1. CASE p < k
      BY <3>1, <2>1, <1>4 DEF Past
    <3>2. CASE ~(p < k)
      <4>1. k \in PromNr /\ k <= p
        BY <3>2, <1>3 DEF PromNr
      <4>2. pos = Base[k] /\ ~(pos < RangeEnd) /\ RangeEnd \in Nat /\ Base[k] \in Nat
        BY <2>1, <4>1, <1>2, <1>3, BaseType DEF TypeInv, RangeOK, RangeEnd
      <4>3. Base[p] \in Nat /\ Base[k] <= Base[p] /\ chain[p].size \in Nat
        <5>1. Base[p] \in Nat /\ chain[p].size \in Nat /\ chain[k].size > 0 /\ chain[k].size \in Nat
          BY <1>3, <4>1, BaseType, PromKinds
        <5>2. CASE k < p
          <6>1. 0 \in 0..(chain[k].size - 1) /\ p \in 1..(Len(chain) + 1)  BY <5>1, <1>3
          <6>2. Base[k] + 0 < Base[p]  BY <6>1, <5>2, <4>1, <1>3, Behind
          <6>3. QED  BY <6>2, <5>1, <4>2
        <5>3. CASE k = p  BY <5>1, <5>3
        <5>4. QED  BY <5>2, <5>3, <4>1, <1>3
      <4>4. \A a \in 0..(chain[p].size - 1) : ~InRange(p, a)
        BY <4>2, <4>3 DEF InRange
      <4>5. QED  BY <4>4, Outside
    <3>3. QED  BY <3>1, <3>2
  <2>3. QED  BY <2>1, <2>2, SteadyServed
<1>10. CASE ServeProm
  <2>1. /\ UNCHANGED <<chain, job, k, out, dropped>> /\ prom' = prom /\ pc = "prom"
        /\ pc' \in Serving \ {"advance"}
    BY <1>10, <1>1 DEF ServeProm, args, piece, hist, Fail, Called, Serving, InCall, Erasing, Writing,
                 Checking, Reading
  <2>2. p < k /\ Past(p)  BY <1>1, <2>1 DEF Past
  <2>3. QED  BY <1>4, <2>1, <2>2, SteadyServed
<1>11. CASE Opened
  <2>1. k' = 1 /\ pc' = "prom"
    BY <1>11 DEF Opened, OpenFile, Fits
  <2>2. p < 1  BY <1>1, <2>1 DEF Serving
  <2>3. QED  BY <2>2, <1>3
<1>12. QED  BY <1>2, <1>5, <1>6, <1>7, <1>8, <1>9, <1>10, <1>11


LEMMA FileStep ==
  TypeInv /\ BusyOK /\ CompareInv /\ FetchInv /\ OutOK /\ FileOK /\ [Next]_vars => FileOK'
<1> SUFFICES ASSUME TypeInv, BusyOK, CompareInv, FetchInv, OutOK, FileOK, [Next]_vars,
                    ~all', ~dropped', ~late', ~StartsInside', NEW p \in PromNr', Past(p)'
             PROVE  Served(p)'
  BY DEF FileOK
<1>1. CASE UNCHANGED vars
  <2>1. UNCHANGED <<all, chain, job, k, pc, out, dropped, late>> /\ prom' = prom
    BY <1>1 DEF vars, args, piece, hist
  <2>2. p \in PromNr /\ Past(p) /\ ~StartsInside
    BY <2>1, SteadyRange DEF Past
  <2>3. Served(p)  BY <2>1, <2>2 DEF FileOK
  <2>4. QED  BY <2>1, <2>3, SteadyServed
<1>2. ASSUME NEW q \in PromNr, PromDone(q) PROVE Served(p)'
  <2>1. UNCHANGED <<all, chain, job, k, pc, out, dropped, late>> /\ prom[q].busy
    BY <1>2 DEF PromDone, args, piece, hist
  <2>2. p \in PromNr /\ Past(p) /\ ~StartsInside
    BY <2>1, SteadyRange DEF Past
  <2>3. Served(p)  BY <2>1, <2>2 DEF FileOK
  <2>4. q = k /\ pc \in {"erasing", "programming"}
    BY <2>1 DEF BusyOK
  <2>5. p < k
    BY <2>2, <2>4 DEF Past
  <2>6. p # q
    <3>1. k \in Nat  BY PromKinds DEF TypeInv, BasicOK
    <3>2. QED  BY <2>4, <2>5, <3>1
  <2>7. prom'[p] = prom[p]  BY <1>2, <2>1, <2>2, <2>6, DoneEffect DEF TypeInv
  <2>8. QED  BY <2>1, <2>3, <2>7, SteadyServed
<1>3. CASE Host
  <2>1. p \in PromNr  BY <1>3, HostBytes DEF PromNr
  <2>2. QED  BY <1>3, <2>1, FileHostStep
<1>4. QED  BY <1>1, <1>2, <1>3 DEF Next

LEMMA BytesInit == Init => OutOK /\ FileOK /\ CompareInv /\ FetchInv
BY DEF Init, OutOK, FileOK, Past, CompareInv, CompareOK, FetchInv, FetchOK, InCall,
       Erasing, Writing, Checking, Reading

LEMMA SavedServed ==
  ASSUME TypeInv, pc = "saved", ~StartsInside, NEW x \in 0..(job.rlength - 1),
         \A p \in PromNr : Served(p)
  PROVE  LET p == HomeOf(job.offset + x)
         IN  /\ job.action # "r" => At(job.offset + x) = job.data[x + 1]
             /\ job.action = "r" /\ Given(p) => out[x + 1] = At(job.offset + x)
<1>1. /\ chain \in Chains /\ job.offset \in Nat /\ job.rlength \in Nat /\ Fits(job)
      /\ RangeEnd = job.offset + job.rlength
  BY DEF TypeInv, BasicOK, RangeOK, RangeEnd
<1>2. Total \in Nat
  <2>1. Len(chain) + 1 \in 1..(Len(chain) + 1)  BY <1>1, PromKinds
  <2>2. QED  BY <2>1, <1>1, BaseType, BaseStep
<1>3. job.offset + x \in 0..(Total - 1)
  BY <1>1, <1>2 DEF Fits
<1>4. PICK p \in PromNr : job.offset + x \in Base[p]..(Base[p + 1] - 1)
  BY <1>1, <1>3, HomeExists
<1>5. Base[p] \in Nat /\ Base[p + 1] = Base[p] + chain[p].size /\ chain[p].size \in Nat
  BY <1>1, BaseType, BaseStep, PromKinds
<1> DEFINE a == job.offset + x - Base[p]
<1>6. a \in 0..(chain[p].size - 1) /\ Base[p] + a = job.offset + x
  BY <1>1, <1>4, <1>5
<1> HIDE DEF a
<1>7. HomeOf(job.offset + x) = p /\ At(job.offset + x) = prom[p].cells[a]
  BY <1>1, <1>6, HomeUnique
<1>8. InRange(p, a) /\ PlaceIn(p, a) = x + 1
  BY <1>1, <1>5, <1>6 DEF InRange, PlaceIn
<1>9. QED  BY <1>6, <1>7, <1>8 DEF Served, PromHolds, PromRead

LEMMA FileParts == TypeInv /\ FileOK => JobHolds /\ ReadExact
<1> SUFFICES ASSUME TypeInv, FileOK PROVE JobHolds /\ ReadExact
  OBVIOUS
<1>1. pc = "saved" => ~all
  BY DEF TypeInv, StageOK, Erasing
<1>2. pc = "saved" /\ ~dropped /\ ~late /\ ~StartsInside => \A p \in PromNr : Served(p)
  BY <1>1 DEF FileOK, Past
<1>3. QED  BY <1>2, SavedServed DEF JobHolds, Holds, ReadExact

(* A file argument that was written or verified, when verify did not say   *)
(* otherwise and no call gave up: each byte of the range is in its place   *)
(* in the right PROM, whatever the chain.                                  *)
THEOREM JobIsHeld == Spec => []JobHolds
<1>1. FileOK /\ TypeInv => JobHolds  BY FileParts
<1>2. QED
  BY <1>1, TypeInit, TypeStep, BusyInit, BusyStep, BytesInit, CompareStep, FetchStep, OutStep,
     FileStep, PTL DEF Spec

(* The bytes saved are those of the range, over all the PROMs it meets.    *)
THEOREM ReadIsExact == Spec => []ReadExact
<1>1. FileOK /\ TypeInv => ReadExact  BY FileParts
<1>2. QED
  BY <1>1, TypeInit, TypeStep, BusyInit, BusyStep, BytesInit, CompareStep, FetchStep, OutStep,
     FileStep, PTL DEF Spec
==============================================================================
