--------------------------- MODULE ImageFileProofs ---------------------------
(***************************************************************************)
(* The files: what is read is made of bytes, and a file the program saved  *)
(* reads back as what it was made from.                                    *)
(***************************************************************************)
EXTENDS ImageFile, SequenceTheorems, InductionFacts, TLAPS

------------------------------------------------------------------------------
(***************************************************************************)
(* Bytes and sequences of bytes.                                           *)
(***************************************************************************)
LEMMA MinOfTwo ==
  ASSUME NEW a \in Int, NEW b \in Int
  PROVE  Min({a, b}) = IF a <= b THEN a ELSE b
<1> DEFINE m == IF a <= b THEN a ELSE b
<1>1. m \in {a, b} /\ \A y \in {a, b} : m <= y
  OBVIOUS
<1>2. \A x \in {a, b} : (\A y \in {a, b} : x <= y) => x = m
  OBVIOUS
<1> HIDE DEF m
<1>3. Min({a, b}) = m  BY <1>1, <1>2 DEF Min
<1>4. QED  BY <1>3 DEF m

LEMMA ReversedTwice ==
  ASSUME NEW b \in Byte
  PROVE  bitRev(b) \in Byte /\ bitRev(bitRev(b)) = b
BY DEF Byte, bitRev

LEMMA BurnIs ==
  ASSUME NEW old \in Byte, NEW new \in Byte
  PROVE  /\ Burn(old, new) \in Byte
         /\ old = Erased => Burn(old, new) = new
         /\ new = Erased => Burn(old, new) = old
<1>1. /\ old \div 2 \in 0..1 /\ new \div 2 \in 0..1 /\ old % 2 \in 0..1 /\ new % 2 \in 0..1
      /\ old = 2 * (old \div 2) + (old % 2) /\ new = 2 * (new \div 2) + (new % 2)
  BY DEF Byte
<1>2. Burn(old, new) = 2 * (IF old \div 2 <= new \div 2 THEN old \div 2 ELSE new \div 2)
                         + (IF old % 2 <= new % 2 THEN old % 2 ELSE new % 2)
  BY <1>1, MinOfTwo DEF Burn
<1>3. QED  BY <1>1, <1>2 DEF Byte, Erased

LEMMA FillIn ==
  ASSUME NEW n \in Int, NEW b \in Byte
  PROVE  /\ Fill(n, b) \in Seq(Byte) /\ Len(Fill(n, b)) = (IF n > 0 THEN n ELSE 0)
         /\ \A k \in 1..n : Fill(n, b)[k] = b
<1>1. CASE n > 0
  BY <1>1 DEF Fill
<1>2. CASE ~(n > 0)
  <2>1. 1..n = {} /\ 1..0 = {}  BY <1>2
  <2>2. Fill(n, b) = [k \in 1..0 |-> b]  BY <2>1 DEF Fill
  <2>3. Fill(n, b) \in Seq(Byte) /\ Len(Fill(n, b)) = 0  BY <2>2
  <2>4. QED  BY <1>2, <2>1, <2>3
<1>3. QED  BY <1>1, <1>2

LEMMA OrientedIn ==
  ASSUME NEW style, NEW bytes \in Seq(Byte)
  PROVE  /\ Oriented(style, bytes) \in Seq(Byte) /\ Len(Oriented(style, bytes)) = Len(bytes)
         /\ Oriented(style, Oriented(style, bytes)) = bytes
<1>1. CASE style \in Reversed
  <2>1. Oriented(style, bytes) = [k \in DOMAIN bytes |-> bitRev(bytes[k])]
    BY <1>1 DEF Oriented
  <2>2. \A k \in 1..Len(bytes) : bytes[k] \in Byte
    OBVIOUS
  <2>3. \A k \in 1..Len(bytes) : bitRev(bytes[k]) \in Byte /\ bitRev(bitRev(bytes[k])) = bytes[k]
    BY <2>2, ReversedTwice
  <2>4. /\ Oriented(style, bytes) \in Seq(Byte) /\ Len(Oriented(style, bytes)) = Len(bytes)
        /\ DOMAIN Oriented(style, bytes) = 1..Len(bytes)
        /\ \A k \in 1..Len(bytes) : Oriented(style, bytes)[k] = bitRev(bytes[k])
    BY <2>1, <2>3
  <2>5. Oriented(style, Oriented(style, bytes))
          = [k \in 1..Len(bytes) |-> bitRev(Oriented(style, bytes)[k])]
    BY <1>1, <2>4 DEF Oriented
  <2>6. \A k \in 1..Len(bytes) : bitRev(Oriented(style, bytes)[k]) = bytes[k]
    BY <2>3, <2>4
  <2>7. Oriented(style, Oriented(style, bytes)) = bytes
    BY <2>5, <2>6
  <2>8. QED  BY <2>4, <2>7
<1>2. CASE style \notin Reversed
  BY <1>2 DEF Oriented
<1>3. QED  BY <1>1, <1>2

(* Full again with bytes of 0xff: FillUp is of n bytes where there are not *)
(* more.                                                                   *)
LEMMA FilledUp ==
  ASSUME NEW bytes \in Seq(Byte), NEW n \in Nat, Len(bytes) <= n
  PROVE  /\ FillUp(bytes, n) \in Seq(Byte) /\ Len(FillUp(bytes, n)) = n
         /\ \A k \in 1..n : FillUp(bytes, n)[k] = IF k <= Len(bytes) THEN bytes[k] ELSE Erased
<1> DEFINE rest == Fill(n - Len(bytes), Erased)
<1>1. Erased \in Byte /\ n - Len(bytes) \in Int  BY DEF Erased, Byte
<1>2. /\ rest \in Seq(Byte) /\ Len(rest) = n - Len(bytes)
      /\ \A k \in 1..(n - Len(bytes)) : rest[k] = Erased
  BY <1>1, FillIn
<1> HIDE DEF rest
<1>3. /\ bytes \o rest \in Seq(Byte) /\ Len(bytes \o rest) = n
      /\ \A k \in 1..n : (bytes \o rest)[k] = IF k <= Len(bytes) THEN bytes[k] ELSE rest[k - Len(bytes)]
  BY <1>2, ConcatProperties
<1>4. \A k \in 1..n : ~(k <= Len(bytes)) => k - Len(bytes) \in 1..(n - Len(bytes))
  OBVIOUS
<1>5. FillUp(bytes, n) = bytes \o rest  BY DEF FillUp, rest
<1>6. QED  BY <1>2, <1>3, <1>4, <1>5

LEMMA Beginning ==
  ASSUME NEW S, NEW s \in Seq(S), NEW n \in 0..Len(s)
  PROVE  /\ SubSeq(s, 1, n) \in Seq(S) /\ Len(SubSeq(s, 1, n)) = n
         /\ \A k \in 1..n : SubSeq(s, 1, n)[k] = s[k]
<1>1. \A k \in 1..n : s[k] \in S  OBVIOUS
<1>2. 1 \in Int /\ n \in Int  OBVIOUS
<1>3. /\ SubSeq(s, 1, n) \in Seq(S)
      /\ Len(SubSeq(s, 1, n)) = (IF 1 <= n THEN n - 1 + 1 ELSE 0)
      /\ \A k \in 1..(n - 1 + 1) : SubSeq(s, 1, n)[k] = s[1 + k - 1]
  BY <1>1, <1>2, SubSeqProperties
<1>4. QED  BY <1>3

(* What is clipped is of 0xff, and FillUp brings it back.                  *)
LEMMA ClippedIs ==
  ASSUME NEW bytes \in Seq(Byte), bytes # <<>>, NEW rlength \in 0..Len(bytes)
  PROVE  /\ Clipped(bytes, rlength) \in Seq(Byte) /\ Clipped(bytes, rlength) # <<>>
         /\ Len(Clipped(bytes, rlength)) <= Len(bytes)
         /\ rlength = 0 => FillUp(Clipped(bytes, rlength), Len(bytes)) = bytes
         /\ rlength > 0 => Clipped(bytes, rlength) = SubSeq(bytes, 1, rlength)
<1> DEFINE kept == {1} \cup {k \in DOMAIN bytes : bytes[k] # Erased}
           m == IF rlength > 0 THEN rlength ELSE Max(kept)
<1>1. Len(bytes) \in Nat \ {0} /\ DOMAIN bytes = 1..Len(bytes)
  BY EmptySeq
<1>2. kept \in SUBSET (1..Len(bytes)) /\ kept # {}
  BY <1>1
<1>3. Max(kept) \in kept /\ \A y \in kept : y <= Max(kept)
  <2> HIDE DEF kept
  <2> QED  BY <1>1, <1>2, MaxPicks
<1>4. m \in 1..Len(bytes) /\ m \in 0..Len(bytes)
  <2> HIDE DEF kept
  <2>1. Max(kept) \in 1..Len(bytes)  BY <1>2, <1>3
  <2> DEFINE largest == Max(kept)
  <2>2. largest \in 1..Len(bytes) /\ m = IF rlength > 0 THEN rlength ELSE largest  BY <2>1
  <2> HIDE DEF largest, m
  <2> QED  BY <1>1, <2>2
<1>5. Clipped(bytes, rlength) = SubSeq(bytes, 1, m)
  BY DEF Clipped
<1>6. /\ SubSeq(bytes, 1, m) \in Seq(Byte) /\ Len(SubSeq(bytes, 1, m)) = m
      /\ \A k \in 1..m : SubSeq(bytes, 1, m)[k] = bytes[k]
  <2> HIDE DEF m
  <2> QED  BY <1>4, Beginning
<1>7. rlength = 0 => \A k \in 1..Len(bytes) : k > m => bytes[k] = Erased
  <2>1. ASSUME rlength = 0, NEW k \in 1..Len(bytes), k > m PROVE bytes[k] = Erased
    <3>1. m = Max(kept)  BY <2>1
    <3>2. k \notin kept
      <4>1. m \in Int /\ k \in Int /\ ~(k <= m)
        <5> HIDE DEF m
        <5> QED  BY <1>4, <2>1
      <4> HIDE DEF kept, m
      <4> QED  BY <1>3, <4>1, <3>1
    <3>3. QED  BY <3>2, <1>1
  <2>2. QED  BY <2>1
<1>8. rlength = 0 => FillUp(Clipped(bytes, rlength), Len(bytes)) = bytes
  <2> DEFINE c == SubSeq(bytes, 1, m)
             full == FillUp(c, Len(bytes))
  <2>1. SUFFICES ASSUME rlength = 0 PROVE full = bytes
    BY <1>5
  <2> HIDE DEF m
  <2>2. c \in Seq(Byte) /\ Len(c) = m /\ m \in 1..Len(bytes) /\ \A k \in 1..m : c[k] = bytes[k]
    BY <1>4, <1>6
  <2> HIDE DEF c
  <2>3. /\ full \in Seq(Byte) /\ Len(full) = Len(bytes)
        /\ \A k \in 1..Len(bytes) : full[k] = IF k <= m THEN c[k] ELSE Erased
    BY <2>2, <1>1, FilledUp
  <2>4. \A k \in 1..Len(bytes) : full[k] = bytes[k]
    BY <2>1, <2>2, <2>3, <1>7
  <2> HIDE DEF full
  <2>5. QED  BY <2>3, <2>4, SeqEqual
<1>9. Clipped(bytes, rlength) # <<>>
  <2> HIDE DEF m
  <2> QED  BY <1>4, <1>5, <1>6
<1>10. rlength > 0 => m = rlength  OBVIOUS
<1>11. QED
  <2> HIDE DEF m
  <2> QED  BY <1>1, <1>4, <1>5, <1>6, <1>8, <1>9, <1>10

(* A file in pieces of n bytes: the first k of them are its first n * k    *)
(* bytes, and all but the last are full.                                   *)
Upto(bytes, n, k) == SubSeq(bytes, 1, Min({n * k, Len(bytes)}))

InPieces(recs, bytes, n) ==
  /\ recs \in Seq(Seq(Byte)) /\ (bytes # <<>> => Len(recs) > 0)
  /\ \A k \in 1..Len(recs) : Len(recs[k]) \in 1..n
  /\ \A k \in 1..Len(recs) : Len(bytes) % n # n - 1 /\ n > 1 => Len(recs[k]) # n - 1
  /\ \A k \in 1..Len(recs) : Upto(bytes, n, k - 1) \o recs[k] = Upto(bytes, n, k)
  /\ Upto(bytes, n, 0) = <<>> /\ Upto(bytes, n, Len(recs)) = bytes

LEMMA Pieces ==
  ASSUME NEW bytes \in Seq(Byte), NEW n \in Nat, n > 0, NEW recs, recs = Chunks(bytes, n)
  PROVE  InPieces(recs, bytes, n)
<1> DEFINE total == Len(bytes)
<1>0. PICK c \in Int : c = (Len(bytes) + n - 1) \div n  BY Multiples
<1> DEFINE to(k) == IF n * k <= total THEN n * k ELSE total
<1>1. /\ c \in Nat /\ (total > 0 => c > 0) /\ n * c \in Nat /\ total <= n * c
      /\ \A k \in 1..c : /\ n * (k - 1) \in Nat /\ n * k = n * (k - 1) + n /\ n * (k - 1) < total
                         /\ k < c => n * k < total
  <2>1. total \in Nat  OBVIOUS
  <2>2. c = (total + n - 1) \div n  BY <1>0
  <2> HIDE DEF total
  <2>3. /\ c \in Nat /\ (total > 0 => c > 0) /\ n * c \in Nat /\ total <= n * c
        /\ \A k \in 1..c : /\ n * (k - 1) \in Nat /\ n * k = n * (k - 1) + n /\ n * (k - 1) < total
                           /\ k < c => n * k < total
    BY <2>1, <2>2, RoundedUp
  <2>4. QED  BY <2>3
<1>2. ASSUME NEW k \in Nat PROVE Min({n * k, total}) = to(k) /\ to(k) \in 0..total
  <2>1. n * k \in Nat /\ total \in Nat  OBVIOUS
  <2>2. Min({n * k, total}) = IF n * k <= total THEN n * k ELSE total  BY <2>1, MinOfTwo
  <2>3. QED  BY <2>1, <2>2
<1>3. ASSUME NEW k \in 1..c
      PROVE  /\ recs[k] = SubSeq(bytes, n * (k - 1) + 1, to(k)) /\ recs[k] \in Seq(Byte)
             /\ to(k - 1) = n * (k - 1) /\ to(k) \in 0..total
             /\ Len(recs[k]) = to(k) - n * (k - 1) /\ Len(recs[k]) \in 1..n
             /\ k < c => Len(recs[k]) = n
             /\ k = c => to(k) = total
             /\ Upto(bytes, n, k - 1) \o recs[k] = Upto(bytes, n, k)
  <2> DEFINE from == n * (k - 1)
             end == to(k)
  <2>1. k \in Nat /\ k - 1 \in Nat /\ from \in Nat /\ n * k = from + n /\ from < total
        /\ (k < c => n * k < total)
    BY <1>1
  <2>2. recs[k] = SubSeq(bytes, from + 1, Min({n * k, total}))
    BY <1>0 DEF Chunks
  <2>3. Min({n * k, total}) = end /\ end \in 0..total
    BY <2>1, <1>2
  <2>4. end = (IF from + n <= total THEN from + n ELSE total) /\ total \in Nat
    BY <2>1
  <2>5. to(k - 1) = from  BY <2>1
  <2>6. k = c => total <= from + n  BY <1>1, <2>1
  <2>7. Upto(bytes, n, k) = SubSeq(bytes, 1, end)
    BY <2>1, <2>3 DEF Upto
  <2>8. Upto(bytes, n, k - 1) = SubSeq(bytes, 1, from)
    <3>1. Min({n * (k - 1), total}) = to(k - 1)  BY <2>1, <1>2
    <3>2. QED  BY <3>1, <2>5 DEF Upto
  <2> HIDE DEF to, from, end, total
  <2>9. recs[k] = SubSeq(bytes, from + 1, end) /\ from < end /\ end - from \in 1..n
        /\ (k < c => end - from = n) /\ (k = c => end = total)
    <3> DEFINE all == k = c
               some == k < c
    <3>1. from \in Nat /\ from < total /\ total \in Nat /\ n \in Nat /\ n > 0
          /\ end = (IF from + n <= total THEN from + n ELSE total)
          /\ (some => from + n < total) /\ (all => total <= from + n)
      BY <2>1, <2>4, <2>6
    <3> HIDE DEF all, some
    <3>2. from < end /\ end - from \in 1..n /\ (some => end - from = n) /\ (all => end = total)
      BY <3>1
    <3>3. QED  BY <3>2, <2>2, <2>3 DEF all, some
  <2>10. SubSeq(bytes, from + 1, end) \in Seq(Byte) /\ Len(SubSeq(bytes, from + 1, end)) = end - from
    <3>1. \A x \in (from + 1)..end : bytes[x] \in Byte
      BY <2>1, <2>3 DEF total
    <3>2. from + 1 \in Int /\ end \in Int  BY <2>1, <2>3 DEF total
    <3>3. /\ SubSeq(bytes, from + 1, end) \in Seq(Byte)
          /\ Len(SubSeq(bytes, from + 1, end)) = IF from + 1 <= end THEN end - (from + 1) + 1 ELSE 0
      BY <3>1, <3>2, SubSeqProperties
    <3>4. QED  BY <3>2, <3>3, <2>1, <2>9
  <2>11. SubSeq(bytes, 1, from) \o SubSeq(bytes, from + 1, end) = SubSeq(bytes, 1, end)
    <3>1. 1 \in 1..(Len(bytes) + 1) /\ from \in (1 - 1)..Len(bytes) /\ end \in from..Len(bytes)
      BY <2>1, <2>3, <2>9 DEF total
    <3>2. QED  BY <3>1, ConcatAdjacentSubSeq
  <2>12. QED  BY <2>1, <2>3, <2>5, <2>7, <2>8, <2>9, <2>10, <2>11 DEF from, end
<1>4. recs \in Seq(Seq(Byte)) /\ Len(recs) = c
  <2>1. recs = [k \in 1..c |-> recs[k]]
    BY <1>0 DEF Chunks
  <2> HIDE DEF to
  <2>2. recs \in [1..c -> Seq(Byte)]  BY <2>1, <1>3
  <2>3. c \in Nat  BY <1>1
  <2>4. QED  BY <2>2, <2>3
<1>5. c > 0 /\ total % n # n - 1 => Len(recs[c]) # n - 1
  <2>1. SUFFICES ASSUME c > 0, Len(recs[c]) = n - 1 PROVE total % n = n - 1
    OBVIOUS
  <2>2. c \in 1..c  BY <2>1, <1>1
  <2>3. to(c) = total /\ Len(recs[c]) = to(c) - n * (c - 1) /\ n * (c - 1) \in Nat
    <3> HIDE DEF to
    <3> QED  BY <2>2, <1>3, <1>1
  <2>4. c \in Int /\ total \in Int  BY <1>1
  <2> DEFINE before == n * (c - 1)
  <2> HIDE DEF total, to
  <2>5. c - 1 \in Int /\ n - 1 \in 0..(n - 1) /\ before \in Int
    BY <2>3, <2>4
  <2>6. total = before + (n - 1)
    <3> HIDE DEF before
    <3>1. total - before = n - 1  BY <2>1, <2>3 DEF before
    <3>2. QED  BY <3>1, <2>4, <2>5
  <2>7. total = n * (c - 1) + (n - 1)  BY <2>6
  <2> DEFINE q == c - 1
             last == n - 1
  <2>8. q \in Int /\ last \in 0..(n - 1) /\ total = n * q + last /\ total \in Int
    BY <2>4, <2>5, <2>7
  <2> HIDE DEF q
  <2>9. total % n = last
    <3> HIDE DEF last
    <3> QED  BY <2>8, Division
  <2>10. QED  BY <2>9
<1>6. Upto(bytes, n, 0) = <<>>
  <2>1. n * 0 = 0 /\ 0 \in Nat  OBVIOUS
  <2>2. Min({n * 0, total}) = to(0) /\ to(0) \in 0..total  BY <1>2
  <2>3. to(0) = 0  BY <2>1, <2>2
  <2>4. Upto(bytes, n, 0) = SubSeq(bytes, 1, 0)  BY <2>2, <2>3 DEF Upto
  <2>5. QED  BY <2>4, SubSeqEmpty
<1>7. Upto(bytes, n, c) = bytes
  <2>1. Min({n * c, total}) = to(c) /\ to(c) \in 0..total
    <3> HIDE DEF to
    <3> QED  BY <1>1, <1>2
  <2>2. to(c) = total  BY <2>1, <1>1
  <2>3. Upto(bytes, n, c) = SubSeq(bytes, 1, Len(bytes))
    <3> QED  BY <2>1, <2>2 DEF Upto
  <2>4. QED  BY <2>3, SubSeqFull
<1>8. bytes # <<>> => c > 0
  <2>1. bytes # <<>> => total > 0  BY EmptySeq
  <2> HIDE DEF total
  <2>2. QED  BY <2>1, <1>1
<1>9. Len(recs) = c  BY <1>4
<1>10. ASSUME NEW k \in 1..Len(recs)
       PROVE  /\ Len(recs[k]) \in 1..n
              /\ k < Len(recs) => Len(recs[k]) = n
              /\ k = Len(recs) /\ Len(bytes) % n # n - 1 => Len(recs[k]) # n - 1
              /\ Upto(bytes, n, k - 1) \o recs[k] = Upto(bytes, n, k)
  <2> HIDE DEF to, total
  <2>1. k \in 1..c  BY <1>9
  <2>2. Len(recs[k]) \in 1..n /\ (k < c => Len(recs[k]) = n)  BY <2>1, <1>3
  <2>3. Upto(bytes, n, k - 1) \o recs[k] = Upto(bytes, n, k)  BY <2>1, <1>3
  <2>4. k = c /\ Len(bytes) % n # n - 1 => Len(recs[k]) # n - 1
    <3>1. k = c => c > 0  BY <2>1
    <3>2. QED  BY <3>1, <1>5 DEF total
  <2>5. QED  BY <2>2, <2>3, <2>4, <1>9
<1>11. Upto(bytes, n, Len(recs)) = bytes /\ (bytes # <<>> => Len(recs) > 0)
  BY <1>7, <1>8, <1>9
<1>12. \A k \in 1..Len(recs) : Len(recs[k]) \in 1..n
  BY <1>10
<1>13. ASSUME NEW k \in 1..Len(recs), Len(bytes) % n # n - 1, n > 1 PROVE Len(recs[k]) # n - 1
  <2>1. k < Len(recs) \/ k = Len(recs)  BY <1>9
  <2>2. k < Len(recs) => Len(recs[k]) = n  BY <1>10
  <2>3. k = Len(recs) => Len(recs[k]) # n - 1  BY <1>10, <1>13
  <2>4. QED  BY <2>1, <2>2, <2>3
<1>14. \A k \in 1..Len(recs) : Upto(bytes, n, k - 1) \o recs[k] = Upto(bytes, n, k)
  BY <1>10
<1>15. QED  BY <1>4, <1>6, <1>11, <1>12, <1>13, <1>14 DEF InPieces

------------------------------------------------------------------------------
(***************************************************************************)
(* The folds over lines and fields, each as the history of what was read.  *)
(***************************************************************************)
Results == [res : 0..4, bytes : Seq(Byte)]
Recorded(rs, line) == UNION {MCSRecord(r, line) : r \in rs}

LEMMA RecordIn ==
  ASSUME NEW r \in Results, NEW line \in Lines
  PROVE  MCSRecord(r, line) \in SUBSET Results
<1>1. /\ r.res \in 0..4 /\ r.bytes \in Seq(Byte) /\ line.data \in Seq(Byte)
      /\ r = [res |-> r.res, bytes |-> r.bytes]
  BY DEF Results, Lines
<1>2. r.bytes \o line.data \in Seq(Byte)
  BY <1>1, ConcatProperties
<1>3. \A b \in Byte : r.bytes \o line.data \o <<b>> \in Seq(Byte)
  <2>1. \A b \in Byte : <<b>> \in Seq(Byte)  OBVIOUS
  <2>2. QED  BY <1>2, <2>1, ConcatProperties
<1>4. \A res \in 0..4, bytes \in Seq(Byte) : Result(res, bytes) \in Results
  BY DEF Result, Results
<1>5. CASE r.res # 0
  BY <1>5 DEF MCSRecord
<1>6. CASE r.res = 0 /\ line.count = Len(line.data)
  <2>1. MCSRecord(r, line) = {Result(0, r.bytes \o line.data)}  BY <1>6 DEF MCSRecord
  <2> DEFINE joined == r.bytes \o line.data
  <2>2. joined \in Seq(Byte) /\ 0 \in 0..4  BY <1>2
  <2> HIDE DEF joined
  <2>3. Result(0, joined) \in Results  BY <2>2, <1>4
  <2>4. QED  BY <2>1, <2>3 DEF joined
<1>7. CASE r.res = 0 /\ line.count # Len(line.data)
  <2>1. MCSRecord(r, line) = {Result(res, r.bytes \o line.data \o <<b>>) : res \in {0, 3}, b \in Byte}
    BY <1>7 DEF MCSRecord
  <2>2. ASSUME NEW x \in MCSRecord(r, line) PROVE x \in Results
    <3>1. PICK res \in {0, 3}, b \in Byte : x = Result(res, r.bytes \o line.data \o <<b>>)
      BY <2>1
    <3> DEFINE joined == r.bytes \o line.data \o <<b>>
    <3>2. joined \in Seq(Byte) /\ res \in 0..4  BY <1>3
    <3>3. x = Result(res, joined)  BY <3>1
    <3> HIDE DEF joined
    <3>4. QED  BY <3>2, <3>3, <1>4
  <2>3. QED  BY <2>2
<1>8. QED  BY <1>5, <1>6, <1>7

LEMMA RecordsFold ==
  ASSUME NEW records \in Seq(Lines)
  PROVE  \E h \in [0..Len(records) -> SUBSET Results] :
           /\ h[0] = {Result(0, <<>>)} /\ h[Len(records)] = MCSRecords(records)
           /\ \A k \in 1..Len(records) : h[k] = Recorded(h[k - 1], records[k])
<1> DEFINE n == Len(records)
           V == SUBSET Results
           base == {Result(0, <<>>)}
           F == [k \in 1..n |-> [v \in V |-> Recorded(v, records[k])]]
           Eq(g) == g = [s \in SUBSET (1..n) |->
                           IF s = {} THEN base
                           ELSE UNION {MCSRecord(r, records[Max(s)]) : r \in g[s \ {Max(s)}]}]
<1>1. n \in Nat /\ base \in V /\ DOMAIN records = 1..n /\ \A k \in 1..n : records[k] \in Lines
  <2>1. <<>> \in Seq(Byte)  OBVIOUS
  <2>2. QED  BY <2>1 DEF Result, Results
<1>2. \A k \in 1..n : \A v \in V : F[k][v] = Recorded(v, records[k]) /\ F[k][v] \in V
  <2>1. ASSUME NEW k \in 1..n, NEW v \in V PROVE Recorded(v, records[k]) \in V
    <3>1. \A r \in v : MCSRecord(r, records[k]) \in SUBSET Results  BY <1>1, RecordIn
    <3>2. QED  BY <3>1 DEF Recorded
  <2> HIDE DEF V
  <2>2. QED  BY <2>1
<1>3. PICK g \in [SUBSET (1..n) -> V] : IsFold(g, n, base, F)
  <2> HIDE DEF n, V, F, base
  <2> QED  BY <1>1, <1>2, FoldExists
<1>4. Eq(g)
  <2>1. ASSUME NEW s \in SUBSET (1..n)
        PROVE  g[s] = IF s = {} THEN base
                      ELSE UNION {MCSRecord(r, records[Max(s)]) : r \in g[s \ {Max(s)}]}
    <3>1. s # {} => Max(s) \in 1..n /\ g[s \ {Max(s)}] \in V  BY <1>1, MaxPicks
    <3> HIDE DEF V, F, base
    <3>2. s # {} => g[s] = Recorded(g[s \ {Max(s)}], records[Max(s)])
      BY <3>1, <1>2, <1>3 DEF IsFold
    <3>3. s = {} => g[s] = base  BY <1>3 DEF IsFold
    <3>4. QED  BY <3>2, <3>3 DEF Recorded
  <2>2. g = [s \in SUBSET (1..n) |-> g[s]]  OBVIOUS
  <2>3. QED  BY <2>1, <2>2
<1>5. Eq(CHOOSE f : Eq(f))
  BY <1>4
<1> DEFINE f == CHOOSE h : Eq(h)
<1>6. MCSRecords(records) = f[1..n]
  BY <1>1 DEF MCSRecords, FoldLeft, MapThenFoldSet
<1>7. Follows(f, n, V, base, F)
  <2> HIDE DEF f
  <2>1. Eq(f)  BY <1>5 DEF f
  <2>2. \A s \in SUBSET (1..n) : s # {} => Max(s) \in 1..n  BY <1>1, MaxPicks
  <2> HIDE DEF V, F, base
  <2>3. \A s \in SUBSET (1..n) : s # {} => f[s] = Recorded(f[s \ {Max(s)}], records[Max(s)])
    BY <2>1 DEF Recorded
  <2>4. \A s \in SUBSET (1..n) : s = {} => f[s] = base
    BY <2>1
  <2>5. QED  BY <2>2, <2>3, <2>4, <1>2 DEF Follows
<1>8. PICK h : History(h, n, V, base, F, f[1..n])
  <2>1. n \in Nat /\ base \in V /\ \A k \in 1..n : \A v \in V : F[k][v] \in V  BY <1>1, <1>2
  <2> HIDE DEF f, n, V, F, base
  <2> QED  BY <2>1, <1>7, FoldHistory
<1>9. \A k \in 1..n : h[k] = Recorded(h[k - 1], records[k])
  <2>1. n \in Nat  BY <1>1
  <2> HIDE DEF f, n, V, F, base
  <2>2. \A k \in 1..n : k - 1 \in 0..n  BY <2>1
  <2>3. h \in [0..n -> V]  BY <1>8 DEF History
  <2>4. \A k \in 1..n : k - 1 \in 0..n /\ h[k - 1] \in V  BY <2>2, <2>3
  <2>5. QED  BY <2>4, <1>2, <1>8 DEF History
<1>10. QED  BY <1>6, <1>8, <1>9 DEF History

RawRead(lines) == FoldLeft(LAMBDA s, line : s \o line.data, <<>>, lines)

LEMMA RawIn ==
  ASSUME NEW v \in Seq(Byte), NEW line \in Lines
  PROVE  v \o line.data \in Seq(Byte)
<1>1. line.data \in Seq(Byte)  BY DEF Lines
<1>2. QED  BY <1>1, ConcatProperties

LEMMA RawFold ==
  ASSUME NEW lines \in Seq(Lines)
  PROVE  \E h \in [0..Len(lines) -> Seq(Byte)] :
           /\ h[0] = <<>> /\ h[Len(lines)] = RawRead(lines)
           /\ \A k \in 1..Len(lines) : h[k] = h[k - 1] \o lines[k].data
<1> DEFINE n == Len(lines)
           V == Seq(Byte)
           base == <<>>
           F == [k \in 1..n |-> [v \in V |-> v \o lines[k].data]]
           Eq(g) == g = [s \in SUBSET (1..n) |->
                           IF s = {} THEN base ELSE g[s \ {Max(s)}] \o lines[Max(s)].data]
<1>1. n \in Nat /\ base \in V /\ DOMAIN lines = 1..n /\ \A k \in 1..n : lines[k] \in Lines
  <2>1. <<>> \in Seq(Byte)  OBVIOUS
  <2>2. QED  BY <2>1
<1>2. \A k \in 1..n : \A v \in V : F[k][v] = v \o lines[k].data /\ F[k][v] \in V
  <2>1. ASSUME NEW k \in 1..n, NEW v \in V PROVE v \o lines[k].data \in V
    BY <1>1, RawIn
  <2> HIDE DEF V
  <2>2. QED  BY <2>1
<1>3. PICK g \in [SUBSET (1..n) -> V] : IsFold(g, n, base, F)
  <2> HIDE DEF n, V, F, base
  <2> QED  BY <1>1, <1>2, FoldExists
<1>4. Eq(g)
  <2>1. ASSUME NEW s \in SUBSET (1..n)
        PROVE  g[s] = IF s = {} THEN base ELSE g[s \ {Max(s)}] \o lines[Max(s)].data
    <3>1. s # {} => Max(s) \in 1..n /\ g[s \ {Max(s)}] \in V  BY <1>1, MaxPicks
    <3> HIDE DEF V, F, base
    <3>2. QED  BY <3>1, <1>2, <1>3 DEF IsFold
  <2>2. g = [s \in SUBSET (1..n) |-> g[s]]  OBVIOUS
  <2>3. QED  BY <2>1, <2>2
<1>5. Eq(CHOOSE f : Eq(f))
  BY <1>4
<1> DEFINE f == CHOOSE h : Eq(h)
<1>6. RawRead(lines) = f[1..n]
  BY <1>1 DEF RawRead, FoldLeft, MapThenFoldSet
<1>7. Follows(f, n, V, base, F)
  <2> HIDE DEF f
  <2>1. Eq(f)  BY <1>5 DEF f
  <2>2. \A s \in SUBSET (1..n) : s # {} => Max(s) \in 1..n  BY <1>1, MaxPicks
  <2> HIDE DEF V, F, base
  <2>3. QED  BY <2>1, <2>2, <1>2 DEF Follows
<1>8. PICK h : History(h, n, V, base, F, f[1..n])
  <2>1. n \in Nat /\ base \in V /\ \A k \in 1..n : \A v \in V : F[k][v] \in V  BY <1>1, <1>2
  <2> HIDE DEF f, n, V, F, base
  <2> QED  BY <2>1, <1>7, FoldHistory
<1>9. \A k \in 1..n : h[k] = h[k - 1] \o lines[k].data
  <2>1. n \in Nat  BY <1>1
  <2> HIDE DEF f, n, V, F, base
  <2>2. \A k \in 1..n : k - 1 \in 0..n  BY <2>1
  <2>3. h \in [0..n -> V]  BY <1>8 DEF History
  <2>4. \A k \in 1..n : k - 1 \in 0..n /\ h[k - 1] \in V  BY <2>2, <2>3
  <2>5. QED  BY <2>4, <1>2, <1>8 DEF History
<1>10. QED  BY <1>6, <1>8, <1>9 DEF History

(* The provers do not know of a string that it is one: Names has those the *)
(* program itself puts into a file.                                        *)
Names == STRING \cup {"none", "empty", "JEDEC", ""}
NamedFields == [f : {"QF", "L", "N", "dangling", "foreign"}, n : Nat, data : Seq(Byte), name : Names]
NamedFiles(of) == [style : Names, lines : Seq(of), of : Seq(Byte), flushed : BOOLEAN,
                   device : Names]

Jeds == [res : {0, 1, 2, 3, Thrown}, fuses : Seq(Byte), device : Names]
FieldsRead(fields) == FoldLeft(JedField, Jed(0, <<>>, "none"), fields)

LEMMA FieldIn ==
  ASSUME NEW s \in Jeds, NEW field \in NamedFields
  PROVE  JedField(s, field) \in Jeds
<1>1. /\ s.res \in {0, 1, 2, 3, Thrown} /\ s.fuses \in Seq(Byte) /\ s.device \in Names
      /\ field.n \in Nat /\ field.data \in Seq(Byte) /\ field.name \in Names
  BY DEF Jeds, NamedFields
<1>2. \A res \in {0, 1, 2, 3, Thrown} : [s EXCEPT !.res = res] \in Jeds
  BY DEF Jeds
<1>3. \A fuses \in Seq(Byte) : [s EXCEPT !.fuses = fuses] \in Jeds
  BY DEF Jeds
<1>4. \A device \in Names : [s EXCEPT !.device = device] \in Jeds
  BY DEF Jeds
<1>5. Fill(field.n, 0) \in Seq(Byte)
  <2>1. 0 \in Byte /\ field.n \in Int  BY <1>1 DEF Byte
  <2>2. QED  BY <2>1, FillIn
<1>6. [k \in DOMAIN s.fuses |-> IF k - field.n \in DOMAIN field.data
                                THEN field.data[k - field.n] ELSE s.fuses[k]] \in Seq(Byte)
  <2> DEFINE data == field.data
             fuses == s.fuses
  <2>1. data \in Seq(Byte) /\ fuses \in Seq(Byte)  BY <1>1
  <2> HIDE DEF data, fuses
  <2>2. \A k \in DOMAIN fuses : fuses[k] \in Byte  BY <2>1
  <2>3. \A k \in DOMAIN data : data[k] \in Byte  BY <2>1
  <2>4. [k \in 1..Len(fuses) |-> IF k - field.n \in DOMAIN data THEN data[k - field.n] ELSE fuses[k]]
          \in Seq(Byte)
    BY <2>1, <2>2, <2>3
  <2>5. QED  BY <2>1, <2>4 DEF data, fuses
<1>7. 2 \in {0, 1, 2, 3, Thrown} /\ Thrown \in {0, 1, 2, 3, Thrown}
  OBVIOUS
<1>8. \/ JedField(s, field) = s
      \/ JedField(s, field) = [s EXCEPT !.res = 2]
      \/ JedField(s, field) = [s EXCEPT !.fuses = Fill(field.n, 0)]
      \/ JedField(s, field) = [s EXCEPT !.res = Thrown]
      \/ JedField(s, field) = [s EXCEPT !.fuses =
           [k \in DOMAIN s.fuses |-> IF k - field.n \in DOMAIN field.data
                                     THEN field.data[k - field.n] ELSE s.fuses[k]]]
      \/ JedField(s, field) = [s EXCEPT !.device = field.name]
  BY DEF JedField
<1>9. QED  BY <1>1, <1>2, <1>3, <1>4, <1>5, <1>6, <1>7, <1>8

LEMMA FieldFold ==
  ASSUME NEW fields \in Seq(NamedFields)
  PROVE  \E h \in [0..Len(fields) -> Jeds] :
           /\ h[0] = Jed(0, <<>>, "none") /\ h[Len(fields)] = FieldsRead(fields)
           /\ \A k \in 1..Len(fields) : h[k] = JedField(h[k - 1], fields[k])
<1> DEFINE n == Len(fields)
           V == Jeds
           base == Jed(0, <<>>, "none")
           F == [k \in 1..n |-> [v \in V |-> JedField(v, fields[k])]]
           Eq(g) == g = [s \in SUBSET (1..n) |->
                           IF s = {} THEN base ELSE JedField(g[s \ {Max(s)}], fields[Max(s)])]
<1>1. n \in Nat /\ base \in V /\ DOMAIN fields = 1..n /\ \A k \in 1..n : fields[k] \in NamedFields
  <2>1. <<>> \in Seq(Byte)  OBVIOUS
  <2>2. \A res \in {0, 1, 2, 3, Thrown}, fuses \in Seq(Byte), device \in Names :
          Jed(res, fuses, device) \in Jeds
    BY DEF Jed, Jeds
  <2> DEFINE none == <<>>
             nobody == "none"
             good == 0
  <2>3. good \in {0, 1, 2, 3, Thrown} /\ none \in Seq(Byte) /\ nobody \in Names
    BY <2>1 DEF Names
  <2>4. base = Jed(good, none, nobody)  OBVIOUS
  <2> HIDE DEF none, nobody, good
  <2>5. base \in V
    <3> HIDE DEF base
    <3> QED  BY <2>2, <2>3, <2>4
  <2> HIDE DEF base, V
  <2>6. QED  BY <2>5
<1>2. \A k \in 1..n : \A v \in V : F[k][v] = JedField(v, fields[k]) /\ F[k][v] \in V
  <2>1. ASSUME NEW k \in 1..n, NEW v \in V PROVE JedField(v, fields[k]) \in V
    BY <1>1, FieldIn
  <2> HIDE DEF V
  <2>2. QED  BY <2>1
<1>3. PICK g \in [SUBSET (1..n) -> V] : IsFold(g, n, base, F)
  <2> HIDE DEF n, V, F, base
  <2> QED  BY <1>1, <1>2, FoldExists
<1>4. Eq(g)
  <2>1. ASSUME NEW s \in SUBSET (1..n)
        PROVE  g[s] = IF s = {} THEN base ELSE JedField(g[s \ {Max(s)}], fields[Max(s)])
    <3>1. s # {} => Max(s) \in 1..n /\ g[s \ {Max(s)}] \in V  BY <1>1, MaxPicks
    <3> HIDE DEF V, F, base
    <3>2. QED  BY <3>1, <1>2, <1>3 DEF IsFold
  <2>2. g = [s \in SUBSET (1..n) |-> g[s]]  OBVIOUS
  <2>3. QED  BY <2>1, <2>2
<1>5. Eq(CHOOSE f : Eq(f))
  BY <1>4
<1> DEFINE f == CHOOSE h : Eq(h)
<1>6. FieldsRead(fields) = f[1..n]
  BY <1>1 DEF FieldsRead, FoldLeft, MapThenFoldSet
<1>7. Follows(f, n, V, base, F)
  <2> HIDE DEF f
  <2>1. Eq(f)  BY <1>5 DEF f
  <2>2. \A s \in SUBSET (1..n) : s # {} => Max(s) \in 1..n  BY <1>1, MaxPicks
  <2> HIDE DEF V, F, base
  <2>3. QED  BY <2>1, <2>2, <1>2 DEF Follows
<1>8. PICK h : History(h, n, V, base, F, f[1..n])
  <2>1. n \in Nat /\ base \in V /\ \A k \in 1..n : \A v \in V : F[k][v] \in V  BY <1>1, <1>2
  <2> HIDE DEF f, n, V, F, base
  <2> QED  BY <2>1, <1>7, FoldHistory
<1>9. \A k \in 1..n : h[k] = JedField(h[k - 1], fields[k])
  <2>1. n \in Nat  BY <1>1
  <2> HIDE DEF f, n, V, F, base
  <2>2. \A k \in 1..n : k - 1 \in 0..n  BY <2>1
  <2>3. h \in [0..n -> V]  BY <1>8 DEF History
  <2>4. \A k \in 1..n : k - 1 \in 0..n /\ h[k - 1] \in V  BY <2>2, <2>3
  <2>5. QED  BY <2>4, <1>2, <1>8 DEF History
<1>10. QED  BY <1>6, <1>8, <1>9 DEF History

------------------------------------------------------------------------------
(***************************************************************************)
(* What is saved, and what is read.                                        *)
(***************************************************************************)
LEMMA AnnouncedIs ==
  ASSUME NEW n \in Nat
  PROVE  /\ Announced(n) \in Nat
         /\ n <= LineLen /\ n # LineLen - 1 => Announced(n) = n
BY LineAssumption DEF Announced

LEMMA OneMore ==
  ASSUME NEW S, NEW s \in Seq(S), NEW x \in S
  PROVE  /\ s \o <<x>> \in Seq(S) /\ s \o <<x>> # <<>>
         /\ Last(s \o <<x>>) = x /\ Front(s \o <<x>>) = s
<1>1. <<x>> \in Seq(S) /\ Len(<<x>>) = 1 /\ <<x>>[1] = x /\ Len(s) \in Nat
  OBVIOUS
<1> DEFINE t == s \o <<x>>
<1>2. t \in Seq(S) /\ Len(t) = Len(s) + 1
      /\ \A k \in 1..(Len(s) + 1) : t[k] = IF k <= Len(s) THEN s[k] ELSE <<x>>[k - Len(s)]
  BY <1>1, ConcatProperties
<1> HIDE DEF t
<1>3. t[Len(t)] = x
  <2>1. t[Len(s) + 1] = <<x>>[Len(s) + 1 - Len(s)]  BY <1>1, <1>2
  <2>2. Len(s) + 1 - Len(s) = 1  BY <1>1
  <2>3. QED  BY <2>1, <2>2, <1>1, <1>2
<1>4. SubSeq(t, 1, Len(s)) = s
  <2>1. Len(s) \in 0..Len(t)  BY <1>1, <1>2
  <2>2. /\ SubSeq(t, 1, Len(s)) \in Seq(S) /\ Len(SubSeq(t, 1, Len(s))) = Len(s)
        /\ \A k \in 1..Len(s) : SubSeq(t, 1, Len(s))[k] = t[k]
    BY <1>2, <2>1, Beginning
  <2> DEFINE u == SubSeq(t, 1, Len(s))
  <2>3. \A k \in 1..Len(s) : t[k] = s[k]  BY <1>1, <1>2
  <2>4. u \in Seq(S) /\ Len(u) = Len(s) /\ \A k \in 1..Len(u) : u[k] = s[k]  BY <2>2, <2>3
  <2> HIDE DEF u
  <2>5. u = s  BY <2>4, SeqEqual
  <2>6. QED  BY <2>5 DEF u
<1>5. Len(t) - 1 = Len(s) /\ t # <<>>
  BY <1>1, <1>2
<1>6. QED  BY <1>2, <1>3, <1>4, <1>5 DEF Last, Front, t

LEMMA AsSequence ==
  ASSUME NEW S, NEW n \in Nat, NEW f \in [1..n -> S]
  PROVE  f \in Seq(S) /\ Len(f) = n
OBVIOUS

(* The lines of a file with records, and with raw bytes.                   *)
RecordLines(recs) == [k \in 1..Len(recs) |-> Line(recs[k], Announced(Len(recs[k])), TRUE)]
EndOfFile == Line(<<>>, 0, FALSE)
RawLines(raws, full) == [k \in 1..Len(raws) |-> Line(raws[k], 0, k < Len(raws) \/ full)]

LEMMA LinesOfIs ==
  ASSUME NEW style, NEW bytes \in Seq(Byte)
  PROVE  /\ style \in Records =>
              /\ Chunks(bytes, LineLen) \in Seq(Seq(Byte))
              /\ LinesOf(style, bytes) = RecordLines(Chunks(bytes, LineLen)) \o <<EndOfFile>>
         /\ style = "HEXRAW" =>
              /\ Chunks(bytes, RawLen) \in Seq(Seq(Byte))
              /\ LinesOf(style, bytes)
                   = RawLines(Chunks(bytes, RawLen), Len(bytes) % RawLen # RawLen - 1)
         /\ style \notin Records \cup {"HEXRAW"} =>
              LinesOf(style, bytes)
                = <<Line(bytes, IF style = "BIT" THEN Len(bytes) ELSE 0, TRUE)>>
<1>1. ASSUME NEW n \in Nat, n > 0
      PROVE  /\ Chunks(bytes, n) \in Seq(Seq(Byte))
             /\ DOMAIN Chunks(bytes, n) = 1..Len(Chunks(bytes, n))
  <2> DEFINE recs == Chunks(bytes, n)
  <2>1. recs = Chunks(bytes, n)  OBVIOUS
  <2> HIDE DEF recs
  <2>2. recs \in Seq(Seq(Byte))  BY <1>1, <2>1, Pieces DEF InPieces
  <2>3. DOMAIN recs = 1..Len(recs)  BY <2>2
  <2>4. QED  BY <2>1, <2>2, <2>3
<1>2. LineLen \in Nat /\ LineLen > 0 /\ RawLen \in Nat /\ RawLen > 0  BY LineAssumption
<1>3. ASSUME style \in Records
      PROVE  LinesOf(style, bytes)
               = LET recs == Chunks(bytes, LineLen)
                 IN  [k \in DOMAIN recs |-> Line(recs[k], Announced(Len(recs[k])), TRUE)]
                       \o <<Line(<<>>, 0, FALSE)>>
  <2>1. style # "HEXRAW" /\ style # "BIT"  BY <1>3 DEF Records
  <2>2. QED  BY <1>3, <2>1, Zenon DEF LinesOf
<1>4. ASSUME style = "HEXRAW"
      PROVE  LinesOf(style, bytes)
               = [k \in DOMAIN Chunks(bytes, RawLen) |->
                    Line(Chunks(bytes, RawLen)[k], 0,
                         k < Len(Chunks(bytes, RawLen)) \/ Len(bytes) % RawLen # RawLen - 1)]
  <2>1. style \notin Records  BY <1>4 DEF Records
  <2>2. QED  BY <1>4, <2>1 DEF LinesOf
<1>5. style \notin Records \cup {"HEXRAW"} =>
        LinesOf(style, bytes) = <<Line(bytes, IF style = "BIT" THEN Len(bytes) ELSE 0, TRUE)>>
  BY DEF LinesOf
<1>6. style \in Records => LinesOf(style, bytes) = RecordLines(Chunks(bytes, LineLen)) \o <<EndOfFile>>
  BY <1>1, <1>2, <1>3 DEF RecordLines, EndOfFile
<1>7. style = "HEXRAW" =>
        LinesOf(style, bytes) = RawLines(Chunks(bytes, RawLen), Len(bytes) % RawLen # RawLen - 1)
  BY <1>1, <1>2, <1>4 DEF RawLines
<1>8. QED  BY <1>1, <1>2, <1>5, <1>6, <1>7

LEMMA LinesAre ==
  ASSUME NEW style, NEW bytes \in Seq(Byte)
  PROVE  LinesOf(style, bytes) \in Seq(Lines)
<1>1. \A data \in Seq(Byte), count \in Nat, ended \in BOOLEAN : Line(data, count, ended) \in Lines
  BY DEF Line, Lines
<1>2. EndOfFile \in Lines
  <2>1. <<>> \in Seq(Byte)  OBVIOUS
  <2>2. QED  BY <2>1 DEF EndOfFile, Line, Lines
<1>3. ASSUME NEW recs \in Seq(Seq(Byte)) PROVE RecordLines(recs) \in Seq(Lines)
  <2>1. ASSUME NEW k \in 1..Len(recs)
        PROVE  Line(recs[k], Announced(Len(recs[k])), TRUE) \in Lines
    <3>1. recs[k] \in Seq(Byte)  BY <1>3
    <3>2. Len(recs[k]) \in Nat  BY <3>1
    <3>3. Announced(Len(recs[k])) \in Nat /\ TRUE \in BOOLEAN  BY <3>2, AnnouncedIs
    <3>4. QED  BY <3>1, <3>3, <1>1
  <2>2. RecordLines(recs) \in [1..Len(recs) -> Lines]  BY <2>1 DEF RecordLines
  <2>3. Len(recs) \in Nat  OBVIOUS
  <2>4. QED  BY <2>2, <2>3, AsSequence
<1>4. ASSUME NEW raws \in Seq(Seq(Byte)), NEW full \in BOOLEAN PROVE RawLines(raws, full) \in Seq(Lines)
  <2>1. ASSUME NEW k \in 1..Len(raws)
        PROVE  Line(raws[k], 0, k < Len(raws) \/ full) \in Lines
    <3>1. raws[k] \in Seq(Byte)  BY <1>4
    <3>2. QED  BY <3>1 DEF Line, Lines
  <2>2. RawLines(raws, full) \in [1..Len(raws) -> Lines]  BY <2>1 DEF RawLines
  <2>3. Len(raws) \in Nat  OBVIOUS
  <2>4. QED  BY <2>2, <2>3, AsSequence
<1>5. CASE style \in Records
  <2> DEFINE ls == RecordLines(Chunks(bytes, LineLen))
  <2>1. Chunks(bytes, LineLen) \in Seq(Seq(Byte)) /\ LinesOf(style, bytes) = ls \o <<EndOfFile>>
    BY <1>5, LinesOfIs
  <2>2. ls \in Seq(Lines)  BY <2>1, <1>3
  <2> HIDE DEF ls
  <2>3. QED  BY <2>1, <2>2, <1>2, OneMore
<1>6. CASE style = "HEXRAW"
  <2>1. LinesOf(style, bytes) = RawLines(Chunks(bytes, RawLen), Len(bytes) % RawLen # RawLen - 1)
        /\ Chunks(bytes, RawLen) \in Seq(Seq(Byte))
    BY <1>6, LinesOfIs
  <2>2. (Len(bytes) % RawLen # RawLen - 1) \in BOOLEAN  OBVIOUS
  <2>3. QED  BY <2>1, <2>2, <1>4
<1>7. CASE style \notin Records \cup {"HEXRAW"}
  <2> DEFINE only == Line(bytes, IF style = "BIT" THEN Len(bytes) ELSE 0, TRUE)
  <2>1. LinesOf(style, bytes) = <<only>>  BY <1>7, LinesOfIs
  <2>2. only \in Lines  BY DEF Line, Lines
  <2> HIDE DEF only
  <2>3. <<only>> \in Seq(Lines)  BY <2>2
  <2>4. QED  BY <2>1, <2>3 DEF only
<1>8. QED  BY <1>5, <1>6, <1>7

LEMMA NoFileIn ==
  ASSUME NEW of
  PROVE  Missing \in NamedFiles(of) /\ Empty \in NamedFiles(of)
<1> DEFINE none == <<>>
<1>1. none \in Seq(of) /\ none \in Seq(Byte)  OBVIOUS
<1>2. {"none", "empty"} \subseteq Names /\ TRUE \in BOOLEAN  BY DEF Names
<1>3. Missing = [style |-> "none", lines |-> none, of |-> none, flushed |-> TRUE, device |-> "none"]
  BY DEF Missing
<1>4. Empty = [style |-> "empty", lines |-> none, of |-> none, flushed |-> TRUE, device |-> "none"]
  <2>1. Empty = [[style |-> "none", lines |-> none, of |-> none, flushed |-> TRUE, device |-> "none"]
                   EXCEPT !.style = "empty"]
    BY <1>3 DEF Empty
  <2> HIDE DEF none
  <2>2. QED  BY <2>1
<1> HIDE DEF none
<1>5. QED  BY <1>1, <1>2, <1>3, <1>4 DEF NamedFiles

LEMMA SavedIn ==
  ASSUME NEW style \in STRING, NEW bytes \in Seq(Byte), NEW rlength \in 0..Len(bytes)
  PROVE  saveAs(style, bytes, rlength) \in NamedFiles(Lines)
<1>1. CASE bytes = <<>> \/ style \notin Savable
  BY <1>1, NoFileIn DEF saveAs
<1>2. CASE ~(bytes = <<>> \/ style \notin Savable)
  <2> DEFINE kept == Clipped(bytes, rlength)
             ls == LinesOf(style, Oriented(style, kept))
  <2>1. saveAs(style, bytes, rlength)
          = [style |-> style, lines |-> ls, of |-> kept, flushed |-> TRUE, device |-> "none"]
    BY <1>2 DEF saveAs
  <2>2. kept \in Seq(Byte)  BY <1>2, ClippedIs
  <2>3. ls \in Seq(Lines)
    <3> HIDE DEF kept
    <3>1. Oriented(style, kept) \in Seq(Byte)  BY <2>2, OrientedIn
    <3>2. QED  BY <3>1, LinesAre
  <2>4. style \in Names /\ "none" \in Names /\ TRUE \in BOOLEAN  BY DEF Names
  <2> HIDE DEF kept, ls
  <2>5. QED  BY <2>1, <2>2, <2>3, <2>4 DEF NamedFiles
<1>3. QED  BY <1>1, <1>2

LEMMA SavedJedIn ==
  ASSUME NEW fuses \in Seq(Byte), NEW device \in Names
  PROVE  /\ saveAsJed(fuses, device).lines = <<QF(Len(fuses)), Named(device), L(0, fuses)>>
         /\ saveAsJed(fuses, device).lines \in Seq(NamedFields)
         /\ saveAsJed(fuses, device) \in NamedFiles(NamedFields)
<1> DEFINE ls == <<QF(Len(fuses)), Named(device), L(0, fuses)>>
<1>1. \A f \in {"QF", "L", "N", "dangling"}, n \in Nat, data \in Seq(Byte), name \in Names :
        Field(f, n, data, name) \in NamedFields
  BY DEF Field, NamedFields
<1>2. <<>> \in Seq(Byte) /\ Len(fuses) \in Nat  OBVIOUS
<1>3. "" \in Names /\ "JEDEC" \in Names /\ "none" \in Names  BY DEF Names
<1>4. QF(Len(fuses)) \in NamedFields
  BY <1>2, <1>3 DEF QF, Field, NamedFields
<1>5. Named(device) \in NamedFields
  BY <1>2 DEF Named, Field, NamedFields
<1>6. L(0, fuses) \in NamedFields
  BY <1>3 DEF L, Field, NamedFields
<1>7. ls \in Seq(NamedFields)
  BY <1>4, <1>5, <1>6
<1>8. saveAsJed(fuses, device)
        = [style |-> "JEDEC", lines |-> ls, of |-> fuses, flushed |-> TRUE, device |-> "none"]
  BY DEF saveAsJed, JedecFile
<1>9. saveAsJed(fuses, device) \in NamedFiles(NamedFields)
  <2>1. TRUE \in BOOLEAN  OBVIOUS
  <2> HIDE DEF ls
  <2>2. [style |-> "JEDEC", lines |-> ls, of |-> fuses, flushed |-> TRUE, device |-> "none"]
          \in NamedFiles(NamedFields)
    BY <1>3, <1>7, <2>1 DEF NamedFiles
  <2>3. QED  BY <1>8, <2>2
<1>10. QED  BY <1>7, <1>8, <1>9

(* What a loader finds on the disk are lines, as many as there may be.     *)
LEMMA OnDiskIn ==
  ASSUME NEW of, NEW file, file.lines \in Seq(of), NEW lines \in OnDisk(file)
  PROVE  lines \in Seq(of)
<1>1. CASE file.flushed
  BY <1>1 DEF OnDisk
<1>2. CASE ~file.flushed
  <2> DEFINE all == file.lines
  <2>1. PICK k \in {0, Len(all) - 1} : lines = SubSeq(all, 1, k)  BY <1>2 DEF OnDisk
  <2>2. all \in Seq(of)  OBVIOUS
  <2> HIDE DEF all
  <2>3. CASE k \in 0..Len(all)
    BY <2>1, <2>2, <2>3, Beginning
  <2>4. CASE k \notin 0..Len(all)
    <3>1. k \in Int /\ k < 1  BY <2>2, <2>4
    <3>2. SubSeq(all, 1, k) = <<>>  BY <2>2, <3>1, SubSeqEmpty
    <3>3. QED  BY <2>1, <3>2
  <2>5. QED  BY <2>3, <2>4
<1>3. QED  BY <1>1, <1>2

LEMMA ResultIn ==
  ASSUME NEW res \in 0..4, NEW bytes \in Seq(Byte)
  PROVE  Result(res, bytes) \in Results
BY DEF Result, Results

LEMMA MCSIn ==
  ASSUME NEW lines \in Seq(Lines)
  PROVE  readMCSfile(lines) \in SUBSET Results
<1> DEFINE ended == lines # <<>> /\ ~Last(lines).ended
           records == IF ended THEN Front(lines) ELSE lines
           Cut(r, b) == IF r.res # 0 THEN r ELSE Result(4, r.bytes \o <<b>>)
<1>1. records \in Seq(Lines)
  <2>1. CASE ended
    <3>1. Len(lines) \in Nat \ {0}  BY <2>1, EmptySeq
    <3>2. Len(lines) - 1 \in 0..Len(lines)  BY <3>1
    <3>3. QED  BY <2>1, <3>2, Beginning DEF Front
  <2>2. CASE ~ended
    BY <2>2
  <2>3. QED  BY <2>1, <2>2
<1>2. MCSRecords(records) \in SUBSET Results
  <2> HIDE DEF records
  <2>1. PICK h \in [0..Len(records) -> SUBSET Results] : h[Len(records)] = MCSRecords(records)
    BY <1>1, RecordsFold
  <2>2. Len(records) \in 0..Len(records)  BY <1>1
  <2>3. QED  BY <2>1, <2>2
<1>3. readMCSfile(lines)
        = IF ended \/ lines = <<>>
          THEN {IF ended THEN r ELSE Result(4, <<>>) : r \in MCSRecords(records)}
          ELSE {Cut(r, b) : r \in MCSRecords(records), b \in Byte}
  BY DEF readMCSfile
<1>4. ASSUME NEW x \in readMCSfile(lines) PROVE x \in Results
  <2> HIDE DEF ended, records
  <2>1. CASE ended \/ lines = <<>>
    <3>1. PICK r \in MCSRecords(records) : x = IF ended THEN r ELSE Result(4, <<>>)
      BY <1>3, <1>4, <2>1
    <3>2. r \in Results /\ <<>> \in Seq(Byte) /\ 4 \in 0..4  BY <1>2
    <3>3. Result(4, <<>>) \in Results  BY <3>2, ResultIn
    <3>4. QED  BY <3>1, <3>2, <3>3
  <2>2. CASE ~(ended \/ lines = <<>>)
    <3>1. PICK r \in MCSRecords(records), b \in Byte : x = Cut(r, b)
      <4> HIDE DEF Cut
      <4>1. x \in {Cut(r, b) : r \in MCSRecords(records), b \in Byte}
        BY <1>3, <1>4, <2>2
      <4>2. QED  BY <4>1
    <3>2. r \in Results /\ r.bytes \in Seq(Byte)  BY <1>2 DEF Results
    <3>3. r.bytes \o <<b>> \in Seq(Byte) /\ 4 \in 0..4  BY <3>2, OneMore
    <3>4. Result(4, r.bytes \o <<b>>) \in Results  BY <3>3, ResultIn
    <3>5. QED  BY <3>1, <3>2, <3>4
  <2>3. QED  BY <2>1, <2>2
<1>5. QED  BY <1>4

LEMMA RawReadIn ==
  ASSUME NEW lines \in Seq(Lines)
  PROVE  RawRead(lines) \in Seq(Byte)
<1>1. PICK h \in [0..Len(lines) -> Seq(Byte)] : h[Len(lines)] = RawRead(lines)
  BY RawFold
<1>2. Len(lines) \in 0..Len(lines)  OBVIOUS
<1>3. QED  BY <1>1, <1>2

(* The byte a last line is read on into is one of the file's.              *)
LEMMA LastIn ==
  ASSUME NEW v \in Seq(Byte), NEW data \in Seq(Byte), data # <<>>
  PROVE  Last(v \o data) \in Byte
<1>1. Len(data) \in Nat \ {0} /\ Len(v) \in Nat  BY EmptySeq
<1>2. v \o data \in Seq(Byte) /\ Len(v \o data) = Len(v) + Len(data)  BY ConcatProperties
<1> DEFINE t == v \o data
<1> HIDE DEF t
<1>3. t \in Seq(Byte) /\ Len(t) \in 1..Len(t)  BY <1>1, <1>2 DEF t
<1>4. t[Len(t)] \in Byte  BY <1>3
<1>5. QED  BY <1>4 DEF t, Last

LEMMA HEXRAWIn ==
  ASSUME NEW lines \in Seq(Lines), NEW r \in readHEXRAW(lines)
  PROVE  r \in Results
<1> DEFINE data == RawRead(lines)
           tail == Fill(1, Last(data))
           whole == lines = <<>> \/ Last(lines).ended \/ Last(lines).data = <<>>
<1>1. data \in Seq(Byte)  BY RawReadIn
<1>2. ASSUME ~whole PROVE tail \in Seq(Byte)
  <2>1. PICK h \in [0..Len(lines) -> Seq(Byte)] :
          /\ h[Len(lines)] = RawRead(lines)
          /\ \A k \in 1..Len(lines) : h[k] = h[k - 1] \o lines[k].data
    BY RawFold
  <2>2. Len(lines) \in 1..Len(lines)  BY <1>2, EmptySeq
  <2>3. Last(lines) = lines[Len(lines)] /\ lines[Len(lines)] \in Lines  BY <2>2 DEF Last
  <2>4. lines[Len(lines)].data \in Seq(Byte) /\ lines[Len(lines)].data # <<>>
    BY <1>2, <2>3 DEF Lines
  <2>5. h[Len(lines) - 1] \in Seq(Byte)  BY <2>2
  <2>6. Last(data) \in Byte  BY <2>1, <2>2, <2>4, <2>5, LastIn
  <2> HIDE DEF data
  <2>7. QED  BY <2>6, FillIn
<1>3. /\ whole => r = Result(0, data)
      /\ ~whole => r = Result(0, data \o tail) \/ r = Result(0, data \o tail \o tail)
  BY DEF readHEXRAW, RawRead
<1> HIDE DEF data, tail, whole
<1>4. ~whole => data \o tail \in Seq(Byte) /\ data \o tail \o tail \in Seq(Byte)
  BY <1>1, <1>2, ConcatProperties
<1>5. 0 \in 0..4  OBVIOUS
<1>6. QED  BY <1>1, <1>3, <1>4, <1>5, ResultIn

LEMMA LinesIn ==
  ASSUME NEW style, NEW lines \in Seq(Lines), NEW r \in readLines(style, lines)
  PROVE  r \in Results
<1>1. lines # <<>> => lines[1].data \in Seq(Byte) /\ lines[1].count \in Nat
  <2>1. lines # <<>> => lines[1] \in Lines  BY EmptySeq
  <2>2. QED  BY <2>1 DEF Lines
<1>2. <<>> \in Seq(Byte) /\ 0 \in 0..4 /\ 2 \in 0..4  OBVIOUS
<1>3. readBitfile(lines) \subseteq Results /\ readBIN(lines) \subseteq Results
  <2>1. readBIN(lines) \subseteq Results  BY <1>1, <1>2, ResultIn DEF readBIN
  <2>2. CASE lines = <<>>  BY <1>2, <2>1, <2>2, ResultIn DEF readBitfile
  <2>3. CASE lines # <<>>
    <3> DEFINE data == lines[1].data
               n == lines[1].count
    <3>1. data \in Seq(Byte) /\ Len(data) \in Nat /\ n \in Nat  BY <1>1, <2>3
    <3>2. readBitfile(lines)
            = IF n = 0 THEN {Result(0, <<>>), Result(2, <<>>)}
              ELSE IF n <= Len(data) THEN {Result(0, SubSeq(data, 1, n))}
              ELSE {Result(2, data \o rest) : rest \in [1..(n - Len(data)) -> Byte]}
      BY <2>3 DEF readBitfile
    <3> HIDE DEF data, n
    <3>3. n <= Len(data) => SubSeq(data, 1, n) \in Seq(Byte)  BY <3>1, Beginning
    <3>4. ASSUME n > Len(data), NEW rest \in [1..(n - Len(data)) -> Byte]
          PROVE  data \o rest \in Seq(Byte)
      <4>1. n - Len(data) \in Nat  BY <3>1, <3>4
      <4>2. rest \in Seq(Byte)  BY <4>1, AsSequence
      <4>3. QED  BY <3>1, <4>2, ConcatProperties
    <3>5. CASE n = 0  BY <1>2, <2>1, <3>2, <3>5, ResultIn
    <3>6. CASE n # 0 /\ n <= Len(data)
      <4>1. readBitfile(lines) = {Result(0, SubSeq(data, 1, n))}  BY <3>2, <3>6
      <4>2. Result(0, SubSeq(data, 1, n)) \in Results  BY <1>2, <3>3, <3>6, ResultIn
      <4>3. QED  BY <2>1, <4>1, <4>2
    <3>7. CASE n > Len(data)
      <4>1. ASSUME NEW rest \in [1..(n - Len(data)) -> Byte] PROVE Result(2, data \o rest) \in Results
        BY <1>2, <3>4, <3>7, ResultIn
      <4>2. readBitfile(lines) = {Result(2, data \o rest) : rest \in [1..(n - Len(data)) -> Byte]}
        BY <3>1, <3>2, <3>7
      <4>3. QED  BY <2>1, <4>1, <4>2
    <3>8. QED  BY <3>1, <3>5, <3>6, <3>7
  <2>4. QED  BY <2>2, <2>3
<1>4. readMCSfile(lines) \subseteq Results /\ readHEXRAW(lines) \subseteq Results
  BY MCSIn, HEXRAWIn
<1>5. r \in readMCSfile(lines) \cup readHEXRAW(lines) \cup readBitfile(lines) \cup readBIN(lines)
  BY DEF readLines
<1>6. QED  BY <1>3, <1>4, <1>5

(* Whatever a file holds, what is read of it is bytes, and a result.       *)
LEMMA FileIn ==
  ASSUME NEW style, NEW file, file = Missing \/ file.lines \in Seq(Lines)
  PROVE  readFile(style, file) \in SUBSET Results
<1>1. CASE file = Missing \/ style \notin Readable
  <2>1. readFile(style, file) = {Result(1, <<>>)}  BY <1>1 DEF readFile
  <2>2. <<>> \in Seq(Byte) /\ 1 \in 0..4  OBVIOUS
  <2>3. QED  BY <2>1, <2>2, ResultIn
<1>2. CASE ~(file = Missing \/ style \notin Readable)
  <2>1. ASSUME NEW x \in readFile(style, file) PROVE x \in Results
    <3>1. PICK r \in UNION {readLines(style, lines) : lines \in OnDisk(file)} :
            x = Result(r.res, Oriented(style, r.bytes))
      BY <1>2, <2>1 DEF readFile
    <3>2. PICK lines \in OnDisk(file) : r \in readLines(style, lines)
      BY <3>1
    <3>3. lines \in Seq(Lines)  BY <1>2, OnDiskIn
    <3>4. r.res \in 0..4 /\ r.bytes \in Seq(Byte)  BY <3>2, <3>3, LinesIn DEF Results
    <3>5. Oriented(style, r.bytes) \in Seq(Byte)  BY <3>4, OrientedIn
    <3>6. QED  BY <3>1, <3>4, <3>5, ResultIn
  <2>2. QED  BY <2>1
<1>3. QED  BY <1>1, <1>2

LEMMA JedIn ==
  ASSUME NEW file, file = Missing \/ file.lines \in Seq(NamedFields)
  PROVE  readJed(file) \in SUBSET Jeds
<1>1. ASSUME NEW fields \in Seq(NamedFields) PROVE JedFields(fields) \in Jeds
  <2>1. PICK h \in [0..Len(fields) -> Jeds] : h[Len(fields)] = FieldsRead(fields)
    BY FieldFold
  <2>2. Len(fields) \in 0..Len(fields)  OBVIOUS
  <2>3. FieldsRead(fields) \in Jeds  BY <2>1, <2>2
  <2>4. [FieldsRead(fields) EXCEPT !.res = 3] \in Jeds  BY <2>3 DEF Jeds
  <2>5. JedFields(fields) \in {FieldsRead(fields), [FieldsRead(fields) EXCEPT !.res = 3]}
    BY DEF JedFields, FieldsRead
  <2>6. QED  BY <2>3, <2>4, <2>5
<1>2. CASE file = Missing
  <2>1. readJed(file) = {Jed(1, <<>>, "none")}  BY <1>2 DEF readJed
  <2>2. <<>> \in Seq(Byte) /\ 1 \in {0, 1, 2, 3, Thrown} /\ "none" \in Names  BY DEF Names
  <2>3. Jed(1, <<>>, "none") \in Jeds  BY <2>2 DEF Jed, Jeds
  <2>4. QED  BY <2>1, <2>3
<1>3. CASE file # Missing
  <2>1. ASSUME NEW x \in readJed(file) PROVE x \in Jeds
    <3>1. PICK fields \in OnDisk(file) : x = JedFields(fields)  BY <1>3, <2>1 DEF readJed
    <3>2. fields \in Seq(NamedFields)  BY <1>3, OnDiskIn
    <3>3. QED  BY <1>1, <3>1, <3>2
  <2>2. QED  BY <2>1
<1>4. QED  BY <1>2, <1>3

------------------------------------------------------------------------------
(***************************************************************************)
(* A file reads back as the bytes it was made from.                        *)
(***************************************************************************)
LEMMA RecordsBack ==
  ASSUME NEW style, style \in Records, NEW bytes \in Seq(Byte), Len(bytes) % LineLen # LineLen - 1
  PROVE  readMCSfile(LinesOf(style, bytes)) = {Result(0, bytes)}
<1> DEFINE recs == Chunks(bytes, LineLen)
           records == RecordLines(recs)
           ls == LinesOf(style, bytes)
           Back(k) == {Result(0, Upto(bytes, LineLen, k))}
<1>1. LineLen \in Nat /\ LineLen > 0  BY LineAssumption
<1>2. recs \in Seq(Seq(Byte)) /\ ls = records \o <<EndOfFile>>  BY LinesOfIs
<1>3. InPieces(recs, bytes, LineLen) /\ LineLen > 1
  <2>1. recs = Chunks(bytes, LineLen)  OBVIOUS
  <2> HIDE DEF recs
  <2>2. QED  BY <1>1, <2>1, Pieces, LineAssumption
<1> HIDE DEF recs
<1>4. records \in Seq(Lines) /\ Len(records) = Len(recs)
      /\ \A k \in 1..Len(recs) : records[k] = Line(recs[k], Announced(Len(recs[k])), TRUE)
  <2>1. ASSUME NEW k \in 1..Len(recs)
        PROVE  Line(recs[k], Announced(Len(recs[k])), TRUE) \in Lines
    <3>1. recs[k] \in Seq(Byte) /\ Len(recs[k]) \in Nat  BY <1>2
    <3>2. Announced(Len(recs[k])) \in Nat /\ TRUE \in BOOLEAN  BY <3>1, AnnouncedIs
    <3>3. QED  BY <3>1, <3>2 DEF Line, Lines
  <2>2. records \in [1..Len(recs) -> Lines]  BY <2>1 DEF RecordLines
  <2>3. Len(recs) \in Nat  BY <1>2
  <2>4. records \in Seq(Lines) /\ Len(records) = Len(recs)
    <3> HIDE DEF records
    <3> QED  BY <2>2, <2>3, AsSequence
  <2>5. \A k \in 1..Len(recs) : records[k] = Line(recs[k], Announced(Len(recs[k])), TRUE)
    BY DEF RecordLines
  <2>6. QED  BY <2>4, <2>5
<1> HIDE DEF records
<1>5. PICK h \in [0..Len(records) -> SUBSET Results] :
        /\ h[0] = {Result(0, <<>>)} /\ h[Len(records)] = MCSRecords(records)
        /\ \A k \in 1..Len(records) : h[k] = Recorded(h[k - 1], records[k])
  BY <1>4, RecordsFold
<1>6. ASSUME NEW k \in 1..Len(recs), h[k - 1] = Back(k - 1) PROVE h[k] = Back(k)
  <2> DEFINE before == Upto(bytes, LineLen, k - 1)
             line == records[k]
  <2>1. line.data = recs[k] /\ line.count = Len(line.data)
    <3>1. line = Line(recs[k], Announced(Len(recs[k])), TRUE)  BY <1>4
    <3>2. Len(recs[k]) \in 1..LineLen /\ Len(recs[k]) # LineLen - 1  BY <1>3 DEF InPieces
    <3>3. Len(recs[k]) \in Nat /\ Len(recs[k]) <= LineLen  BY <3>2, <1>1
    <3>4. Announced(Len(recs[k])) = Len(recs[k])  BY <3>2, <3>3, AnnouncedIs
    <3>5. QED  BY <3>1, <3>4 DEF Line
  <2>2. h[k] = Recorded({Result(0, before)}, line)  BY <1>4, <1>5, <1>6
  <2>3. before \o recs[k] = Upto(bytes, LineLen, k)  BY <1>3 DEF InPieces
  <2> HIDE DEF before, line
  <2>4. Recorded({Result(0, before)}, line) = MCSRecord(Result(0, before), line)
    BY DEF Recorded
  <2>5. MCSRecord(Result(0, before), line) = {Result(0, before \o line.data)}
    BY <2>1 DEF MCSRecord, Result
  <2>6. QED  BY <2>1, <2>2, <2>3, <2>4, <2>5
<1>7. h[Len(recs)] = Back(Len(recs))
  <2> DEFINE T == {k \in 0..Len(recs) : h[k] = Back(k)}
  <2>1. Len(recs) \in Nat  BY <1>2
  <2>2. 0 \in T  BY <2>1, <1>3, <1>5 DEF InPieces
  <2>3. \A k \in 1..Len(recs) : k - 1 \in T => k \in T
    <3> HIDE DEF Back
    <3> QED  BY <2>1, <1>6
  <2>4. \A k \in 0..Len(recs) : k \in T
    <3> HIDE DEF T
    <3> QED  BY <2>1, <2>2, <2>3, CountUp
  <2>5. QED  BY <2>1, <2>4
<1>8. MCSRecords(records) = {Result(0, bytes)}
  BY <1>3, <1>4, <1>5, <1>7 DEF InPieces
<1>9. ls # <<>> /\ Last(ls) = EndOfFile /\ Front(ls) = records
  <2>1. EndOfFile \in Lines
    <3>1. <<>> \in Seq(Byte)  OBVIOUS
    <3>2. QED  BY <3>1 DEF EndOfFile, Line, Lines
  <2>2. QED  BY <1>2, <1>4, <2>1, OneMore
<1>10. ~Last(ls).ended  BY <1>9 DEF EndOfFile, Line
<1> HIDE DEF ls
<1>11. readMCSfile(ls) = {r : r \in MCSRecords(records)}
  BY <1>9, <1>10 DEF readMCSfile
<1>12. QED  BY <1>8, <1>11 DEF ls

LEMMA RawBack ==
  ASSUME NEW bytes \in Seq(Byte), Len(bytes) % RawLen # RawLen - 1
  PROVE  readHEXRAW(LinesOf("HEXRAW", bytes)) = {Result(0, bytes)}
<1> DEFINE raws == Chunks(bytes, RawLen)
           ls == LinesOf("HEXRAW", bytes)
           Back(k) == Upto(bytes, RawLen, k)
<1>1. RawLen \in Nat /\ RawLen > 0  BY LineAssumption
<1>2. raws \in Seq(Seq(Byte)) /\ ls = RawLines(raws, Len(bytes) % RawLen # RawLen - 1)
  BY LinesOfIs
<1>3. InPieces(raws, bytes, RawLen)
  <2>1. raws = Chunks(bytes, RawLen)  OBVIOUS
  <2> HIDE DEF raws
  <2>2. QED  BY <1>1, <2>1, Pieces
<1> HIDE DEF raws
<1>4. \A k \in 1..Len(raws) : ls[k].data = raws[k] /\ ls[k].ended
  <2> DEFINE full == Len(bytes) % RawLen # RawLen - 1
  <2>1. full  OBVIOUS
  <2>2. ls = [k \in 1..Len(raws) |-> Line(raws[k], 0, k < Len(raws) \/ full)]
    BY <1>2 DEF RawLines
  <2> HIDE DEF full, ls
  <2>3. QED  BY <2>1, <2>2 DEF Line
<1>5. ls \in Seq(Lines)  BY LinesAre
<1>6. DOMAIN ls = 1..Len(raws)  BY <1>2 DEF RawLines
<1> HIDE DEF ls
<1>7. Len(ls) = Len(raws) /\ Len(raws) \in Nat
  <2>1. Len(raws) \in Nat /\ Len(ls) \in Nat /\ 1..Len(ls) = 1..Len(raws)  BY <1>2, <1>5, <1>6
  <2> DEFINE m == Len(raws)
             l == Len(ls)
  <2> HIDE DEF m, l
  <2>2. m \in Nat /\ l \in Nat /\ 1..l = 1..m  BY <2>1 DEF m, l
  <2>3. l = m
    <3>1. l > 0 => l \in 1..m  BY <2>2
    <3>2. m > 0 => m \in 1..l  BY <2>2
    <3>3. QED  BY <2>2, <3>1, <3>2
  <2>4. QED  BY <2>1, <2>3 DEF m, l
<1>8. PICK h \in [0..Len(ls) -> Seq(Byte)] :
        /\ h[0] = <<>> /\ h[Len(ls)] = RawRead(ls)
        /\ \A k \in 1..Len(ls) : h[k] = h[k - 1] \o ls[k].data
  BY <1>5, RawFold
<1>9. h[Len(raws)] = Back(Len(raws))
  <2> DEFINE T == {k \in 0..Len(raws) : h[k] = Back(k)}
  <2>1. 0 \in T  BY <1>3, <1>7, <1>8 DEF InPieces
  <2>2. \A k \in 1..Len(raws) : k - 1 \in T => k \in T
    <3>1. ASSUME NEW k \in 1..Len(raws), h[k - 1] = Back(k - 1) PROVE h[k] = Back(k)
      <4>1. h[k] = Back(k - 1) \o raws[k]  BY <1>4, <1>7, <1>8, <3>1
      <4>2. QED  BY <4>1, <1>3 DEF InPieces
    <3> HIDE DEF Back
    <3>2. QED  BY <1>7, <3>1
  <2>3. \A k \in 0..Len(raws) : k \in T
    <3> HIDE DEF T
    <3> QED  BY <1>7, <2>1, <2>2, CountUp
  <2>4. QED  BY <1>7, <2>3
<1>10. RawRead(ls) = bytes  BY <1>3, <1>7, <1>8, <1>9 DEF InPieces
<1>11. ls = <<>> \/ Last(ls).ended
  <2>1. ls # <<>> => Len(ls) \in 1..Len(ls)  BY <1>5, EmptySeq
  <2>2. QED  BY <2>1, <1>4, <1>7 DEF Last
<1>12. readHEXRAW(ls) = {Result(0, RawRead(ls))}
  BY <1>11 DEF readHEXRAW, RawRead
<1>13. QED  BY <1>10, <1>12 DEF ls

ShortAtEnd(style, n) == \/ style \in Records /\ n % LineLen = LineLen - 1
                        \/ style = "HEXRAW" /\ n % RawLen = RawLen - 1

LEMMA FileReadsBack ==
  ASSUME NEW style \in Readable, NEW bytes \in Seq(Byte), bytes # <<>>,
         ~ShortAtEnd(style, Len(bytes)), NEW file, file # Missing, file.flushed,
         file.lines = LinesOf(style, Oriented(style, bytes))
  PROVE  readFile(style, file) = {Result(0, bytes)}
<1> DEFINE o == Oriented(style, bytes)
           ls == LinesOf(style, o)
<1>1. o \in Seq(Byte) /\ Len(o) = Len(bytes) /\ Oriented(style, o) = bytes
  BY OrientedIn
<1>2. readLines(style, ls) = {Result(0, o)}
  <2> HIDE DEF o
  <2>1. CASE style \in Records
    <3>1. readLines(style, ls) = readMCSfile(ls)
      <4>1. style # "HEXRAW" /\ style # "BIT"  BY <2>1 DEF Records
      <4>2. QED  BY <2>1, <4>1 DEF readLines
    <3>2. Len(o) % LineLen # LineLen - 1  BY <1>1, <2>1 DEF ShortAtEnd
    <3>3. QED  BY <1>1, <2>1, <3>1, <3>2, RecordsBack
  <2>2. CASE style = "HEXRAW"
    <3>1. readLines(style, ls) = readHEXRAW(ls)
      <4>1. style \notin Records /\ style # "BIT"  BY <2>2 DEF Records
      <4>2. QED  BY <2>2, <4>1 DEF readLines
    <3>2. Len(o) % RawLen # RawLen - 1  BY <1>1, <2>2 DEF ShortAtEnd
    <3>3. QED  BY <1>1, <2>2, <3>1, <3>2, RawBack
  <2>3. CASE style \notin Records \cup {"HEXRAW"}
    <3>1. ls = <<Line(o, IF style = "BIT" THEN Len(o) ELSE 0, TRUE)>>  BY <1>1, <2>3, LinesOfIs
    <3>2. /\ ls # <<>> /\ ls[1].data = o
          /\ style = "BIT" => ls[1].count = Len(o)
      BY <3>1 DEF Line
    <3> HIDE DEF ls
    <3>3. readBIN(ls) = {Result(0, o)}  BY <3>2 DEF readBIN
    <3>4. ASSUME style = "BIT" PROVE readBitfile(ls) = {Result(0, o)}
      <4>1. Len(o) \in Nat /\ Len(o) # 0  BY <1>1, EmptySeq
      <4>2. SubSeq(o, 1, Len(o)) = o  BY <1>1
      <4>3. Len(o) <= Len(o)  BY <4>1
      <4> DEFINE n == Len(o)
                 all == SubSeq(o, 1, n)
      <4>4. readBitfile(ls) = {Result(0, all)}
        <5>1. n \in Nat /\ n # 0 /\ n <= n  BY <4>1, <4>3
        <5>2. ls[1].count = n /\ ls[1].data = o /\ ls # <<>>  BY <3>2, <3>4
        <5> HIDE DEF n
        <5>3. readBitfile(ls)
                = IF n = 0 THEN {Result(0, <<>>), Result(2, <<>>)}
                  ELSE IF n <= n THEN {Result(0, SubSeq(o, 1, n))}
                  ELSE {Result(2, o \o rest) : rest \in [1..(n - n) -> Byte]}
          <6> DEFINE count == ls[1].count
                     data == ls[1].data
          <6>1. readBitfile(ls)
                  = IF count = 0 THEN {Result(0, <<>>), Result(2, <<>>)}
                    ELSE IF count <= Len(data) THEN {Result(0, SubSeq(data, 1, count))}
                    ELSE {Result(2, data \o rest) : rest \in [1..(count - Len(data)) -> Byte]}
            BY <5>2 DEF readBitfile
          <6>2. count = n /\ data = o /\ Len(data) = n  BY <5>2 DEF n
          <6> HIDE DEF count, data
          <6>3. QED  BY <6>1, <6>2
        <5>4. QED  BY <5>1, <5>3
      <4>5. QED  BY <4>2, <4>4
    <3>5. readLines(style, ls) = IF style = "BIT" THEN readBitfile(ls) ELSE readBIN(ls)
      BY <2>3 DEF readLines
    <3>6. QED  BY <3>3, <3>4, <3>5
  <2>4. QED  BY <2>1, <2>2, <2>3
<1>3. OnDisk(file) = {ls}
  BY DEF OnDisk
<1> HIDE DEF o, ls
<1>4. UNION {readLines(style, lines) : lines \in OnDisk(file)} = {Result(0, o)}
  BY <1>2, <1>3
<1>5. readFile(style, file) = {Result(r.res, Oriented(style, r.bytes)) : r \in {Result(0, o)}}
  BY <1>4 DEF readFile
<1>6. Result(0, o).res = 0 /\ Result(0, o).bytes = o
  BY DEF Result
<1> DEFINE only == Result(0, o)
<1> HIDE DEF only
<1>7. {Result(r.res, Oriented(style, r.bytes)) : r \in {only}} = {Result(only.res, Oriented(style, only.bytes))}
  OBVIOUS
<1>8. QED  BY <1>1, <1>5, <1>6, <1>7 DEF only

LEMMA JedReadsBack ==
  ASSUME NEW fuses \in Seq(Byte), fuses # <<>>, NEW device \in Names,
         NEW file, file # Missing, file.flushed, file.lines = saveAsJed(fuses, device).lines
  PROVE  readJed(file) = {Jed(0, fuses, device)}
<1> DEFINE ls == file.lines
           n == Len(fuses)
<1>1. /\ ls = <<QF(n), Named(device), L(0, fuses)>> /\ ls \in Seq(NamedFields) /\ Len(ls) = 3
      /\ ls[1] = QF(n) /\ ls[2] = Named(device) /\ ls[3] = L(0, fuses)
  <2>1. ls = <<QF(n), Named(device), L(0, fuses)>>  BY SavedJedIn
  <2>2. ls \in Seq(NamedFields)  BY SavedJedIn
  <2> HIDE DEF ls, n
  <2>3. QED  BY <2>1, <2>2
<1> HIDE DEF ls
<1>2. PICK h \in [0..Len(ls) -> Jeds] :
        /\ h[0] = Jed(0, <<>>, "none") /\ h[Len(ls)] = FieldsRead(ls)
        /\ \A k \in 1..Len(ls) : h[k] = JedField(h[k - 1], ls[k])
  BY <1>1, FieldFold
<1>3. n \in Nat /\ n > 0 /\ DOMAIN fuses = 1..n  BY EmptySeq
<1>4. h[1] = Jed(0, Fill(n, 0), "none")
  <2>1. h[1] = JedField(h[0], ls[1])  BY <1>1, <1>2
  <2>2. JedField(Jed(0, <<>>, "none"), QF(n)) = Jed(0, Fill(n, 0), "none")
    <3> HIDE DEF n
    <3> QED  BY DEF JedField, Jed, QF, Field
  <2>3. QED  BY <1>1, <1>2, <2>1, <2>2
<1>5. h[2] = Jed(0, Fill(n, 0), device)
  <2>1. h[2] = JedField(h[1], ls[2])  BY <1>1, <1>2
  <2>2. JedField(Jed(0, Fill(n, 0), "none"), Named(device)) = Jed(0, Fill(n, 0), device)
    <3> HIDE DEF n
    <3> QED  BY DEF JedField, Jed, Named, Field
  <2>3. QED  BY <1>1, <1>4, <2>1, <2>2
<1>6. h[3] = Jed(0, fuses, device)
  <2>1. h[3] = JedField(h[2], ls[3])  BY <1>1, <1>2
  <2> DEFINE s == Jed(0, Fill(n, 0), device)
             field == L(0, fuses)
  <2>2. /\ s.res = 0 /\ s.fuses = Fill(n, 0) /\ s.device = device
        /\ s = [res |-> 0, fuses |-> Fill(n, 0), device |-> device]
        /\ field.f = "L" /\ field.n = 0 /\ field.data = fuses
    BY DEF Jed, L, Field
  <2>3. Fill(n, 0) \in Seq(Byte) /\ Len(Fill(n, 0)) = n
    <3>1. 0 \in Byte /\ n \in Int  BY <1>3 DEF Byte
    <3> HIDE DEF n
    <3>2. QED  BY <1>3, <3>1, FillIn
  <2>4. DOMAIN s.fuses = 1..n /\ Len(s.fuses) = n  BY <2>2, <2>3
  <2> HIDE DEF s, field
  <2>5. ~(field.n + Len(field.data) > Len(s.fuses))
    <3>1. 0 + n = n /\ Len(field.data) = n  BY <1>3, <2>2
    <3>2. QED  BY <2>2, <2>4, <3>1, <1>3
  <2>6. JedField(s, field)
          = [s EXCEPT !.fuses = [k \in DOMAIN @ |->
               IF k - field.n \in DOMAIN field.data THEN field.data[k - field.n] ELSE @[k]]]
    BY <2>2, <2>5 DEF JedField
  <2>7. [k \in DOMAIN s.fuses |->
          IF k - field.n \in DOMAIN field.data THEN field.data[k - field.n] ELSE s.fuses[k]] = fuses
    <3>1. \A k \in 1..n : k - 0 = k  BY <1>3
    <3>2. [k \in 1..n |-> IF k - 0 \in 1..n THEN fuses[k - 0] ELSE s.fuses[k]] = [k \in 1..n |-> fuses[k]]
      BY <3>1
    <3>3. [k \in 1..n |-> fuses[k]] = fuses  BY <1>3
    <3>4. QED  BY <2>2, <2>4, <3>2, <3>3, <1>3
  <2>8. JedField(s, field) = [s EXCEPT !.fuses = fuses]
    BY <2>6, <2>7
  <2>9. [s EXCEPT !.fuses = fuses] = Jed(0, fuses, device)
    BY <2>2 DEF Jed
  <2>10. QED  BY <1>1, <1>5, <2>1, <2>8, <2>9 DEF s, field
<1>7. FieldsRead(ls) = Jed(0, fuses, device)
  BY <1>1, <1>2, <1>6
<1>8. JedFields(ls) = Jed(0, fuses, device)
  <2>1. Jed(0, fuses, device).fuses # <<>>  BY DEF Jed
  <2>2. QED  BY <1>7, <2>1 DEF JedFields, FieldsRead
<1>9. readJed(file) = {JedFields(fields) : fields \in {ls}}
  BY DEF readJed, OnDisk, ls
<1>10. QED  BY <1>8, <1>9

------------------------------------------------------------------------------
(***************************************************************************)
(* The fuse map.                                                           *)
(***************************************************************************)
LEMMA MaxIs ==
  ASSUME NEW S \in SUBSET Int, NEW m \in S, \A y \in S : y <= m
  PROVE  Max(S) = m
<1>1. m \in S /\ \A y \in S : m >= y
  OBVIOUS
<1>2. \A x \in S : (\A y \in S : x >= y) => x = m
  <2>1. ASSUME NEW x \in S, \A y \in S : x >= y PROVE x = m
    <3>1. x >= m /\ m >= x /\ x \in Int /\ m \in Int  BY <1>1, <2>1
    <3>2. QED  BY <3>1
  <2>2. QED  BY <2>1
<1>3. QED  BY <1>1, <1>2 DEF Max

LEMMA ToBits ==
  ASSUME NEW fuses \in Seq(Byte)
  PROVE  /\ jedecfile2bitfile(fuses) \in Seq(Byte)
         /\ Len(jedecfile2bitfile(fuses)) = Len(FuseMap)
         /\ \A k \in 1..Len(FuseMap) :
              jedecfile2bitfile(fuses)[k] = IF FuseMap[k] \in DOMAIN fuses THEN fuses[FuseMap[k]]
                                            ELSE IF FuseMap[k] = -1 THEN 0 ELSE Erased
<1>1. Len(FuseMap) \in Nat /\ DOMAIN FuseMap = 1..Len(FuseMap)  BY MapAssumption
<1>2. \A m \in DOMAIN fuses : fuses[m] \in Byte  OBVIOUS
<1>3. 0 \in Byte /\ Erased \in Byte  BY DEF Byte, Erased
<1> DEFINE bits == [k \in 1..Len(FuseMap) |->
                      IF FuseMap[k] \in DOMAIN fuses THEN fuses[FuseMap[k]]
                      ELSE IF FuseMap[k] = -1 THEN 0 ELSE Erased]
<1>4. jedecfile2bitfile(fuses) = bits
  BY <1>1 DEF jedecfile2bitfile
<1>5. bits \in [1..Len(FuseMap) -> Byte]
  BY <1>2, <1>3
<1>6. bits \in Seq(Byte) /\ Len(bits) = Len(FuseMap)
  <2> HIDE DEF bits
  <2> QED  BY <1>1, <1>5, AsSequence
<1>7. QED  BY <1>4, <1>6

(* Every bit that has a fuse is found there.                               *)
LEMMA ToFuses ==
  ASSUME NEW bits \in Seq(Byte), Len(bits) = Len(FuseMap)
  PROVE  /\ bitfile2jedecfile(bits) \in Seq(Byte) /\ bitfile2jedecfile(bits) # <<>>
         /\ \A k \in 1..Len(FuseMap) : FuseMap[k] > 0 =>
              /\ FuseMap[k] \in DOMAIN bitfile2jedecfile(bits)
              /\ bitfile2jedecfile(bits)[FuseMap[k]] = bits[k]
<1> DEFINE n == Len(FuseMap)
           values == {FuseMap[k] : k \in DOMAIN FuseMap}
           used == {v \in values : v > 0}
           at(m) == {k \in DOMAIN FuseMap : FuseMap[k] = m}
           all == [m \in DOMAIN FuseMap |->
                     IF \E k \in DOMAIN FuseMap : FuseMap[k] = m THEN bits[Max(at(m))] ELSE Erased]
<1>1. /\ n \in Nat /\ DOMAIN FuseMap = 1..n
      /\ \A k \in 1..n : FuseMap[k] \in (1..n) \cup {-1, -2}
      /\ \E k \in 1..n : FuseMap[k] > 0
  BY MapAssumption, SMTT(30)
<1>2. used \in SUBSET (1..n) /\ used # {} /\ values \in SUBSET Int
  BY <1>1
<1>3. Max(values) \in used /\ \A v \in values : v <= Max(values)
  <2> DEFINE m == Max(used)
  <2>1. m \in used /\ \A y \in used : y <= m
    <3> HIDE DEF used, n
    <3> QED  BY <1>1, <1>2, MaxPicks
  <2>2. \A y \in values : y <= m
    <3>1. m \in 1..n  BY <1>2, <2>1
    <3> HIDE DEF m
    <3>2. \A y \in values : y \in Int /\ (y > 0 => y \in used)  BY <1>2
    <3>3. QED  BY <2>1, <3>1, <3>2
  <2>3. m \in values  BY <2>1
  <2> HIDE DEF m
  <2>4. Max(values) = m
    <3> HIDE DEF values
    <3> QED  BY <1>2, <2>2, <2>3, MaxIs
  <2>5. QED  BY <2>1, <2>2, <2>4
<1>4. ASSUME NEW k \in 1..n, FuseMap[k] > 0 PROVE at(FuseMap[k]) = {k} /\ Max({k}) = k
  <2>1. at(FuseMap[k]) = {k}  BY <1>1, <1>4, MapAssumption
  <2>2. {k} \in SUBSET Int /\ k \in {k} /\ \A y \in {k} : y <= k  BY <1>1
  <2>3. QED  BY <2>1, <2>2, MaxIs
<1>5. \A m \in 1..n : all[m] \in Byte
  <2>1. ASSUME NEW m \in 1..n PROVE all[m] \in Byte
    <3>1. CASE \E k \in DOMAIN FuseMap : FuseMap[k] = m
      <4>1. PICK k \in 1..n : FuseMap[k] = m  BY <1>1, <3>1
      <4>2. FuseMap[k] > 0  BY <4>1
      <4>3. Max(at(m)) = k  BY <1>4, <4>1, <4>2
      <4>4. all[m] = bits[k]  BY <1>1, <3>1, <4>3
      <4>5. k \in 1..Len(bits)  BY <4>1
      <4>6. QED  BY <4>4, <4>5
    <3>2. CASE ~ \E k \in DOMAIN FuseMap : FuseMap[k] = m
      BY <1>1, <3>2 DEF Byte, Erased
    <3>3. QED  BY <3>1, <3>2
  <2>2. QED  BY <2>1
<1>6. all \in Seq(Byte) /\ Len(all) = n
  <2>1. DOMAIN all = 1..n /\ all = [m \in 1..n |-> all[m]]  BY <1>1
  <2> HIDE DEF all
  <2>2. all \in [1..n -> Byte]  BY <2>1, <1>5
  <2>3. QED  BY <1>1, <2>2, AsSequence
<1>7. ASSUME NEW k \in 1..n, FuseMap[k] > 0 PROVE FuseMap[k] \in 1..n /\ all[FuseMap[k]] = bits[k]
  <2>1. FuseMap[k] \in 1..n  BY <1>1, <1>7
  <2>2. Max(at(FuseMap[k])) = k  BY <1>4, <1>7
  <2>3. QED  BY <1>1, <2>1, <2>2
<1> DEFINE last == Max(values)
           fuses == SubSeq(all, 1, last)
<1>8. bitfile2jedecfile(bits) = setFuses(all, last)
  BY DEF bitfile2jedecfile
<1>9. last \in 1..n /\ last \in 0..Len(all)  BY <1>1, <1>2, <1>3, <1>6
<1>10. \A k \in 1..n : FuseMap[k] > 0 => FuseMap[k] \in 1..last
  <2>1. \A k \in 1..n : FuseMap[k] <= last /\ FuseMap[k] \in Int  BY <1>1, <1>2, <1>3
  <2> HIDE DEF last
  <2>2. QED  BY <2>1, <1>9
<1> HIDE DEF all, last, values, used, n
<1>11. setFuses(all, last) = fuses
  BY <1>6, <1>9 DEF setFuses
<1>12. /\ fuses \in Seq(Byte) /\ Len(fuses) = last
       /\ \A k \in 1..last : fuses[k] = all[k]
  BY <1>6, <1>9, Beginning
<1> HIDE DEF fuses
<1>13. DOMAIN fuses = 1..last /\ fuses # <<>>  BY <1>9, <1>12
<1>14. QED
  BY <1>7, <1>8, <1>10, <1>11, <1>12, <1>13 DEF n
==============================================================================
