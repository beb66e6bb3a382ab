----------------------------- MODULE MCSpiFlash ------------------------------
(***************************************************************************)
(* Small instances of SpiFlash for TLC.                                    *)
(***************************************************************************)
EXTENDS SpiFlash

AllFamilies == {"generic", "at45", "sst"}
Generic == {"generic"}

Alike(v) == [p \in PageNr |-> [b \in ByteNr |-> v]]
Mixed == [p \in PageNr |-> [b \in ByteNr |-> (p + b) % 2]]
SomeContents == {Alike(0), Mixed}
Erased == {Alike(1)}

(* The bytes of a file; beyond its end lie zeros.                          *)
FileOf(bytes) ==
  [len |-> Len(bytes),
   data |-> [p \in PageNr |-> [b \in ByteNr |->
     IF p * PageSize + b < Len(bytes) THEN bytes[p * PageSize + b + 1] ELSE 0]]]

WholeAndCut == {FileOf(s) : s \in {<<>>, <<0, 1, 1>>, <<1, 0, 0, 1>>,
                                   <<0, 1, 1, 0, 0, 0>>, <<1, 1, 0, 1, 1, 1, 0, 1, 0>>}}
CutShort == {FileOf(<<0, 1, 0>>)}
==============================================================================
