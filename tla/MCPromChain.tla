----------------------------- MODULE MCPromChain -----------------------------
(***************************************************************************)
(* Small instances of PromChain for TLC.                                   *)
(***************************************************************************)
EXTENDS PromChain

P(kind, size) == [kind |-> kind, size |-> size]

SomeChains == {<<P("xc18v", 4)>>, <<P("xcf", 4)>>, <<P("xcfp", 8)>>,
               <<P("xcf", 2), P("xcf", 4)>>, <<P("xcf", 2), P("xcfp", 4)>>}
TwoXcf == {<<P("xcf", 4), P("xcf", 4)>>}

Mixed == {[x \in 0..7 |-> IF x % 3 = 0 THEN 0 ELSE 1]}
OneXcf == {<<P("xcf", 4)>>}
Blank == {[x \in 0..7 |-> 1]}

SomeFiles == {<<>>, <<0, 1, 0>>, <<0, 0, 1, 0, 1, 0>>, <<1, 0, 0, 1, 0, 0, 1, 0>>}
ShortFile == {<<0, 1, 0, 0>>}
==============================================================================
