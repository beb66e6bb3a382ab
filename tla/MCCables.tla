------------------------------ MODULE MCCables ------------------------------
(***************************************************************************)
(* Cables with the buffer sizes of the code, and blocks around them.       *)
(***************************************************************************)
EXTENDS Cables

Block(len, last, write, read) == Call("block", len, last, write, read)
Blocks(lens) == {Block(n, last, write, read) :
                   n \in lens, last \in BOOLEAN, write \in BOOLEAN, read \in BOOLEAN}
                  \ {Block(n, last, FALSE, FALSE) : n \in lens, last \in BOOLEAN}

Chunk == 8 * (TX_BUF - 3)
FtdiCalls ==
  {Tms(7), Block(9, TRUE, FALSE, TRUE), Block(Chunk + 8, TRUE, TRUE, TRUE),
   Block(Chunk + 13, FALSE, TRUE, FALSE)}
SlowSleeps == {Sleep(8), Sleep(19999)}
FastSleeps == {Sleep(1), Sleep(14315), Sleep(14316), Sleep(20000)}

BitCalls == {Tms(3), Sleep(5), Block(1, TRUE, TRUE, TRUE), Block(9, TRUE, FALSE, TRUE),
             Block(8, FALSE, TRUE, TRUE), Block(9, FALSE, TRUE, FALSE)}
SomeCalls ==
  [x \in Kinds |->
    CASE x = "ftdi" -> FtdiCalls \cup SlowSleeps
      [] x = "ftdi_h" -> FastSleeps \cup {Block(16, TRUE, TRUE, TRUE)}
      [] x = "xpc" -> {Tms(5), Tms(8), Sleep(5)} \cup Blocks({1, 8, 8191, 16383})
      [] x = "fx2" -> {Tms(64), Tms(65), Sleep(5)} \cup Blocks({9, 512, 1025})
      [] x = "xpc_internal" -> {Tms(2)} \cup Blocks({1, 3})
      [] OTHER -> BitCalls]

Request(k, f, cap, o) == [kind |-> k, freq |-> f, cap |-> cap, opt |-> o]
Ports == [ERROR : {"low", "high"}, PE : {"low", "high", "D6", "D7"},
          ACK : {"low", "D5"}, BUSY : {"low", "notD6"}, REST : {"mixed"}]
LevelPorts ==
  {[ERROR |-> "low", PE |-> "D7", ACK |-> "D5", BUSY |-> b, REST |-> "low"] : b \in {"low", "notD6"}}
    \cup {[ERROR |-> v, PE |-> v, ACK |-> v, BUSY |-> v, REST |-> v] : v \in {"low", "high"}}

SomeRequests ==
  {Request("ftdi", 1500000, 0, <<1027, 24592, "none", 1>>)}
    \cup {Request("ftdi_h", 20000000, 10000000, <<>>)}
    \cup {Request("ftdi_h", 0, 30000000, <<>>)} \cup {Request("ftdi_h", 400, 0, <<>>)}
    \cup {Request("ftdi", 0, 0, <<1027, 24592, "none", 3>>)}
    \cup {Request(k, 0, 0, <<>>) : k \in {"xpc", "xpc_internal", "fx2", "gpio"}}
    \cup {Request("parport", 0, 0, p) : p \in Ports \cup LevelPorts}
==============================================================================
