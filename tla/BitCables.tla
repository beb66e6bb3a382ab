------------------------------ MODULE BitCables ------------------------------
(***************************************************************************)
(* The cables the program moves pin by pin: the parallel port (IOParport,  *)
(* src/ioparport.cpp), GPIO lines (IOGPIODPi, src/iogpiodpi.cpp) and the   *)
(* Platform Cable in internal mode (IOXPC, src/ioxpc.cpp).                 *)
(***************************************************************************)
EXTENDS Cable

VARIABLES
  tck, tms,     \* the pins
  acc,          \* tdo_byte: the bits captured of the byte under way
  cabletype,    \* parport: what detectcable found, "unset" before
  driven        \* parport: the Byteblaster's outputs are enabled

pins == <<tck, tms>>
vars_bits == <<tck, tms, acc, cabletype, driven>>

------------------------------------------------------------------------------
(***************************************************************************)
(* detectcable.  A port is described by where its status lines come from:  *)
(* fixed levels, or one of the data lines looped back by the cable.  REST  *)
(* is the level of the lines no cable is told by, SELECT and the reserved  *)
(* ones, or "mixed" where they differ.                                     *)
(***************************************************************************)
Sources == {"low", "high", "notD6", "D5", "D6", "D7"}

ASSUME PortAssumption ==
  \A r \in Requests : r.kind = "parport" =>
    /\ DOMAIN r.opt = {"ERROR", "PE", "ACK", "BUSY", "REST"}
    /\ r.opt.ERROR \in {"low", "high"} /\ r.opt.REST \in {"low", "high", "mixed"}
    /\ {r.opt.PE, r.opt.ACK, r.opt.BUSY} \subseteq Sources

Level(source, data) == CASE source = "low" -> FALSE
                         [] source = "high" -> TRUE
                         [] source = "notD6" -> "D6" \notin data
                         [] OTHER -> source \in data

(* The status byte reads 0 or 0xff.                                        *)
Dead(port) == /\ port.REST # "mixed"
              /\ \A line \in DOMAIN port : Level(port[line], {}) = (port.REST = "high")

IsBblst(port, data) == /\ Level(port.PE, data) = ("D7" \in data)
                       /\ Level(port.ACK, data) = ("D5" \in data)
IsPciii(port, data) == /\ Level(port.BUSY, data) = ("D6" \notin data)
                       /\ Level(port.PE, data) = ("D6" \in data)

(* The data written, one line toggled at a time.                           *)
BblstProbes == {{"D7"}, {"D5", "D7"}, {"D5"}, {}}
PciiiProbes_wrong == {{}}
PciiiProbes == {{}, {"D6"}}

detectcable(port) ==
  IF Dead(port) THEN "none"
  ELSE IF ~Level(port.ERROR, {})
       THEN IF \A data \in BblstProbes : IsBblst(port, data) THEN "bblst" ELSE "none"
       ELSE IF \A data \in PciiiProbes : IsPciii(port, data) THEN "pciii" ELSE "none"

ParportInit ==
  /\ kind = "parport" /\ state = "init" /\ handle = "none"
  /\ \/ /\ detectcable(opt) # "none"
        /\ cabletype' = detectcable(opt) /\ driven' = (cabletype' = "bblst")
        /\ handle' = "open" /\ UNCHANGED <<state, script, told>>
     \/ /\ detectcable(opt) = "none" /\ Refuse
        /\ handle' = "open" /\ cabletype' = "none" /\ UNCHANGED driven
     \/ /\ Refuse /\ handle' \in {"none", "open"} /\ UNCHANGED <<cabletype, driven>>
  /\ UNCHANGED <<link, calls, wire, got, silent, misuse, pins, acc>>

(* The constructor of IOGPIODPi says why a line can not be had, closes the *)
(* chip and carries on; its Init, that of IOBase, always succeeds.         *)
GpioInit_wrong ==
  /\ kind = "gpio" /\ state = "init" /\ handle = "none" /\ state' = "idle"
  /\ handle' \in {"open", "closed"}
  /\ UNCHANGED <<link, calls, wire, got, script, hist, vars_bits>>
GpioInit ==
  /\ kind = "gpio" /\ state = "init" /\ handle = "none" /\ state' = "idle"
  /\ \/ handle' = "open" /\ UNCHANGED told
     \/ handle' = "closed" /\ told' = TRUE
  /\ UNCHANGED <<link, calls, wire, got, script, silent, misuse, vars_bits>>

(* ~IOParport takes the outputs of a Byteblaster from the board.           *)
BitDestroy ==
  /\ kind \in {"parport", "gpio"} /\ state \in {"idle", "refused"}
  /\ state' = "closed" /\ handle' = "closed"
  /\ driven' = (driven /\ cabletype # "bblst")
  /\ misuse' = (misuse \/ handle # "open")
  /\ UNCHANGED <<link, calls, wire, got, script, told, silent, pins, acc, cabletype>>

------------------------------------------------------------------------------
(***************************************************************************)
(* Scripts.  Both values of the pins are written at once, before and after *)
(* the edge: the program clears TCK with the data, and sets it after.      *)
(***************************************************************************)
Pin(clk, val, x) == [do |-> "pins", tck |-> clk, tms |-> val, bit |-> x]
Sample(x) == [do |-> "sample", bit |-> x]
Store(j) == [do |-> "store", at |-> 8 * j]
(* TCK is low at the end; a parallel port writes all the pins for it.      *)
Low(val) == Pin(0, IF kind = "gpio" THEN val ELSE 0, 0)

(* txrx: bit x of a block, with its capture.                               *)
txrx(val, x) == <<Pin(0, val, x), Pin(1, val, x), Sample(x)>>

(* txrx_block: all bits but the last, whose TMS is `last'; a byte is       *)
(* stored when it is full, and what there is at the end.                   *)
BitBlock(c) ==
  FlattenSeq([x \in 1..(c.len - 1) |->
                txrx(0, x - 1) \o If(c.read /\ x % 8 = 0, <<Store((x \div 8) - 1)>>)])
  \o txrx(IF c.last THEN 1 ELSE 0, c.len - 1)
  \o If(c.read, <<Store((c.len - 1) \div 8)>>) \o <<Low(IF c.last THEN 1 ELSE 0)>>

(* tx_tms; the pattern's bits are told apart by their number alone.        *)
BitTms(c) == FlattenSeq([x \in 1..c.len |-> <<Pin(0, 1, x - 1), Pin(1, 1, x - 1)>>])
             \o <<Low(1)>>

(* The Platform Cable sets TMS and the data with the edge, and `last' for  *)
(* every bit; it takes the number of a bit for its mask.                   *)
Mask(x) == {b \in 0..2 : (x \div 2^b) % 2 = 1}
InternalBlock(c) ==
  LET val == IF c.last THEN 1 ELSE 0 IN
  FlattenSeq([x \in 1..c.len |->
                <<Pin(1, val, x - 1)>> \o If(c.read, <<[do |-> "mask", bit |-> x - 1]>>)
                  \o <<Pin(0, val, x - 1)>>])
InternalTms(c) == FlattenSeq([x \in 1..c.len |-> <<Pin(1, 1, x - 1), Pin(0, 1, x - 1)>>])

BitScript(c) ==
  CASE c.op = "sleep" -> <<>>
    [] c.op = "tms" -> IF kind = "xpc_internal" THEN InternalTms(c) ELSE BitTms(c)
    [] c.op = "block" -> IF kind = "xpc_internal" THEN InternalBlock(c) ELSE BitBlock(c)

------------------------------------------------------------------------------
(***************************************************************************)
(* The pins.  The chain sees an edge when TCK rises.  An ioctl or a line   *)
(* that fails is passed over in silence, a USB message is not.             *)
(***************************************************************************)
EdgeKind == IF Asked.op = "tms" THEN "tms" ELSE IF Op.tms = 1 THEN "last" ELSE "data"

Missed == IF kind = "xpc_internal" THEN told' = TRUE /\ UNCHANGED silent
          ELSE silent' = TRUE /\ UNCHANGED told

SetPins ==
  /\ Doing("pins") /\ Done
  /\ tck' = Op.tck /\ tms' = Op.tms
  /\ wire' = IF tck = 0 /\ Op.tck = 1 THEN Join(wire, Run(Here, EdgeKind, Op.bit, 1)) ELSE wire
  /\ misuse' = (misuse \/ handle # "open")
  /\ UNCHANGED <<link, calls, got, state, handle, told, silent, acc, cabletype, driven>>

Capture ==
  /\ Doing("sample") /\ Done
  /\ acc' = IF Asked.read THEN Place(acc, Placed(Op.bit % 8, Here, Op.bit, 1)) ELSE acc
  /\ UNCHANGED <<link, calls, wire, got, state, handle, hist, pins, cabletype, driven>>

StoreByte ==
  /\ Doing("store") /\ Done /\ acc' = <<>>
  /\ got' = FoldLeft(LAMBDA g, p : Place(g, [p EXCEPT !.at = @ + Op.at]), got, acc)
  /\ UNCHANGED <<link, calls, wire, state, handle, hist, pins, cabletype, driven>>

CaptureMask ==
  /\ Doing("mask") /\ Done
  /\ got' = FoldLeft(LAMBDA g, b : IF b \in Mask(Op.bit % 8)
                                   THEN Place(g, Placed(8 * (Op.bit \div 8) + b, Here, Op.bit, 1))
                                   ELSE g, got, <<0, 1, 2>>)
  /\ UNCHANGED <<link, calls, wire, state, handle, hist, vars_bits>>

PinFails ==
  /\ ~silent /\ (handle = "open" => ~told)
  /\ Doing("pins") \/ Doing("sample") \/ Doing("mask")
  /\ Done /\ Missed
  /\ misuse' = (misuse \/ handle # "open")
  /\ UNCHANGED <<link, calls, wire, got, state, handle, vars_bits>>

BitBegin == /\ kind \in {"parport", "gpio", "xpc_internal"} /\ Begin(BitScript)
            /\ acc' = <<>> /\ UNCHANGED <<pins, cabletype, driven>>

(* The internal mode of the Platform Cable is right only for these calls.  *)
InternalWrong(c) == c.op = "block" /\ (c.read \/ (c.last /\ c.len > 1))

BitInit == tck = 0 /\ tms = 0 /\ acc = <<>> /\ cabletype = "unset" /\ driven = FALSE

BitNext == \/ ParportInit \/ GpioInit \/ BitBegin \/ SetPins \/ Capture \/ StoreByte
           \/ CaptureMask \/ PinFails \/ BitDestroy
==============================================================================
