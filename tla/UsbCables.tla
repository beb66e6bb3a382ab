------------------------------ MODULE UsbCables ------------------------------
(***************************************************************************)
(* The USB cables that answer at once: the Xilinx Platform Cable in        *)
(* external mode (class IOXPC, src/ioxpc.cpp) and the FX2 cables (class    *)
(* IOFX2, src/iofx2.cpp).  Every operation is a USB transfer, after which  *)
(* the edges are done.                                                     *)
(***************************************************************************)
EXTENDS Cable

CONSTANTS
  CPLD_MAX_BYTES,   \* the buffer of an XPC transfer: 4096, 4 bits to 2 bytes
  USRP_CMD_SIZE     \* the most an FX2 takes at once: 64

ASSUME TransferAssumption ==    \* whole words of 16 bits in a buffer
  /\ CPLD_MAX_BYTES \in Nat \ {0} /\ CPLD_MAX_BYTES % 2 = 0
  /\ USRP_CMD_SIZE \in Nat \ {0}

VARIABLES
  cpld,     \* XPC: what the CPLD has captured in the transfer under way
  held      \* FX2: what the firmware has captured last

vars_usb == <<cpld, held>>

NoBits == [from |-> 0, n |-> 0]
Min2(a, b) == IF a < b THEN a ELSE b

------------------------------------------------------------------------------
(***************************************************************************)
(* XPC, external mode.  xpcu_add_bit_for_ext_transfer collects bits until  *)
(* the buffer is full; the CPLD does not like multiples of 4 in a          *)
(* transfer, so that the last may get a bit without an edge.  A transfer   *)
(* puts what it read at the start of the caller's buffer.                  *)
(***************************************************************************)
XpcMost == 2 * CPLD_MAX_BYTES - 1

Dummy_wrong(n, lastOne) == 0
Dummy(n, lastOne) == IF lastOne /\ n % 4 = 0 THEN 1 ELSE 0

XpcScript(c) ==
  LET chunks == (c.len + XpcMost - 1) \div XpcMost IN
  IF c.op = "sleep" THEN <<>>
  ELSE [x \in 1..chunks |->
          LET from == XpcMost * (x - 1)
              n == Min2(XpcMost, c.len - from)
          IN  [do |-> "xfer", from |-> from, n |-> n,
               bits |-> n + Dummy(n, n < XpcMost)]]

(* The bytes the CPLD wants for so many bits, in words of 16.              *)
in_len(bits) == 2 * ((bits + 3) \div 4)

(* Edges from .. from + n - 1 of the call, the last one with TMS perhaps.  *)
Clocked(from, n) ==
  IF Asked.op = "tms" THEN Join(wire, Run(Here, "tms", from, n))
  ELSE IF Asked.last /\ from + n = Asked.len
       THEN Join(Join(wire, Run(Here, "data", from, n - 1)), Run(Here, "last", from + n - 1, 1))
       ELSE Join(wire, Run(Here, "data", from, n))

(* The rest of a call is dropped when a transfer fails, with a message.    *)
Drop == script' = <<>> /\ told' = TRUE

XpcWrite ==
  /\ kind = "xpc" /\ Doing("xfer")
  /\ wire' = IF Op.bits % 4 = 0 THEN wire ELSE Clocked(Op.from, Op.n)
  /\ cpld' = [from |-> Op.from, n |-> Op.n]
  /\ script' = IF Asked.read THEN <<[do |-> "fetch"]>> \o Tail(script) ELSE Tail(script)
  /\ UNCHANGED <<link, calls, got, state, handle, hist, held>>

XpcWriteFails ==
  /\ kind = "xpc" /\ Doing("xfer") /\ Drop
  /\ UNCHANGED <<link, calls, wire, got, state, handle, silent, misuse, vars_usb>>

(* Every transfer begins at out[0]: xts is not told where the one before   *)
(* it ended.                                                               *)
XpcAt == 0

XpcRead ==
  /\ kind = "xpc" /\ Doing("fetch") /\ Done
  /\ got' = Place(got, Placed(XpcAt, Here, cpld.from, cpld.n)) /\ cpld' = NoBits
  /\ UNCHANGED <<link, calls, wire, state, handle, hist, held>>

XpcReadFails ==
  /\ kind = "xpc" /\ Doing("fetch") /\ Drop
  /\ UNCHANGED <<link, calls, wire, got, state, handle, silent, misuse, vars_usb>>

XpcBegin == kind = "xpc" /\ Begin(XpcScript) /\ UNCHANGED vars_usb

(* A read longer than one transfer.                                        *)
ReadsInPieces(c) == c.op = "block" /\ c.read /\ c.len > XpcMost

------------------------------------------------------------------------------
(***************************************************************************)
(* Init of an XPC: open the device, then requests in order; the version of *)
(* the CPLD may be missing.  When no device was found, the handle the      *)
(* destructor uses was never set; after a failure of the last steps the    *)
(* device is closed, and the destructor closes it again.                   *)
(***************************************************************************)
XpcInit ==
  /\ kind \in {"xpc", "xpc_internal"} /\ state = "init" /\ handle = "none"
  /\ \/ handle' = "open" /\ script' = <<>> /\ UNCHANGED state
        /\ UNCHANGED told
     \/ Refuse /\ handle' \in {"none", "open", "closed"}
  /\ UNCHANGED <<link, calls, wire, got, silent, misuse, vars_usb>>

Fx2Init ==
  /\ kind = "fx2" /\ state = "init" /\ handle = "none"
  /\ \/ handle' = "open" /\ script' = <<>> /\ UNCHANGED state
        /\ UNCHANGED told
     \/ Refuse /\ handle' \in {"none", "closed"}
  /\ UNCHANGED <<link, calls, wire, got, silent, misuse, vars_usb>>

(* ~IOXPC turns the outputs off and closes; ~IOFX2 closes.                 *)
UsbDestroy ==
  /\ kind \in {"xpc", "xpc_internal", "fx2"} /\ state \in {"idle", "refused", "thrown"}
  /\ state' = "closed" /\ handle' = "closed"
  /\ misuse' = (misuse \/ handle # "open")
  /\ UNCHANGED <<link, calls, wire, got, script, silent, told, vars_usb>>

------------------------------------------------------------------------------
(***************************************************************************)
(* FX2.  txrx_block: pieces of USRP_CMD_SIZE bytes while more than that is *)
(* left, the whole bytes of the rest, then the bits, the last one among    *)
(* them.  The firmware takes a number of bits where that of bytes goes.    *)
(***************************************************************************)
Fx2Piece(c, from, n, len) ==
  IF c.write
  THEN <<[do |-> "out", from |-> from, n |-> n, len |-> len]>>
         \o (IF c.read THEN <<[do |-> "in", at |-> from, len |-> len]>> ELSE <<>>)
  ELSE <<[do |-> "inout", from |-> from, n |-> n, len |-> len]>>

Fx2Bits(c, from, n) ==
  <<[do |-> "out", from |-> from, n |-> n, len |-> n]>>
    \o (IF c.read THEN <<[do |-> "in", at |-> from, len |-> 1]>> ELSE <<>>)

Pieces(rem) == IF rem > USRP_CMD_SIZE * 8 THEN (rem - 1) \div (USRP_CMD_SIZE * 8) ELSE 0

Fx2Block(c) ==
  LET S == USRP_CMD_SIZE * 8
      rem == IF c.last THEN c.len - 1 ELSE c.len
      p == Pieces(rem)
      bytes == (rem - S * p) \div 8
      from == S * p + 8 * bytes
      bits == (rem % 8) + IF c.last THEN 1 ELSE 0
  IN  FlattenSeq([x \in 1..p |-> Fx2Piece(c, S * (x - 1), S, USRP_CMD_SIZE)])
      \o (IF bytes > 0 THEN Fx2Piece(c, S * p, 8 * bytes, bytes) ELSE <<>>)
      \o (IF bits > 0 THEN Fx2Bits(c, from, bits) ELSE <<>>)

Fx2Script(c) == CASE c.op = "block" -> Fx2Block(c)
                  [] c.op = "tms" -> <<[do |-> "out", from |-> 0, n |-> c.len, len |-> c.len]>>
                  [] c.op = "sleep" -> <<>>

Accepts(len) == len \in 1..USRP_CMD_SIZE

(* usrp_i2c_write and usrp_i2c_read refuse other lengths, and nobody looks *)
(* at what they return.                                                    *)
Fx2Refused ==
  /\ kind = "fx2" /\ script # <<>> /\ ~Accepts(Op.len) /\ Done
  /\ UNCHANGED <<link, calls, wire, got, state, handle, hist, vars_usb>>

Fx2Out ==
  /\ kind = "fx2" /\ Doing("out") /\ Accepts(Op.len) /\ Done
  /\ wire' = Clocked(Op.from, Op.n) /\ held' = [from |-> Op.from, n |-> Op.n]
  /\ UNCHANGED <<link, calls, got, state, handle, hist, cpld>>

Fx2In ==
  /\ kind = "fx2" /\ Doing("in") /\ Accepts(Op.len) /\ Done
  /\ got' = Place(got, Placed(Op.at, Here, held.from, held.n))
  /\ UNCHANGED <<link, calls, wire, state, handle, hist, vars_usb>>

Fx2InOut ==
  /\ kind = "fx2" /\ Doing("inout") /\ Accepts(Op.len) /\ Done
  /\ wire' = Clocked(Op.from, Op.n)
  /\ got' = Place(got, Placed(Op.from, Here, Op.from, Op.n))
  /\ UNCHANGED <<link, calls, state, handle, hist, vars_usb>>

(* write_cmd: a device that is gone throws, a firmware that stalls is      *)
(* passed over in silence, and other errors give a message.                *)
Fx2Error ==
  /\ kind = "fx2" /\ script # <<>> /\ Accepts(Op.len) /\ ~told /\ ~silent
  /\ \/ Throw /\ told' = TRUE /\ UNCHANGED silent
     \/ Done /\ told' = TRUE /\ UNCHANGED <<state, silent>>
     \/ Done /\ silent' = TRUE /\ UNCHANGED <<state, told>>
  /\ UNCHANGED <<link, calls, wire, got, handle, misuse, vars_usb>>

Fx2Begin == kind = "fx2" /\ Begin(Fx2Script) /\ UNCHANGED vars_usb

(* A TMS pattern that does not fit one request is dropped: the code warns  *)
(* only from USRP_CMD_SIZE * 8 on, for it takes bits for bytes.            *)
DropsTms(c) == c.op = "tms" /\ ~Accepts(c.len)

UsbInit == cpld = NoBits /\ held = NoBits

UsbNext == \/ XpcInit \/ XpcBegin \/ XpcWrite \/ XpcWriteFails \/ XpcRead \/ XpcReadFails
           \/ Fx2Init \/ Fx2Begin \/ Fx2Refused \/ Fx2Out \/ Fx2In \/ Fx2InOut \/ Fx2Error
           \/ UsbDestroy
==============================================================================
