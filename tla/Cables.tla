-------------------------------- MODULE Cables --------------------------------
(***************************************************************************)
(* All the cables, one per behaviour, against the contract of a cable.     *)
(***************************************************************************)
EXTENDS FtdiCable, UsbCables, BitCables

vars == <<vars_cable, vars_ftdi, vars_usb, vars_bits>>

Init == Open /\ FtdiInit /\ UsbInit /\ BitInit

Host == \/ FtdiHost /\ UNCHANGED <<vars_usb, vars_bits>>
        \/ UsbNext /\ UNCHANGED <<vars_ftdi, vars_bits>>
        \/ BitNext /\ UNCHANGED <<vars_ftdi, vars_usb>>
        \/ (Ready \/ Return \/ Terminate) /\ UNCHANGED <<vars_ftdi, vars_usb, vars_bits>>
Chip == ChipStep /\ UNCHANGED <<vars_usb, vars_bits>>

(* The object is gone, and the chip has nothing left.                      *)
Ended == state \in {"closed", "aborted"} /\ chip = <<>>
Stay == Ended /\ UNCHANGED vars

Next == Host \/ Chip \/ Stay

(* Neither the program nor the chip stops while it has something to do.    *)
(* That is weak fairness of Host \/ Chip: there is no deadlock, so that    *)
(* one of them can go on until the end.                                    *)
Spec == Init /\ [][Next]_vars /\ ([]<>Ended \/ []<><<Next>>_vars)

------------------------------------------------------------------------------
(***************************************************************************)
(* The calls a cable is known to get wrong.                                *)
(***************************************************************************)
Trouble(c) ==
  CASE IsFtdi -> CutsCommand(c)
    [] kind = "xpc" -> ReadsInPieces(c)
    [] kind = "fx2" -> DropsTms(c)
    [] kind = "xpc_internal" -> InternalWrong(c)
    [] OTHER -> FALSE
Troubled == \E k \in DOMAIN calls : Trouble(calls[k])

AbstractState ==
  IF told \/ silent \/ Troubled THEN "failed"
  ELSE IF state \in {"init", "closing"} THEN "idle" ELSE state

AllCalls == UNION {Calls[x] : x \in Kinds}
Contract == INSTANCE CableContract WITH Calls <- AllCalls, state <- AbstractState

------------------------------------------------------------------------------
TypeOK ==
  /\ kind \in Kinds /\ freq \in Nat /\ state \in States
  /\ handle \in {"none", "open", "closed"} /\ {told, silent, misuse} \subseteq BOOLEAN
  /\ Here <= MaxCalls /\ \A k \in DOMAIN calls : calls[k] \in Calls[kind]
  /\ \A x \in DOMAIN wire : wire[x].call \in DOMAIN calls /\ wire[x].n > 0
  /\ \A x \in DOMAIN got : got[x].n > 0
  /\ bptr \in Nat /\ want.n \in Nat \cup {-1} /\ want.n <= 65536
  /\ tries \in 0..(Retries + 1)
  /\ have \in 0..TX_BUF
  /\ {tck, tms} \subseteq {0, 1} /\ driven \in BOOLEAN
  /\ cabletype \in {"unset", "none", "bblst", "pciii"}

(* Every cable keeps the contract: the chain sees the edges asked for, in  *)
(* order and once each, and a read returns what its own edges captured, or *)
(* the user is told; the exceptions are the calls of Trouble and the       *)
(* failures the code passes over in silence (txrx_block, tx_tms, Usleep    *)
(* and the destructor of every cable).                                     *)
ImplementsContract == Contract!Spec

(* What is collected for one transfer stays within its buffer, and bptr    *)
(* counts the bytes that are there (mpsse_add_cmd, ioftdi.cpp:724;         *)
(* xpcu_add_bit_for_ext_transfer, ioxpc.cpp:509).                          *)
Held(buf) == FoldFunction(LAMBDA it, n : n + Size(it), 0, buf)
BuffersHold ==
  /\ bptr < TX_BUF /\ bptr = Held(usbuf)
  /\ kind = "xpc" => \A x \in DOMAIN script :
                        script[x].do = "xfer" => in_len(script[x].bits) <= CPLD_MAX_BYTES

(* Usleep below 20 ms: when the chip goes on to the next call, or the      *)
(* cable is closed, as many clocks have passed as the time needs at the    *)
(* frequency in use, but for the last one where this is below 1 MHz        *)
(* (ioftdi.cpp:805: the product is rounded up by less than a clock there). *)
(* Not so where the product overflows, where the count of bytes does not   *)
(* fit 16 bits, and where the commands are cut.                            *)
Passed(k) == (state = "closed" /\ ~told) \/ \E x \in DOMAIN wire : wire[x].call > k
Clocks(k) == LET idle == {x \in DOMAIN wire : wire[x].call = k}
             IN  FoldFunctionOnSet(LAMBDA r, n : n + r.n, 0, wire, idle)
Needed(usec) ==
  LET F == tck_freq \div 100
  IN  usec * (F \div 10000)
        + ((usec * (F % 10000) + IF F < 10000 THEN 0 ELSE 9999) \div 10000)
SleepsLongEnough ==
  IsFtdi /\ ~Troubled =>
    \A k \in DOMAIN calls :
      /\ calls[k].op = "sleep" /\ calls[k].len < 20000 /\ Passed(k)
      /\ FitsIn32(calls[k].len) /\ Ticks(calls[k].len) < 8 * 65536
      => Clocks(k) >= Needed(calls[k].len)

(* The parallel port takes a port for a cable only when the lines of that  *)
(* cable follow the data, and refuses no port whose lines do, but for a    *)
(* Byteblaster whose other lines are all low: its status byte reads 0, as  *)
(* that of a port without a driver does (ioparport.cpp:148).  And the      *)
(* Byteblaster's outputs are off when the port is given back (detectcable, *)
(* ~IOParport).                                                            *)
IsByteblaster == opt.ERROR = "low" /\ opt.PE = "D7" /\ opt.ACK = "D5"
IsParallelIII == opt.ERROR = "high" /\ opt.PE = "D6" /\ opt.BUSY = "notD6"
ReadsZero == opt.BUSY \notin {"high", "notD6"} /\ opt.REST = "low"
CableRecognised ==
  kind = "parport" =>
    /\ state \in {"idle", "busy"} => cabletype \in {"bblst", "pciii"}
    /\ cabletype = "bblst" => IsByteblaster /\ ~ReadsZero
    /\ cabletype = "pciii" => IsParallelIII
    /\ cabletype = "none" => ~IsParallelIII /\ (IsByteblaster => ReadsZero)
    /\ driven => cabletype = "bblst" /\ state # "closed"

(* The device is used without an open handle only after a failure the user *)
(* was told about: a refused Init or a read that tore the device down      *)
(* (readusb, ioftdi.cpp:644, and the destructors).                         *)
MisuseExplained == [][~misuse /\ misuse' => told]_vars

(* A call returns or throws, and closing comes to an end, unless reads     *)
(* fail for ever: then readusb calls deinit and deinit calls readusb       *)
(* without an end (ioftdi.cpp:641-653, 667-682).  Reads that come up       *)
(* short, but do not fail, are given up after a bounded number of retries. *)
CallsEnd == \/ []<><<TearDown>>_vars
            \/ /\ state = "busy" ~> state # "busy"
               /\ state = "closing" ~> state \in {"closed", "aborted"}
==============================================================================
