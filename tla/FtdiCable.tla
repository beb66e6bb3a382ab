------------------------------ MODULE FtdiCable ------------------------------
(***************************************************************************)
(* The FTDI cables: class IOFtdi (src/ioftdi.cpp) with libftdi.            *)
(*                                                                         *)
(* MPSSE commands are collected in usbuf, sent in one USB write when the   *)
(* next would not fit or an answer is needed, and carried out by the chip  *)
(* in its own time.  The chip knows commands from data only by the lengths *)
(* the commands announce.                                                  *)
(***************************************************************************)
EXTENDS Cable

CONSTANTS
  TX_BUF,       \* size of usbuf: 4096
  Retries,      \* bound: reads before giving up, 1000 in the code
  MaxBehind     \* bound: commands the chip can be behind with when more are
                \* sent, and answers it keeps, once a failure was told

(* The buffer takes every command with its data, and the bytes announced   *)
(* fit the two bytes for their number.                                     *)
ASSUME BufferAssumption == /\ TX_BUF \in Nat /\ 32 <= TX_BUF /\ TX_BUF <= 65536
                           /\ {Retries, MaxBehind} \subseteq Nat

VARIABLES
  bptr, usbuf,  \* bytes collected, and the commands they are
  chip,         \* commands the chip has received
  want,         \* the data the chip waits for: how much, for which command
  fifo,         \* the answers the host has not read
  tries, have, put, res, err    \* readusb: reads made, bytes and bits got,
                \* last_read, last_errno

vars_ftdi == <<bptr, usbuf, chip, want, fifo, tries, have, put, res, err>>
reading == <<tries, have, put, res, err>>

IsFtdi == kind \in {"ftdi", "ftdi_h"}
Fast == kind = "ftdi_h"      \* device_has_fast_clock

------------------------------------------------------------------------------
(***************************************************************************)
(* The clock.  MPSSE divides 6 MHz, or 30 MHz on the fast devices.         *)
(***************************************************************************)
Capped(d) == IF d > 65535 THEN 65535 ELSE d

(* The slow clock takes the bits the two numbers share for the remainder.  *)
Bit(n, k) == (n \div 2^k) % 2 = 1
ShareBits(m, n) == \E k \in 0..30 : Bit(m, k) /\ Bit(n, k)

SlowDivisor(f) ==
  IF f = 0 \/ f >= 6000000 THEN 0
  ELSE Capped((6000000 \div f) - (IF ShareBits(6000000, f) THEN 0 ELSE 1))

FastDivisor(f) ==
  IF f = 0 \/ f >= 30000000 THEN 0
  ELSE Capped((30000000 \div f) - (IF 30000000 % f # 0 THEN 0 ELSE 1))

UsesFastClock(f) == Fast /\ (f = 0 \/ f > 458)
tck_freq == IF UsesFastClock(freq) THEN 30000000 \div (1 + FastDivisor(freq))
            ELSE 6000000 \div (1 + SlowDivisor(freq))

(* The frequency taken in kHz, the divisor for units of 100 Hz.            *)
Ticks_wrong(usec) == (usec * (tck_freq \div 1000)) \div 10000

(* (usec * F + F - 1) / 10000 in 32 bits, with F = tck_freq/100; computed  *)
(* in halves of 16 bits, so that TLC's own integers do not overflow.       *)
Ticks(usec) ==
  LET F == tck_freq \div 100
      low == (usec * (F % 65536)) + F - 1
      high == ((usec * (F \div 65536)) + (low \div 65536)) % 65536
  IN  (6 * high) + (((5536 * high) + (low % 65536)) \div 10000)

(* Whether that did not overflow.                                          *)
FitsIn32(usec) == LET F == tck_freq \div 100 IN F = 0 \/ usec + 1 <= 2 * (2147483647 \div F)

------------------------------------------------------------------------------
(***************************************************************************)
(* The commands: n is what the length bytes announce, in bytes or bits; a  *)
(* "payload" is the data of the command before it, `bits' of it.           *)
(***************************************************************************)
Size(it) == CASE it.op \in {"payload"} -> it.n
              [] it.op \in {"bits", "idlebits"} -> 2
              [] it.op \in {"now", "cut"} -> 1
              [] it.op = "setup" -> 9
              [] it.op = "divisor" -> 4
              [] it.op = "loop" -> 16
              [] OTHER -> 3

Item(op, kd, from, n, bits, w, r) ==
  [op |-> op, kd |-> kd, from |-> from, n |-> n, bits |-> bits, w |-> w, r |-> r, call |-> 0]
Plain(op) == Item(op, "none", 0, 0, 0, FALSE, FALSE)
Add(it) == [do |-> "add", it |-> it]
Send == [do |-> "send"]
Read(n, at) == <<Add(Plain("now")), Send, [do |-> "get", n |-> n, at |-> at]>>

Bytes(c, from, n) ==
  <<Add(Item("bytes", "data", from, n, 8 * n, c.write, c.read))>>
    \o If(c.write, <<Add(Item("payload", "data", from, n, 8 * n, FALSE, FALSE))>>)

(***************************************************************************)
(* txrx_block: full chunks of L bytes while more than L are left, the      *)
(* whole bytes of the rest, up to 7 bits, and with `last' one bit with     *)
(* TMS.  The answer to what follows the chunks is read at the end.         *)
(***************************************************************************)
FtdiChunk(c, L, x) ==
  Bytes(c, 8 * L * x, L) \o If(c.read, Read(L, 8 * L * x))

FtdiRest(c, L, from, n, bits) ==
  LET Direct == n >= TX_BUF - 4
      end == from + 8 * n
  IN  If(n > 0, Bytes(c, from, n))
      \o If(Direct /\ c.read, Read(n, from))
      \o If(bits > 0, <<Add(Item("bits", "data", end, 1, bits, c.write, c.read))>>
                      \o If(c.write, <<Add(Item("payload", "data", end, 1, bits, FALSE, FALSE))>>))
      \o If(c.last, <<Add(Item("last", "last", end + bits, 1, 1, FALSE, c.read))>>)
      \o If(c.read, Read((IF Direct THEN 0 ELSE n) + (IF bits > 0 THEN 1 ELSE 0)
                                                   + (IF c.last THEN 1 ELSE 0),
                         IF Direct THEN end ELSE from))

FtdiBlock(c) ==
  LET L == TX_BUF - 3
      rem == IF c.last THEN c.len - 1 ELSE c.len
      whole == rem \div 8
      chunks == IF whole > L THEN (whole - 1) \div L ELSE 0
  IN  FlattenSeq([x \in 1..chunks |-> FtdiChunk(c, L, x - 1)])
      \o FtdiRest(c, L, 8 * L * chunks, whole - L * chunks, rem % 8)

(* tx_tms: six bits to a command, for a bug of the FT2232.                 *)
FtdiTms(c) ==
  [x \in 1..((c.len + 5) \div 6) |->
     LET left == c.len - 6 * (x - 1) IN
     Add(Item("tms", "tms", 6 * (x - 1), 1, IF left > 6 THEN 6 ELSE left, FALSE, FALSE))]

(* Usleep: clocks for short times.  The commands for n bytes run n + 1.    *)
IdleFast(t) ==
  LET bytes == IF t > 8 THEN ((t \div 8) % 65536) + 1 ELSE 0
      bits == IF t > 8 THEN t % 8 ELSE t
  IN  If(t > 8, <<Add(Item("idlebytes", "idle", 0, bytes, 8 * bytes, FALSE, FALSE))>>)
      \o If(bits > 0, <<Add(Item("idlebits", "idle", 8 * bytes, 1, bits, FALSE, FALSE))>>)

(* On the slow devices the last bits get a command of which only the first *)
(* byte is sent; it ends up as the byte the command before it still wants, *)
(* if there is one.                                                        *)
IdleSlow(t) ==
  LET zeros == (t + 7) \div 8 - 1 IN
  If(t > 8, <<Add(Item("bytes", "idle", 0, ((t \div 8) % 65536) + 1, 0, TRUE, FALSE)),
              [do |-> "fill", n |-> zeros, from |-> 0]>>)
  \o If(t > 0, <<Add(Item("cut", "idle", 8 * zeros, 1, 8, FALSE, FALSE))>>)

FtdiSleep(c) ==
  IF c.len >= 20000 THEN <<Send>>
  ELSE IF Fast THEN IdleFast(Ticks(c.len)) ELSE IdleSlow(Ticks(c.len))

FtdiScript(c) == CASE c.op = "block" -> FtdiBlock(c)
                   [] c.op = "tms" -> FtdiTms(c)
                   [] c.op = "sleep" -> FtdiSleep(c)

------------------------------------------------------------------------------
(***************************************************************************)
(* The chip.  It takes a command, then as many bytes as that announced;    *)
(* what comes instead of them is taken for them, and from then on nothing  *)
(* it does is known: want.n = -1.  Bound: once a failure was told, the     *)
(* answers beyond MaxBehind are lost.                                      *)
(***************************************************************************)
Lost == [n |-> -1, r |-> FALSE]
Nothing == [n |-> 0, r |-> FALSE]
Answer(it, r) ==
  IF r /\ (told => Len(fifo) < MaxBehind)
  THEN Append(fifo, [call |-> it.call, from |-> it.from, bits |-> it.bits, bytes |-> it.n])
  ELSE fifo
Run_of(it) == Run(it.call, it.kd, it.from, it.bits)

ChipTakes(it) == want.n > 0 /\ it.op \in {"payload", "cut"} /\ it.n <= want.n

ChipStep ==
  /\ chip # <<>> /\ chip' = Tail(chip)
  /\ LET it == Head(chip)
         clocks == \/ ChipTakes(it)
                   \/ /\ want.n = 0 /\ ~it.w
                      /\ it.op \in {"bytes", "bits", "tms", "last", "idlebytes", "idlebits"}
         reads == IF want.n > 0 THEN want.r ELSE it.r
     IN  /\ wire' = IF clocks THEN Join(wire, Run_of(it)) ELSE wire
         /\ fifo' = IF clocks THEN Answer(it, reads)
                    ELSE IF want.n = 0 /\ it.op = "loop" THEN Answer(it, TRUE) ELSE fifo
         /\ want' = IF ChipTakes(it) THEN [want EXCEPT !.n = @ - it.n]
                    ELSE IF want.n # 0 \/ it.op \in {"payload", "cut"} THEN Lost
                    ELSE IF it.w THEN [n |-> it.n, r |-> it.r] ELSE want
  /\ UNCHANGED <<link, calls, got, state, script, handle, hist,
                 bptr, usbuf, reading>>

------------------------------------------------------------------------------
(***************************************************************************)
(* mpsse_add_cmd and mpsse_send.  A write that comes up short throws, and  *)
(* leaves usbuf as it is.  Bound: once a failure was told, a write waits   *)
(* for a chip that is further behind than MaxBehind.                       *)
(***************************************************************************)
Fits_wrong(len) == bptr + len < TX_BUF + 2
Fits(len) == bptr + len + 1 < TX_BUF

Sending == \/ Doing("send")
           \/ Doing("fill") /\ ~Fits(1)
           \/ Doing("add") /\ ~Fits(Size(Op.it)) /\ bptr > 0

mpsse_add_cmd ==
  /\ Doing("add") /\ (Fits(Size(Op.it)) \/ bptr = 0)
  /\ usbuf' = Append(usbuf, [Op.it EXCEPT !.call = Here])
  /\ bptr' = bptr + Size(Op.it) /\ Done
  /\ UNCHANGED <<link, calls, wire, got, state, handle, hist,
                 chip, want, fifo, reading>>

(* Single bytes, added while they fit.                                     *)
FtdiFill ==
  /\ Doing("fill") /\ Fits(1)
  /\ LET room == TX_BUF - 1 - bptr - 1
         m == IF Op.n < room THEN Op.n ELSE room
         it == Item("payload", "idle", Op.from, m, 8 * m, FALSE, FALSE)
     IN  /\ usbuf' = Append(usbuf, [it EXCEPT !.call = Here])
         /\ bptr' = bptr + m
         /\ script' = IF m = Op.n THEN Tail(script)
                      ELSE <<[do |-> "fill", n |-> Op.n - m, from |-> Op.from + 8 * m]>>
                             \o Tail(script)
  /\ UNCHANGED <<link, calls, wire, got, state, handle, hist,
                 chip, want, fifo, reading>>

mpsse_send ==
  /\ Sending /\ (handle = "open" \/ bptr = 0)
  /\ told => Len(chip) <= MaxBehind
  /\ chip' = chip \o usbuf /\ usbuf' = <<>> /\ bptr' = 0
  /\ script' = IF Doing("send") THEN Tail(script) ELSE script
  /\ UNCHANGED <<link, calls, wire, got, state, handle, hist,
                 want, fifo, reading>>

ShortWrite ==
  /\ Sending /\ bptr > 0
  /\ \E m \in {0, Len(usbuf) - 1} :
       /\ m > 0 => handle = "open"
       /\ chip' = chip \o SubSeq(usbuf, 1, m)
  /\ misuse' = (misuse \/ handle # "open") /\ told' = TRUE /\ Throw
  /\ UNCHANGED <<link, calls, wire, got, handle, silent, bptr, usbuf, want, fifo,
                 reading>>

------------------------------------------------------------------------------
(***************************************************************************)
(* readusb: reads until it has all the bytes, at most Retries times after  *)
(* the first.  Too many reads are an error only if errno says so; else     *)
(* there is a message, and the caller goes on with what it got.  An error  *)
(* tears the device down before it throws.  deinit reads as well: it is    *)
(* called again from within as long as reads fail and writes do not, but   *)
(* none of these calls gets to its end, so that the script does not grow.  *)
(***************************************************************************)
Fresh == tries' = 0 /\ have' = 0 /\ put' = 0 /\ res' = "none" /\ err' = FALSE

deinit_script ==
  <<Add([Plain("loop") EXCEPT !.n = 5, !.bits = 40])>> \o Read(5, -1)
    \o <<[do |-> "close"]>>

(* The first m bytes of the fifo: what is taken, and what is left.         *)
TakeBytes(m) ==
  FoldLeft(LAMBDA acc, a :
             LET n == IF a.bytes <= acc.m THEN a.bytes ELSE acc.m
                 bits == IF n = a.bytes THEN a.bits ELSE 8 * n
             IN  [m |-> acc.m - n,
                  at |-> acc.at + bits,
                  got |-> Place(acc.got, Placed(acc.at, a.call, a.from, bits)),
                  rest |-> IF n = a.bytes THEN acc.rest
                           ELSE Append(acc.rest, [a EXCEPT !.from = @ + bits, !.bits = @ - bits,
                                                           !.bytes = @ - n])],
           [m |-> m, at |-> Op.at + put, got |-> got, rest |-> <<>>], fifo)

Available == FoldLeft(LAMBDA n, a : n + a.bytes, 0, fifo)
ReadDone_wrong == tries > 0 /\ (have = Op.n \/ tries > Retries + 1)
ReadDone == tries > 0 /\ (have = Op.n \/ tries > Retries)

(* Every read counts, one that brings nothing too.                         *)
Count_wrong(m) == IF tries = 0 \/ m > 0 THEN tries + 1 ELSE tries
Count(m) == tries + 1

FtdiRead ==
  /\ Doing("get") /\ ~ReadDone
  /\ LET most == IF Available < Op.n - have THEN Available ELSE Op.n - have IN
     \E m \in {0, most} :
       /\ tries' = Count(m) /\ have' = have + m /\ res' = IF m > 0 THEN "some" ELSE "none"
       /\ got' = IF Op.at < 0 THEN got ELSE TakeBytes(m).got
       /\ fifo' = TakeBytes(m).rest /\ put' = TakeBytes(m).at - Op.at
       /\ err' \in IF tries = 0 \/ m > 0 THEN {FALSE} ELSE BOOLEAN
  /\ UNCHANGED <<link, calls, wire, state, script, handle, hist,
                 bptr, usbuf, chip, want>>

FtdiReadError ==
  /\ Doing("get") /\ ~ReadDone
  /\ tries' = tries + 1 /\ res' = "error" /\ UNCHANGED <<have, put>>
  /\ err' \in IF tries = 0 THEN {FALSE} ELSE BOOLEAN
  /\ UNCHANGED <<vars_cable, bptr, usbuf, chip, want, fifo>>

ReadFailed == \/ tries > Retries /\ err
              \/ res = "error"

FtdiReadDone ==
  /\ Doing("get") /\ ReadDone /\ Fresh
  /\ IF ReadFailed
     THEN script' = deinit_script \o <<[do |-> "throw"]>> /\ told' = TRUE
     ELSE Done /\ told' = (told \/ tries > Retries)
  /\ UNCHANGED <<link, calls, wire, got, state, handle, silent, misuse,
                 bptr, usbuf, chip, want, fifo>>

(* A read failed, and deinit is called from within readusb.                *)
TearDown == FtdiReadDone /\ ReadFailed

FtdiThrow == /\ Doing("throw") /\ Throw
             /\ UNCHANGED <<link, calls, wire, got, handle, hist, vars_ftdi>>

FtdiClose == /\ Doing("close") /\ handle' = "closed" /\ Done
             /\ UNCHANGED <<link, calls, wire, got, state, hist,
                            bptr, usbuf, chip, want, fifo, reading>>

------------------------------------------------------------------------------
(***************************************************************************)
(* Init and the destructor.  Without ftd2xx a device that can not be       *)
(* opened leaves no handle, and what fails later leaves it open.           *)
(***************************************************************************)
FtdiChannel == IF Len(opt) >= 4 THEN opt[4] ELSE 0

FtdiSetup == <<Add(Plain("setup")), Send>>
             \o If(UsesFastClock(freq), <<Add(Plain("divisor")), Send>>)

FtdiOpen ==
  /\ IsFtdi /\ state = "init" /\ handle = "none" /\ FtdiChannel <= 2
  /\ handle' = "open" /\ script' = FtdiSetup
  /\ UNCHANGED <<link, calls, wire, got, state, hist, vars_ftdi>>

FtdiRefused ==
  /\ IsFtdi /\ state = "init" /\ handle = "none" /\ Refuse
  /\ handle' \in IF FtdiChannel > 2 THEN {"none"} ELSE {"none", "open"}
  /\ want' = IF handle' = "open" THEN Lost ELSE want
  /\ UNCHANGED <<link, calls, wire, got, silent, misuse, bptr, usbuf, chip, fifo,
                 reading>>

FtdiDestroy ==
  /\ IsFtdi /\ state \in {"idle", "refused", "thrown"}
  /\ state' = "closing" /\ script' = deinit_script /\ Fresh
  /\ UNCHANGED <<link, calls, wire, got, handle, hist, bptr, usbuf, chip, want, fifo>>

FtdiEnd ==
  /\ IsFtdi /\ state = "closing" /\ script = <<>> /\ state' = "closed"
  /\ UNCHANGED <<link, calls, wire, got, script, handle, hist, vars_ftdi>>

FtdiBegin == IsFtdi /\ Begin(FtdiScript) /\ UNCHANGED vars_ftdi

FtdiInit == /\ bptr = 0 /\ usbuf = <<>> /\ chip = <<>> /\ want = Nothing /\ fifo = <<>>
            /\ tries = 0 /\ have = 0 /\ put = 0 /\ res = "none" /\ err = FALSE

FtdiHost == \/ FtdiOpen \/ FtdiRefused \/ FtdiBegin \/ mpsse_add_cmd \/ FtdiFill
            \/ mpsse_send \/ ShortWrite \/ FtdiRead \/ FtdiReadError \/ FtdiReadDone
            \/ FtdiThrow \/ FtdiClose \/ FtdiDestroy \/ FtdiEnd

(* A sleep on a slow device that leaves the chip waiting for a byte: it    *)
(* needs between 1 and 8 clocks, or a multiple of 8.                       *)
CutsCommand(c) == /\ c.op = "sleep" /\ c.len < 20000 /\ ~Fast
                  /\ Ticks(c.len) > 0
                  /\ Ticks(c.len) <= 8 \/ Ticks(c.len) % 8 = 0
==============================================================================
