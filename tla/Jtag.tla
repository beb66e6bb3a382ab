-------------------------------- MODULE Jtag ---------------------------------
(***************************************************************************)
(* The JTAG layer of xc3sprog: class Jtag (src/jtag.cpp) over the TMS      *)
(* buffer of class IOBase (src/iobase.cpp).                                *)
(*                                                                         *)
(* The program never reads the TAP state back.  It keeps a shadow of it,   *)
(* current_state, and every shift is placed by that shadow: a TMS bit too  *)
(* many or too few and all later data go to the wrong register.            *)
(*                                                                         *)
(* Two processes run: the host (the Jtag methods, called by the            *)
(* programming algorithms) and the cable, which clocks what it was given   *)
(* into the hardware later, in order.  A method that loops is several      *)
(* steps, told apart by pc; a call that only waits for the cable (a read   *)
(* of TDO) is an interleaving in which only the cable moves.               *)
(***************************************************************************)
EXTENDS Integers, Sequences, FiniteSets, Tap

CONSTANTS
  MaxNumDevices,   \* MAXNUMDEVICES of jtag.h, 1000 in the code
  TmsBufBits,      \* CHUNK_SIZE*8 of iobase.h, 1024 in the code
  QueueCap,        \* bound: blocks issued and not yet clocked
  MaxIrLength,     \* bound: the longest instruction register
  Chains,          \* the chains that exist: IR lengths from TDI to TDO
  StaleIrLengths,  \* what chainParam_t::irlen holds before it is set
  Goals,           \* arguments of setTapState
  Lengths,         \* bit counts callers pass to shiftDR, cycleTCK and shift*
  Aligns,          \* values callers pass as shiftDR's align
  PostDRStates,    \* arguments of setPostDRState
  PostIRStates,    \* arguments of setPostIRState
  MaxScan,         \* bound: bits of one scan
  Misuse           \* which of Misuses the callers do

UNKNOWN == "UNKNOWN"

(* Things callers do, or can do, that the main configuration excludes:     *)
(*   "abandon"  call shiftIR after shiftDR(..., exit = false), as          *)
(*              ProgAlgXC2C::done_program does                             *)
(*   "zero"     shift a length of 0, as test_IRChain does when no device   *)
(*              is known and programXC3S with an empty bit file            *)
(*   "stale"    call shiftIR before every device's irlen has been set      *)
(*   "reset"    call cycleTCK in TEST_LOGIC_RESET                          *)
Misuses == {"abandon", "zero", "stale", "reset"}

ASSUME MaxNumDevicesAssumption == MaxNumDevices \in Nat \ {0}
ASSUME QueueAssumption == /\ TmsBufBits \in Nat \ {0}
                          /\ QueueCap \in Nat /\ QueueCap > TmsBufBits
ASSUME LengthAssumption == /\ MaxIrLength \in Nat
                           /\ Chains \subseteq Seq(1..MaxIrLength)
                           /\ StaleIrLengths \subseteq 0..MaxIrLength
                           /\ Lengths \subseteq Nat \ {0}
                           /\ Aligns \subseteq Nat
                           /\ MaxScan \in Nat
ASSUME PostAssumption == /\ PostDRStates \subseteq TapStates
                         /\ PostIRStates \subseteq TapStates
                         /\ Goals \subseteq TapStates
ASSUME MisuseAssumption == Misuse \subseteq Misuses

VARIABLES
  (* the hardware *)
  chain,              \* IR lengths of the devices, from TDI to TDO
  tap,                \* the TAP state of all of them
  (* IOBase and the cable *)
  queue,              \* blocks of TCK edges issued and not yet clocked
  sent,               \* how many of them the cable has; the rest is tms_buf
  (* members of class Jtag *)
  current_state, postDRState, postIRState,
  numDevices, deviceIndex, devices, shiftDRincomplete,
  (* where the host is *)
  pc,                 \* the stage of the running method, or "idle"
  goal, lead, ret,    \* setTapState(goal, lead), then stage ret
  cnt, back,          \* tapTestLogicReset's loop, then stage back
  op,                 \* length and exit of the running shift
  (* history, read by no action *)
  clocked,            \* edges seen in SHIFT_xR since the last CAPTURE_xR
  want,               \* what the caller of the current scan asked for
  erase               \* no Run-Test/Idle between an IR scan and its data?

hardware == <<chain, tap>>
cable    == <<queue, sent>>
params   == <<postDRState, postIRState, numDevices, deviceIndex, devices>>
walk     == <<goal, lead, ret>>
reset    == <<cnt, back>>
history  == <<clocked, want, erase>>
vars == <<hardware, cable, current_state, params, shiftDRincomplete,
          pc, walk, reset, op, history>>

CaptureStates == {"CAPTURE_DR", "CAPTURE_IR"}
Parts   == {"lead", "load", "tail"}
NoClock == [p \in Parts |-> 0]
Stages  == {"idle", "reset", "unknown", "goto", "drData", "drTail", "drDone",
            "irPre", "irData", "irPost", "irDone", "chain", "sleep"}

------------------------------------------------------------------------------
(***************************************************************************)
(* IOBase.  A block is n edges with TMS low, the last one high if `last`.  *)
(* A buffered TMS bit is a block of one edge.  `lands` is history: the     *)
(* state the hardware will be in when the block has been clocked.          *)
(***************************************************************************)

(* The state of the hardware once everything issued has been clocked.      *)
Ahead == IF queue = <<>> THEN tap ELSE queue[Len(queue)].lands

Room == Len(queue) < QueueCap

(* Edges in SHIFT_xR move the registers; CAPTURE_xR starts a new scan.     *)
Clocked(part, n, lands) ==
  IF Ahead \in ShiftStates THEN [clocked EXCEPT ![part] = @ + n]
  ELSE IF lands \in CaptureStates THEN NoClock
  ELSE clocked

Issue(part, n, last) ==
  LET lands == Block(Ahead, n, last) IN
  /\ queue'   = Append(queue, [n |-> n, last |-> last, lands |-> lands])
  /\ clocked' = Clocked(part, n, lands)
  /\ erase'   = IF erase = "direct" /\ lands = "RUN_TEST_IDLE"
                THEN "idled" ELSE erase

(* Operators named *_wrong are mutants: the next definition with a bug a   *)
(* maintainer could make.  The README tells which property finds each.     *)
set_tms_wrong(part, val) ==
  /\ Room
  /\ Issue(part, 1, val)
  /\ sent' = IF Len(queue) - sent > TmsBufBits THEN Len(queue) ELSE sent

(* IOBase::set_tms: a full tms_buf goes to the cable before the bit is     *)
(* stored.                                                                 *)
set_tms(part, val) ==
  /\ Room
  /\ Issue(part, 1, val)
  /\ sent' = IF Len(queue) - sent + 1 > TmsBufBits THEN Len(queue) ELSE sent

flush_tms_wrong == UNCHANGED cable

flush_tms == queue' = queue /\ sent' = Len(queue)

(* IOBase::shiftTDITDO returns on length 0 before it touches anything.     *)
shiftTDITDO(part, length, last) ==
  /\ Room
  /\ IF length = 0 THEN UNCHANGED <<cable, clocked, erase>>
     ELSE Issue(part, length, last) /\ sent' = Len(queue) + 1

(* IOBase::shift flushes first, then behaves like shiftTDITDO; the chunks  *)
(* it cuts a long shift into are one block.                                *)
shift(part, length, last) ==
  /\ Room
  /\ IF length = 0 THEN flush_tms /\ UNCHANGED <<clocked, erase>>
     ELSE Issue(part, length, last) /\ sent' = Len(queue) + 1

(* The cable clocks its oldest block into the hardware.                    *)
CableClock ==
  /\ sent > 0
  /\ tap'   = Block(tap, Head(queue).n, Head(queue).last)
  /\ queue' = Tail(queue)
  /\ sent'  = sent - 1
  /\ UNCHANGED <<chain, current_state, params, shiftDRincomplete, pc, walk,
                 reset, op, history>>

------------------------------------------------------------------------------
(***************************************************************************)
(* Jtag::setTapState: for each arm of its switch over current_state, the   *)
(* goals for which it sends a low bit, and the state it assigns after a    *)
(* low and after a high one.                                               *)
(***************************************************************************)
Arm(goals, toLow, toHigh) == [goals |-> goals, low |-> toLow, high |-> toHigh]

Arms ==
  [ TEST_LOGIC_RESET |-> Arm(TapStates \ {"TEST_LOGIC_RESET"},
                             "RUN_TEST_IDLE", "TEST_LOGIC_RESET"),
    RUN_TEST_IDLE |-> Arm({"RUN_TEST_IDLE"}, "RUN_TEST_IDLE", "SELECT_DR_SCAN"),
    SELECT_DR_SCAN |-> Arm({"CAPTURE_DR", "SHIFT_DR", "EXIT1_DR", "PAUSE_DR",
                            "EXIT2_DR", "UPDATE_DR"},
                           "CAPTURE_DR", "SELECT_IR_SCAN"),
    CAPTURE_DR |-> Arm({"SHIFT_DR"}, "SHIFT_DR", "EXIT1_DR"),
    SHIFT_DR |-> Arm({"SHIFT_DR"}, "SHIFT_DR", "EXIT1_DR"),
    EXIT1_DR |-> Arm({"PAUSE_DR", "EXIT2_DR", "SHIFT_DR", "EXIT1_DR"},
                     "PAUSE_DR", "UPDATE_DR"),
    PAUSE_DR |-> Arm({"PAUSE_DR"}, "PAUSE_DR", "EXIT2_DR"),
    EXIT2_DR |-> Arm({"SHIFT_DR", "EXIT1_DR", "PAUSE_DR"},
                     "SHIFT_DR", "UPDATE_DR"),
    UPDATE_DR |-> Arm({"RUN_TEST_IDLE"}, "RUN_TEST_IDLE", "SELECT_DR_SCAN"),
    SELECT_IR_SCAN |-> Arm({"CAPTURE_IR", "SHIFT_IR", "EXIT1_IR", "PAUSE_IR",
                            "EXIT2_IR", "UPDATE_IR"},
                           "CAPTURE_IR", "TEST_LOGIC_RESET"),
    CAPTURE_IR |-> Arm({"SHIFT_IR"}, "SHIFT_IR", "EXIT1_IR"),
    SHIFT_IR |-> Arm({"SHIFT_IR"}, "SHIFT_IR", "EXIT1_IR"),
    EXIT1_IR |-> Arm({"PAUSE_IR", "EXIT2_IR", "SHIFT_IR", "EXIT1_IR"},
                     "PAUSE_IR", "UPDATE_IR"),
    PAUSE_IR |-> Arm({"PAUSE_IR"}, "PAUSE_IR", "EXIT2_IR"),
    EXIT2_IR |-> Arm({"SHIFT_IR", "EXIT1_IR", "PAUSE_IR"},
                     "SHIFT_IR", "UPDATE_IR"),
    UPDATE_IR |-> Arm({"RUN_TEST_IDLE"}, "RUN_TEST_IDLE", "SELECT_DR_SCAN") ]

Hop_wrong(s, g) ==
  IF g \in Arms[s].goals THEN [tms |-> FALSE, to |-> Arms[s].low]
  ELSE [tms |-> TRUE, to |-> IF s = "PAUSE_IR" THEN "EXIT1_IR" ELSE Arms[s].high]

Hop_lost(s, g) ==
  IF g \in Arms[s].goals /\ ~(s = "SELECT_DR_SCAN" /\ g = "PAUSE_DR")
  THEN [tms |-> FALSE, to |-> Arms[s].low]
  ELSE [tms |-> TRUE, to |-> Arms[s].high]

Hop(s, g) ==
  IF g \in Arms[s].goals THEN [tms |-> FALSE, to |-> Arms[s].low]
  ELSE [tms |-> TRUE, to |-> Arms[s].high]

Walk(g, pre, next) == pc' = "goto" /\ goal' = g /\ lead' = pre /\ ret' = next

Reset(next) == pc' = "reset" /\ cnt' = 5 /\ back' = next

(* One turn of the while loop.                                             *)
WalkHop ==
  /\ pc = "goto" /\ current_state \notin {goal, UNKNOWN}
  /\ LET hop == Hop(current_state, goal) IN
     set_tms("tail", hop.tms) /\ current_state' = hop.to
  /\ UNCHANGED <<hardware, params, shiftDRincomplete, pc, walk, reset, op, want>>

(* The default arm: the state is not known, so reset, then one more bit.   *)
WalkUnknown ==
  /\ pc = "goto" /\ current_state = UNKNOWN
  /\ Reset("unknown")
  /\ UNCHANGED <<hardware, cable, current_state, params, shiftDRincomplete,
                 walk, op, history>>

WalkUnknownBit ==
  /\ pc = "unknown" /\ set_tms("tail", TRUE) /\ pc' = "goto"
  /\ UNCHANGED <<hardware, current_state, params, shiftDRincomplete, walk,
                 reset, op, want>>

(* for (i = 0; i < pre; i++) set_tms(false)                                *)
WalkLead ==
  /\ pc = "goto" /\ current_state = goal /\ lead > 0
  /\ set_tms("lead", FALSE) /\ lead' = lead - 1
  /\ UNCHANGED <<hardware, current_state, params, shiftDRincomplete, pc,
                 goal, ret, reset, op, want>>

WalkArrive ==
  /\ pc = "goto" /\ current_state = goal /\ lead = 0
  /\ pc' = ret
  /\ UNCHANGED <<hardware, cable, current_state, params, shiftDRincomplete,
                 walk, reset, op, history>>

(* Jtag::tapTestLogicReset: five high bits, then a forced flush.           *)
ResetBit ==
  /\ pc = "reset" /\ cnt > 0
  /\ set_tms("tail", TRUE) /\ cnt' = cnt - 1
  /\ UNCHANGED <<hardware, current_state, params, shiftDRincomplete, pc, walk,
                 back, op, want>>

ResetDone ==
  /\ pc = "reset" /\ cnt = 0
  /\ flush_tms /\ current_state' = "TEST_LOGIC_RESET" /\ pc' = back
  /\ UNCHANGED <<hardware, params, shiftDRincomplete, walk, reset, op, history>>

(* Jtag::nextTapState, then stage next.                                    *)
nextTapState(tms, next) ==
  IF current_state \in ShiftStates
  THEN /\ pc' = next
       /\ current_state' = IF ~tms THEN current_state
                           ELSE IF current_state = "SHIFT_DR" THEN "EXIT1_DR"
                           ELSE "EXIT1_IR"
       /\ UNCHANGED reset
  ELSE Reset(next) /\ UNCHANGED current_state

------------------------------------------------------------------------------
(***************************************************************************)
(* Jtag::shiftDR.  Device k of the program is devices[k+1]; those with a   *)
(* smaller index follow the target on the chain (post bits), those with a  *)
(* larger one precede it (pre bits).                                       *)
(***************************************************************************)
PreDR_wrong(align) == IF align = 0 THEN numDevices - deviceIndex
                      ELSE align - (deviceIndex % align)

PreDR(align) == IF align = 0 THEN numDevices - deviceIndex - 1
                ELSE align - (deviceIndex % align)

(* Inside a scan: the next shift continues it, with no new CAPTURE_xR.     *)
Midway == current_state \in
  {"CAPTURE_DR", "SHIFT_DR", "EXIT1_DR", "PAUSE_DR", "EXIT2_DR",
   "CAPTURE_IR", "SHIFT_IR", "EXIT1_IR", "PAUSE_IR", "EXIT2_IR"}

(* Bounds the bits of one scan.                                            *)
RoomInScan == Midway => \A part \in Parts : clocked[part] <= MaxScan

ShiftDR_wrong(length, align, exit) ==
  /\ pc = "idle" /\ deviceIndex >= 0 /\ RoomInScan
  /\ op' = [length |-> length, exit |-> exit]
  /\ want' = [kind |-> "none", asked |-> length, align |-> align]
  /\ IF exit THEN Walk("SHIFT_DR", PreDR(align), "drData")
     ELSE pc' = "drData" /\ UNCHANGED walk
  /\ UNCHANGED <<hardware, cable, current_state, params, shiftDRincomplete,
                 reset, clocked, erase>>

ShiftDR(length, align, exit) ==
  /\ pc = "idle" /\ deviceIndex >= 0
  /\ IF shiftDRincomplete THEN exit \/ want.asked + length <= MaxScan
     ELSE RoomInScan
  /\ op' = [length |-> length, exit |-> exit]
  /\ IF shiftDRincomplete
     THEN /\ pc' = "drData" /\ want' = [want EXCEPT !.asked = @ + length]
          /\ UNCHANGED walk
     ELSE /\ Walk("SHIFT_DR", PreDR(align), "drData")
          /\ want' = [kind |-> IF Midway THEN "none" ELSE "dr",
                      asked |-> length, align |-> align]
  /\ UNCHANGED <<hardware, cable, current_state, params, shiftDRincomplete,
                 reset, clocked, erase>>

DrData ==
  LET last == deviceIndex = 0 /\ op.exit IN
  /\ pc = "drData"
  /\ shiftTDITDO("load", op.length, last)
  /\ nextTapState(last, IF op.exit THEN "drTail" ELSE "idle")
  /\ shiftDRincomplete' = (shiftDRincomplete \/ ~op.exit)
  /\ UNCHANGED <<hardware, params, walk, op, want>>

DrTail ==
  /\ pc = "drTail"
  /\ shift("tail", deviceIndex, TRUE)
  /\ IF deviceIndex = 0 THEN pc' = "drDone" /\ UNCHANGED <<current_state, reset>>
     ELSE nextTapState(TRUE, "drDone")
  /\ UNCHANGED <<hardware, params, shiftDRincomplete, walk, op, want>>

DrDone_wrong ==
  /\ pc = "drDone"
  /\ Walk(postDRState, 0, "idle")
  /\ erase' = "none"
  /\ UNCHANGED <<hardware, cable, current_state, params, shiftDRincomplete,
                 reset, op, clocked, want>>

DrDone ==
  /\ pc = "drDone"
  /\ shiftDRincomplete' = FALSE
  /\ Walk(postDRState, 0, "idle")
  /\ erase' = "none"
  /\ UNCHANGED <<hardware, cable, current_state, params, reset, op, clocked, want>>

------------------------------------------------------------------------------
(***************************************************************************)
(* Jtag::shiftIR.  Every other device gets ones, the BYPASS instruction.   *)
(***************************************************************************)
IrBits(devs) ==
  Cardinality({cell \in devs \X (1..MaxIrLength) :
                 cell[2] <= devices[cell[1] + 1].irlen})

PreIR_wrong == IrBits(0..(deviceIndex - 1))

PreIR  == IrBits((deviceIndex + 1)..(numDevices - 1))
PostIR == IrBits(0..(deviceIndex - 1))

IrLengthsSet == \A k \in 1..numDevices : devices[k].set

(* What the caller of a scan asked for; "none" is every other call.        *)
NoWant == [kind |-> "none", asked |-> 0, align |-> 0]

(* A scan left open with exit = false; callers finish it first.            *)
ScanOpen == shiftDRincomplete /\ current_state = "SHIFT_DR"

ShiftIR ==
  /\ pc = "idle" /\ deviceIndex >= 0 /\ RoomInScan
  /\ ~ScanOpen \/ "abandon" \in Misuse
  /\ IrLengthsSet \/ "stale" \in Misuse
  /\ Walk("SHIFT_IR", 0, "irPre")
  /\ op' = [length |-> devices[deviceIndex + 1].irlen, exit |-> TRUE]
  /\ want' = [kind |-> IF Midway THEN "none" ELSE "ir",
              asked |-> devices[deviceIndex + 1].irlen,
              align |-> 0]
  /\ erase' = "none"
  /\ UNCHANGED <<hardware, cable, current_state, params, shiftDRincomplete,
                 reset, clocked>>

IrPre ==
  /\ pc = "irPre" /\ shift("lead", PreIR, FALSE) /\ pc' = "irData"
  /\ UNCHANGED <<hardware, current_state, params, shiftDRincomplete, walk,
                 reset, op, want>>

IrData_wrong ==
  /\ pc = "irData"
  /\ shiftTDITDO("load", op.length, FALSE)
  /\ pc' = "irPost"
  /\ UNCHANGED <<hardware, current_state, params, shiftDRincomplete, walk,
                 reset, op, want>>

IrData ==
  /\ pc = "irData"
  /\ shiftTDITDO("load", op.length, PostIR = 0)
  /\ pc' = "irPost"
  /\ UNCHANGED <<hardware, current_state, params, shiftDRincomplete, walk,
                 reset, op, want>>

IrPost ==
  /\ pc = "irPost" /\ shift("tail", PostIR, TRUE) /\ nextTapState(TRUE, "irDone")
  /\ UNCHANGED <<hardware, params, shiftDRincomplete, walk, op, want>>

IrDone_wrong ==
  /\ pc = "irDone"
  /\ Walk("RUN_TEST_IDLE", 0, "idle")
  /\ erase' = IF postIRState = "EXIT1_IR" THEN "direct" ELSE "none"
  /\ UNCHANGED <<hardware, cable, current_state, params, shiftDRincomplete,
                 reset, op, clocked, want>>

IrDone ==
  /\ pc = "irDone"
  /\ Walk(postIRState, 0, "idle")
  /\ erase' = IF postIRState = "EXIT1_IR" THEN "direct" ELSE "none"
  /\ UNCHANGED <<hardware, cable, current_state, params, shiftDRincomplete,
                 reset, op, clocked, want>>

------------------------------------------------------------------------------
(***************************************************************************)
(* Jtag::getChain.  After a reset every device holds its IDCODE, so the    *)
(* words come out from the device next to TDO to the one next to TDI, then *)
(* the zeros shifted in; a broken device reads as all ones and ends the    *)
(* list early.  Callers ask for a second detection only in the chain test, *)
(* before any device is selected.                                          *)
(***************************************************************************)
GetChain(detect) ==
  /\ pc = "idle" /\ ~ScanOpen
  /\ numDevices = -1 \/ (detect /\ deviceIndex = -1 /\ Len(devices) < MaxNumDevices)
  /\ Reset("goto")
  /\ goal' = "SHIFT_DR" /\ lead' = 0 /\ ret' = "chain"
  /\ numDevices' = 0
  /\ want' = NoWant /\ erase' = "none"
  /\ UNCHANGED <<hardware, cable, current_state, postDRState, postIRState,
                 deviceIndex, devices, shiftDRincomplete, op, clocked>>

ChainWord(stale) ==
  /\ pc = "chain" /\ numDevices < Len(chain)
  /\ shiftTDITDO("load", 32, FALSE)
  /\ numDevices' = numDevices + 1
  /\ devices' = <<[pos |-> Len(chain) - numDevices, irlen |-> stale,
                   set |-> FALSE]>> \o devices
  /\ IF numDevices + 1 < MaxNumDevices THEN UNCHANGED <<pc, walk>>
     ELSE Walk("TEST_LOGIC_RESET", 0, "idle")
  /\ UNCHANGED <<hardware, current_state, postDRState, postIRState, deviceIndex,
                 shiftDRincomplete, reset, op, want>>

ChainEnd ==
  /\ pc = "chain"
  /\ shiftTDITDO("load", 32, FALSE)
  /\ Walk("TEST_LOGIC_RESET", 0, "idle")
  /\ UNCHANGED <<hardware, current_state, params, shiftDRincomplete, reset, op,
                 want>>

------------------------------------------------------------------------------
(***************************************************************************)
(* The other methods.                                                      *)
(***************************************************************************)
SelectDevice_wrong(dev) ==
  /\ pc = "idle" /\ ~ScanOpen
  /\ deviceIndex' = dev
  /\ want' = NoWant /\ erase' = "none"
  /\ UNCHANGED <<hardware, cable, current_state, postDRState, postIRState,
                 numDevices, devices, shiftDRincomplete, pc, walk, reset, op,
                 clocked>>

SelectDevice(dev) ==
  /\ pc = "idle" /\ ~ScanOpen
  /\ deviceIndex' = IF dev >= numDevices THEN -1 ELSE dev
  /\ want' = NoWant /\ erase' = "none"
  /\ UNCHANGED <<hardware, cable, current_state, postDRState, postIRState,
                 numDevices, devices, shiftDRincomplete, pc, walk, reset, op,
                 clocked>>

(* The callers pass the length the device database has for the IDCODE.     *)
SetDeviceIRLength(dev) ==
  /\ pc = "idle" /\ dev >= 0 /\ dev < numDevices
  /\ devices' = [devices EXCEPT ![dev + 1] =
                   [pos |-> @.pos, irlen |-> chain[@.pos], set |-> TRUE]]
  /\ UNCHANGED <<hardware, cable, current_state, postDRState, postIRState,
                 numDevices, deviceIndex, shiftDRincomplete, pc, walk, reset,
                 op, history>>

SetPostStates(dr, ir) ==
  /\ pc = "idle"
  /\ postDRState' = dr /\ postIRState' = ir
  /\ UNCHANGED <<hardware, cable, current_state, numDevices, deviceIndex, devices,
                 shiftDRincomplete, pc, walk, reset, op, history>>

SetTapState(g) ==
  /\ pc = "idle" /\ ~ScanOpen /\ RoomInScan
  /\ Walk(g, 0, "idle")
  /\ want' = NoWant /\ erase' = "none"
  /\ UNCHANGED <<hardware, cable, current_state, params, shiftDRincomplete,
                 reset, op, clocked>>

TapTestLogicReset ==
  /\ pc = "idle" /\ ~ScanOpen
  /\ Reset("idle")
  /\ want' = NoWant /\ erase' = "none"
  /\ UNCHANGED <<hardware, cable, current_state, params, shiftDRincomplete,
                 walk, op, clocked>>

(* Every caller is between a shift and the next one, in Run-Test/Idle.     *)
CycleTCK(n) ==
  /\ pc = "idle" /\ ~ScanOpen
  /\ \/ current_state = "RUN_TEST_IDLE"
     \/ current_state = "TEST_LOGIC_RESET" /\ "reset" \in Misuse
  /\ shift("tail", n, FALSE)
  /\ want' = NoWant
  /\ UNCHANGED <<hardware, current_state, params, shiftDRincomplete, pc, walk,
                 reset, op>>

(* test_IRChain shifts through IOBase itself, then calls nextTapState; it  *)
(* does so for a chain with devices, and its data scan is never empty.     *)
RawShift(length) ==
  /\ pc = "idle" /\ numDevices > 0 /\ ~ScanOpen
  /\ current_state = "SHIFT_IR" \/ (current_state = "SHIFT_DR" /\ length > 0)
  /\ RoomInScan
  /\ shiftTDITDO("load", length, TRUE)
  /\ nextTapState(TRUE, "idle")
  /\ want' = NoWant
  /\ UNCHANGED <<hardware, params, shiftDRincomplete, walk, op>>

Usleep_wrong ==
  /\ pc = "idle" /\ pc' = "sleep"
  /\ UNCHANGED <<hardware, cable, current_state, params, shiftDRincomplete,
                 walk, reset, op, history>>

(* IOBase::Usleep: everything goes to the cable, which is waited for, and  *)
(* only then does the program sleep.                                       *)
Usleep ==
  /\ pc = "idle" /\ flush_tms /\ pc' = "sleep"
  /\ UNCHANGED <<hardware, current_state, params, shiftDRincomplete, walk,
                 reset, op, history>>

Wake ==
  /\ pc = "sleep" /\ sent = 0 /\ pc' = "idle"
  /\ UNCHANGED <<hardware, cable, current_state, params, shiftDRincomplete,
                 walk, reset, op, history>>

------------------------------------------------------------------------------
CallLengths == Lengths \cup (IF "zero" \in Misuse THEN {0} ELSE {})

Call ==
  \/ \E detect \in BOOLEAN : GetChain(detect)
  \/ \E dev \in -1..MaxNumDevices : SelectDevice(dev)
  \/ \E dev \in 0..(MaxNumDevices - 1) : SetDeviceIRLength(dev)
  \/ \E dr \in PostDRStates, ir \in PostIRStates : SetPostStates(dr, ir)
  \/ \E g \in Goals : SetTapState(g)
  \/ \E length \in CallLengths, align \in Aligns, exit \in BOOLEAN :
       ShiftDR(length, align, exit)
  \/ ShiftIR
  \/ \E n \in Lengths : CycleTCK(n)
  \/ \E length \in CallLengths : RawShift(length)
  \/ TapTestLogicReset
  \/ Usleep

Run ==
  \/ WalkHop \/ WalkUnknown \/ WalkUnknownBit \/ WalkLead \/ WalkArrive
  \/ ResetBit \/ ResetDone
  \/ DrData \/ DrTail \/ DrDone
  \/ IrPre \/ IrData \/ IrPost \/ IrDone
  \/ \E stale \in StaleIrLengths : ChainWord(stale)
  \/ ChainEnd
  \/ Wake

Next == Call \/ Run \/ CableClock

Init ==
  /\ chain \in Chains
  /\ tap \in TapStates
  /\ queue = <<>> /\ sent = 0
  /\ current_state = UNKNOWN
  /\ postDRState = "RUN_TEST_IDLE" /\ postIRState = "RUN_TEST_IDLE"
  /\ numDevices = -1 /\ deviceIndex = -1 /\ devices = <<>>
  /\ shiftDRincomplete = FALSE
  /\ pc = "idle"
  /\ goal = "TEST_LOGIC_RESET" /\ lead = 0 /\ ret = "idle"
  /\ cnt = 0 /\ back = "idle"
  /\ op = [length |-> 0, exit |-> TRUE]
  /\ clocked = NoClock /\ want = NoWant /\ erase = "none"

(* The host is one thread that keeps running, the cable keeps clocking.    *)
Spec == Init /\ [][Next]_vars /\ WF_vars(Run) /\ WF_vars(CableClock)

------------------------------------------------------------------------------
(***************************************************************************)
(* Properties.                                                             *)
(***************************************************************************)
Device  == [pos : 1..Len(chain), irlen : 0..MaxIrLength, set : BOOLEAN]
BlockOf == [n : Int, last : BOOLEAN, lands : TapStates]

(* Type correctness of the hardware, the cable and the Jtag object.        *)
TypeOK ==
  /\ chain \in Seq(1..MaxIrLength) /\ tap \in TapStates
  /\ queue \in Seq(BlockOf) /\ sent \in 0..Len(queue)
  /\ current_state \in TapStates \cup {UNKNOWN}
  /\ postDRState \in TapStates /\ postIRState \in TapStates
  /\ devices \in Seq(Device)
  /\ numDevices \in -1..Len(devices) /\ deviceIndex \in -1..(numDevices - 1) \cup {-1}
  /\ shiftDRincomplete \in BOOLEAN
  /\ pc \in Stages /\ ret \in Stages /\ back \in Stages
  /\ goal \in TapStates /\ lead \in Int /\ cnt \in 0..5
  /\ op \in [length : Nat, exit : BOOLEAN]
  /\ clocked \in [Parts -> Int]
  /\ want \in [kind : {"none", "dr", "ir"}, asked : Nat, align : Nat]
  /\ erase \in {"none", "direct", "idled"}

(* The shadow of the TAP agrees with the hardware: once everything issued  *)
(* has been clocked, the TAP is in current_state.  Exempt are the five     *)
(* bits of tapTestLogicReset, whose start state need not be known, and the *)
(* end of shiftIR before it calls nextTapState.                            *)
InStep ==
  current_state # UNKNOWN /\ pc \notin {"reset", "irPost"} => Ahead = current_state

(* The TMS bits not yet given to the cable fit tms_buf.                    *)
TmsBufFits == Len(queue) - sent <= TmsBufBits

(* Between chunks of a scan the TAP waits in SHIFT_DR: shiftDRincomplete,  *)
(* which makes the next shiftDR skip setTapState, is never a leftover.     *)
ScanStaysOpen == shiftDRincomplete /\ pc \in {"idle", "drData"} =>
                   current_state = "SHIFT_DR"

(* nextTapState is only reached in a shift state, as its comment asks.     *)
NoUnexpectedState ==
  pc \in {"drData", "irPost"} \/ (pc = "drTail" /\ deviceIndex > 0)
    => current_state \in ShiftStates

Enumerated == numDevices = Len(chain)
Target     == devices[deviceIndex + 1].pos
IrCells(devs) == Cardinality({c \in devs \X (1..MaxIrLength) : c[2] <= chain[c[1]]})

(* A finished data scan, however many calls it took, put the caller's bits *)
(* into the selected device and one bit into the BYPASS register of every  *)
(* other one; with align, the leading bits make up a multiple of it.       *)
DrHitsTarget ==
  pc = "drDone" /\ want.kind = "dr" /\ Enumerated =>
    /\ clocked["load"] = want.asked
    /\ clocked["tail"] = Target - 1
    /\ IF want.align = 0 THEN clocked["lead"] = Len(chain) - Target
       ELSE (clocked["lead"] + clocked["tail"]) % want.align = 0

(* A finished instruction scan put the instruction into the instruction    *)
(* register of the selected device and ones into all the others.           *)
IrHitsTarget ==
  pc = "irDone" /\ want.kind = "ir" /\ Enumerated /\ IrLengthsSet =>
    /\ clocked["lead"] = IrCells((Target + 1)..Len(chain))
    /\ clocked["load"] = chain[Target]
    /\ clocked["tail"] = IrCells(1..(Target - 1))

(* With the post state ProgAlgXCFP::erase sets, no Run-Test/Idle comes     *)
(* between an instruction and its data.                                    *)
NoIdleBeforeData == erase # "idled"

(* When the cable is done and the program sleeps, the hardware rests in    *)
(* the state the program means to wait in.                                 *)
SleepsInStep ==
  pc = "sleep" /\ sent = 0 /\ current_state # UNKNOWN => tap = current_state

(* Every method returns.                                                   *)
MethodsReturn == pc # "idle" ~> pc = "idle"
==============================================================================
