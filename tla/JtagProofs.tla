------------------------------ MODULE JtagProofs -----------------------------
(***************************************************************************)
(* Proofs about Jtag for every chain, buffer size and set of arguments.    *)
(*                                                                         *)
(* The state splits into the cable (tap, queue, sent) and the host.  What  *)
(* IOBase does to the cable is stated once, in the lemmas on set_tms,      *)
(* shift, flush_tms and CableClock: each keeps CableOK and says where the  *)
(* TAP will be (Ahead).  The proof that the shadow is in step then only    *)
(* follows the host through its stages.                                    *)
(***************************************************************************)
EXTENDS Jtag, FiniteSetTheorems, FunctionTheorems, TLAPS

(***************************************************************************)
(* The TAP.                                                                *)
(***************************************************************************)

(* Every clock edge leads from a TAP state to a TAP state.                 *)
LEMMA EdgeType ==
  ASSUME NEW s \in TapStates
  PROVE  OnLow[s] \in TapStates /\ OnHigh[s] \in TapStates
BY DEF TapStates, OnLow, OnHigh

(* Two low edges reach a state that low edges no longer leave: what lets   *)
(* Lows stand for any number of them.                                      *)
LEMMA LowIsStable ==
  ASSUME NEW s \in TapStates
  PROVE  OnLow[OnLow[OnLow[s]]] = OnLow[OnLow[s]]
BY DEF TapStates, OnLow

LEMMA LowsType ==
  ASSUME NEW s \in TapStates, NEW n
  PROVE  Lows(s, n) \in TapStates
<1>1. OnLow[s] \in TapStates  BY EdgeType
<1>2. OnLow[OnLow[s]] \in TapStates  BY <1>1, EdgeType
<1>3. QED  BY <1>1, <1>2 DEF Lows

LEMMA BlockType ==
  ASSUME NEW s \in TapStates, NEW n, NEW last
  PROVE  Block(s, n, last) \in TapStates
<1>1. Lows(s, n) \in TapStates /\ Lows(s, n - 1) \in TapStates  BY LowsType
<1>2. OnHigh[Lows(s, n - 1)] \in TapStates  BY <1>1, EdgeType
<1>3. QED  BY <1>1, <1>2 DEF Block

(* A block of edges in a shift state stays there, or leaves it for EXIT1   *)
(* when its last edge is high.                                             *)
LEMMA ShiftBlock ==
  ASSUME NEW n
  PROVE  /\ Block("SHIFT_DR", n, FALSE) = "SHIFT_DR"
         /\ Block("SHIFT_IR", n, FALSE) = "SHIFT_IR"
         /\ n # 0 => /\ Block("SHIFT_DR", n, TRUE) = "EXIT1_DR"
                     /\ Block("SHIFT_IR", n, TRUE) = "EXIT1_IR"
<1>1. \A k : Lows("SHIFT_DR", k) = "SHIFT_DR" /\ Lows("SHIFT_IR", k) = "SHIFT_IR"
  BY DEF Lows, OnLow
<1>2. OnHigh.SHIFT_DR = "EXIT1_DR" /\ OnHigh.SHIFT_IR = "EXIT1_IR"
  BY DEF OnHigh
<1>3. QED  BY <1>1, <1>2 DEF Block

LEMMA IdleBlock ==
  ASSUME NEW n
  PROVE  Block("RUN_TEST_IDLE", n, FALSE) = "RUN_TEST_IDLE"
BY DEF Block, Lows, OnLow

LEMMA OneEdge ==
  ASSUME NEW s, NEW tms \in BOOLEAN
  PROVE  Block(s, 1, tms) = Edge(s, tms)
BY DEF Block, Lows, Edge

(* setTapState's table is the hardware's: in every state but the goal, the *)
(* bit it sends takes the hardware to the state it assigns.                *)
LEMMA HopIsEdge ==
  ASSUME NEW s \in TapStates, NEW g \in TapStates, s # g
  PROVE  /\ Hop(s, g).tms \in BOOLEAN
         /\ Hop(s, g).to = Edge(s, Hop(s, g).tms)
BY DEF TapStates, Hop, Arms, Arm, Edge, OnLow, OnHigh

(* Where the hardware can be after k high edges, from any state.           *)
Highs(k) ==
  IF k = 0 THEN TapStates
  ELSE IF k = 1 THEN {"TEST_LOGIC_RESET", "SELECT_DR_SCAN", "SELECT_IR_SCAN",
                      "EXIT1_DR", "EXIT2_DR", "UPDATE_DR",
                      "EXIT1_IR", "EXIT2_IR", "UPDATE_IR"}
  ELSE IF k = 2 THEN {"TEST_LOGIC_RESET", "SELECT_DR_SCAN", "SELECT_IR_SCAN",
                      "UPDATE_DR", "UPDATE_IR"}
  ELSE IF k = 3 THEN {"TEST_LOGIC_RESET", "SELECT_DR_SCAN", "SELECT_IR_SCAN"}
  ELSE IF k = 4 THEN {"TEST_LOGIC_RESET", "SELECT_IR_SCAN"}
  ELSE {"TEST_LOGIC_RESET"}

LEMMA HighsStep ==
  ASSUME NEW k \in 0..4, NEW s \in Highs(k)
  PROVE  Edge(s, TRUE) \in Highs(k + 1)
<1>1. k = 0 \/ k = 1 \/ k = 2 \/ k = 3 \/ k = 4  OBVIOUS
<1>2. QED  BY <1>1 DEF Highs, Edge, OnHigh, TapStates

------------------------------------------------------------------------------
(***************************************************************************)
(* The cable.                                                              *)
(***************************************************************************)

(* Each block in the queue starts where the one before it ends.            *)
Follows ==
  \A i \in 1..Len(queue) :
    queue[i].lands = Block(IF i = 1 THEN tap ELSE queue[i - 1].lands,
                           queue[i].n, queue[i].last)

CableOK ==
  /\ tap \in TapStates
  /\ queue \in Seq(BlockOf)
  /\ sent \in 0..Len(queue)
  /\ Follows
  /\ TmsBufFits

LEMMA AheadType ==
  ASSUME CableOK
  PROVE  Ahead \in TapStates
<1>1. CASE queue = <<>>  BY <1>1 DEF CableOK, Ahead
<1>2. CASE queue # <<>>
  <2>1. Len(queue) \in 1..Len(queue)  BY <1>2 DEF CableOK
  <2>2. queue[Len(queue)] \in BlockOf  BY <2>1 DEF CableOK
  <2>3. QED  BY <1>2, <2>2 DEF Ahead, BlockOf
<1>3. QED  BY <1>1, <1>2

(* Issuing a block appends it to the queue and moves Ahead past it.        *)
LEMMA IssueStep ==
  ASSUME CableOK, tap' = tap, NEW part, NEW n \in Int, NEW last \in BOOLEAN,
         Issue(part, n, last)
  PROVE  /\ queue' \in Seq(BlockOf)
         /\ Len(queue') = Len(queue) + 1
         /\ Follows'
         /\ Ahead' = Block(Ahead, n, last)
<1> DEFINE lands == Block(Ahead, n, last)
           block == [n |-> n, last |-> last, lands |-> lands]
<1>1. lands \in TapStates  BY AheadType, BlockType
<1>2. queue' = Append(queue, block)  BY DEF Issue
<1> HIDE DEF lands
<1>3. block \in BlockOf  BY <1>1 DEF BlockOf
<1>4. /\ queue' \in Seq(BlockOf)
      /\ Len(queue') = Len(queue) + 1
  BY <1>2, <1>3 DEF CableOK
<1>5. /\ queue'[Len(queue) + 1] = block
      /\ \A i \in 1..Len(queue) : queue'[i] = queue[i]
  BY <1>2, <1>3 DEF CableOK
<1>6. Ahead' = lands
  BY <1>2, <1>3, <1>4, <1>5 DEF CableOK, Ahead
<1>7. Follows'
  <2> SUFFICES ASSUME NEW i \in 1..Len(queue')
               PROVE  queue'[i].lands =
                        Block(IF i = 1 THEN tap ELSE queue'[i - 1].lands,
                              queue'[i].n, queue'[i].last)
    BY DEF Follows
  <2>1. CASE i \in 1..Len(queue)
    <3>1. queue'[i] = queue[i] /\ (i # 1 => queue'[i - 1] = queue[i - 1])
      BY <2>1, <1>5 DEF CableOK
    <3>2. QED  BY <2>1, <3>1 DEF CableOK, Follows
  <2>2. CASE i = Len(queue) + 1
    <3>1. Ahead = IF i = 1 THEN tap ELSE queue'[i - 1].lands
      BY <2>2, <1>5 DEF CableOK, Ahead
    <3>2. QED  BY <2>2, <3>1, <1>5 DEF lands
  <2>3. QED  BY <2>1, <2>2, <1>4 DEF CableOK
<1>8. QED  BY <1>4, <1>6, <1>7 DEF lands

(* A step that issues nothing and clocks nothing.                          *)
LEMMA CableStays ==
  ASSUME CableOK, UNCHANGED <<tap, queue>>, sent' \in {sent, Len(queue)}
  PROVE  CableOK' /\ Ahead' = Ahead
<1>1. Len(queue) \in Nat  BY DEF CableOK
<1>2. TmsBufBits \in Nat  BY QueueAssumption
<1>3. QED  BY <1>1, <1>2 DEF CableOK, Follows, TmsBufFits, Ahead

LEMMA SetTmsStep ==
  ASSUME CableOK, tap' = tap, NEW part, NEW val \in BOOLEAN, set_tms(part, val)
  PROVE  CableOK' /\ Ahead' = Edge(Ahead, val)
<1>1. Issue(part, 1, val)  BY DEF set_tms
<1>2. /\ queue' \in Seq(BlockOf)
      /\ Len(queue') = Len(queue) + 1
      /\ Follows'
      /\ Ahead' = Block(Ahead, 1, val)
  BY <1>1, IssueStep
<1>3. sent' \in 0..Len(queue') /\ TmsBufFits'
  BY <1>2, QueueAssumption DEF set_tms, CableOK, TmsBufFits
<1>4. QED  BY <1>2, <1>3, OneEdge DEF CableOK

(* Both shift methods clock a block, and a length of 0 clocks nothing.     *)
LEMMA ShiftStep ==
  ASSUME CableOK, tap' = tap, NEW part, NEW n \in Int, NEW last \in BOOLEAN,
         shiftTDITDO(part, n, last) \/ shift(part, n, last)
  PROVE  CableOK' /\ Ahead' = Block(Ahead, n, last)
<1>1. CASE n = 0
  <2>1. queue' = queue /\ sent' \in {sent, Len(queue)}
    BY <1>1 DEF shiftTDITDO, shift, cable, flush_tms
  <2>2. CableOK' /\ Ahead' = Ahead  BY <2>1, CableStays
  <2>3. QED  BY <1>1, <2>2 DEF Block
<1>2. CASE n # 0
  <2>1. Issue(part, n, last) /\ sent' = Len(queue) + 1
    BY <1>2 DEF shiftTDITDO, shift
  <2>2. /\ queue' \in Seq(BlockOf)
        /\ Len(queue') = Len(queue) + 1
        /\ Follows'
        /\ Ahead' = Block(Ahead, n, last)
    BY <2>1, IssueStep
  <2>3. sent' \in 0..Len(queue') /\ TmsBufFits'
    BY <2>1, <2>2, QueueAssumption DEF CableOK, TmsBufFits
  <2>4. QED  BY <2>2, <2>3 DEF CableOK
<1>3. QED  BY <1>1, <1>2

(* Clocking a block into the hardware does not change where it will be.    *)
LEMMA CableClockStep ==
  ASSUME CableOK, CableClock
  PROVE  CableOK' /\ Ahead' = Ahead
<1>1. sent > 0 /\ queue' = Tail(queue) /\ sent' = sent - 1
  BY DEF CableClock
<1>2. Len(queue) >= 1 /\ Len(queue) \in Nat /\ queue # <<>>
  BY <1>1 DEF CableOK
<1>3. /\ queue' \in Seq(BlockOf)
      /\ Len(queue') = Len(queue) - 1
      /\ \A i \in 1..Len(queue') : queue'[i] = queue[i + 1]
  BY <1>1, <1>2 DEF CableOK
<1>4. tap' = queue[1].lands
  BY <1>2 DEF CableClock, CableOK, Follows
<1>5. tap' \in TapStates
  <2>1. queue[1] \in BlockOf  BY <1>2 DEF CableOK
  <2>2. QED  BY <2>1, <1>4 DEF BlockOf
<1>6. Ahead' = Ahead
  <2>1. CASE Len(queue) = 1
    BY <2>1, <1>2, <1>3, <1>4 DEF Ahead
  <2>2. CASE Len(queue) # 1
    <3>1. queue'[Len(queue')] = queue[Len(queue)] /\ queue' # <<>>
      BY <2>2, <1>2, <1>3
    <3>2. QED  BY <3>1, <1>2 DEF Ahead
  <2>3. QED  BY <2>1, <2>2
<1>7. Follows'
  <2> SUFFICES ASSUME NEW i \in 1..Len(queue')
               PROVE  queue'[i].lands =
                        Block(IF i = 1 THEN tap' ELSE queue'[i - 1].lands,
                              queue'[i].n, queue'[i].last)
    BY DEF Follows
  <2>1. /\ queue'[i] = queue[i + 1]
        /\ i + 1 \in 1..Len(queue) /\ i + 1 # 1 /\ i + 1 - 1 = i
    BY <1>2, <1>3
  <2>2. queue[i + 1].lands =
          Block(queue[i].lands, queue[i + 1].n, queue[i + 1].last)
    BY <2>1 DEF CableOK, Follows
  <2>3. (IF i = 1 THEN tap' ELSE queue'[i - 1].lands) = queue[i].lands
    BY <1>2, <1>3, <1>4
  <2>4. QED  BY <2>1, <2>2, <2>3
<1>8. sent' \in 0..Len(queue') /\ TmsBufFits'
  BY <1>1, <1>2, <1>3, QueueAssumption DEF CableOK, TmsBufFits
<1>9. QED  BY <1>3, <1>5, <1>6, <1>7, <1>8 DEF CableOK

------------------------------------------------------------------------------
(***************************************************************************)
(* Types.                                                                  *)
(***************************************************************************)

(* The device list, which setDeviceIRLength and getChain maintain.         *)
ParamsType ==
  /\ chain \in Seq(1..MaxIrLength)
  /\ devices \in Seq(Device)
  /\ numDevices \in -1..Len(devices)
  /\ deviceIndex \in -1..(numDevices - 1) \cup {-1}
  /\ ret \in Stages /\ pc \in Stages /\ back \in Stages \ {"chain"}
  /\ ret = "chain" \/ pc = "chain" => numDevices >= 0

(* Where the host is in its walk over the TAP.                             *)
WalkType ==
  /\ current_state \in TapStates \cup {UNKNOWN}
  /\ postDRState \in TapStates /\ postIRState \in TapStates
  /\ goal \in TapStates /\ lead \in Int /\ cnt \in 0..5

(* The shift under way and what its caller asked for.                      *)
OpType ==
  /\ shiftDRincomplete \in BOOLEAN
  /\ op \in [length : Nat, exit : BOOLEAN]
  /\ want \in [kind : {"none", "dr", "ir"}, asked : Nat, align : Nat]

HistoryType ==
  /\ clocked \in [Parts -> Int]
  /\ erase \in {"none", "direct", "idled"}

TypeInv == CableOK /\ ParamsType /\ WalkType /\ OpType /\ HistoryType

(***************************************************************************)
(* The shadow of the TAP, stage by stage: where the hardware will be while *)
(* the shadow does not say, and what makes the next stage put them in step *)
(* again.                                                                  *)
(***************************************************************************)
StagesInOrder ==
  /\ ret \in {"idle", "drData", "irPre", "chain"}
  /\ back \in {"unknown", "goto", "idle", "drTail", "drDone", "irDone"}
  /\ ret \in {"drData", "chain"} => goal = "SHIFT_DR"
  /\ ret = "irPre" => goal = "SHIFT_IR"
  /\ lead > 0 => goal = "SHIFT_DR"
  /\ pc = "unknown" => current_state = "TEST_LOGIC_RESET"
  /\ pc = "chain" => current_state = "SHIFT_DR"
  /\ pc \in {"irPre", "irData", "irPost"} => current_state = "SHIFT_IR"

Resetting == pc = "reset" => Ahead \in Highs(5 - cnt)

LeavingIR ==
  pc = "irPost" => Ahead = IF PostIR = 0 THEN "EXIT1_IR" ELSE "SHIFT_IR"

NothingBuffered == pc = "sleep" => sent = Len(queue)

(* Without the misuses no shift is empty.                                  *)
NoEmptyShift ==
  /\ \A k \in 1..Len(devices) : devices[k].set => devices[k].irlen > 0
  /\ ret \in {"drData", "irPre"} => op.length > 0
  /\ pc \in {"drData", "irPre", "irData"} => op.length > 0

StepInv ==
  InStep /\ StagesInOrder /\ Resetting /\ LeavingIR /\ NothingBuffered
         /\ NoEmptyShift

(* A scan left open is only ever continued or finished.                    *)
ScanInv ==
  /\ shiftDRincomplete => pc \in {"idle", "sleep", "drData", "drTail", "drDone"}
  /\ shiftDRincomplete /\ pc \in {"idle", "sleep"} => current_state = "SHIFT_DR"
  /\ pc = "drData" => current_state = "SHIFT_DR"
  /\ pc = "drTail" /\ deviceIndex # 0 => current_state = "SHIFT_DR"
  /\ back \in {"unknown", "goto", "idle"}


------------------------------------------------------------------------------
(***************************************************************************)
(* The types are kept.                                                     *)
(***************************************************************************)
LEMMA HistoryIssue ==
  ASSUME HistoryType, NEW part \in Parts, NEW n \in Int, NEW last,
         Issue(part, n, last)
  PROVE  HistoryType'
<1>1. Clocked(part, n, Block(Ahead, n, last)) \in [Parts -> Int]
  BY DEF HistoryType, Clocked, NoClock
<1>2. QED  BY <1>1 DEF HistoryType, Issue

LEMMA HistorySetTms ==
  ASSUME HistoryType, NEW part \in Parts, NEW val, set_tms(part, val)
  PROVE  HistoryType'
BY HistoryIssue DEF set_tms

LEMMA HistoryShift ==
  ASSUME HistoryType, NEW part \in Parts, NEW n \in Int, NEW last,
         shiftTDITDO(part, n, last) \/ shift(part, n, last)
  PROVE  HistoryType'
<1>1. CASE Issue(part, n, last)  BY <1>1, HistoryIssue
<1>2. CASE UNCHANGED <<clocked, erase>>  BY <1>2 DEF HistoryType
<1>3. QED  BY <1>1, <1>2 DEF shiftTDITDO, shift

(* The bits shiftIR sends to the other devices are a number.               *)
LEMMA IrBitsType ==
  ASSUME NEW a \in Int, NEW b \in Int
  PROVE  IrBits(a..b) \in Nat
<1> DEFINE cells == (a..b) \X (1..MaxIrLength)
           ones  == {cell \in cells : cell[2] <= devices[cell[1] + 1].irlen}
<1>1. IsFiniteSet(a..b) /\ IsFiniteSet(1..MaxIrLength)
  BY FS_Interval, LengthAssumption
<1>2. IsFiniteSet(cells)  BY <1>1, FS_Product
<1>3. ones \in SUBSET cells  OBVIOUS
<1>4. IsFiniteSet(ones)  BY <1>2, <1>3, FS_Subset
<1>5. Cardinality(ones) \in Nat  BY <1>4, FS_CardinalityType
<1>6. QED  BY <1>5 DEF IrBits

LEMMA PreAndPostType ==
  ASSUME ParamsType
  PROVE  /\ PreIR \in Nat /\ PostIR \in Nat
         /\ \A align \in Nat : PreDR(align) \in Int
<1>1. numDevices \in Int /\ deviceIndex \in Int  BY DEF ParamsType
<1>2. PreIR \in Nat /\ PostIR \in Nat  BY <1>1, IrBitsType DEF PreIR, PostIR
<1>3. ASSUME NEW align \in Nat \ {0}
      PROVE  align - (deviceIndex % align) \in Int
  BY <1>1, <1>3
<1>4. QED  BY <1>1, <1>2, <1>3 DEF PreDR

LEMMA TypeInit == Init => TypeInv
<1> SUFFICES ASSUME Init PROVE TypeInv
  OBVIOUS
<1>1. CableOK
  BY QueueAssumption DEF Init, CableOK, Follows, TmsBufFits
<1>2. ParamsType
  BY LengthAssumption DEF Init, ParamsType, Stages
<1>3. WalkType
  BY DEF Init, WalkType, TapStates
<1>4. OpType
  BY DEF Init, OpType, NoWant
<1>5. HistoryType
  BY DEF Init, HistoryType, NoClock
<1>6. QED  BY <1>1, <1>2, <1>3, <1>4, <1>5 DEF TypeInv

(* The stages that only move the TAP.                                      *)
LEMMA TypeWalk ==
  ASSUME TypeInv,
         \/ WalkHop \/ WalkUnknown \/ WalkUnknownBit \/ WalkLead \/ WalkArrive
         \/ ResetBit \/ ResetDone
  PROVE  TypeInv'
<1> USE DEF TypeInv
<1>1. OpType'
  BY DEF WalkHop, WalkUnknown, WalkUnknownBit, WalkLead, WalkArrive, ResetBit,
         ResetDone, history, OpType
<1>2. UNCHANGED <<chain, tap, devices, numDevices, deviceIndex>>
  BY DEF WalkHop, WalkUnknown, WalkUnknownBit, WalkLead, WalkArrive, ResetBit,
         ResetDone, hardware, params
<1>3. CASE WalkHop
  <2> DEFINE hop == Hop(current_state, goal)
  <2>1. current_state \in TapStates /\ goal \in TapStates /\ current_state # goal
    BY <1>3 DEF WalkHop, WalkType
  <2>2. hop.tms \in BOOLEAN /\ hop.to \in TapStates
    BY <2>1, HopIsEdge, EdgeType DEF Edge
  <2>3. set_tms("tail", hop.tms) /\ current_state' = hop.to
    BY <1>3 DEF WalkHop
  <2>4. CableOK' /\ HistoryType'
    BY <1>2, <2>2, <2>3, SetTmsStep, HistorySetTms DEF Parts
  <2>5. ParamsType'
    BY <1>2, <1>3 DEF WalkHop, walk, reset, ParamsType, Device
  <2>6. WalkType'
    BY <1>3, <2>2, <2>3 DEF WalkHop, params, walk, reset, WalkType
  <2>7. QED  BY <1>1, <2>4, <2>5, <2>6
<1>4. CASE WalkUnknown
  <2>1. CableOK' /\ HistoryType'
    BY <1>4, CableStays DEF WalkUnknown, hardware, cable, history, HistoryType
  <2>2. ParamsType'
    BY <1>2, <1>4 DEF WalkUnknown, Reset, walk, ParamsType, Stages, Device
  <2>3. WalkType'
    BY <1>4 DEF WalkUnknown, Reset, params, walk, WalkType
  <2>4. QED  BY <1>1, <2>1, <2>2, <2>3
<1>5. CASE WalkUnknownBit
  <2>. set_tms("tail", TRUE)  BY <1>5 DEF WalkUnknownBit
  <2>1. CableOK' /\ HistoryType'
    BY <1>2, SetTmsStep, HistorySetTms DEF Parts
  <2>2. ParamsType'
    BY <1>2, <1>5 DEF WalkUnknownBit, walk, reset, ParamsType, Stages, Device
  <2>3. WalkType'
    BY <1>5 DEF WalkUnknownBit, params, walk, reset, WalkType
  <2>4. QED  BY <1>1, <2>1, <2>2, <2>3
<1>6. CASE WalkLead
  <2>. set_tms("lead", FALSE)  BY <1>6 DEF WalkLead
  <2>1. CableOK' /\ HistoryType'
    BY <1>2, SetTmsStep, HistorySetTms DEF Parts
  <2>2. ParamsType'
    BY <1>2, <1>6 DEF WalkLead, reset, ParamsType, Device
  <2>3. WalkType'
    BY <1>6 DEF WalkLead, params, reset, WalkType
  <2>4. QED  BY <1>1, <2>1, <2>2, <2>3
<1>7. CASE WalkArrive
  <2>1. CableOK' /\ HistoryType'
    BY <1>7, CableStays DEF WalkArrive, hardware, cable, history, HistoryType
  <2>2. ParamsType'
    BY <1>2, <1>7 DEF WalkArrive, walk, reset, ParamsType, Device
  <2>3. WalkType'
    BY <1>7 DEF WalkArrive, params, walk, reset, WalkType
  <2>4. QED  BY <1>1, <2>1, <2>2, <2>3
<1>8. CASE ResetBit
  <2>. set_tms("tail", TRUE)  BY <1>8 DEF ResetBit
  <2>1. CableOK' /\ HistoryType'
    BY <1>2, SetTmsStep, HistorySetTms DEF Parts
  <2>2. ParamsType'
    BY <1>2, <1>8 DEF ResetBit, walk, ParamsType, Device
  <2>3. WalkType'
    BY <1>8 DEF ResetBit, params, walk, WalkType
  <2>4. QED  BY <1>1, <2>1, <2>2, <2>3
<1>9. CASE ResetDone
  <2>1. CableOK' /\ HistoryType'
    BY <1>2, <1>9, CableStays DEF ResetDone, flush_tms, history, HistoryType
  <2>2. ParamsType'
    BY <1>2, <1>9 DEF ResetDone, walk, reset, ParamsType, Device
  <2>3. "TEST_LOGIC_RESET" \in TapStates  BY DEF TapStates
  <2>4. WalkType'
    BY <1>9, <2>3 DEF ResetDone, params, walk, reset, WalkType
  <2>5. QED  BY <1>1, <2>1, <2>2, <2>4
<1>10. QED  BY <1>3, <1>4, <1>5, <1>6, <1>7, <1>8, <1>9

LEMMA NextTapStateType ==
  ASSUME WalkType, ParamsType, NEW tms, NEW next \in Stages \ {"chain"},
         nextTapState(tms, next)
  PROVE  /\ pc' \in Stages \ {"chain"} /\ back' \in Stages \ {"chain"}
         /\ current_state' \in TapStates \cup {UNKNOWN}
         /\ cnt' \in 0..5
<1>1. {"EXIT1_DR", "EXIT1_IR"} \subseteq TapStates  BY DEF TapStates
<1>2. "reset" \in Stages \ {"chain"}  BY DEF Stages
<1>3. CASE current_state \in ShiftStates
  BY <1>1, <1>3 DEF nextTapState, WalkType, ParamsType, reset
<1>4. CASE current_state \notin ShiftStates
  BY <1>2, <1>4 DEF nextTapState, Reset, WalkType
<1>5. QED  BY <1>3, <1>4

(* The stages of shiftDR and shiftIR.                                      *)
LEMMA TypeShift ==
  ASSUME TypeInv,
         \/ DrData \/ DrTail \/ DrDone
         \/ IrPre \/ IrData \/ IrPost \/ IrDone
  PROVE  TypeInv'
<1> USE DEF TypeInv
<1>1. UNCHANGED <<chain, tap, devices, numDevices, deviceIndex, postDRState,
                  postIRState, op, want>>
  BY DEF DrData, DrTail, DrDone, IrPre, IrData, IrPost, IrDone, hardware, params
<1>2. op.length \in Int /\ PreIR \in Int /\ PostIR \in Int /\ deviceIndex \in Int
  BY PreAndPostType DEF OpType, ParamsType
<1>3. /\ {"idle", "goto", "drTail", "drDone", "irData", "irPost", "irDone"}
            \subseteq Stages \ {"chain"}
      /\ {"SHIFT_DR", "SHIFT_IR"} \subseteq TapStates
  BY DEF Stages, TapStates
<1>4. CASE DrData
  <2> DEFINE last == deviceIndex = 0 /\ op.exit
             next == IF op.exit THEN "drTail" ELSE "idle"
  <2>1. /\ shiftTDITDO("load", op.length, last)
        /\ nextTapState(last, next)
        /\ shiftDRincomplete' = (shiftDRincomplete \/ ~op.exit)
        /\ UNCHANGED walk
    BY <1>4 DEF DrData
  <2>2. op.exit \in BOOLEAN /\ last \in BOOLEAN /\ next \in Stages \ {"chain"}
    BY <1>3 DEF OpType
  <2> HIDE DEF last, next
  <2>3. CableOK' /\ HistoryType'
    BY <1>1, <1>2, <2>1, <2>2, ShiftStep, HistoryShift DEF Parts
  <2>4. /\ pc' \in Stages \ {"chain"} /\ back' \in Stages \ {"chain"}
        /\ current_state' \in TapStates \cup {UNKNOWN}
        /\ cnt' \in 0..5
    BY <2>1, <2>2, NextTapStateType
  <2>5. ParamsType'  BY <1>1, <2>1, <2>4 DEF ParamsType, Device, walk
  <2>6. WalkType'  BY <1>1, <2>1, <2>4 DEF WalkType, walk
  <2>7. OpType'  BY <1>1, <2>1, <2>2 DEF OpType
  <2>8. QED  BY <2>3, <2>5, <2>6, <2>7
<1>5. CASE DrTail
  <2>1. shift("tail", deviceIndex, TRUE) /\ UNCHANGED <<shiftDRincomplete, walk>>
    BY <1>5 DEF DrTail
  <2>2. CableOK' /\ HistoryType'
    BY <1>1, <1>2, <2>1, ShiftStep, HistoryShift DEF Parts
  <2>3. /\ pc' \in Stages \ {"chain"} /\ back' \in Stages \ {"chain"}
        /\ current_state' \in TapStates \cup {UNKNOWN}
        /\ cnt' \in 0..5
    <3>1. CASE deviceIndex = 0
      BY <1>3, <1>5, <3>1 DEF DrTail, reset, WalkType, ParamsType
    <3>2. CASE nextTapState(TRUE, "drDone")
      BY <1>3, <3>2, NextTapStateType
    <3>3. QED  BY <1>5, <3>1, <3>2 DEF DrTail
  <2>4. ParamsType'  BY <1>1, <2>1, <2>3 DEF ParamsType, Device, walk
  <2>5. WalkType'  BY <1>1, <2>1, <2>3 DEF WalkType, walk
  <2>6. OpType'  BY <1>1, <2>1 DEF OpType
  <2>7. QED  BY <2>2, <2>4, <2>5, <2>6
<1>6. CASE DrDone
  <2>1. CableOK'  BY <1>1, <1>6, CableStays DEF DrDone, cable
  <2>2. HistoryType'  BY <1>6 DEF DrDone, HistoryType
  <2>3. ParamsType'
    BY <1>1, <1>3, <1>6 DEF DrDone, Walk, reset, ParamsType, Device
  <2>4. WalkType'
    BY <1>1, <1>6 DEF DrDone, Walk, reset, WalkType
  <2>5. OpType'  BY <1>1, <1>6 DEF DrDone, OpType
  <2>6. QED  BY <2>1, <2>2, <2>3, <2>4, <2>5
<1>7. CASE IrPre \/ IrData
  <2>1. CableOK' /\ HistoryType'
    <3>1. CASE IrPre
      <4>1. shift("lead", PreIR, FALSE)  BY <3>1 DEF IrPre
      <4>2. QED  BY <1>1, <1>2, <4>1, ShiftStep, HistoryShift DEF Parts
    <3>2. CASE IrData
      <4> DEFINE last == PostIR = 0
      <4>1. shiftTDITDO("load", op.length, last)  BY <3>2 DEF IrData
      <4>2. last \in BOOLEAN  OBVIOUS
      <4> HIDE DEF last
      <4>3. QED  BY <1>1, <1>2, <4>1, <4>2, ShiftStep, HistoryShift DEF Parts
    <3>3. QED  BY <1>7, <3>1, <3>2
  <2>2. /\ pc' \in {"irData", "irPost"}
        /\ UNCHANGED <<current_state, shiftDRincomplete, walk, reset>>
    BY <1>7 DEF IrPre, IrData
  <2>3. ParamsType'
    BY <1>1, <1>3, <2>2 DEF ParamsType, Device, walk, reset
  <2>4. WalkType'  BY <1>1, <2>2 DEF WalkType, walk, reset
  <2>5. OpType'  BY <1>1, <2>2 DEF OpType
  <2>6. QED  BY <2>1, <2>3, <2>4, <2>5
<1>8. CASE IrPost
  <2>1. /\ shift("tail", PostIR, TRUE) /\ nextTapState(TRUE, "irDone")
        /\ UNCHANGED <<shiftDRincomplete, walk>>
    BY <1>8 DEF IrPost
  <2>2. CableOK' /\ HistoryType'
    BY <1>1, <1>2, <2>1, ShiftStep, HistoryShift DEF Parts
  <2>3. /\ pc' \in Stages \ {"chain"} /\ back' \in Stages \ {"chain"}
        /\ current_state' \in TapStates \cup {UNKNOWN}
        /\ cnt' \in 0..5
    BY <1>3, <2>1, NextTapStateType
  <2>4. ParamsType'  BY <1>1, <2>1, <2>3 DEF ParamsType, Device, walk
  <2>5. WalkType'  BY <1>1, <2>1, <2>3 DEF WalkType, walk
  <2>6. OpType'  BY <1>1, <2>1 DEF OpType
  <2>7. QED  BY <2>2, <2>4, <2>5, <2>6
<1>9. CASE IrDone
  <2>1. CableOK'  BY <1>1, <1>9, CableStays DEF IrDone, cable
  <2>2. HistoryType'  BY <1>9 DEF IrDone, HistoryType
  <2>3. ParamsType'
    BY <1>1, <1>3, <1>9 DEF IrDone, Walk, reset, ParamsType, Device
  <2>4. WalkType'
    BY <1>1, <1>9 DEF IrDone, Walk, reset, WalkType
  <2>5. OpType'  BY <1>1, <1>9 DEF IrDone, OpType
  <2>6. QED  BY <2>1, <2>2, <2>3, <2>4, <2>5
<1>10. QED  BY <1>4, <1>5, <1>6, <1>7, <1>8, <1>9

(* The detection of the chain.                                             *)
LEMMA TypeChain ==
  ASSUME TypeInv,
         \/ \E detect \in BOOLEAN : GetChain(detect)
         \/ \E stale \in StaleIrLengths : ChainWord(stale)
         \/ ChainEnd
  PROVE  TypeInv'
<1> USE DEF TypeInv
<1>1. /\ {"idle", "reset", "goto"} \subseteq Stages \ {"chain"}
      /\ "chain" \in Stages
      /\ {"SHIFT_DR", "TEST_LOGIC_RESET"} \subseteq TapStates
  BY DEF Stages, TapStates
<1>2. ASSUME NEW detect \in BOOLEAN, GetChain(detect)
      PROVE  TypeInv'
  <2>1. CableOK'  BY <1>2, CableStays DEF GetChain, hardware, cable
  <2>2. HistoryType'  BY <1>2 DEF GetChain, HistoryType
  <2>3. ParamsType'
    BY <1>1, <1>2 DEF GetChain, Reset, hardware, ParamsType, Device
  <2>4. WalkType'
    BY <1>1, <1>2 DEF GetChain, Reset, WalkType
  <2>5. OpType'  BY <1>2 DEF GetChain, OpType, NoWant
  <2>6. QED  BY <2>1, <2>2, <2>3, <2>4, <2>5
<1>3. ASSUME NEW stale \in StaleIrLengths, ChainWord(stale)
      PROVE  TypeInv'
  <2> DEFINE device == [pos |-> Len(chain) - numDevices, irlen |-> stale,
                        set |-> FALSE]
  <2>1. /\ pc = "chain" /\ numDevices < Len(chain)
        /\ shiftTDITDO("load", 32, FALSE)
        /\ numDevices' = numDevices + 1
        /\ devices' = <<device>> \o devices
        /\ UNCHANGED <<chain, tap, current_state, postDRState, postIRState,
                       deviceIndex, shiftDRincomplete, cnt, back, op, want>>
        /\ \/ UNCHANGED <<pc, goal, lead, ret>>
           \/ Walk("TEST_LOGIC_RESET", 0, "idle")
    BY <1>3 DEF ChainWord, hardware, reset, walk
  <2>2. CableOK' /\ HistoryType'
    <3>1. 32 \in Int /\ "load" \in Parts  BY DEF Parts
    <3>2. QED  BY <2>1, <3>1, ShiftStep, HistoryShift
  <2>3. device \in Device
    BY <2>1, LengthAssumption DEF Device, ParamsType
  <2> HIDE DEF device
  <2>4. devices' \in Seq(Device) /\ Len(devices') = Len(devices) + 1
    BY <2>1, <2>3 DEF ParamsType
  <2>5. Device' = Device  BY <2>1 DEF Device
  <2>6. ParamsType'
    BY <1>1, <2>1, <2>4, <2>5 DEF ParamsType, Walk
  <2>7. WalkType'  BY <1>1, <2>1 DEF WalkType, Walk
  <2>8. OpType'  BY <2>1 DEF OpType
  <2>9. QED  BY <2>2, <2>6, <2>7, <2>8
<1>4. CASE ChainEnd
  <2>1. shiftTDITDO("load", 32, FALSE) /\ tap' = tap
    BY <1>4 DEF ChainEnd, hardware
  <2>2. CableOK' /\ HistoryType'
    <3>1. 32 \in Int /\ "load" \in Parts  BY DEF Parts
    <3>2. QED  BY <2>1, <3>1, ShiftStep, HistoryShift
  <2>3. ParamsType'
    BY <1>1, <1>4 DEF ChainEnd, Walk, hardware, params, reset, ParamsType, Device
  <2>4. WalkType'
    BY <1>1, <1>4 DEF ChainEnd, Walk, params, reset, WalkType
  <2>5. OpType'  BY <1>4 DEF ChainEnd, OpType
  <2>6. QED  BY <2>2, <2>3, <2>4, <2>5
<1>5. QED  BY <1>2, <1>3, <1>4

(* Calls that only set members of the Jtag object or the walk to come.     *)
LEMMA TypeSetters ==
  ASSUME TypeInv,
         \/ \E dev \in -1..MaxNumDevices : SelectDevice(dev)
         \/ \E dr \in PostDRStates, ir \in PostIRStates : SetPostStates(dr, ir)
         \/ \E g \in Goals : SetTapState(g)
         \/ TapTestLogicReset
         \/ Usleep
         \/ Wake
  PROVE  TypeInv'
<1> USE DEF TypeInv
<1>1. {"idle", "reset", "goto", "sleep"} \subseteq Stages \ {"chain"}
  BY DEF Stages
<1>2. ASSUME NEW dev \in -1..MaxNumDevices, SelectDevice(dev)
      PROVE  TypeInv'
  <2>1. CableOK'  BY <1>2, CableStays DEF SelectDevice, hardware, cable
  <2>2. HistoryType'  BY <1>2 DEF SelectDevice, HistoryType
  <2>3. dev \in Int /\ dev >= -1  BY MaxNumDevicesAssumption
  <2>4. ParamsType'
    BY <1>2, <2>3 DEF SelectDevice, hardware, walk, reset, ParamsType, Device
  <2>5. WalkType'  BY <1>2 DEF SelectDevice, walk, reset, WalkType
  <2>6. OpType'  BY <1>2 DEF SelectDevice, OpType, NoWant
  <2>7. QED  BY <2>1, <2>2, <2>4, <2>5, <2>6
<1>3. ASSUME NEW dr \in PostDRStates, NEW ir \in PostIRStates,
             SetPostStates(dr, ir)
      PROVE  TypeInv'
  <2>1. CableOK'  BY <1>3, CableStays DEF SetPostStates, hardware, cable
  <2>2. HistoryType'  BY <1>3 DEF SetPostStates, history, HistoryType
  <2>3. ParamsType'
    BY <1>3 DEF SetPostStates, hardware, walk, reset, ParamsType, Device
  <2>4. WalkType'
    BY <1>3, PostAssumption DEF SetPostStates, walk, reset, WalkType
  <2>5. OpType'  BY <1>3 DEF SetPostStates, history, OpType
  <2>6. QED  BY <2>1, <2>2, <2>3, <2>4, <2>5
<1>4. ASSUME NEW g \in Goals, SetTapState(g)
      PROVE  TypeInv'
  <2>1. CableOK'  BY <1>4, CableStays DEF SetTapState, hardware, cable
  <2>2. HistoryType'  BY <1>4 DEF SetTapState, HistoryType
  <2>3. ParamsType'
    BY <1>1, <1>4 DEF SetTapState, Walk, hardware, params, reset, ParamsType, Device
  <2>4. WalkType'
    BY <1>4, PostAssumption DEF SetTapState, Walk, params, reset, WalkType
  <2>5. OpType'  BY <1>4 DEF SetTapState, OpType, NoWant
  <2>6. QED  BY <2>1, <2>2, <2>3, <2>4, <2>5
<1>5. CASE TapTestLogicReset
  <2>1. CableOK'  BY <1>5, CableStays DEF TapTestLogicReset, hardware, cable
  <2>2. HistoryType'  BY <1>5 DEF TapTestLogicReset, HistoryType
  <2>3. ParamsType'
    BY <1>1, <1>5
    DEF TapTestLogicReset, Reset, hardware, params, walk, ParamsType, Device
  <2>4. WalkType'
    BY <1>5 DEF TapTestLogicReset, Reset, params, walk, WalkType
  <2>5. OpType'  BY <1>5 DEF TapTestLogicReset, OpType, NoWant
  <2>6. QED  BY <2>1, <2>2, <2>3, <2>4, <2>5
<1>6. CASE Usleep \/ Wake
  <2>1. CableOK'
    BY <1>6, CableStays DEF Usleep, Wake, flush_tms, hardware, cable
  <2>2. HistoryType'  BY <1>6 DEF Usleep, Wake, history, HistoryType
  <2>3. ParamsType'
    BY <1>1, <1>6 DEF Usleep, Wake, hardware, params, walk, reset, ParamsType, Device
  <2>4. WalkType'  BY <1>6 DEF Usleep, Wake, params, walk, reset, WalkType
  <2>5. OpType'  BY <1>6 DEF Usleep, Wake, history, OpType
  <2>6. QED  BY <2>1, <2>2, <2>3, <2>4, <2>5
<1>7. QED  BY <1>2, <1>3, <1>4, <1>5, <1>6

(* A device's instruction register length is taken from the chain.         *)
LEMMA TypeIRLength ==
  ASSUME TypeInv, NEW dev \in 0..(MaxNumDevices - 1), SetDeviceIRLength(dev)
  PROVE  TypeInv'
<1> USE DEF TypeInv
<1>1. dev \in Nat /\ dev + 1 \in 1..Len(devices)
  BY MaxNumDevicesAssumption DEF SetDeviceIRLength, ParamsType
<1> DEFINE pos    == devices[dev + 1].pos
           device == [pos |-> pos, irlen |-> chain[pos], set |-> TRUE]
<1>2. devices[dev + 1] \in Device  BY <1>1 DEF ParamsType
<1>3. pos \in 1..Len(chain)  BY <1>2 DEF Device
<1>3b. chain[pos] \in 0..MaxIrLength
  BY <1>3, LengthAssumption, SMTT(30) DEF ParamsType
<1>4. device \in Device  BY <1>3, <1>3b DEF Device
<1>5. devices' = [devices EXCEPT ![dev + 1] = device]
  BY <1>1 DEF SetDeviceIRLength, ParamsType
<1> HIDE DEF pos, device
<1>6. devices' \in Seq(Device) /\ Len(devices') = Len(devices)
  BY <1>1, <1>4, <1>5 DEF ParamsType
<1>7. Device' = Device  BY DEF SetDeviceIRLength, hardware, Device
<1>8. ParamsType'
  BY <1>6, <1>7 DEF SetDeviceIRLength, hardware, walk, reset, ParamsType
<1>9. CableOK'  BY CableStays DEF SetDeviceIRLength, hardware, cable
<1>10. WalkType'  BY DEF SetDeviceIRLength, walk, reset, WalkType
<1>11. OpType' /\ HistoryType'
  BY DEF SetDeviceIRLength, history, OpType, HistoryType
<1>12. QED  BY <1>8, <1>9, <1>10, <1>11

LEMMA CallLengthsType == CallLengths \subseteq Nat
BY LengthAssumption DEF CallLengths

(* Calls that shift, or start to.                                          *)
LEMMA TypeScans ==
  ASSUME TypeInv,
         \/ \E length \in CallLengths, align \in Aligns, exit \in BOOLEAN :
              ShiftDR(length, align, exit)
         \/ ShiftIR
         \/ \E n \in Lengths : CycleTCK(n)
         \/ \E length \in CallLengths : RawShift(length)
  PROVE  TypeInv'
<1> USE DEF TypeInv
<1>1. /\ {"idle", "goto", "drData", "irPre"} \subseteq Stages \ {"chain"}
      /\ {"SHIFT_DR", "SHIFT_IR"} \subseteq TapStates
  BY DEF Stages, TapStates
<1>2. ASSUME NEW length \in CallLengths, NEW align \in Aligns,
             NEW exit \in BOOLEAN, ShiftDR(length, align, exit)
      PROVE  TypeInv'
  <2>1. length \in Nat /\ align \in Nat
    BY CallLengthsType, LengthAssumption
  <2>2. /\ op' = [length |-> length, exit |-> exit]
        /\ UNCHANGED <<chain, tap, queue, sent, current_state, postDRState,
                       postIRState, numDevices, deviceIndex, devices,
                       shiftDRincomplete, cnt, back, clocked, erase>>
        /\ \/ /\ pc' = "drData" /\ want' = [want EXCEPT !.asked = @ + length]
              /\ UNCHANGED <<goal, lead, ret>>
           \/ /\ Walk("SHIFT_DR", PreDR(align), "drData")
              /\ want' = [kind |-> IF Midway THEN "none" ELSE "dr",
                          asked |-> length, align |-> align]
    BY <1>2 DEF ShiftDR, hardware, cable, params, reset, walk
  <2>3. PreDR(align) \in Int  BY <2>1, PreAndPostType
  <2>4. CableOK'  BY <2>2, CableStays
  <2>5. HistoryType'  BY <2>2 DEF HistoryType
  <2>6. ParamsType'  BY <1>1, <2>2 DEF Walk, ParamsType, Device
  <2>7. WalkType'  BY <1>1, <2>2, <2>3 DEF Walk, WalkType
  <2>8. op' \in [length : Nat, exit : BOOLEAN]  BY <2>1, <2>2
  <2>9. want' \in [kind : {"none", "dr", "ir"}, asked : Nat, align : Nat]
    <3>1. CASE want' = [want EXCEPT !.asked = @ + length]
      BY <2>1, <3>1 DEF OpType
    <3>2. CASE want' = [kind |-> IF Midway THEN "none" ELSE "dr",
                        asked |-> length, align |-> align]
      BY <2>1, <3>2
    <3>3. QED  BY <2>2, <3>1, <3>2
  <2>10. OpType'  BY <2>2, <2>8, <2>9 DEF OpType
  <2>11. QED  BY <2>4, <2>5, <2>6, <2>7, <2>10
<1>3. CASE ShiftIR
  <2>1. CableOK'  BY <1>3, CableStays DEF ShiftIR, hardware, cable
  <2>2. HistoryType'  BY <1>3 DEF ShiftIR, HistoryType
  <2>3. ParamsType'
    BY <1>1, <1>3 DEF ShiftIR, Walk, hardware, params, reset, ParamsType, Device
  <2>4. WalkType'
    BY <1>1, <1>3 DEF ShiftIR, Walk, params, reset, WalkType
  <2> DEFINE irlen == devices[deviceIndex + 1].irlen
  <2>5. irlen \in Nat
    <3>1. deviceIndex + 1 \in 1..Len(devices)
      BY <1>3 DEF ShiftIR, ParamsType
    <3>2. devices[deviceIndex + 1] \in Device  BY <3>1 DEF ParamsType
    <3>3. QED  BY <3>2, LengthAssumption DEF Device
  <2>6. /\ op' = [length |-> irlen, exit |-> TRUE]
        /\ want' = [kind |-> IF Midway THEN "none" ELSE "ir", asked |-> irlen,
                    align |-> 0]
        /\ shiftDRincomplete' = shiftDRincomplete
    BY <1>3 DEF ShiftIR
  <2> HIDE DEF irlen
  <2>7. op' \in [length : Nat, exit : BOOLEAN]  BY <2>5, <2>6
  <2>8. want' \in [kind : {"none", "dr", "ir"}, asked : Nat, align : Nat]
    BY <2>5, <2>6
  <2>9. OpType'  BY <2>6, <2>7, <2>8 DEF OpType
  <2>10. QED  BY <2>1, <2>2, <2>3, <2>4, <2>9
<1>4. ASSUME NEW n \in Lengths, CycleTCK(n)
      PROVE  TypeInv'
  <2>0. n \in Int  BY LengthAssumption
  <2>1. shift("tail", n, FALSE) /\ tap' = tap
    BY <1>4 DEF CycleTCK, hardware
  <2>2. CableOK' /\ HistoryType'
    BY <2>0, <2>1, ShiftStep, HistoryShift DEF Parts
  <2>3. ParamsType'
    BY <1>4 DEF CycleTCK, hardware, params, walk, reset, ParamsType, Device
  <2>4. WalkType'  BY <1>4 DEF CycleTCK, params, walk, reset, WalkType
  <2>5. OpType'  BY <1>4 DEF CycleTCK, OpType, NoWant
  <2>6. QED  BY <2>2, <2>3, <2>4, <2>5
<1>5. ASSUME NEW length \in CallLengths, RawShift(length)
      PROVE  TypeInv'
  <2>0. length \in Int  BY CallLengthsType
  <2>1. /\ shiftTDITDO("load", length, TRUE) /\ tap' = tap
        /\ nextTapState(TRUE, "idle")
    BY <1>5 DEF RawShift, hardware
  <2>2. CableOK' /\ HistoryType'
    BY <2>0, <2>1, ShiftStep, HistoryShift DEF Parts
  <2>3. /\ pc' \in Stages \ {"chain"} /\ back' \in Stages \ {"chain"}
        /\ current_state' \in TapStates \cup {UNKNOWN}
        /\ cnt' \in 0..5
    BY <1>1, <2>1, NextTapStateType
  <2>4. ParamsType'
    BY <1>5, <2>3 DEF RawShift, hardware, params, walk, ParamsType, Device
  <2>5. WalkType'  BY <1>5, <2>3 DEF RawShift, params, walk, WalkType
  <2>6. OpType'  BY <1>5 DEF RawShift, OpType, NoWant
  <2>7. QED  BY <2>2, <2>4, <2>5, <2>6
<1>6. QED  BY <1>2, <1>3, <1>4, <1>5

LEMMA TypeCable ==
  ASSUME TypeInv, CableClock \/ UNCHANGED vars
  PROVE  TypeInv'
<1> USE DEF TypeInv
<1>1. CableOK'
  BY CableClockStep, CableStays DEF vars, hardware, cable
<1>2. ParamsType'
  BY DEF CableClock, vars, hardware, params, walk, reset, ParamsType, Device
<1>3. WalkType'
  BY DEF CableClock, vars, params, walk, reset, WalkType
<1>4. OpType' /\ HistoryType'
  BY DEF CableClock, vars, history, OpType, HistoryType
<1>5. QED  BY <1>1, <1>2, <1>3, <1>4

LEMMA TypeStep == TypeInv /\ [Next]_vars => TypeInv'
<1> SUFFICES ASSUME TypeInv, [Next]_vars PROVE TypeInv'
  OBVIOUS
<1>1. CASE Call
  BY <1>1, TypeChain, TypeSetters, TypeIRLength, TypeScans DEF Call
<1>2. CASE Run
  BY <1>2, TypeWalk, TypeShift, TypeChain, TypeSetters DEF Run
<1>3. CASE CableClock \/ UNCHANGED vars
  BY <1>3, TypeCable
<1>4. QED  BY <1>1, <1>2, <1>3 DEF Next

(* Every state the program reaches has the right types.                    *)
THEOREM TypeCorrect == Spec => []TypeOK
<1>1. TypeInv => TypeOK
  BY DEF TypeInv, CableOK, ParamsType, WalkType, OpType, HistoryType, TypeOK
<1>2. QED  BY <1>1, TypeInit, TypeStep, PTL DEF Spec

(* The TMS bits IOBase::set_tms sets aside never outgrow tms_buf: the      *)
(* buffer goes to the cable before the bit that would not fit is stored.   *)
THEOREM TmsBufNeverOverflows == Spec => []TmsBufFits
<1>1. TypeInv => TmsBufFits  BY DEF TypeInv, CableOK
<1>2. QED  BY <1>1, TypeInit, TypeStep, PTL DEF Spec

------------------------------------------------------------------------------
(***************************************************************************)
(* The shadow stays in step.  None of this holds when callers shift a      *)
(* length of 0, run shiftIR before the lengths are known, or clock in      *)
(* TEST_LOGIC_RESET; abandoning a scan does no harm to it.                 *)
(***************************************************************************)
NoClockMisuse == Misuse \cap {"zero", "stale", "reset"} = {}

(* A stage that leaves the cable alone, or moves shadow and TAP alike.     *)
LEMMA WalkInStep ==
  ASSUME TypeInv, StepInv,
         \/ WalkHop \/ WalkUnknown \/ WalkUnknownBit \/ WalkLead \/ WalkArrive
         \/ ResetBit \/ ResetDone
  PROVE  StepInv'
<1> USE DEF TypeInv, StepInv
<1>1. UNCHANGED <<tap, devices, op, goal, ret>>
  BY DEF WalkHop, WalkUnknown, WalkUnknownBit, WalkLead, WalkArrive, ResetBit,
         ResetDone, hardware, params, walk
<1>2. CASE WalkHop
  <2> DEFINE hop == Hop(current_state, goal)
  <2>1. current_state \in TapStates /\ goal \in TapStates /\ current_state # goal
    BY <1>2 DEF WalkHop, WalkType
  <2>2. hop.tms \in BOOLEAN /\ hop.to = Edge(current_state, hop.tms)
    BY <2>1, HopIsEdge
  <2>3. /\ pc = "goto" /\ current_state # UNKNOWN /\ set_tms("tail", hop.tms)
        /\ current_state' = hop.to
        /\ UNCHANGED <<pc, lead, back>>
    BY <1>2 DEF WalkHop, walk, reset
  <2>4. Ahead' = hop.to
    BY <1>1, <2>2, <2>3, SetTmsStep DEF InStep
  <2>5. QED
    BY <1>1, <2>3, <2>4
    DEF InStep, StagesInOrder, Resetting, LeavingIR, NothingBuffered, NoEmptyShift
<1>3. CASE WalkUnknown
  <2>1. Ahead' = Ahead
    BY <1>3, CableStays DEF WalkUnknown, hardware, cable
  <2>2. Ahead \in Highs(5 - 5)  BY AheadType DEF Highs
  <2>3. /\ pc' = "reset" /\ cnt' = 5 /\ back' = "unknown"
        /\ UNCHANGED <<current_state, lead>>
    BY <1>3 DEF WalkUnknown, Reset, walk
  <2>4. QED
    BY <1>1, <2>1, <2>2, <2>3
    DEF InStep, StagesInOrder, Resetting, LeavingIR, NothingBuffered, NoEmptyShift
<1>4. CASE WalkUnknownBit
  <2>1. /\ pc = "unknown" /\ set_tms("tail", TRUE) /\ pc' = "goto"
        /\ UNCHANGED <<current_state, lead, back>>
    BY <1>4 DEF WalkUnknownBit, walk, reset
  <2>2. current_state = "TEST_LOGIC_RESET" /\ Ahead = "TEST_LOGIC_RESET"
    BY <2>1 DEF InStep, StagesInOrder, UNKNOWN
  <2>3. Ahead' = Edge(Ahead, TRUE)  BY <1>1, <2>1, SetTmsStep
  <2>4. Ahead' = "TEST_LOGIC_RESET"  BY <2>2, <2>3 DEF Edge, OnHigh
  <2>5. QED
    BY <1>1, <2>1, <2>2, <2>4
    DEF InStep, StagesInOrder, Resetting, LeavingIR, NothingBuffered, NoEmptyShift
<1>5. CASE WalkLead
  <2>1. /\ pc = "goto" /\ current_state = goal /\ lead > 0
        /\ set_tms("lead", FALSE) /\ lead' = lead - 1
        /\ UNCHANGED <<current_state, pc, back>>
    BY <1>5 DEF WalkLead, reset
  <2>2. current_state = "SHIFT_DR" /\ Ahead = "SHIFT_DR"
    BY <2>1 DEF InStep, StagesInOrder, UNKNOWN
  <2>3. Ahead' = Edge(Ahead, FALSE)  BY <1>1, <2>1, SetTmsStep
  <2>4. Ahead' = "SHIFT_DR"  BY <2>2, <2>3 DEF Edge, OnLow
  <2>5. QED
    BY <1>1, <2>1, <2>2, <2>4
    DEF InStep, StagesInOrder, Resetting, LeavingIR, NothingBuffered, NoEmptyShift,
        WalkType
<1>6. CASE WalkArrive
  <2>1. Ahead' = Ahead
    BY <1>6, CableStays DEF WalkArrive, hardware, cable
  <2>2. /\ pc = "goto" /\ current_state = goal /\ pc' = ret
        /\ UNCHANGED <<current_state, lead, back>>
    BY <1>6 DEF WalkArrive, walk, reset
  <2>3. QED
    BY <1>1, <2>1, <2>2
    DEF InStep, StagesInOrder, Resetting, LeavingIR, NothingBuffered, NoEmptyShift
<1>7. CASE ResetBit
  <2>1. /\ pc = "reset" /\ cnt > 0 /\ set_tms("tail", TRUE) /\ cnt' = cnt - 1
        /\ UNCHANGED <<current_state, pc, lead, back>>
    BY <1>7 DEF ResetBit, walk
  <2>2. Ahead' = Edge(Ahead, TRUE)  BY <1>1, <2>1, SetTmsStep
  <2>3. 5 - cnt \in 0..4 /\ Ahead \in Highs(5 - cnt)
    BY <2>1 DEF WalkType, Resetting
  <2>4. Edge(Ahead, TRUE) \in Highs(5 - cnt + 1)  BY <2>3, HighsStep
  <2>5. 5 - cnt + 1 = 5 - cnt'  BY <2>1 DEF WalkType
  <2>6. QED
    BY <1>1, <2>1, <2>2, <2>4, <2>5
    DEF InStep, StagesInOrder, Resetting, LeavingIR, NothingBuffered, NoEmptyShift
<1>8. CASE ResetDone
  <2>1. Ahead' = Ahead
    BY <1>1, <1>8, CableStays DEF ResetDone, flush_tms
  <2>2. /\ pc = "reset" /\ cnt = 0 /\ current_state' = "TEST_LOGIC_RESET"
        /\ pc' = back /\ UNCHANGED <<lead, back>>
    BY <1>8 DEF ResetDone, walk, reset
  <2>3. Ahead \in Highs(5 - 0)  BY <2>2 DEF Resetting
  <2>4. Ahead' = "TEST_LOGIC_RESET"  BY <2>1, <2>3 DEF Highs
  <2>5. QED
    BY <1>1, <2>2, <2>4
    DEF InStep, StagesInOrder, Resetting, LeavingIR, NothingBuffered, NoEmptyShift
<1>9. QED  BY <1>2, <1>3, <1>4, <1>5, <1>6, <1>7, <1>8

(* nextTapState after a block that was clocked where the shadow was: in a  *)
(* shift state the shadow follows; anywhere else the TAP is reset.         *)
LEMMA NextTapStateInStep ==
  ASSUME TypeInv, Ahead' \in TapStates,
         NEW tms \in BOOLEAN, NEW n \in Int, n # 0, NEW next,
         nextTapState(tms, next),
         current_state \in ShiftStates => Ahead' = Block(current_state, n, tms)
  PROVE  \/ /\ pc' = next /\ UNCHANGED <<cnt, back>>
            /\ Ahead' = current_state'
            /\ current_state \in ShiftStates
         \/ /\ pc' = "reset" /\ cnt' = 5 /\ back' = next
            /\ Ahead' \in Highs(5 - cnt')
            /\ current_state' = current_state
            /\ current_state \notin ShiftStates
<1>1. CASE current_state \in ShiftStates
  <2>1. Ahead' = Block(current_state, n, tms)  BY <1>1
  <2>2. current_state \in {"SHIFT_DR", "SHIFT_IR"}  BY <1>1 DEF ShiftStates
  <2>3. CASE tms = TRUE
    <3>0. Ahead' = Block(current_state, n, TRUE)  BY <2>1, <2>3, Zenon
    <3>1. Ahead' = IF current_state = "SHIFT_DR" THEN "EXIT1_DR" ELSE "EXIT1_IR"
      BY <2>2, <3>0, ShiftBlock
    <3>2. QED  BY <1>1, <2>3, <3>1 DEF nextTapState, reset
  <2>4. CASE tms = FALSE
    <3>1. Ahead' = current_state  BY <2>1, <2>2, <2>4, ShiftBlock
    <3>2. QED  BY <1>1, <2>4, <3>1 DEF nextTapState, reset
  <2>5. QED  BY <2>3, <2>4
<1>2. CASE current_state \notin ShiftStates
  BY <1>2 DEF nextTapState, Reset, Highs
<1>3. QED  BY <1>1, <1>2

(* The stages of shiftDR.                                                  *)
LEMMA ShiftDRInStep ==
  ASSUME TypeInv, StepInv, DrData \/ DrTail \/ DrDone
  PROVE  StepInv'
<1> USE DEF TypeInv, StepInv
<1>1. UNCHANGED <<tap, devices, op>>
  BY DEF DrData, DrTail, DrDone, hardware, params
<1>2. Ahead \in TapStates  BY AheadType
<1>3. CASE DrData
  <2> DEFINE last == deviceIndex = 0 /\ op.exit
             next == IF op.exit THEN "drTail" ELSE "idle"
  <2>1. /\ pc = "drData" /\ shiftTDITDO("load", op.length, last)
        /\ nextTapState(last, next)
        /\ UNCHANGED <<goal, lead, ret>>
    BY <1>3 DEF DrData, walk
  <2>2. op.length \in Int /\ op.length # 0 /\ last \in BOOLEAN
    BY <2>1 DEF OpType, NoEmptyShift
  <2>3. next \in {"drTail", "idle"}  OBVIOUS
  <2> HIDE DEF last, next
  <2>4. Ahead' = Block(Ahead, op.length, last)
    BY <1>1, <2>1, <2>2, ShiftStep
  <2>5. current_state \in ShiftStates => Ahead' = Block(current_state, op.length, last)
    BY <2>1, <2>4 DEF InStep, ShiftStates, UNKNOWN
  <2>. Ahead' \in TapStates  BY <1>2, <2>4, BlockType
  <2>6. \/ /\ pc' = next /\ UNCHANGED <<cnt, back>> /\ Ahead' = current_state'
        \/ /\ pc' = "reset" /\ back' = next /\ Ahead' \in Highs(5 - cnt')
    BY <2>1, <2>2, <2>5, NextTapStateInStep
  <2>7. QED
    BY <1>1, <2>1, <2>3, <2>6
    DEF InStep, StagesInOrder, Resetting, LeavingIR, NothingBuffered, NoEmptyShift
<1>4. CASE DrTail
  <2>1. /\ pc = "drTail" /\ shift("tail", deviceIndex, TRUE)
        /\ UNCHANGED <<goal, lead, ret>>
    BY <1>4 DEF DrTail, walk
  <2>2. deviceIndex \in Int  BY DEF ParamsType
  <2>3. Ahead' = Block(Ahead, deviceIndex, TRUE)
    BY <1>1, <2>1, <2>2, ShiftStep
  <2>4. CASE deviceIndex = 0
    <3>1. pc' = "drDone" /\ UNCHANGED <<current_state, cnt, back>>
      BY <1>4, <2>4 DEF DrTail, reset
    <3>2. Ahead' = Ahead  BY <2>3, <2>4 DEF Block
    <3>3. QED
      BY <1>1, <2>1, <3>1, <3>2
      DEF InStep, StagesInOrder, Resetting, LeavingIR, NothingBuffered, NoEmptyShift
  <2>5. CASE deviceIndex # 0
    <3>1. nextTapState(TRUE, "drDone")  BY <1>4, <2>5 DEF DrTail
    <3>2. current_state \in ShiftStates =>
            Ahead' = Block(current_state, deviceIndex, TRUE)
      BY <2>1, <2>3 DEF InStep, ShiftStates, UNKNOWN
    <3>. Ahead' \in TapStates  BY <1>2, <2>3, BlockType
    <3>3. \/ /\ pc' = "drDone" /\ UNCHANGED <<cnt, back>> /\ Ahead' = current_state'
          \/ /\ pc' = "reset" /\ back' = "drDone" /\ Ahead' \in Highs(5 - cnt')
      BY <2>2, <2>5, <3>1, <3>2, NextTapStateInStep
    <3>4. QED
      BY <1>1, <2>1, <3>3
      DEF InStep, StagesInOrder, Resetting, LeavingIR, NothingBuffered, NoEmptyShift
  <2>6. QED  BY <2>4, <2>5
<1>5. CASE DrDone
  <2>1. Ahead' = Ahead  BY <1>5, CableStays DEF DrDone, hardware, cable
  <2>2. /\ pc = "drDone" /\ pc' = "goto" /\ lead' = 0 /\ ret' = "idle"
        /\ UNCHANGED <<current_state, cnt, back>>
    BY <1>5 DEF DrDone, Walk, reset
  <2>3. QED
    BY <1>1, <2>1, <2>2
    DEF InStep, StagesInOrder, Resetting, LeavingIR, NothingBuffered, NoEmptyShift
<1>6. QED  BY <1>3, <1>4, <1>5

(* The stages of shiftIR.                                                  *)
LEMMA ShiftIRInStep ==
  ASSUME TypeInv, StepInv, IrPre \/ IrData \/ IrPost \/ IrDone
  PROVE  StepInv'
<1> USE DEF TypeInv, StepInv
<1>1. UNCHANGED <<tap, devices, deviceIndex, numDevices, op>>
  BY DEF IrPre, IrData, IrPost, IrDone, hardware, params
<1>2. PreIR \in Int /\ PostIR \in Int  BY PreAndPostType
<1>3. PostIR' = PostIR  BY <1>1 DEF PostIR, IrBits
<1>4. CASE IrPre
  <2>1. /\ pc = "irPre" /\ shift("lead", PreIR, FALSE) /\ pc' = "irData"
        /\ UNCHANGED <<current_state, goal, lead, ret, cnt, back>>
    BY <1>4 DEF IrPre, walk, reset
  <2>2. current_state = "SHIFT_IR" /\ Ahead = "SHIFT_IR"
    BY <2>1 DEF StagesInOrder, InStep, UNKNOWN
  <2>3. Ahead' = Block(Ahead, PreIR, FALSE)  BY <1>1, <1>2, <2>1, ShiftStep
  <2>4. Ahead' = "SHIFT_IR"  BY <2>2, <2>3, ShiftBlock
  <2>5. QED
    BY <1>1, <2>1, <2>2, <2>4
    DEF InStep, StagesInOrder, Resetting, LeavingIR, NothingBuffered, NoEmptyShift
<1>5. CASE IrData
  <2> DEFINE last == PostIR = 0
  <2>1. /\ pc = "irData" /\ shiftTDITDO("load", op.length, last) /\ pc' = "irPost"
        /\ UNCHANGED <<current_state, goal, lead, ret, cnt, back>>
    BY <1>5 DEF IrData, walk, reset
  <2>2. current_state = "SHIFT_IR" /\ Ahead = "SHIFT_IR"
    BY <2>1 DEF StagesInOrder, InStep, UNKNOWN
  <2>3. op.length \in Int /\ op.length # 0 /\ last \in BOOLEAN
    BY <2>1 DEF OpType, NoEmptyShift
  <2>4. Ahead' = Block(Ahead, op.length, last)
    <3> HIDE DEF last
    <3> QED  BY <1>1, <2>1, <2>3, ShiftStep
  <2>5. Ahead' = IF PostIR = 0 THEN "EXIT1_IR" ELSE "SHIFT_IR"
    BY <2>2, <2>3, <2>4, ShiftBlock
  <2>6. QED
    BY <1>1, <1>3, <2>1, <2>2, <2>5
    DEF InStep, StagesInOrder, Resetting, LeavingIR, NothingBuffered, NoEmptyShift
<1>6. CASE IrPost
  <2>1. /\ pc = "irPost" /\ shift("tail", PostIR, TRUE)
        /\ nextTapState(TRUE, "irDone")
        /\ UNCHANGED <<goal, lead, ret>>
    BY <1>6 DEF IrPost, walk
  <2>2. current_state = "SHIFT_IR"  BY <2>1 DEF StagesInOrder
  <2>3. /\ pc' = "irDone" /\ current_state' = "EXIT1_IR"
        /\ UNCHANGED <<cnt, back>>
    BY <2>1, <2>2 DEF nextTapState, ShiftStates, reset
  <2>4. Ahead = IF PostIR = 0 THEN "EXIT1_IR" ELSE "SHIFT_IR"
    BY <2>1 DEF LeavingIR
  <2>5. Ahead' = Block(Ahead, PostIR, TRUE)  BY <1>1, <1>2, <2>1, ShiftStep
  <2>6. Ahead' = "EXIT1_IR"
    <3>1. CASE PostIR = 0  BY <2>4, <2>5, <3>1 DEF Block
    <3>2. CASE PostIR # 0  BY <2>4, <2>5, <3>2, ShiftBlock
    <3>3. QED  BY <3>1, <3>2
  <2>7. QED
    BY <1>1, <2>1, <2>3, <2>6
    DEF InStep, StagesInOrder, Resetting, LeavingIR, NothingBuffered, NoEmptyShift
<1>7. CASE IrDone
  <2>1. Ahead' = Ahead  BY <1>7, CableStays DEF IrDone, hardware, cable
  <2>2. /\ pc = "irDone" /\ pc' = "goto" /\ lead' = 0 /\ ret' = "idle"
        /\ UNCHANGED <<current_state, cnt, back>>
    BY <1>7 DEF IrDone, Walk, reset
  <2>3. QED
    BY <1>1, <2>1, <2>2
    DEF InStep, StagesInOrder, Resetting, LeavingIR, NothingBuffered, NoEmptyShift
<1>8. QED  BY <1>4, <1>5, <1>6, <1>7

(* The detection of the chain.                                             *)
LEMMA ChainInStep ==
  ASSUME TypeInv, StepInv,
         \/ \E detect \in BOOLEAN : GetChain(detect)
         \/ \E stale \in StaleIrLengths : ChainWord(stale)
         \/ ChainEnd
  PROVE  StepInv'
<1> USE DEF TypeInv, StepInv
<1>1. ASSUME NEW detect \in BOOLEAN, GetChain(detect)
      PROVE  StepInv'
  <2>1. Ahead' = Ahead  BY <1>1, CableStays DEF GetChain, hardware, cable
  <2>2. Ahead \in Highs(5 - 5)  BY AheadType DEF Highs
  <2>3. /\ pc' = "reset" /\ cnt' = 5 /\ back' = "goto"
        /\ goal' = "SHIFT_DR" /\ lead' = 0 /\ ret' = "chain"
        /\ UNCHANGED <<current_state, devices, op>>
    BY <1>1 DEF GetChain, Reset
  <2>4. QED
    BY <2>1, <2>2, <2>3
    DEF InStep, StagesInOrder, Resetting, LeavingIR, NothingBuffered, NoEmptyShift
<1>2. ASSUME shiftTDITDO("load", 32, FALSE), pc = "chain", current_state' = current_state,
             UNCHANGED <<tap, op, cnt, back>>,
             \/ UNCHANGED <<pc, goal, lead, ret>>
             \/ Walk("TEST_LOGIC_RESET", 0, "idle"),
             \A k \in 1..Len(devices') : devices[k].set' => devices[k].irlen' > 0
      PROVE  StepInv'
  <2>1. 32 \in Int  OBVIOUS
  <2>2. Ahead' = Block(Ahead, 32, FALSE)  BY <1>2, <2>1, ShiftStep
  <2>3. current_state = "SHIFT_DR" /\ Ahead = "SHIFT_DR"
    BY <1>2 DEF StagesInOrder, InStep, UNKNOWN
  <2>4. Ahead' = "SHIFT_DR"  BY <2>2, <2>3, ShiftBlock
  <2>5. NoEmptyShift'  BY <1>2 DEF Walk, NoEmptyShift
  <2>6. QED
    BY <1>2, <2>3, <2>4, <2>5
    DEF Walk, InStep, StagesInOrder, Resetting, LeavingIR, NothingBuffered
<1>3. ASSUME NEW stale \in StaleIrLengths, ChainWord(stale)
      PROVE  StepInv'
  <2> DEFINE device == [pos |-> Len(chain) - numDevices, irlen |-> stale,
                        set |-> FALSE]
  <2>1. devices' = <<device>> \o devices  BY <1>3 DEF ChainWord
  <2>2. device.set = FALSE  OBVIOUS
  <2> HIDE DEF device
  <2>3. /\ Len(devices') = Len(devices) + 1
        /\ devices'[1] = device
        /\ \A k \in 2..Len(devices') :
             devices'[k] = devices[k - 1] /\ k - 1 \in 1..Len(devices)
    BY <2>1 DEF ParamsType
  <2>4. \A k \in 1..Len(devices') : devices[k].set' => devices[k].irlen' > 0
    BY <2>2, <2>3 DEF NoEmptyShift, ParamsType
  <2>5. QED
    BY <1>2, <1>3, <2>4 DEF ChainWord, hardware, reset, walk
<1>4. CASE ChainEnd
  <2>1. UNCHANGED devices  BY <1>4 DEF ChainEnd, params
  <2>2. QED
    BY <1>2, <1>4, <2>1 DEF ChainEnd, hardware, reset, NoEmptyShift
<1>5. QED  BY <1>1, <1>3, <1>4

(* Calls that issue nothing.                                               *)
LEMMA SettersInStep ==
  ASSUME TypeInv, StepInv, NoClockMisuse,
         \/ \E dev \in -1..MaxNumDevices : SelectDevice(dev)
         \/ \E dr \in PostDRStates, ir \in PostIRStates : SetPostStates(dr, ir)
         \/ \E g \in Goals : SetTapState(g)
         \/ \E length \in CallLengths, align \in Aligns, exit \in BOOLEAN :
              ShiftDR(length, align, exit)
         \/ ShiftIR
         \/ TapTestLogicReset
         \/ Usleep
         \/ Wake
  PROVE  StepInv'
<1> USE DEF TypeInv, StepInv
<1>1. Ahead' = Ahead
  BY CableStays
  DEF SelectDevice, SetPostStates, SetTapState, ShiftDR, ShiftIR,
      TapTestLogicReset, Usleep, Wake, flush_tms, hardware, cable
<1>2. /\ pc \in {"idle", "sleep"}
      /\ UNCHANGED <<current_state, devices>>
  BY DEF SelectDevice, SetPostStates, SetTapState, ShiftDR, ShiftIR,
         TapTestLogicReset, Usleep, Wake, params
<1>3. ASSUME NEW dev \in -1..MaxNumDevices, SelectDevice(dev)
      PROVE  StepInv'
  <2>1. UNCHANGED <<pc, op, goal, lead, ret, back, sent, queue>>
    BY <1>3 DEF SelectDevice, walk, reset, cable
  <2>2. QED
    BY <1>1, <1>2, <2>1, <1>3
    DEF SelectDevice, InStep, StagesInOrder, Resetting, LeavingIR,
        NothingBuffered, NoEmptyShift
<1>4. ASSUME NEW dr \in PostDRStates, NEW ir \in PostIRStates,
             SetPostStates(dr, ir)
      PROVE  StepInv'
  <2>1. UNCHANGED <<pc, op, goal, lead, ret, back>>  /\ pc = "idle"
    BY <1>4 DEF SetPostStates, walk, reset
  <2>2. QED
    BY <1>1, <1>2, <2>1
    DEF InStep, StagesInOrder, Resetting, LeavingIR, NothingBuffered, NoEmptyShift
<1>5. ASSUME NEW g \in Goals, SetTapState(g)
      PROVE  StepInv'
  <2>1. /\ pc' = "goto" /\ lead' = 0 /\ ret' = "idle" /\ pc = "idle"
        /\ UNCHANGED <<op, back>>
    BY <1>5 DEF SetTapState, Walk, reset
  <2>2. QED
    BY <1>1, <1>2, <2>1
    DEF InStep, StagesInOrder, Resetting, LeavingIR, NothingBuffered, NoEmptyShift
<1>6. ASSUME NEW length \in CallLengths, NEW align \in Aligns,
             NEW exit \in BOOLEAN, ShiftDR(length, align, exit)
      PROVE  StepInv'
  <2>1. length > 0
    BY LengthAssumption DEF CallLengths, NoClockMisuse
  <2>2. /\ pc = "idle" /\ op' = [length |-> length, exit |-> exit]
        /\ UNCHANGED back
        /\ \/ pc' = "drData" /\ UNCHANGED <<goal, lead, ret>>
           \/ Walk("SHIFT_DR", PreDR(align), "drData")
    BY <1>6 DEF ShiftDR, walk, reset
  <2>3. op.length' > 0  BY <2>1, <2>2
  <2>4. QED
    BY <1>1, <1>2, <2>2, <2>3
    DEF Walk, InStep, StagesInOrder, Resetting, LeavingIR, NothingBuffered,
        NoEmptyShift
<1>7. CASE ShiftIR
  <2>1. /\ pc = "idle" /\ deviceIndex >= 0 /\ UNCHANGED back
        /\ pc' = "goto" /\ goal' = "SHIFT_IR" /\ lead' = 0 /\ ret' = "irPre"
        /\ op' = [length |-> devices[deviceIndex + 1].irlen, exit |-> TRUE]
    BY <1>7 DEF ShiftIR, Walk, reset
  <2>2. deviceIndex + 1 \in 1..numDevices /\ deviceIndex + 1 \in 1..Len(devices)
    BY <2>1 DEF ParamsType
  <2>3. devices[deviceIndex + 1].set
    BY <1>7, <2>2 DEF ShiftIR, IrLengthsSet, NoClockMisuse
  <2>4. op.length' > 0  BY <2>1, <2>2, <2>3 DEF NoEmptyShift
  <2>5. QED
    BY <1>1, <1>2, <2>1, <2>4
    DEF InStep, StagesInOrder, Resetting, LeavingIR, NothingBuffered, NoEmptyShift
<1>8. CASE TapTestLogicReset
  <2>1. /\ pc' = "reset" /\ cnt' = 5 /\ back' = "idle" /\ pc = "idle"
        /\ UNCHANGED <<op, goal, lead, ret>>
    BY <1>8 DEF TapTestLogicReset, Reset, walk
  <2>2. Ahead \in Highs(5 - 5)  BY AheadType DEF Highs
  <2>3. QED
    BY <1>1, <1>2, <2>1, <2>2
    DEF InStep, StagesInOrder, Resetting, LeavingIR, NothingBuffered, NoEmptyShift
<1>9. CASE Usleep \/ Wake
  <2>1. /\ \/ pc = "idle" /\ pc' = "sleep" /\ queue' = queue /\ sent' = Len(queue)
           \/ pc = "sleep" /\ pc' = "idle"
        /\ UNCHANGED <<op, goal, lead, ret, back>>
    BY <1>9 DEF Usleep, Wake, flush_tms, walk, reset
  <2>2. QED
    BY <1>1, <1>2, <2>1
    DEF InStep, StagesInOrder, Resetting, LeavingIR, NothingBuffered, NoEmptyShift
<1>10. QED  BY <1>3, <1>4, <1>5, <1>6, <1>7, <1>8, <1>9

(* Setting a length: the lengths on the chain are positive.                *)
LEMMA IRLengthInStep ==
  ASSUME TypeInv, StepInv, NEW dev \in 0..(MaxNumDevices - 1),
         SetDeviceIRLength(dev)
  PROVE  StepInv'
<1> USE DEF TypeInv, StepInv
<1> DEFINE pos    == devices[dev + 1].pos
           device == [pos |-> pos, irlen |-> chain[pos], set |-> TRUE]
<1>1. dev \in Nat /\ dev + 1 \in 1..Len(devices)
  BY MaxNumDevicesAssumption DEF SetDeviceIRLength, ParamsType
<1>2. pos \in 1..Len(chain)
  <2>1. devices[dev + 1] \in Device  BY <1>1 DEF ParamsType
  <2>2. QED  BY <2>1 DEF Device
<1>3. chain[pos] > 0  BY <1>2, LengthAssumption DEF ParamsType
<1>4. devices' = [devices EXCEPT ![dev + 1] = device]
  BY <1>1 DEF SetDeviceIRLength, ParamsType
<1>5. device.irlen > 0  BY <1>3
<1> HIDE DEF pos, device
<1>6. \A k \in 1..Len(devices') : devices[k].set' => devices[k].irlen' > 0
  BY <1>1, <1>4, <1>5 DEF NoEmptyShift, ParamsType
<1>7. Ahead' = Ahead
  BY CableStays DEF SetDeviceIRLength, hardware, cable
<1>8. /\ UNCHANGED <<current_state, pc, goal, lead, ret, back, op>> /\ pc = "idle"
  BY DEF SetDeviceIRLength, walk, reset
<1>9. QED
  BY <1>6, <1>7, <1>8
  DEF InStep, StagesInOrder, Resetting, LeavingIR, NothingBuffered, NoEmptyShift

(* Calls that shift at once.                                               *)
LEMMA ScansInStep ==
  ASSUME TypeInv, StepInv, NoClockMisuse,
         \/ \E n \in Lengths : CycleTCK(n)
         \/ \E length \in CallLengths : RawShift(length)
  PROVE  StepInv'
<1> USE DEF TypeInv, StepInv
<1>1. ASSUME NEW n \in Lengths, CycleTCK(n)
      PROVE  StepInv'
  <2>1. n \in Int  BY LengthAssumption
  <2>2. /\ pc = "idle" /\ current_state = "RUN_TEST_IDLE"
        /\ shift("tail", n, FALSE)
        /\ UNCHANGED <<tap, current_state, devices, pc, goal, lead, ret, back, op>>
    BY <1>1 DEF CycleTCK, NoClockMisuse, hardware, params, walk, reset
  <2>3. Ahead = "RUN_TEST_IDLE"  BY <2>2 DEF InStep, UNKNOWN
  <2>4. Ahead' = Block(Ahead, n, FALSE)  BY <2>1, <2>2, ShiftStep
  <2>5. Ahead' = "RUN_TEST_IDLE"  BY <2>3, <2>4, IdleBlock
  <2>6. QED
    BY <2>2, <2>5
    DEF InStep, StagesInOrder, Resetting, LeavingIR, NothingBuffered, NoEmptyShift
<1>2. ASSUME NEW length \in CallLengths, RawShift(length)
      PROVE  StepInv'
  <2>1. length \in Int /\ length # 0
    BY LengthAssumption DEF CallLengths, NoClockMisuse
  <2>2. /\ pc = "idle" /\ current_state \in ShiftStates
        /\ shiftTDITDO("load", length, TRUE) /\ nextTapState(TRUE, "idle")
        /\ UNCHANGED <<tap, devices, goal, lead, ret, op>>
    BY <1>2 DEF RawShift, hardware, params, walk, ShiftStates
  <2>3. Ahead = current_state  BY <2>2 DEF InStep, ShiftStates, UNKNOWN
  <2>4. Ahead' = Block(Ahead, length, TRUE)  BY <2>1, <2>2, ShiftStep
  <2>5. pc' = "idle" /\ UNCHANGED back  BY <2>2 DEF nextTapState, reset
  <2>6. Ahead' = current_state'
    <3>1. Block("SHIFT_DR", length, TRUE) = "EXIT1_DR"
          /\ Block("SHIFT_IR", length, TRUE) = "EXIT1_IR"
      BY <2>1, ShiftBlock
    <3>2. current_state' =
            IF current_state = "SHIFT_DR" THEN "EXIT1_DR" ELSE "EXIT1_IR"
      BY <2>2 DEF nextTapState
    <3>3. QED  BY <2>2, <2>3, <2>4, <3>1, <3>2 DEF ShiftStates
  <2>7. QED
    BY <2>2, <2>5, <2>6
    DEF InStep, StagesInOrder, Resetting, LeavingIR, NothingBuffered, NoEmptyShift
<1>3. QED  BY <1>1, <1>2

LEMMA CableInStep ==
  ASSUME TypeInv, StepInv, CableClock \/ UNCHANGED vars
  PROVE  StepInv'
<1> USE DEF TypeInv, StepInv
<1>1. Ahead' = Ahead
  BY CableClockStep, CableStays DEF vars, hardware, cable
<1>2. UNCHANGED <<current_state, devices, deviceIndex, pc, goal, lead, ret, cnt,
                  back, op>>
  BY DEF CableClock, vars, params, walk, reset
<1>3. NothingBuffered'
  BY DEF CableClock, vars, cable, NothingBuffered, CableOK
<1>4. PostIR' = PostIR  BY <1>2 DEF PostIR, IrBits
<1>5. QED
  BY <1>1, <1>2, <1>3, <1>4
  DEF InStep, StagesInOrder, Resetting, LeavingIR, NoEmptyShift

LEMMA StepInvInit == Init => StepInv
BY DEF Init, StepInv, InStep, StagesInOrder, Resetting, LeavingIR,
       NothingBuffered, NoEmptyShift

LEMMA StepInvStep ==
  TypeInv /\ StepInv /\ NoClockMisuse /\ [Next]_vars => StepInv'
<1> SUFFICES ASSUME TypeInv, StepInv, NoClockMisuse, [Next]_vars PROVE StepInv'
  OBVIOUS
<1>1. CASE Call
  BY <1>1, ChainInStep, SettersInStep, IRLengthInStep, ScansInStep DEF Call
<1>2. CASE Run
  BY <1>2, WalkInStep, ShiftDRInStep, ShiftIRInStep, ChainInStep, SettersInStep
  DEF Run
<1>3. CASE CableClock \/ UNCHANGED vars
  BY <1>3, CableInStep
<1>4. QED  BY <1>1, <1>2, <1>3 DEF Next

(* The shadow is in step with the hardware, whatever the chain, the buffer *)
(* and the calls, as long as callers neither shift nothing nor clock in    *)
(* TEST_LOGIC_RESET.                                                       *)
THEOREM ShadowInStep ==
  ASSUME NoClockMisuse
  PROVE  Spec => []InStep
<1>1. StepInv => InStep  BY DEF StepInv
<1>2. QED
  BY <1>1, TypeInit, TypeStep, StepInvInit, StepInvStep, PTL DEF Spec

(* When IOBase::Usleep has waited for the cable and sleeps, the hardware   *)
(* is in the state the program means to wait in.                           *)
THEOREM SleepIsInStep ==
  ASSUME NoClockMisuse
  PROVE  Spec => []SleepsInStep
<1>1. TypeInv /\ StepInv => SleepsInStep
  <2> SUFFICES ASSUME TypeInv, StepInv, pc = "sleep", sent = 0,
                      current_state # UNKNOWN
               PROVE  tap = current_state
    BY DEF SleepsInStep
  <2>1. Len(queue) = 0  BY DEF StepInv, NothingBuffered
  <2>2. queue = <<>>  BY <2>1 DEF TypeInv, CableOK
  <2>3. QED  BY <2>2 DEF StepInv, InStep, Ahead
<1>2. QED
  BY <1>1, TypeInit, TypeStep, StepInvInit, StepInvStep, PTL DEF Spec

------------------------------------------------------------------------------
(***************************************************************************)
(* Scans left open by shiftDR(..., exit = false).                          *)
(***************************************************************************)
LEMMA ScanInvInit == Init => ScanInv
BY DEF Init, ScanInv

LEMMA ScanInvStep ==
  TypeInv /\ StepInv /\ ScanInv /\ Misuse = {} /\ [Next]_vars => ScanInv'
<1> SUFFICES ASSUME TypeInv, StepInv, ScanInv, Misuse = {}, [Next]_vars
             PROVE  ScanInv'
  OBVIOUS
<1> USE DEF ScanInv
<1>1. CASE WalkHop \/ WalkUnknown \/ WalkUnknownBit \/ WalkLead \/ WalkArrive
           \/ ResetBit \/ ResetDone \/ ChainEnd
           \/ (\E stale \in StaleIrLengths : ChainWord(stale))
           \/ (\E detect \in BOOLEAN : GetChain(detect))
  <2>1. ~shiftDRincomplete /\ UNCHANGED <<shiftDRincomplete, deviceIndex>>
        /\ back' \in {"unknown", "goto", "idle"}
    BY <1>1
    DEF WalkHop, WalkUnknown, WalkUnknownBit, WalkLead, WalkArrive, ResetBit,
        ResetDone, ChainEnd, ChainWord, GetChain, Reset, ScanOpen, params, reset
  <2>2. pc' # "drTail"
    BY <1>1
    DEF WalkHop, WalkUnknown, WalkUnknownBit, WalkLead, WalkArrive, ResetBit,
        ResetDone, ChainEnd, ChainWord, GetChain, Reset, Walk, StepInv,
        StagesInOrder
  <2>3. pc' = "drData" => current_state' = "SHIFT_DR"
    <3>1. CASE WalkArrive  BY <3>1 DEF WalkArrive, StepInv, StagesInOrder
    <3>2. CASE ~WalkArrive
      <4>1. pc' # "drData"
        BY <1>1, <3>2
        DEF WalkHop, WalkUnknown, WalkUnknownBit, WalkLead, ResetBit,
            ResetDone, ChainEnd, ChainWord, GetChain, Reset, Walk
      <4>2. QED  BY <4>1
    <3>3. QED  BY <3>1, <3>2
  <2>4. QED  BY <2>1, <2>2, <2>3
<1>2. CASE DrData
  <2>1. /\ pc = "drData" /\ current_state = "SHIFT_DR"
        /\ nextTapState(deviceIndex = 0 /\ op.exit,
                        IF op.exit THEN "drTail" ELSE "idle")
        /\ deviceIndex' = deviceIndex
    BY <1>2 DEF DrData, params
  <2>2. /\ pc' = IF op.exit THEN "drTail" ELSE "idle"
        /\ (deviceIndex # 0 \/ ~op.exit) => current_state' = "SHIFT_DR"
        /\ back' = back
    BY <2>1 DEF nextTapState, ShiftStates, reset
  <2>3. QED  BY <2>1, <2>2
<1>3. CASE DrTail
  <2>1. /\ pc = "drTail" /\ deviceIndex' = deviceIndex
        /\ shiftDRincomplete' = shiftDRincomplete
        /\ pc' = "drDone" /\ back' = back
    BY <1>3 DEF DrTail, params, nextTapState, ShiftStates, reset
  <2>2. QED  BY <2>1
<1>4. CASE DrDone
  BY <1>4 DEF DrDone, Walk, reset
<1>5. CASE IrPre \/ IrData \/ IrPost \/ IrDone
  <2>1. /\ pc \in {"irPre", "irData", "irPost", "irDone"}
        /\ shiftDRincomplete' = shiftDRincomplete /\ ~shiftDRincomplete
    BY <1>5 DEF IrPre, IrData, IrPost, IrDone
  <2>2. pc' \in {"irData", "irPost", "irDone", "goto"} /\ back' = back
    BY <1>5
    DEF IrPre, IrData, IrPost, IrDone, Walk, reset, nextTapState, ShiftStates,
        StepInv, StagesInOrder
  <2>3. QED  BY <2>1, <2>2
<1>6. ASSUME NEW length \in CallLengths, NEW align \in Aligns,
             NEW exit \in BOOLEAN, ShiftDR(length, align, exit)
      PROVE  ScanInv'
  BY <1>6 DEF ShiftDR, Walk, reset
<1>7. CASE ShiftIR
  BY <1>7 DEF ShiftIR, Walk, reset, ScanOpen
<1>8. ASSUME NEW length \in CallLengths, RawShift(length)
      PROVE  ScanInv'
  BY <1>8 DEF RawShift, nextTapState, ShiftStates, reset, ScanOpen, params
<1>9. ASSUME NEW n \in Lengths, CycleTCK(n)
      PROVE  ScanInv'
  BY <1>9 DEF CycleTCK, reset, ScanOpen, params
<1>10. CASE \/ \E dev \in -1..MaxNumDevices : SelectDevice(dev)
            \/ \E dev \in 0..(MaxNumDevices - 1) : SetDeviceIRLength(dev)
            \/ \E dr \in PostDRStates, ir \in PostIRStates : SetPostStates(dr, ir)
            \/ \E g \in Goals : SetTapState(g)
            \/ TapTestLogicReset \/ Usleep \/ Wake
  <2>1. /\ pc \in {"idle", "sleep"} /\ pc' \in {"idle", "sleep", "goto", "reset"}
        /\ UNCHANGED <<current_state, shiftDRincomplete>>
        /\ back' \in {back, "idle"}
    BY <1>10
    DEF SelectDevice, SetDeviceIRLength, SetPostStates, SetTapState,
        TapTestLogicReset, Usleep, Wake, Walk, Reset, reset
  <2>2. pc' \in {"goto", "reset"} => pc = "idle" /\ ~ScanOpen
    BY <1>10
    DEF SelectDevice, SetDeviceIRLength, SetPostStates, SetTapState,
        TapTestLogicReset, Usleep, Wake
  <2>3. QED  BY <2>1, <2>2 DEF ScanOpen
<1>11. CASE CableClock \/ UNCHANGED vars
  BY <1>11 DEF CableClock, vars, params, reset
<1>12. QED
  BY <1>1, <1>2, <1>3, <1>4, <1>5, <1>6, <1>7, <1>8, <1>9, <1>10, <1>11
  DEF Next, Call, Run

(* While a scan is open the TAP waits in SHIFT_DR, so shiftDR may skip     *)
(* setTapState, for callers that finish every scan they open.              *)
THEOREM OpenScansContinue ==
  ASSUME Misuse = {}
  PROVE  Spec => []ScanStaysOpen
<1>1. NoClockMisuse  BY DEF NoClockMisuse
<1>2. ScanInv => ScanStaysOpen  BY DEF ScanInv, ScanStaysOpen
<1>3. QED
  BY <1>1, <1>2, TypeInit, TypeStep, StepInvInit, StepInvStep, ScanInvInit,
     ScanInvStep, PTL DEF Spec

(* For the same callers, nextTapState never meets a state it does not      *)
(* expect.                                                                 *)
THEOREM NextTapStateIsExpected ==
  ASSUME Misuse = {}
  PROVE  Spec => []NoUnexpectedState
<1>1. NoClockMisuse  BY DEF NoClockMisuse
<1>2. TypeInv /\ StepInv /\ ScanInv => NoUnexpectedState
  BY DEF StepInv, StagesInOrder, ScanInv, NoUnexpectedState, ShiftStates,
         TypeInv, ParamsType
<1>3. QED
  BY <1>1, <1>2, TypeInit, TypeStep, StepInvInit, StepInvStep, ScanInvInit,
     ScanInvStep, PTL DEF Spec

------------------------------------------------------------------------------
(***************************************************************************)
(* The data that Jtag moves: whatever the chain, the lengths and the       *)
(* interleaving with the cable, a finished scan has put exactly the        *)
(* caller's bits into the selected device.                                 *)
(*                                                                         *)
(* Up to here the shadow of the TAP is in step.  Now the bits clocked      *)
(* since the last CAPTURE_xR are followed through the stages of a scan:    *)
(* none while setTapState walks to SHIFT_xR, the leading bits next, then   *)
(* the caller's in one call or several, then the trailing ones.            *)
(***************************************************************************)

(***************************************************************************)
(* The list of devices getChain built.                                     *)
(***************************************************************************)

(* The devices found are the last ones of the chain, in its order; a set   *)
(* length is the device's own.                                             *)
DevicesInv ==
  /\ \A k \in 1..numDevices : devices[k].pos = Len(chain) - numDevices + k
  /\ \A k \in 1..Len(devices) :
       devices[k].set => devices[k].irlen = chain[devices[k].pos]

(***************************************************************************)
(* The bits of a scan.                                                     *)
(***************************************************************************)
Counts(pre, load, post) ==
  clocked["lead"] = pre /\ clocked["load"] = load /\ clocked["tail"] = post

(* The same of the next state, with counts read in this one.               *)
CountsNext(pre, load, post) ==
  clocked'["lead"] = pre /\ clocked'["load"] = load /\ clocked'["tail"] = post

(* setTapState is under way, or the reset it does in an unknown state.     *)
Walking == pc \in {"goto", "unknown"} \/ (pc = "reset" /\ back # "idle")

(* A data scan on its way to SHIFT_DR: outside every scan, or past the     *)
(* CAPTURE_DR that starts a new one, with the leading bits still to send.  *)
DrWalk ==
  /\ want.asked = op.length
  /\ \/ ~Midway /\ lead = PreDR(want.align)
     \/ /\ pc = "goto" /\ current_state = "CAPTURE_DR"
        /\ lead = PreDR(want.align) /\ Counts(0, 0, 0)
     \/ /\ pc = "goto" /\ current_state = "SHIFT_DR" /\ lead >= 0
        /\ Counts(PreDR(want.align) - lead, 0, 0)

DrStages == {"drData", "drTail", "drDone"}

(* A data scan exists: its stages, and between two calls that leave it     *)
(* open.                                                                   *)
InDr == \/ Walking /\ ret = "drData"
        \/ pc \in DrStages
        \/ pc \in {"idle", "sleep"} /\ shiftDRincomplete

DrInv ==
  want.kind = "dr" =>
    /\ InDr => deviceIndex >= 0
    /\ Walking /\ ret = "drData" => DrWalk
    /\ pc = "drData" => Counts(PreDR(want.align), want.asked - op.length, 0)
    /\ pc = "drTail" \/ (pc \in {"idle", "sleep"} /\ shiftDRincomplete) =>
         Counts(PreDR(want.align), want.asked, 0)
    /\ pc = "drDone" => Counts(PreDR(want.align), want.asked, deviceIndex)

IrWalk ==
  /\ lead = 0
  /\ \/ ~Midway
     \/ /\ pc = "goto" /\ current_state \in {"CAPTURE_IR", "SHIFT_IR"}
        /\ Counts(0, 0, 0)

IrStages == {"irPre", "irData", "irPost", "irDone"}

InIr == (Walking /\ ret = "irPre") \/ pc \in IrStages

IrInv ==
  want.kind = "ir" =>
    /\ InIr => deviceIndex >= 0 /\ op.length = devices[deviceIndex + 1].irlen
    /\ Walking /\ ret = "irPre" => IrWalk
    /\ pc = "irPre" => Counts(0, 0, 0)
    /\ pc = "irData" => Counts(PreIR, 0, 0)
    /\ pc = "irPost" => Counts(PreIR, op.length, 0)
    /\ pc = "irDone" => Counts(PreIR, op.length, PostIR)

(* After an instruction whose post state is EXIT1_IR: the TAP rests there, *)
(* or is on its way from there to the data scan, or in that scan.          *)
DirectInv ==
  /\ NoIdleBeforeData
  /\ pc = "irDone" => current_state = "EXIT1_IR"
  /\ erase = "direct" =>
       /\ pc \in {"idle", "sleep", "goto"} \cup DrStages
       /\ pc \in {"idle", "sleep"} =>
            shiftDRincomplete \/ current_state = "EXIT1_IR"
       /\ pc = "goto" =>
            \/ ret = "idle" /\ goal = "EXIT1_IR" /\ current_state = "EXIT1_IR"
            \/ /\ ret = "drData"
               /\ current_state \in {"EXIT1_IR", "UPDATE_IR", "SELECT_DR_SCAN",
                                     "CAPTURE_DR", "SHIFT_DR"}

ScanCountInv == DevicesInv /\ DrInv /\ IrInv /\ DirectInv

------------------------------------------------------------------------------
(***************************************************************************)
(* What a call of IOBase does to the history.                              *)
(***************************************************************************)

(* What the invariants of JtagProofs leave to use here.                    *)
StagesInv == TypeInv /\ StepInv /\ ScanInv

ErasePast(lands) ==
  IF erase = "direct" /\ lands = "RUN_TEST_IDLE" THEN "idled" ELSE erase

LEMMA SetTmsHistory ==
  ASSUME NEW part, NEW val \in BOOLEAN, set_tms(part, val)
  PROVE  /\ clocked' = Clocked(part, 1, Edge(Ahead, val))
         /\ erase' = ErasePast(Edge(Ahead, val))
BY OneEdge DEF set_tms, Issue, ErasePast

LEMMA ShiftHistory ==
  ASSUME NEW part, NEW n, NEW last,
         shiftTDITDO(part, n, last) \/ shift(part, n, last)
  PROVE  /\ n = 0 => UNCHANGED <<clocked, erase>>
         /\ n # 0 => /\ clocked' = Clocked(part, n, Block(Ahead, n, last))
                     /\ erase' = ErasePast(Block(Ahead, n, last))
BY DEF shiftTDITDO, shift, Issue, ErasePast

(* Bits clocked in SHIFT_xR are added to one count and spare the others.   *)
LEMMA CountLead ==
  ASSUME HistoryType, NEW a \in Int, NEW b \in Int, NEW c \in Int, NEW n \in Int,
         Counts(a, b, c), clocked' = [clocked EXCEPT !["lead"] = @ + n]
  PROVE  CountsNext(a + n, b, c)
BY DEF HistoryType, Counts, CountsNext, Parts

LEMMA CountLoad ==
  ASSUME HistoryType, NEW a \in Int, NEW b \in Int, NEW c \in Int, NEW n \in Int,
         Counts(a, b, c), clocked' = [clocked EXCEPT !["load"] = @ + n]
  PROVE  CountsNext(a, b + n, c)
BY DEF HistoryType, Counts, CountsNext, Parts

LEMMA CountTail ==
  ASSUME HistoryType, NEW a \in Int, NEW b \in Int, NEW c \in Int, NEW n \in Int,
         Counts(a, b, c), clocked' = [clocked EXCEPT !["tail"] = @ + n]
  PROVE  CountsNext(a, b, c + n)
BY DEF HistoryType, Counts, CountsNext, Parts

(* A shift in SHIFT_xR counts its bits.                                    *)
LEMMA ShiftCounts ==
  ASSUME HistoryType, NEW a \in Int, NEW b \in Int, NEW c \in Int,
         NEW part \in Parts, NEW n \in Int, NEW last,
         shiftTDITDO(part, n, last) \/ shift(part, n, last),
         n # 0 => Ahead \in ShiftStates,
         Counts(a, b, c)
  PROVE  /\ part = "lead" => CountsNext(a + n, b, c)
         /\ part = "load" => CountsNext(a, b + n, c)
         /\ part = "tail" => CountsNext(a, b, c + n)
<1>1. CASE n = 0
  <2>1. clocked' = clocked  BY <1>1, ShiftHistory
  <2>2. CountsNext(a, b, c)  BY <2>1 DEF Counts, CountsNext
  <2>3. a + n = a /\ b + n = b /\ c + n = c  BY <1>1
  <2>4. QED  BY <2>2, <2>3
<1>2. CASE n # 0
  <2>1. clocked' = [clocked EXCEPT ![part] = @ + n]
    BY <1>2, ShiftHistory DEF Clocked
  <2>2. QED  BY <2>1, CountLead, CountLoad, CountTail
<1>3. QED  BY <1>1, <1>2

(* The ways into SHIFT_DR and SHIFT_IR from outside a scan pass CAPTURE_DR *)
(* and CAPTURE_IR, and no other state of a scan.                           *)
Outside == {"TEST_LOGIC_RESET", "RUN_TEST_IDLE", "SELECT_DR_SCAN", "UPDATE_DR",
            "SELECT_IR_SCAN", "UPDATE_IR"}

LEMMA OutsideIsOutside ==
  ASSUME current_state \in TapStates
  PROVE  current_state \in Outside <=> ~Midway
BY DEF TapStates, Midway, Outside

LEMMA HopsToScan ==
  /\ \A s \in Outside : /\ Hop(s, "SHIFT_DR").to \in Outside \cup {"CAPTURE_DR"}
                        /\ Hop(s, "SHIFT_IR").to \in Outside \cup {"CAPTURE_IR"}
  /\ Hop("CAPTURE_DR", "SHIFT_DR").to = "SHIFT_DR"
  /\ Hop("CAPTURE_IR", "SHIFT_IR").to = "SHIFT_IR"
BY DEF Outside, Hop, Arms, Arm, TapStates

(* From EXIT1_IR the way to SHIFT_DR spares Run-Test/Idle.                 *)
LEMMA HopsFromExit1 ==
  ASSUME NEW s \in {"EXIT1_IR", "UPDATE_IR", "SELECT_DR_SCAN", "CAPTURE_DR"}
  PROVE  Hop(s, "SHIFT_DR").to \in {"UPDATE_IR", "SELECT_DR_SCAN", "CAPTURE_DR",
                                    "SHIFT_DR"}
BY DEF Hop, Arms, Arm

(* One turn of setTapState's loop: shadow, TAP and history move together.  *)
LEMMA WalkHopMoves ==
  ASSUME TypeInv, StepInv, WalkHop
  PROVE  /\ pc = "goto" /\ current_state \in TapStates /\ current_state # goal
         /\ current_state' = Hop(current_state, goal).to
         /\ current_state \notin ShiftStates =>
              clocked' = IF current_state' \in CaptureStates THEN NoClock
                         ELSE clocked
         /\ erase' = ErasePast(current_state')
<1> DEFINE hop == Hop(current_state, goal)
<1>1. pc = "goto" /\ current_state \in TapStates /\ goal \in TapStates
      /\ current_state # goal /\ current_state # UNKNOWN
  BY DEF WalkHop, TypeInv, WalkType
<1>2. hop.tms \in BOOLEAN /\ hop.to = Edge(current_state, hop.tms)
  BY <1>1, HopIsEdge
<1>3. set_tms("tail", hop.tms) /\ current_state' = hop.to
  BY DEF WalkHop
<1>4. Ahead = current_state  BY <1>1 DEF StepInv, InStep
<1>5. clocked' = Clocked("tail", 1, hop.to) /\ erase' = ErasePast(hop.to)
  BY <1>2, <1>3, <1>4, SetTmsHistory
<1>6. QED  BY <1>1, <1>3, <1>4, <1>5 DEF Clocked

------------------------------------------------------------------------------
(***************************************************************************)
(* The list of devices.                                                    *)
(***************************************************************************)
LEMMA DevicesInvStep ==
  TypeInv /\ DevicesInv /\ [Next]_vars => DevicesInv'
<1> SUFFICES ASSUME TypeInv, DevicesInv, [Next]_vars PROVE DevicesInv'
  OBVIOUS
<1> USE DEF DevicesInv
<1>1. ASSUME NEW detect \in BOOLEAN, GetChain(detect)
      PROVE  DevicesInv'
  BY <1>1 DEF GetChain, hardware
<1>2. ASSUME NEW stale \in StaleIrLengths, ChainWord(stale)
      PROVE  DevicesInv'
  <2> DEFINE word == [pos |-> Len(chain) - numDevices, irlen |-> stale,
                      set |-> FALSE]
  <2>1. /\ numDevices' = numDevices + 1 /\ chain' = chain
        /\ devices' = <<word>> \o devices /\ pc = "chain"
    BY <1>2 DEF ChainWord, hardware
  <2>2. numDevices \in Nat /\ numDevices <= Len(devices) /\ Len(devices) \in Nat
    BY <2>1 DEF TypeInv, ParamsType
  <2>3. stale \in 0..MaxIrLength  BY LengthAssumption
  <2>4. Len(chain) - numDevices \in 1..Len(chain)
    BY <1>2, <2>2 DEF ChainWord, TypeInv, ParamsType
  <2>5. word \in Device  BY <2>3, <2>4 DEF Device
  <2>6. word.pos = Len(chain) - numDevices /\ ~word.set  OBVIOUS
  <2> HIDE DEF word
  <2>7. <<word>> \in Seq(Device) /\ Len(<<word>>) = 1 /\ <<word>>[1] = word
    BY <2>5
  <2>8. /\ Len(devices') = Len(devices) + 1
        /\ devices'[1] = word
        /\ \A k \in 2..Len(devices') : devices'[k] = devices[k - 1]
    BY <2>1, <2>2, <2>7 DEF TypeInv, ParamsType
  <2>9. ASSUME NEW k \in 1..numDevices'
        PROVE  devices'[k].pos = Len(chain) - numDevices' + k
    <3>1. CASE k = 1  BY <3>1, <2>1, <2>2, <2>4, <2>6, <2>8
    <3>2. CASE k # 1
      <4>1. k - 1 \in 1..numDevices /\ k \in 2..Len(devices')
        BY <3>2, <2>1, <2>2, <2>8
      <4>2. devices[k - 1].pos = Len(chain) - numDevices + (k - 1)
        BY <4>1
      <4>3. Len(chain) \in Nat  BY DEF TypeInv, ParamsType
      <4>4. QED  BY <4>1, <4>2, <4>3, <2>1, <2>2, <2>8
    <3>3. QED  BY <3>1, <3>2
  <2>10. ASSUME NEW k \in 1..Len(devices'), devices'[k].set
         PROVE  devices'[k].irlen = chain[devices'[k].pos]
    <3>1. k # 1  BY <2>6, <2>8, <2>10
    <3>2. k - 1 \in 1..Len(devices) /\ k \in 2..Len(devices')
      BY <3>1, <2>2, <2>8
    <3>3. QED  BY <3>2, <2>8, <2>10
  <2>11. QED  BY <2>1, <2>9, <2>10
<1>3. ASSUME NEW dev \in 0..(MaxNumDevices - 1), SetDeviceIRLength(dev)
      PROVE  DevicesInv'
  <2> DEFINE pos    == devices[dev + 1].pos
             device == [pos |-> pos, irlen |-> chain[pos], set |-> TRUE]
  <2>1. dev + 1 \in 1..Len(devices)
    BY <1>3, MaxNumDevicesAssumption DEF SetDeviceIRLength, TypeInv, ParamsType
  <2>2. /\ devices' = [devices EXCEPT ![dev + 1] = device]
        /\ numDevices' = numDevices /\ chain' = chain
    BY <1>3, <2>1 DEF SetDeviceIRLength, hardware, TypeInv, ParamsType
  <2>3. device.pos = devices[dev + 1].pos /\ device.irlen = chain[device.pos]
    OBVIOUS
  <2> HIDE DEF pos, device
  <2>4. /\ Len(devices') = Len(devices)
        /\ \A k \in 1..Len(devices) :
             devices'[k] = IF k = dev + 1 THEN device ELSE devices[k]
    BY <2>1, <2>2 DEF TypeInv, ParamsType
  <2>5. numDevices <= Len(devices) /\ numDevices \in Int /\ Len(devices) \in Nat
    BY DEF TypeInv, ParamsType
  <2>6. \A k \in 1..Len(devices) : devices'[k].pos = devices[k].pos
    BY <2>3, <2>4
  <2>7. \A k \in 1..numDevices : k \in 1..Len(devices)  BY <2>5
  <2>8. \A k \in 1..Len(devices) :
          devices'[k].set => devices'[k].irlen = chain[devices'[k].pos]
    BY <2>3, <2>4
  <2>9. QED  BY <2>2, <2>4, <2>6, <2>7, <2>8
<1>4. CASE UNCHANGED <<chain, devices, numDevices>>
  BY <1>4
<1>5. CASE Call
  <2>1. \/ \E detect \in BOOLEAN : GetChain(detect)
        \/ \E dev \in 0..(MaxNumDevices - 1) : SetDeviceIRLength(dev)
        \/ UNCHANGED <<chain, devices, numDevices>>
    BY <1>5
    DEF Call, SelectDevice, SetPostStates, SetTapState, ShiftDR, ShiftIR,
        CycleTCK, RawShift, TapTestLogicReset, Usleep, hardware, params
  <2>2. QED  BY <2>1, <1>1, <1>3, <1>4
<1>6. CASE Run
  <2>1. \/ \E stale \in StaleIrLengths : ChainWord(stale)
        \/ UNCHANGED <<chain, devices, numDevices>>
    BY <1>6
    DEF Run, WalkHop, WalkUnknown, WalkUnknownBit, WalkLead, WalkArrive,
        ResetBit, ResetDone, DrData, DrTail, DrDone, IrPre, IrData, IrPost,
        IrDone, ChainEnd, Wake, hardware, params
  <2>2. QED  BY <2>1, <1>2, <1>4
<1>7. CASE CableClock \/ UNCHANGED vars
  BY <1>4, <1>7 DEF CableClock, vars, hardware, params
<1>8. QED  BY <1>5, <1>6, <1>7 DEF Next

------------------------------------------------------------------------------
(***************************************************************************)
(* Data scans.                                                             *)
(***************************************************************************)

(* The leading bits depend only on who is selected.                        *)
LEMMA PreDRStays ==
  ASSUME UNCHANGED <<numDevices, deviceIndex, want>>
  PROVE  PreDR(want.align)' = PreDR(want.align)
BY DEF PreDR

LEMMA PreDRType ==
  ASSUME TypeInv
  PROVE  PreDR(want.align) \in Int
BY PreAndPostType DEF TypeInv, OpType

(* A step that leaves the scan where it is.                                *)
LEMMA DrStays ==
  ASSUME DrInv,
         UNCHANGED <<numDevices, deviceIndex, want, clocked, op, lead, ret,
                     current_state, shiftDRincomplete>>,
         \/ UNCHANGED <<pc, back>>
         \/ UNCHANGED back /\ pc \in {"idle", "sleep"} /\ pc' \in {"idle", "sleep"}
  PROVE  DrInv'
<1>1. PreDR(want.align)' = PreDR(want.align)  BY PreDRStays
<1>2. \A a, b, c : Counts(a, b, c)' = Counts(a, b, c)  BY DEF Counts
<1>3. InDr' <=> InDr  BY DEF InDr, Walking, DrStages
<1>4. Walking' <=> Walking  BY DEF Walking
<1>5. DrWalk' <=> DrWalk
  BY <1>1 DEF DrWalk, Midway, Counts
<1>6. QED
  BY <1>1, <1>3, <1>4, <1>5 DEF DrInv, Counts

(* The stages of setTapState and of the reset in it.                       *)
LEMMA DrWalks ==
  ASSUME StagesInv, DrInv,
         \/ WalkHop \/ WalkUnknown \/ WalkUnknownBit \/ WalkLead \/ WalkArrive
         \/ ResetBit \/ ResetDone
  PROVE  DrInv'
<1> USE DEF StagesInv
<1> SUFFICES ASSUME want'.kind = "dr"
             PROVE  DrInv'
  BY DEF DrInv
<1>1. /\ UNCHANGED <<numDevices, deviceIndex, want, op, ret, goal,
                     shiftDRincomplete>>
      /\ pc \in {"goto", "reset", "unknown"}
      /\ ~shiftDRincomplete /\ back \in {"unknown", "goto", "idle"}
  BY DEF WalkHop, WalkUnknown, WalkUnknownBit, WalkLead, WalkArrive, ResetBit,
         ResetDone, params, walk, history, ScanInv
<1>2. PreDR(want.align)' = PreDR(want.align) /\ PreDR(want.align) \in Int
  BY <1>1, PreDRStays, PreDRType
<1> DEFINE pre == PreDR(want.align)
<1> HIDE DEF pre
<1>3. CASE ~(Walking /\ ret = "drData")
  <2>1. pc' \notin DrStages
    BY <1>1, <1>3
    DEF WalkHop, WalkUnknown, WalkUnknownBit, WalkLead, WalkArrive, ResetBit,
        ResetDone, Reset, Walking, DrStages, StepInv, StagesInOrder, ScanInv
  <2>2. ~(Walking' /\ ret' = "drData")
    BY <1>1, <1>3
    DEF WalkHop, WalkUnknown, WalkUnknownBit, WalkLead, WalkArrive, ResetBit,
        ResetDone, Reset, Walking, walk, reset
  <2>3. QED  BY <1>1, <2>1, <2>2 DEF DrInv, DrStages, InDr
<1>4. CASE Walking /\ ret = "drData"
  <2>1. DrWalk /\ deviceIndex >= 0 /\ goal = "SHIFT_DR"
    BY <1>1, <1>4 DEF DrInv, InDr, StepInv, StagesInOrder
  <2>2. want'.asked = op'.length
    BY <1>1, <2>1 DEF DrWalk
  <2>3. CASE ~WalkArrive
    <3>1. pc' \in {"goto", "unknown", "reset"}
      BY <1>1, <1>4, <2>3
      DEF WalkHop, WalkUnknown, WalkUnknownBit, WalkLead, ResetBit, ResetDone,
          Reset, Walking
    <3>2. SUFFICES DrWalk'
      BY <1>1, <2>1, <3>1 DEF DrInv, DrStages, InDr
    <3>3. CASE WalkHop
      <4>1. /\ pc = "goto" /\ current_state \in TapStates
            /\ current_state # "SHIFT_DR"
            /\ current_state' = Hop(current_state, "SHIFT_DR").to
            /\ current_state \notin ShiftStates =>
                 clocked' = IF current_state' \in CaptureStates THEN NoClock
                            ELSE clocked
            /\ UNCHANGED <<pc, lead>>
        BY <2>1, <3>3, WalkHopMoves DEF WalkHop, walk
      <4>2. CASE ~Midway /\ lead = PreDR(want.align)
        <5>1. current_state \in Outside  BY <4>1, <4>2, OutsideIsOutside
        <5>2. current_state' \in Outside \cup {"CAPTURE_DR"}
          BY <4>1, <5>1, HopsToScan
        <5>3. current_state \notin ShiftStates  BY <5>1 DEF Outside, ShiftStates
        <5>4. CASE current_state' \in Outside
          <6>1. ~Midway'  BY <5>4 DEF Outside, Midway
          <6>2. QED  BY <1>1, <1>2, <2>2, <4>1, <4>2, <6>1 DEF DrWalk
        <5>5. CASE current_state' = "CAPTURE_DR"
          <6>1. clocked' = NoClock  BY <4>1, <5>3, <5>5 DEF CaptureStates
          <6>2. Counts(0, 0, 0)'  BY <6>1 DEF Counts, NoClock, Parts
          <6>3. QED  BY <1>1, <1>2, <2>2, <4>1, <4>2, <5>5, <6>2 DEF DrWalk
        <5>6. QED  BY <5>2, <5>4, <5>5
      <4>3. CASE /\ current_state = "CAPTURE_DR" /\ lead = PreDR(want.align)
                 /\ Counts(0, 0, 0)
        <5>1. current_state' = "SHIFT_DR"  BY <4>1, <4>3, HopsToScan
        <5>2. clocked' = clocked
          BY <4>1, <4>3, <5>1 DEF ShiftStates, CaptureStates
        <5>3. Counts(0, 0, 0)'  BY <4>3, <5>2 DEF Counts
        <5>4. lead' = PreDR(want.align)' /\ PreDR(want.align)' - lead' = 0
          BY <1>2, <4>1, <4>3
        <5>5. lead >= 0
          <6>1. PreDR(want.align) >= 0
            <7>1. want.align \in Nat /\ numDevices \in Int /\ deviceIndex \in Int
                  /\ deviceIndex <= numDevices - 1
              BY <2>1 DEF TypeInv, OpType, ParamsType
            <7>2. CASE want.align = 0  BY <7>1, <7>2 DEF PreDR
            <7>3. CASE want.align # 0
              <8>1. deviceIndex % want.align \in 0..(want.align - 1)
                BY <7>1, <7>3
              <8>2. QED  BY <7>1, <7>3, <8>1 DEF PreDR
            <7>4. QED  BY <7>2, <7>3
          <6>2. QED  BY <4>3, <6>1
        <5>6. QED  BY <2>2, <4>1, <5>1, <5>3, <5>4, <5>5 DEF DrWalk
      <4>4. QED  BY <2>1, <4>1, <4>2, <4>3 DEF DrWalk
    <3>4. CASE WalkUnknown
      <4>1. ~Midway' /\ ~Midway /\ lead' = lead /\ current_state # "SHIFT_DR"
        BY <3>4 DEF WalkUnknown, Midway, UNKNOWN, walk
      <4>2. lead = PreDR(want.align)
        BY <2>1, <4>1, <3>4 DEF DrWalk, WalkUnknown, UNKNOWN
      <4>3. QED  BY <1>1, <1>2, <2>2, <4>1, <4>2 DEF DrWalk
    <3>5. CASE WalkUnknownBit \/ ResetBit \/ ResetDone
      <4>1. pc # "goto" /\ lead' = lead
        BY <3>5 DEF WalkUnknownBit, ResetBit, ResetDone, walk
      <4>2. ~Midway /\ lead = PreDR(want.align)
        BY <2>1, <4>1 DEF DrWalk
      <4>3. current_state' \in {current_state, "TEST_LOGIC_RESET"}
        BY <3>5 DEF WalkUnknownBit, ResetBit, ResetDone
      <4>4. ~Midway'  BY <4>2, <4>3 DEF Midway
      <4>5. QED  BY <1>1, <1>2, <2>2, <4>1, <4>2, <4>4 DEF DrWalk
    <3>6. CASE WalkLead
      <4>1. /\ current_state = "SHIFT_DR" /\ lead > 0 /\ lead' = lead - 1
            /\ pc = "goto" /\ pc' = "goto" /\ current_state' = current_state
            /\ set_tms("lead", FALSE)
        BY <2>1, <3>6 DEF WalkLead
      <4>2. Counts(PreDR(want.align) - lead, 0, 0)
        BY <2>1, <4>1 DEF DrWalk, Midway
      <4>3. Ahead = "SHIFT_DR"  BY <4>1 DEF StepInv, InStep, UNKNOWN
      <4>4. clocked' = [clocked EXCEPT !["lead"] = @ + 1]
        <5>1. clocked' = Clocked("lead", 1, Edge(Ahead, FALSE))
          BY <4>1, SetTmsHistory
        <5>2. QED  BY <4>3, <5>1 DEF Clocked, ShiftStates
      <4>5. lead \in Int /\ PreDR(want.align) - lead \in Int
        BY <1>2 DEF TypeInv, WalkType
      <4>6. CountsNext((PreDR(want.align) - lead) + 1, 0, 0)
        <5>1. HistoryType  BY DEF TypeInv
        <5> DEFINE sofar == PreDR(want.align) - lead
        <5>2. sofar \in Int /\ Counts(sofar, 0, 0)  BY <4>2, <4>5
        <5> HIDE DEF sofar
        <5>3. CountsNext(sofar + 1, 0, 0)  
          BY <4>4, <5>1, <5>2 DEF Counts, CountsNext, HistoryType, Parts
        <5>4. QED  BY <5>3 DEF sofar
      <4>7. (PreDR(want.align) - lead) + 1 = PreDR(want.align)' - lead'
            /\ lead' >= 0
        BY <1>2, <4>1, <4>5
      <4>8. QED
        BY <2>2, <4>1, <4>6, <4>7 DEF DrWalk, Counts, CountsNext
    <3>7. QED  BY <2>3, <3>3, <3>4, <3>5, <3>6
  <2>4. CASE WalkArrive
    <3>1. /\ current_state = "SHIFT_DR" /\ lead = 0 /\ pc = "goto" /\ pc' = "drData"
          /\ clocked' = clocked
      BY <1>4, <2>1, <2>4 DEF WalkArrive, history
    <3>2. Counts(PreDR(want.align) - lead, 0, 0)
      BY <2>1, <3>1 DEF DrWalk, Midway
    <3>3. PreDR(want.align) - lead = PreDR(want.align)'
          /\ want'.asked - op'.length = 0
      BY <1>1, <1>2, <2>2, <3>1 DEF TypeInv, OpType
    <3>4. Counts(PreDR(want.align), want.asked - op.length, 0)'
      BY <3>1, <3>2, <3>3 DEF Counts
    <3>5. QED
      BY <1>1, <2>1, <3>1, <3>4 DEF DrInv, DrStages, InDr, Walking
  <2>5. QED  BY <2>3, <2>4
<1>5. QED  BY <1>3, <1>4

(* The shifts of shiftDR itself.                                           *)
LEMMA DrShifts ==
  ASSUME StagesInv, DrInv, DrData \/ DrTail \/ DrDone
  PROVE  DrInv'
<1> USE DEF StagesInv
<1> SUFFICES ASSUME want'.kind = "dr"
             PROVE  DrInv'
  BY DEF DrInv
<1>1. /\ UNCHANGED <<numDevices, deviceIndex, want, op>>
      /\ pc \in DrStages
  BY DEF DrData, DrTail, DrDone, params, DrStages
<1>2. PreDR(want.align)' = PreDR(want.align) /\ PreDR(want.align) \in Int
  BY <1>1, PreDRStays, PreDRType
<1>3. /\ deviceIndex >= 0 /\ deviceIndex \in Int
      /\ want.asked \in Nat /\ op.length \in Nat /\ op.exit \in BOOLEAN
      /\ HistoryType /\ "load" \in Parts /\ "tail" \in Parts
  BY <1>1 DEF DrInv, InDr, TypeInv, OpType, ParamsType, Parts
<1>4. CASE DrData
  <2> DEFINE last == deviceIndex = 0 /\ op.exit
  <2>1. /\ pc = "drData" /\ current_state = "SHIFT_DR" /\ op.length > 0
        /\ shiftTDITDO("load", op.length, last)
        /\ nextTapState(last, IF op.exit THEN "drTail" ELSE "idle")
        /\ shiftDRincomplete' = (shiftDRincomplete \/ ~op.exit)
    BY <1>4 DEF DrData, ScanInv, StepInv, NoEmptyShift
  <2>2. Ahead \in ShiftStates
    BY <2>1 DEF StepInv, InStep, UNKNOWN, ShiftStates
  <2>3. Counts(PreDR(want.align), want.asked - op.length, 0)
    BY <1>1, <2>1 DEF DrInv
  <2> DEFINE sofar == want.asked - op.length
  <2>3a. sofar \in Int /\ Counts(PreDR(want.align), sofar, 0)
    BY <1>3, <2>3
  <2> HIDE DEF sofar, last
  <2>4. CountsNext(PreDR(want.align), sofar + op.length, 0)
    BY <1>2, <1>3, <2>1, <2>2, <2>3a, ShiftCounts
  <2>5. Counts(PreDR(want.align), want.asked, 0)'
    <3>1. sofar + op.length = want'.asked  BY <1>1, <1>3 DEF sofar
    <3>2. QED  BY <1>2, <2>4, <3>1 DEF Counts, CountsNext
  <2>6. pc' = IF op.exit THEN "drTail" ELSE "idle"
    BY <2>1 DEF nextTapState, ShiftStates
  <2>7. QED
    BY <1>1, <1>3, <2>5, <2>6 DEF DrInv, Walking, DrStages, InDr
<1>5. CASE DrTail
  <2>1. /\ pc = "drTail" /\ shift("tail", deviceIndex, TRUE)
        /\ deviceIndex # 0 => current_state = "SHIFT_DR"
        /\ pc' = "drDone"
    BY <1>5 DEF DrTail, ScanInv, nextTapState, ShiftStates
  <2>2. deviceIndex # 0 => Ahead \in ShiftStates
    BY <2>1 DEF StepInv, InStep, UNKNOWN, ShiftStates
  <2>3. Counts(PreDR(want.align), want.asked, 0)
    BY <1>1, <2>1 DEF DrInv
  <2> DEFINE pre == PreDR(want.align)
             asked == want.asked
  <2>3a. pre \in Int /\ asked \in Int /\ 0 \in Int /\ Counts(pre, asked, 0)
    BY <1>2, <1>3, <2>3
  <2> HIDE DEF pre, asked
  <2>4. CountsNext(pre, asked, 0 + deviceIndex)
    BY <1>3, <2>1, <2>2, <2>3a, ShiftCounts
  <2>5. Counts(PreDR(want.align), want.asked, deviceIndex)'
    <3>1. 0 + deviceIndex = deviceIndex'  BY <1>1, <1>3
    <3>2. QED  BY <1>1, <1>2, <2>4, <3>1 DEF Counts, CountsNext, pre, asked
  <2>6. QED
    BY <1>1, <1>3, <2>1, <2>5 DEF DrInv, Walking, DrStages, InDr
<1>6. CASE DrDone
  <2>1. pc' = "goto" /\ ret' = "idle"  BY <1>6 DEF DrDone, Walk
  <2>2. QED  BY <2>1 DEF DrInv, Walking, DrStages, InDr
<1>7. QED  BY <1>4, <1>5, <1>6

(* The call that starts a scan or continues it.                            *)
LEMMA DrStarts ==
  ASSUME StagesInv, DrInv, NEW length \in CallLengths, NEW align \in Aligns,
         NEW exit \in BOOLEAN, ShiftDR(length, align, exit)
  PROVE  DrInv'
<1> USE DEF StagesInv
<1> SUFFICES ASSUME want'.kind = "dr"
             PROVE  DrInv'
  BY DEF DrInv
<1>1. /\ pc = "idle" /\ deviceIndex >= 0
      /\ op' = [length |-> length, exit |-> exit]
      /\ UNCHANGED <<current_state, numDevices, deviceIndex, clocked, shiftDRincomplete>>
  BY DEF ShiftDR, params
<1>2. length \in Nat /\ op'.length = length
  BY <1>1, CallLengthsType
<1>3. CASE shiftDRincomplete
  <2>1. pc' = "drData" /\ want' = [want EXCEPT !.asked = @ + length]
    BY <1>3 DEF ShiftDR
  <2>2. /\ want'.asked = want.asked + length /\ want'.align = want.align
        /\ want'.kind = want.kind /\ want.asked \in Nat
    BY <2>1 DEF TypeInv, OpType
  <2>3. PreDR(want.align)' = PreDR(want.align)
    BY <1>1, <2>2 DEF PreDR
  <2>4. Counts(PreDR(want.align), want.asked, 0)
    BY <1>1, <1>3, <2>2 DEF DrInv
  <2>5. want'.asked - op'.length = want.asked  BY <1>2, <2>2
  <2>6. Counts(PreDR(want.align), want.asked - op.length, 0)'
    BY <1>1, <2>3, <2>4, <2>5 DEF Counts
  <2>7. QED  BY <1>1, <2>1, <2>6 DEF DrInv, Walking, DrStages, InDr
<1>4. CASE ~shiftDRincomplete
  <2>1. /\ pc' = "goto" /\ lead' = PreDR(align) /\ ret' = "drData"
        /\ want' = [kind |-> IF Midway THEN "none" ELSE "dr",
                    asked |-> length, align |-> align]
    BY <1>4 DEF ShiftDR, Walk
  <2>2. ~Midway /\ want'.align = align /\ want'.asked = length  BY <2>1
  <2>3. ~Midway'  BY <1>1, <2>2 DEF Midway
  <2>4. lead' = PreDR(want.align)'  BY <1>1, <2>1, <2>2 DEF PreDR
  <2>5. DrWalk'  BY <1>2, <2>2, <2>3, <2>4 DEF DrWalk
  <2>6. QED  BY <1>1, <2>1, <2>5 DEF DrInv, Walking, DrStages, InDr
<1>5. QED  BY <1>3, <1>4

LEMMA DrInvInit == Init => DrInv
BY DEF Init, DrInv, NoWant

LEMMA DrInvStep ==
  StagesInv /\ Misuse = {} /\ DrInv /\ [Next]_vars => DrInv'
<1> SUFFICES ASSUME StagesInv, Misuse = {}, DrInv, [Next]_vars
             PROVE  DrInv'
  OBVIOUS
<1>1. CASE \/ WalkHop \/ WalkUnknown \/ WalkUnknownBit \/ WalkLead \/ WalkArrive
           \/ ResetBit \/ ResetDone
  BY <1>1, DrWalks
<1>2. CASE DrData \/ DrTail \/ DrDone
  BY <1>2, DrShifts
<1>3. ASSUME NEW length \in CallLengths, NEW align \in Aligns,
             NEW exit \in BOOLEAN, ShiftDR(length, align, exit)
      PROVE  DrInv'
  BY <1>3, DrStarts
<1>4. CASE \/ IrPre \/ IrData \/ IrPost \/ IrDone \/ ChainEnd
           \/ \E stale \in StaleIrLengths : ChainWord(stale)
  <2>1. /\ ~(pc' = "goto" /\ ret' = "drData")
        /\ pc' \in {"irData", "irPost", "irDone", "chain", "goto"}
    BY <1>4
    DEF IrPre, IrData, IrPost, IrDone, ChainEnd, ChainWord, Walk, walk,
        nextTapState, ShiftStates, StagesInv, StepInv, StagesInOrder
  <2>2. QED  BY <2>1 DEF DrInv, Walking, DrStages, InDr
<1>5. CASE \/ \E detect \in BOOLEAN : GetChain(detect)
           \/ \E dev \in -1..MaxNumDevices : SelectDevice(dev)
           \/ \E g \in Goals : SetTapState(g)
           \/ ShiftIR
           \/ \E n \in Lengths : CycleTCK(n)
           \/ \E length \in CallLengths : RawShift(length)
           \/ TapTestLogicReset
  <2>1. \/ want' = NoWant
        \/ want' = [kind |-> IF Midway THEN "none" ELSE "ir",
                    asked |-> devices[deviceIndex + 1].irlen, align |-> 0]
    BY <1>5
    DEF GetChain, SelectDevice, SetTapState, ShiftIR, CycleTCK, RawShift,
        TapTestLogicReset
  <2>2. want'.kind # "dr"  BY <2>1 DEF NoWant
  <2>3. QED  BY <2>2 DEF DrInv
<1>6. CASE \/ \E dev \in 0..(MaxNumDevices - 1) : SetDeviceIRLength(dev)
           \/ \E dr \in PostDRStates, ir \in PostIRStates : SetPostStates(dr, ir)
           \/ Usleep \/ Wake \/ CableClock \/ UNCHANGED vars
  <2>1. /\ UNCHANGED <<numDevices, deviceIndex, want, clocked, op, lead, ret,
                       current_state, shiftDRincomplete, back>>
        /\ UNCHANGED pc \/ (pc \in {"idle", "sleep"} /\ pc' \in {"idle", "sleep"})
    BY <1>6
    DEF SetDeviceIRLength, SetPostStates, Usleep, Wake, CableClock, vars, params,
        walk, reset, history
  <2>2. QED  BY <2>1, DrStays
<1>7. QED
  BY <1>1, <1>2, <1>3, <1>4, <1>5, <1>6 DEF Next, Call, Run

------------------------------------------------------------------------------
(***************************************************************************)
(* Instruction scans.                                                      *)
(***************************************************************************)
LEMMA IrBitsStay ==
  ASSUME UNCHANGED <<numDevices, deviceIndex, devices>>
  PROVE  PreIR' = PreIR /\ PostIR' = PostIR
BY DEF PreIR, PostIR, IrBits

(* The stages of setTapState and of the reset in it.                       *)
LEMMA IrWalks ==
  ASSUME StagesInv, IrInv,
         \/ WalkHop \/ WalkUnknown \/ WalkUnknownBit \/ WalkLead \/ WalkArrive
         \/ ResetBit \/ ResetDone
  PROVE  IrInv'
<1> USE DEF StagesInv
<1> SUFFICES ASSUME want'.kind = "ir"
             PROVE  IrInv'
  BY DEF IrInv
<1>1. /\ UNCHANGED <<numDevices, deviceIndex, devices, want, op, ret, goal>>
      /\ pc \in {"goto", "reset", "unknown"}
      /\ back \in {"unknown", "goto", "idle"}
  BY DEF WalkHop, WalkUnknown, WalkUnknownBit, WalkLead, WalkArrive, ResetBit,
         ResetDone, params, walk, history, ScanInv
<1>2. CASE ~(Walking /\ ret = "irPre")
  <2>1. pc' \notin IrStages
    BY <1>1, <1>2
    DEF WalkHop, WalkUnknown, WalkUnknownBit, WalkLead, WalkArrive, ResetBit,
        ResetDone, Reset, Walking, IrStages, StepInv, StagesInOrder
  <2>2. ~(Walking' /\ ret' = "irPre")
    BY <1>1, <1>2
    DEF WalkHop, WalkUnknown, WalkUnknownBit, WalkLead, WalkArrive, ResetBit,
        ResetDone, Reset, Walking, walk, reset
  <2>3. QED  BY <2>1, <2>2 DEF IrInv, IrStages, InIr
<1>3. CASE Walking /\ ret = "irPre"
  <2>1. /\ IrWalk /\ deviceIndex >= 0 /\ goal = "SHIFT_IR"
        /\ op.length = devices[deviceIndex + 1].irlen
    BY <1>1, <1>3 DEF IrInv, InIr, StepInv, StagesInOrder
  <2>2. ~WalkLead  BY <2>1 DEF WalkLead, IrWalk
  <2>3. CASE ~WalkArrive
    <3>1. pc' \in {"goto", "unknown", "reset"} /\ lead' = lead
      BY <1>1, <1>3, <2>2, <2>3
      DEF WalkHop, WalkUnknown, WalkUnknownBit, ResetBit, ResetDone,
          Reset, Walking, walk
    <3>2. SUFFICES IrWalk'
      BY <1>1, <2>1, <3>1 DEF IrInv, IrStages, InIr
    <3>3. CASE WalkHop
      <4>1. /\ pc = "goto" /\ current_state \in TapStates
            /\ current_state # "SHIFT_IR"
            /\ current_state' = Hop(current_state, "SHIFT_IR").to
            /\ current_state \notin ShiftStates =>
                 clocked' = IF current_state' \in CaptureStates THEN NoClock
                            ELSE clocked
            /\ UNCHANGED pc
        BY <2>1, <3>3, WalkHopMoves DEF WalkHop
      <4>2. CASE ~Midway
        <5>1. current_state \in Outside  BY <4>1, <4>2, OutsideIsOutside
        <5>2. current_state' \in Outside \cup {"CAPTURE_IR"}
          BY <4>1, <5>1, HopsToScan
        <5>3. current_state \notin ShiftStates  BY <5>1 DEF Outside, ShiftStates
        <5>4. CASE current_state' \in Outside
          <6>1. ~Midway'  BY <5>4 DEF Outside, Midway
          <6>2. QED  BY <2>1, <3>1, <6>1 DEF IrWalk
        <5>5. CASE current_state' = "CAPTURE_IR"
          <6>1. clocked' = NoClock  BY <4>1, <5>3, <5>5 DEF CaptureStates
          <6>2. Counts(0, 0, 0)'  BY <6>1 DEF Counts, NoClock, Parts
          <6>3. QED  BY <2>1, <3>1, <4>1, <5>5, <6>2 DEF IrWalk
        <5>6. QED  BY <5>2, <5>4, <5>5
      <4>3. CASE current_state = "CAPTURE_IR" /\ Counts(0, 0, 0)
        <5>1. current_state' = "SHIFT_IR"  BY <4>1, <4>3, HopsToScan
        <5>2. clocked' = clocked
          BY <4>1, <4>3, <5>1 DEF ShiftStates, CaptureStates
        <5>3. Counts(0, 0, 0)'  BY <4>3, <5>2 DEF Counts
        <5>4. QED  BY <2>1, <3>1, <4>1, <5>1, <5>3 DEF IrWalk
      <4>4. QED  BY <2>1, <4>1, <4>2, <4>3 DEF IrWalk
    <3>4. CASE WalkUnknown
      <4>1. ~Midway'  BY <3>4 DEF WalkUnknown, Midway, UNKNOWN
      <4>2. QED  BY <2>1, <3>1, <4>1 DEF IrWalk
    <3>5. CASE WalkUnknownBit \/ ResetBit \/ ResetDone
      <4>1. pc # "goto"
        BY <3>5 DEF WalkUnknownBit, ResetBit, ResetDone
      <4>2. ~Midway  BY <2>1, <4>1 DEF IrWalk
      <4>3. current_state' \in {current_state, "TEST_LOGIC_RESET"}
        BY <3>5 DEF WalkUnknownBit, ResetBit, ResetDone
      <4>4. ~Midway'  BY <4>2, <4>3 DEF Midway
      <4>5. QED  BY <2>1, <3>1, <4>4 DEF IrWalk
    <3>6. QED  BY <2>2, <2>3, <3>3, <3>4, <3>5
  <2>4. CASE WalkArrive
    <3>1. /\ current_state = "SHIFT_IR" /\ pc = "goto" /\ pc' = "irPre"
          /\ clocked' = clocked
      BY <1>3, <2>1, <2>4 DEF WalkArrive, history
    <3>2. Counts(0, 0, 0)  BY <2>1, <3>1 DEF IrWalk, Midway
    <3>3. Counts(0, 0, 0)'  BY <3>1, <3>2 DEF Counts
    <3>4. QED  BY <1>1, <2>1, <3>1, <3>3 DEF IrInv, IrStages, InIr, Walking
  <2>5. QED  BY <2>3, <2>4
<1>4. QED  BY <1>2, <1>3

(* The shifts of shiftIR itself.                                           *)
LEMMA IrShifts ==
  ASSUME StagesInv, IrInv, IrPre \/ IrData \/ IrPost \/ IrDone
  PROVE  IrInv'
<1> USE DEF StagesInv
<1> SUFFICES ASSUME want'.kind = "ir"
             PROVE  IrInv'
  BY DEF IrInv
<1>1. /\ UNCHANGED <<numDevices, deviceIndex, devices, want, op>>
      /\ pc \in IrStages
  BY DEF IrPre, IrData, IrPost, IrDone, params, IrStages
<1>2. PreIR' = PreIR /\ PostIR' = PostIR /\ PreIR \in Nat /\ PostIR \in Nat
  BY <1>1, IrBitsStay, PreAndPostType DEF TypeInv
<1>3. /\ deviceIndex >= 0 /\ op.length = devices[deviceIndex + 1].irlen
      /\ op.length \in Nat
      /\ HistoryType /\ Parts = {"lead", "load", "tail"}
  BY <1>1 DEF IrInv, InIr, TypeInv, OpType, Parts
<1> DEFINE pre == PreIR
           post == PostIR
           length == op.length
<1>4. /\ pre \in Int /\ post \in Int /\ length \in Int /\ 0 \in Int
      /\ pre + 0 = pre /\ 0 + pre = pre /\ 0 + post = post /\ 0 + length = length
  BY <1>2, <1>3
<1> HIDE DEF pre, post, length
<1>5. CASE IrPre
  <2>1. /\ pc = "irPre" /\ shift("lead", pre, FALSE) /\ pc' = "irData"
    BY <1>5 DEF IrPre, pre
  <2>2. Ahead \in ShiftStates
    BY <2>1 DEF StepInv, StagesInOrder, InStep, UNKNOWN, ShiftStates
  <2>3. Counts(0, 0, 0)  BY <1>1, <2>1 DEF IrInv
  <2>4. CountsNext(0 + pre, 0, 0)
    BY <1>3, <1>4, <2>1, <2>2, <2>3, ShiftCounts
  <2>5. Counts(PreIR, 0, 0)'
    BY <1>2, <1>4, <2>4 DEF Counts, CountsNext, pre
  <2>6. QED  BY <1>1, <1>3, <2>1, <2>5 DEF IrInv, Walking, IrStages, InIr
<1>6. CASE IrData
  <2>1. /\ pc = "irData" /\ shiftTDITDO("load", length, PostIR = 0)
        /\ pc' = "irPost"
    BY <1>6 DEF IrData, length
  <2>2. Ahead \in ShiftStates
    BY <2>1 DEF StepInv, StagesInOrder, InStep, UNKNOWN, ShiftStates
  <2>3. Counts(pre, 0, 0)  BY <1>1, <2>1 DEF IrInv, pre
  <2>4. CountsNext(pre, 0 + length, 0)
    BY <1>3, <1>4, <2>1, <2>2, <2>3, ShiftCounts
  <2>5. Counts(PreIR, op.length, 0)'
    BY <1>1, <1>2, <1>4, <2>4 DEF Counts, CountsNext, pre, length
  <2>6. QED  BY <1>1, <1>3, <2>1, <2>5 DEF IrInv, Walking, IrStages, InIr
<1>7. CASE IrPost
  <2>1. /\ pc = "irPost" /\ shift("tail", post, TRUE) /\ pc' = "irDone"
    BY <1>7 DEF IrPost, post, StepInv, StagesInOrder, nextTapState, ShiftStates
  <2>2. post # 0 => Ahead \in ShiftStates
    BY <2>1 DEF StepInv, LeavingIR, ShiftStates, post
  <2>3. Counts(pre, length, 0)  BY <1>1, <2>1 DEF IrInv, pre, length
  <2>4. CountsNext(pre, length, 0 + post)
    BY <1>3, <1>4, <2>1, <2>2, <2>3, ShiftCounts
  <2>5. Counts(PreIR, op.length, PostIR)'
    BY <1>1, <1>2, <1>4, <2>4 DEF Counts, CountsNext, pre, post, length
  <2>6. QED  BY <1>1, <1>3, <2>1, <2>5 DEF IrInv, Walking, IrStages, InIr
<1>8. CASE IrDone
  <2>1. pc' = "goto" /\ ret' = "idle"  BY <1>8 DEF IrDone, Walk
  <2>2. QED  BY <2>1 DEF IrInv, Walking, IrStages, InIr
<1>9. QED  BY <1>5, <1>6, <1>7, <1>8

LEMMA IrInvInit == Init => IrInv
BY DEF Init, IrInv, NoWant

LEMMA IrInvStep ==
  StagesInv /\ Misuse = {} /\ IrInv /\ [Next]_vars => IrInv'
<1> SUFFICES ASSUME StagesInv, Misuse = {}, IrInv, [Next]_vars
             PROVE  IrInv'
  OBVIOUS
<1>1. CASE \/ WalkHop \/ WalkUnknown \/ WalkUnknownBit \/ WalkLead \/ WalkArrive
           \/ ResetBit \/ ResetDone
  BY <1>1, IrWalks
<1>2. CASE IrPre \/ IrData \/ IrPost \/ IrDone
  BY <1>2, IrShifts
<1>3. CASE ShiftIR
  <2>1. /\ pc' = "goto" /\ ret' = "irPre" /\ lead' = 0 /\ deviceIndex >= 0
        /\ op' = [length |-> devices[deviceIndex + 1].irlen, exit |-> TRUE]
        /\ want' = [kind |-> IF Midway THEN "none" ELSE "ir",
                    asked |-> devices[deviceIndex + 1].irlen, align |-> 0]
        /\ UNCHANGED <<current_state, deviceIndex, devices>>
    BY <1>3 DEF ShiftIR, Walk, params
  <2>2. CASE Midway
    <3>1. want'.kind # "ir"  BY <2>1, <2>2
    <3>2. QED  BY <3>1 DEF IrInv
  <2>3. CASE ~Midway
    <3>1. ~Midway'  BY <2>1, <2>3 DEF Midway
    <3>2. QED  BY <2>1, <3>1 DEF IrInv, Walking, IrStages, InIr, IrWalk
  <2>4. QED  BY <2>2, <2>3
<1>4. CASE \/ DrData \/ DrTail \/ DrDone \/ ChainEnd
           \/ \E stale \in StaleIrLengths : ChainWord(stale)
  <2>1. /\ ~(pc' = "goto" /\ ret' = "irPre")
        /\ pc' \in {"drTail", "idle", "drDone", "chain", "goto"}
    BY <1>4
    DEF DrData, DrTail, DrDone, ChainEnd, ChainWord, Walk, walk, nextTapState,
        ShiftStates, StagesInv, ScanInv
  <2>2. QED  BY <2>1 DEF IrInv, Walking, IrStages, InIr
<1>5. CASE \/ \E detect \in BOOLEAN : GetChain(detect)
           \/ \E dev \in -1..MaxNumDevices : SelectDevice(dev)
           \/ \E g \in Goals : SetTapState(g)
           \/ \E n \in Lengths : CycleTCK(n)
           \/ \E length \in CallLengths : RawShift(length)
           \/ TapTestLogicReset
  <2>1. want' = NoWant
    BY <1>5
    DEF GetChain, SelectDevice, SetTapState, CycleTCK, RawShift,
        TapTestLogicReset
  <2>2. QED  BY <2>1 DEF IrInv, NoWant
<1>6. ASSUME NEW length \in CallLengths, NEW align \in Aligns,
             NEW exit \in BOOLEAN, ShiftDR(length, align, exit)
      PROVE  IrInv'
  <2>1. \/ pc' = "drData"
        \/ pc' = "goto" /\ ret' = "drData"
    BY <1>6 DEF ShiftDR, Walk
  <2>2. QED  BY <2>1 DEF IrInv, Walking, IrStages, InIr
<1>7. CASE \/ \E dev \in 0..(MaxNumDevices - 1) : SetDeviceIRLength(dev)
           \/ \E dr \in PostDRStates, ir \in PostIRStates : SetPostStates(dr, ir)
           \/ Usleep \/ Wake
  <2>1. pc' \in {"idle", "sleep"}
    BY <1>7 DEF SetDeviceIRLength, SetPostStates, Usleep, Wake
  <2>2. QED  BY <2>1 DEF IrInv, Walking, IrStages, InIr
<1>8. CASE CableClock \/ UNCHANGED vars
  <2>1. UNCHANGED <<numDevices, deviceIndex, devices, want, clocked, op, lead, ret,
                    current_state, pc, back>>
    BY <1>8 DEF CableClock, vars, params, walk, reset, history
  <2>2. PreIR' = PreIR /\ PostIR' = PostIR  BY <2>1, IrBitsStay
  <2>3. (InIr' <=> InIr) /\ (Walking' <=> Walking)
    BY <2>1 DEF InIr, Walking, IrStages
  <2>4. IrWalk' <=> IrWalk  BY <2>1 DEF IrWalk, Midway, Counts
  <2>5. QED  BY <2>1, <2>2, <2>3, <2>4 DEF IrInv, Counts
<1>9. QED
  BY <1>1, <1>2, <1>3, <1>4, <1>5, <1>6, <1>7, <1>8 DEF Next, Call, Run

------------------------------------------------------------------------------
(***************************************************************************)
(* An instruction and its data with no Run-Test/Idle between them.         *)
(***************************************************************************)
LEMMA DirectInvInit == Init => DirectInv
BY DEF Init, DirectInv, NoIdleBeforeData

LEMMA DirectInvStep ==
  StagesInv /\ Misuse = {} /\ DirectInv /\ [Next]_vars => DirectInv'
<1> SUFFICES ASSUME StagesInv, Misuse = {}, DirectInv, [Next]_vars
             PROVE  DirectInv'
  OBVIOUS
<1> USE DEF StagesInv
<1>1. erase \in {"none", "direct"} /\ (erase # "direct" => erase = "none")
  BY DEF DirectInv, NoIdleBeforeData, TypeInv, HistoryType
<1>2. ASSUME erase' = "none", pc' # "irDone"
      PROVE  DirectInv'
  BY <1>2 DEF DirectInv, NoIdleBeforeData
<1>3. ASSUME NEW lands, erase = "none", erase' = ErasePast(lands) \/ erase' = erase
      PROVE  erase' = "none"
  BY <1>3 DEF ErasePast
<1>4. ASSUME NEW part, NEW n, NEW last, erase = "none",
             shiftTDITDO(part, n, last) \/ shift(part, n, last)
      PROVE  erase' = "none"
  BY <1>3, <1>4, ShiftHistory
<1>5. CASE WalkHop
  <2>1. /\ pc = "goto" /\ pc' = "goto" /\ current_state # goal
        /\ current_state' = Hop(current_state, goal).to
        /\ erase' = ErasePast(current_state')
        /\ UNCHANGED <<ret, goal>>
    BY <1>5, WalkHopMoves DEF WalkHop, walk
  <2>2. CASE erase = "none"
    BY <1>2, <1>3, <2>1, <2>2
  <2>3. CASE erase = "direct"
    <3>1. /\ ret = "drData" /\ goal = "SHIFT_DR"
          /\ current_state \in {"EXIT1_IR", "UPDATE_IR", "SELECT_DR_SCAN",
                                "CAPTURE_DR"}
      BY <2>1, <2>3 DEF DirectInv, StepInv, StagesInOrder
    <3>2. current_state' \in {"UPDATE_IR", "SELECT_DR_SCAN", "CAPTURE_DR",
                              "SHIFT_DR"}
      BY <2>1, <3>1, HopsFromExit1
    <3>3. erase' = "direct"  BY <2>1, <2>3, <3>2 DEF ErasePast
    <3>4. QED  BY <2>1, <3>1, <3>2, <3>3 DEF DirectInv, NoIdleBeforeData
  <2>4. QED  BY <1>1, <2>2, <2>3
<1>6. CASE WalkUnknown
  <2>1. pc = "goto" /\ current_state = UNKNOWN /\ erase' = erase /\ pc' = "reset"
    BY <1>6 DEF WalkUnknown, history, Reset
  <2>2. erase = "none"  BY <1>1, <2>1 DEF DirectInv, UNKNOWN
  <2>3. QED  BY <1>2, <2>1, <2>2
<1>7. CASE WalkUnknownBit \/ ResetBit \/ ResetDone
  <2>1. /\ pc \in {"unknown", "reset"} /\ pc' # "irDone"
        /\ set_tms("tail", TRUE) \/ erase' = erase
    BY <1>7
    DEF WalkUnknownBit, ResetBit, ResetDone, history, ScanInv
  <2>2. erase = "none"  BY <1>1, <2>1 DEF DirectInv, DrStages
  <2>3. erase' = "none"  BY <1>3, <2>1, <2>2, SetTmsHistory
  <2>4. QED  BY <1>2, <2>1, <2>3
<1>8. CASE WalkLead
  <2>1. /\ pc = "goto" /\ pc' = "goto" /\ set_tms("lead", FALSE)
        /\ current_state = "SHIFT_DR"
        /\ UNCHANGED <<current_state, ret, goal>>
    BY <1>8 DEF WalkLead, StepInv, StagesInOrder
  <2>2. Ahead = "SHIFT_DR"  BY <2>1 DEF StepInv, InStep, UNKNOWN
  <2>3. erase' = erase
    <3>1. erase' = ErasePast(Edge(Ahead, FALSE))  BY <2>1, SetTmsHistory
    <3>2. QED  BY <2>2, <3>1 DEF ErasePast, Edge, OnLow
  <2>4. QED  BY <1>1, <2>1, <2>3 DEF DirectInv, NoIdleBeforeData
<1>9. CASE WalkArrive
  <2>1. /\ pc = "goto" /\ pc' = ret /\ current_state = goal
        /\ UNCHANGED <<current_state, shiftDRincomplete, erase>>
        /\ ret \in {"idle", "drData", "irPre", "chain"}
    BY <1>9 DEF WalkArrive, history, StepInv, StagesInOrder
  <2>2. QED  BY <1>1, <2>1 DEF DirectInv, NoIdleBeforeData, DrStages
<1>10. CASE DrData \/ DrTail
  <2>1. /\ pc \in {"drData", "drTail"}
        /\ pc' \in {"idle", "drTail", "drDone"}
        /\ pc' = "idle" => shiftDRincomplete'
    BY <1>10 DEF DrData, DrTail, nextTapState, ScanInv, ShiftStates
  <2>2. erase' = erase
    <3>1. ASSUME NEW part, NEW n, NEW last \in BOOLEAN,
                 shiftTDITDO(part, n, last) \/ shift(part, n, last),
                 n # 0 => current_state = "SHIFT_DR"
          PROVE  erase' = erase
      <4>1. CASE n = 0  BY <3>1, <4>1, ShiftHistory
      <4>2. CASE n # 0
        <5>1. Ahead = "SHIFT_DR"
          BY <2>1, <3>1, <4>2 DEF StepInv, InStep, UNKNOWN
        <5>2. Block(Ahead, n, last) \in {"SHIFT_DR", "EXIT1_DR"}
          BY <4>2, <5>1, ShiftBlock
        <5>3. erase' = ErasePast(Block(Ahead, n, last))
          BY <3>1, <4>2, ShiftHistory
        <5>4. QED  BY <5>2, <5>3 DEF ErasePast
      <4>3. QED  BY <4>1, <4>2
    <3>2. CASE DrData
      <4>1. shiftTDITDO("load", op.length, deviceIndex = 0 /\ op.exit)
            /\ current_state = "SHIFT_DR"
        BY <3>2 DEF DrData, ScanInv
      <4>2. (deviceIndex = 0 /\ op.exit) \in BOOLEAN  OBVIOUS
      <4>3. QED  BY <3>1, <4>1, <4>2
    <3>3. CASE DrTail
      <4>1. shift("tail", deviceIndex, TRUE)
            /\ (deviceIndex # 0 => current_state = "SHIFT_DR")
        BY <3>3 DEF DrTail, ScanInv
      <4>2. QED  BY <3>1, <4>1
    <3>4. QED  BY <1>10, <3>2, <3>3
  <2>3. QED  BY <1>1, <2>1, <2>2 DEF DirectInv, NoIdleBeforeData, DrStages
<1>11. CASE \/ IrPre \/ IrData \/ ChainEnd
            \/ \E stale \in StaleIrLengths : ChainWord(stale)
  <2>1. /\ pc \in {"irPre", "irData", "chain"}
        /\ pc' \in {"irData", "irPost", "chain", "goto"}
        /\ \/ shift("lead", PreIR, FALSE)
           \/ shiftTDITDO("load", op.length, PostIR = 0)
           \/ shiftTDITDO("load", 32, FALSE)
    BY <1>11 DEF IrPre, IrData, ChainEnd, ChainWord, Walk
  <2>2. erase = "none"  BY <1>1, <2>1 DEF DirectInv, DrStages
  <2>3. erase' = "none"  BY <1>4, <2>1, <2>2
  <2>4. QED  BY <1>2, <2>1, <2>3
<1>12. CASE IrPost
  <2>1. /\ pc = "irPost" /\ shift("tail", PostIR, TRUE)
        /\ pc' = "irDone" /\ current_state' = "EXIT1_IR"
    BY <1>12 DEF IrPost, StepInv, StagesInOrder, nextTapState, ShiftStates
  <2>2. erase = "none"  BY <1>1, <2>1 DEF DirectInv, DrStages
  <2>3. erase' = "none"  BY <1>4, <2>1, <2>2
  <2>4. QED  BY <2>1, <2>3 DEF DirectInv, NoIdleBeforeData
<1>13. CASE IrDone
  <2>1. /\ pc' = "goto" /\ ret' = "idle" /\ goal' = postIRState
        /\ erase' = IF postIRState = "EXIT1_IR" THEN "direct" ELSE "none"
        /\ current_state' = "EXIT1_IR"
    BY <1>13 DEF IrDone, Walk, DirectInv
  <2>2. QED  BY <2>1 DEF DirectInv, NoIdleBeforeData
<1>14. CASE \/ \E detect \in BOOLEAN : GetChain(detect)
            \/ \E dev \in -1..MaxNumDevices : SelectDevice(dev)
            \/ \E g \in Goals : SetTapState(g)
            \/ ShiftIR \/ TapTestLogicReset \/ DrDone
  <2>1. erase' = "none" /\ pc' \in {"reset", "idle", "goto"}
    BY <1>14
    DEF GetChain, SelectDevice, SetTapState, ShiftIR, TapTestLogicReset, DrDone,
        Reset, Walk
  <2>2. QED  BY <1>2, <2>1
<1>15. ASSUME NEW length \in CallLengths, NEW align \in Aligns,
              NEW exit \in BOOLEAN, ShiftDR(length, align, exit)
       PROVE  DirectInv'
  <2>1. /\ pc = "idle" /\ UNCHANGED <<current_state, erase>>
        /\ IF shiftDRincomplete THEN pc' = "drData"
           ELSE pc' = "goto" /\ ret' = "drData"
    BY <1>15 DEF ShiftDR, Walk
  <2>2. QED  BY <1>1, <2>1 DEF DirectInv, NoIdleBeforeData, DrStages
<1>16. CASE \/ \E n \in Lengths : CycleTCK(n)
            \/ \E length \in CallLengths : RawShift(length)
  <2>1. /\ pc = "idle" /\ pc' = "idle" /\ ~ScanOpen
        /\ current_state \in {"RUN_TEST_IDLE", "SHIFT_DR", "SHIFT_IR"}
        /\ \/ \E n \in Lengths : shift("tail", n, FALSE)
           \/ \E length \in CallLengths : shiftTDITDO("load", length, TRUE)
    BY <1>16 DEF CycleTCK, RawShift, nextTapState, ShiftStates
  <2>2. erase = "none"
    BY <1>1, <2>1 DEF DirectInv, ScanOpen, ScanInv
  <2>3. erase' = "none"  BY <1>4, <2>1, <2>2
  <2>4. QED  BY <1>2, <2>1, <2>3
<1>17. CASE \/ \E dev \in 0..(MaxNumDevices - 1) : SetDeviceIRLength(dev)
            \/ \E dr \in PostDRStates, ir \in PostIRStates : SetPostStates(dr, ir)
            \/ Usleep \/ Wake \/ CableClock \/ UNCHANGED vars
  <2>1. /\ UNCHANGED <<erase, current_state, ret, goal, shiftDRincomplete>>
        /\ UNCHANGED pc \/ (pc \in {"idle", "sleep"} /\ pc' \in {"idle", "sleep"})
    BY <1>17
    DEF SetDeviceIRLength, SetPostStates, Usleep, Wake, CableClock, vars, params,
        walk, reset, history
  <2>2. QED  BY <1>1, <2>1 DEF DirectInv, NoIdleBeforeData, DrStages
<1>18. QED
  BY <1>5, <1>6, <1>7, <1>8, <1>9, <1>10, <1>11, <1>12, <1>13, <1>14, <1>15,
     <1>16, <1>17
  DEF Next, Call, Run

------------------------------------------------------------------------------
(***************************************************************************)
(* The theorems.                                                           *)
(***************************************************************************)
LEMMA ScanCountInit == Init => ScanCountInv
<1> SUFFICES ASSUME Init PROVE ScanCountInv
  OBVIOUS
<1>1. DevicesInv  BY DEF Init, DevicesInv
<1>2. QED
  BY <1>1, DrInvInit, IrInvInit, DirectInvInit DEF ScanCountInv

LEMMA ScanCountStep ==
  StagesInv /\ Misuse = {} /\ ScanCountInv /\ [Next]_vars => ScanCountInv'
BY DevicesInvStep, DrInvStep, IrInvStep, DirectInvStep
DEF ScanCountInv, StagesInv

LEMMA ScanCountHolds ==
  ASSUME Misuse = {}
  PROVE  Spec => [](StagesInv /\ ScanCountInv)
<1>1. NoClockMisuse  BY DEF NoClockMisuse
<1>2. Init => StagesInv /\ ScanCountInv
  BY TypeInit, StepInvInit, ScanInvInit, ScanCountInit DEF StagesInv
<1>3. StagesInv /\ ScanCountInv /\ [Next]_vars => (StagesInv /\ ScanCountInv)'
  BY <1>1, TypeStep, StepInvStep, ScanInvStep, ScanCountStep DEF StagesInv
<1>4. QED  BY <1>2, <1>3, PTL DEF Spec

(* The leading bits of an aligned scan make up a multiple of align with    *)
(* the trailing ones.                                                      *)
LEMMA AlignedLead ==
  ASSUME NEW align \in Nat \ {0}, NEW index \in Nat
  PROVE  ((align - (index % align)) + index) % align = 0
<1> DEFINE q == index \div align
           r == index % align
<1>1. q \in Int /\ r \in Int /\ index = align * q + r  OBVIOUS
<1> HIDE DEF q, r
<1>2. (align - r) + index = align + align * q
  <2> DEFINE m == align * q
  <2>1. m \in Int /\ index = m + r  BY <1>1
  <2> HIDE DEF m
  <2>2. (align - r) + index = align + m  BY <1>1, <2>1
  <2>3. QED  BY <2>2 DEF m
<1>3. align + align * q = align * (q + 1)  BY <1>1
<1>4. \A k \in Int : (align * k) % align = 0  OBVIOUS
<1>5. (align * (q + 1)) % align = 0  BY <1>1, <1>4
<1>6. QED  BY <1>2, <1>3, <1>5 DEF r

(* When the chain is known, device k of the program is device k of the     *)
(* chain.                                                                  *)
LEMMA TargetIs ==
  ASSUME TypeInv, DevicesInv, Enumerated
  PROVE  /\ \A k \in 1..numDevices : devices[k].pos = k
         /\ deviceIndex >= 0 => Target = deviceIndex + 1
<1>1. numDevices \in Int /\ deviceIndex \in Int /\ numDevices = Len(chain)
      /\ (deviceIndex >= 0 => deviceIndex + 1 \in 1..numDevices)
  BY DEF TypeInv, ParamsType, Enumerated
<1>2. ASSUME NEW k \in 1..numDevices
      PROVE  devices[k].pos = k
  <2>1. devices[k].pos = Len(chain) - numDevices + k  BY DEF DevicesInv
  <2>2. QED  BY <1>1, <2>1
<1>3. QED  BY <1>1, <1>2 DEF Target

(* A finished data scan put the caller's bits into the selected device.    *)
THEOREM DataScansHitTheirTarget ==
  ASSUME Misuse = {}
  PROVE  Spec => []DrHitsTarget
<1>1. StagesInv /\ ScanCountInv => DrHitsTarget
  <2> SUFFICES ASSUME StagesInv, ScanCountInv, pc = "drDone", want.kind = "dr",
                      Enumerated
               PROVE  /\ clocked["load"] = want.asked
                      /\ clocked["tail"] = Target - 1
                      /\ IF want.align = 0
                         THEN clocked["lead"] = Len(chain) - Target
                         ELSE (clocked["lead"] + clocked["tail"]) % want.align = 0
    BY DEF DrHitsTarget
  <2>1. Counts(PreDR(want.align), want.asked, deviceIndex) /\ deviceIndex >= 0
    BY DEF ScanCountInv, DrInv, InDr, DrStages
  <2>2. Target = deviceIndex + 1
    BY <2>1, TargetIs DEF StagesInv, ScanCountInv
  <2>3. /\ numDevices \in Int /\ deviceIndex \in Nat /\ want.align \in Nat
        /\ numDevices = Len(chain)
    BY <2>1 DEF StagesInv, TypeInv, ParamsType, OpType, Enumerated
  <2>4. CASE want.align = 0
    BY <2>1, <2>2, <2>3, <2>4 DEF Counts, PreDR
  <2>5. CASE want.align # 0
    <3>1. ((want.align - (deviceIndex % want.align)) + deviceIndex) % want.align = 0
      BY <2>3, <2>5, AlignedLead
    <3>2. clocked["lead"] = want.align - (deviceIndex % want.align)
      BY <2>1, <2>5 DEF Counts, PreDR
    <3>3. QED  BY <2>1, <2>2, <2>3, <2>5, <3>1, <3>2 DEF Counts
  <2>6. QED  BY <2>4, <2>5
<1>2. QED  BY <1>1, ScanCountHolds, PTL

(* Counting instruction bits by the program's list of devices or by the    *)
(* chain is the same.                                                      *)
LEMMA IrBitsAreCells ==
  ASSUME NEW a \in Int, NEW b \in Int,
         \A k \in (a + 1)..(b + 1) : devices[k].irlen = chain[k]
  PROVE  IrBits(a..b) = IrCells((a + 1)..(b + 1))
<1> DEFINE M == 1..MaxIrLength
           D == {cell \in (a..b) \X M : cell[2] <= devices[cell[1] + 1].irlen}
           C == {c \in ((a + 1)..(b + 1)) \X M : c[2] <= chain[c[1]]}
           f == [cell \in D |-> <<cell[1] + 1, cell[2]>>]
<1>1. IsFiniteSet(D)
  <2>1. IsFiniteSet(a..b) /\ IsFiniteSet(M)  BY FS_Interval, LengthAssumption
  <2>2. IsFiniteSet((a..b) \X M)  BY <2>1, FS_Product
  <2>3. D \in SUBSET ((a..b) \X M)  OBVIOUS
  <2>4. QED  BY <2>2, <2>3, FS_Subset
<1>2. \A i \in a..b : i \in Int /\ i + 1 \in (a + 1)..(b + 1)  OBVIOUS
<1>3. \A i \in (a + 1)..(b + 1) : i \in Int /\ i - 1 \in a..b /\ (i - 1) + 1 = i
  OBVIOUS
<1> HIDE DEF M
<1>4. \A cell \in D : <<cell[1] + 1, cell[2]>> \in C
  BY <1>2
<1>5. \A c \in C : /\ <<c[1] - 1, c[2]>> \in D
                   /\ c = <<(c[1] - 1) + 1, c[2]>>
  BY <1>3
<1>6. \A x, y \in D : <<x[1] + 1, x[2]>> = <<y[1] + 1, y[2]>> => x = y
  <2> SUFFICES ASSUME NEW x \in D, NEW y \in D, x[1] + 1 = y[1] + 1, x[2] = y[2]
               PROVE  x = y
    OBVIOUS
  <2>1. x[1] \in Int /\ y[1] \in Int /\ x = <<x[1], x[2]>> /\ y = <<y[1], y[2]>>
    OBVIOUS
  <2>2. x[1] = y[1]  BY <2>1
  <2>3. QED  BY <2>1, <2>2
<1> HIDE DEF C, D
<1>7. f \in Bijection(D, C)
  <2>1. f \in [D -> C]  BY <1>4
  <2>2. \A x, y \in D : f[x] = f[y] => x = y  BY <1>6
  <2>3. \A c \in C : \E cell \in D : f[cell] = c
    <3> SUFFICES ASSUME NEW c \in C PROVE \E cell \in D : f[cell] = c
      OBVIOUS
    <3>1. <<c[1] - 1, c[2]>> \in D /\ c = <<(c[1] - 1) + 1, c[2]>>  BY <1>5
    <3>2. f[<<c[1] - 1, c[2]>>] = c  BY <3>1
    <3>3. QED  BY <3>1, <3>2
  <2> HIDE DEF f
  <2>4. QED  BY <2>1, <2>2, <2>3, Fun_IsBij
<1>8. ExistsBijection(D, C)  BY <1>7 DEF ExistsBijection
<1>9. Cardinality(C) = Cardinality(D)  BY <1>1, <1>8, FS_Bijection
<1>10. QED  BY <1>9 DEF IrBits, IrCells, C, D, M

(* A finished instruction scan put the instruction into the selected       *)
(* device and ones into all the others.                                    *)
THEOREM InstructionScansHitTheirTarget ==
  ASSUME Misuse = {}
  PROVE  Spec => []IrHitsTarget
<1>1. StagesInv /\ ScanCountInv => IrHitsTarget
  <2> SUFFICES ASSUME StagesInv, ScanCountInv, pc = "irDone", want.kind = "ir",
                      Enumerated, IrLengthsSet
               PROVE  /\ clocked["lead"] = IrCells((Target + 1)..Len(chain))
                      /\ clocked["load"] = chain[Target]
                      /\ clocked["tail"] = IrCells(1..(Target - 1))
    BY DEF IrHitsTarget
  <2>1. /\ Counts(PreIR, op.length, PostIR) /\ deviceIndex >= 0
        /\ op.length = devices[deviceIndex + 1].irlen
    BY DEF ScanCountInv, IrInv, InIr, IrStages
  <2>2. /\ Target = deviceIndex + 1
        /\ \A k \in 1..numDevices : devices[k].pos = k
    BY <2>1, TargetIs DEF StagesInv, ScanCountInv
  <2>3. /\ numDevices \in Int /\ deviceIndex \in Int
        /\ numDevices = Len(chain) /\ deviceIndex + 1 \in 1..numDevices
        /\ numDevices <= Len(devices) /\ Len(devices) \in Nat
    BY <2>1 DEF StagesInv, TypeInv, ParamsType, Enumerated
  <2>4. \A k \in 1..numDevices : devices[k].irlen = chain[k]
    <3> SUFFICES ASSUME NEW k \in 1..numDevices
                 PROVE  devices[k].irlen = chain[k]
      OBVIOUS
    <3>1. k \in 1..Len(devices)  BY <2>3
    <3>2. devices[k].set  BY DEF IrLengthsSet
    <3>3. devices[k].irlen = chain[devices[k].pos]
      BY <3>1, <3>2 DEF ScanCountInv, DevicesInv
    <3>4. QED  BY <2>2, <3>3
  <2>5. PreIR = IrCells((Target + 1)..Len(chain))
    <3>1. \A k \in ((deviceIndex + 1) + 1)..((numDevices - 1) + 1) :
            devices[k].irlen = chain[k]
      BY <2>3, <2>4
    <3>2. IrBits((deviceIndex + 1)..(numDevices - 1)) =
            IrCells(((deviceIndex + 1) + 1)..((numDevices - 1) + 1))
      <4>1. deviceIndex + 1 \in Int /\ numDevices - 1 \in Int  BY <2>3
      <4>2. QED  BY <3>1, <4>1, IrBitsAreCells
    <3>3. (deviceIndex + 1) + 1 = Target + 1 /\ (numDevices - 1) + 1 = Len(chain)
      BY <2>2, <2>3
    <3>4. QED  BY <3>2, <3>3 DEF PreIR
  <2>6. PostIR = IrCells(1..(Target - 1))
    <3>1. \A k \in (0 + 1)..((deviceIndex - 1) + 1) : devices[k].irlen = chain[k]
      BY <2>3, <2>4
    <3>2. IrBits(0..(deviceIndex - 1)) = IrCells((0 + 1)..((deviceIndex - 1) + 1))
      <4>1. 0 \in Int /\ deviceIndex - 1 \in Int  BY <2>3
      <4>2. QED  BY <3>1, <4>1, IrBitsAreCells
    <3>3. 0 + 1 = 1 /\ (deviceIndex - 1) + 1 = Target - 1  BY <2>2, <2>3
    <3>4. QED  BY <3>2, <3>3 DEF PostIR
  <2>7. op.length = chain[Target]  BY <2>1, <2>2, <2>3, <2>4
  <2>8. QED  BY <2>1, <2>5, <2>6, <2>7 DEF Counts
<1>2. QED  BY <1>1, ScanCountHolds, PTL

(* With the post state ProgAlgXCFP::erase sets, the TAP never passes       *)
(* Run-Test/Idle between an instruction and its data.                      *)
THEOREM NoIdleComesBeforeData ==
  ASSUME Misuse = {}
  PROVE  Spec => []NoIdleBeforeData
<1>1. ScanCountInv => NoIdleBeforeData  BY DEF ScanCountInv, DirectInv
<1>2. QED  BY <1>1, ScanCountHolds, PTL
==============================================================================
