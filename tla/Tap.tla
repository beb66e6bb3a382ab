--------------------------------- MODULE Tap ---------------------------------
(***************************************************************************)
(* The IEEE 1149.1 TAP controller of the devices on the chain: what the    *)
(* hardware does on a TCK edge.  All devices share TMS and TCK, so one     *)
(* state stands for the whole chain.  This is the environment of           *)
(* src/jtag.cpp; it is never read by the program.                          *)
(***************************************************************************)
EXTENDS Naturals

TapStates ==
  { "TEST_LOGIC_RESET", "RUN_TEST_IDLE",
    "SELECT_DR_SCAN", "CAPTURE_DR", "SHIFT_DR", "EXIT1_DR", "PAUSE_DR",
    "EXIT2_DR", "UPDATE_DR",
    "SELECT_IR_SCAN", "CAPTURE_IR", "SHIFT_IR", "EXIT1_IR", "PAUSE_IR",
    "EXIT2_IR", "UPDATE_IR" }

ShiftStates == { "SHIFT_DR", "SHIFT_IR" }

(***************************************************************************)
(* The state after one TCK edge with TMS low, or high.                     *)
(***************************************************************************)
OnLow ==
  [ TEST_LOGIC_RESET |-> "RUN_TEST_IDLE",  RUN_TEST_IDLE |-> "RUN_TEST_IDLE",
    SELECT_DR_SCAN   |-> "CAPTURE_DR",     SELECT_IR_SCAN |-> "CAPTURE_IR",
    CAPTURE_DR       |-> "SHIFT_DR",       CAPTURE_IR     |-> "SHIFT_IR",
    SHIFT_DR         |-> "SHIFT_DR",       SHIFT_IR       |-> "SHIFT_IR",
    EXIT1_DR         |-> "PAUSE_DR",       EXIT1_IR       |-> "PAUSE_IR",
    PAUSE_DR         |-> "PAUSE_DR",       PAUSE_IR       |-> "PAUSE_IR",
    EXIT2_DR         |-> "SHIFT_DR",       EXIT2_IR       |-> "SHIFT_IR",
    UPDATE_DR        |-> "RUN_TEST_IDLE",  UPDATE_IR      |-> "RUN_TEST_IDLE" ]

OnHigh ==
  [ TEST_LOGIC_RESET |-> "TEST_LOGIC_RESET", RUN_TEST_IDLE |-> "SELECT_DR_SCAN",
    SELECT_DR_SCAN   |-> "SELECT_IR_SCAN", SELECT_IR_SCAN |-> "TEST_LOGIC_RESET",
    CAPTURE_DR       |-> "EXIT1_DR",       CAPTURE_IR     |-> "EXIT1_IR",
    SHIFT_DR         |-> "EXIT1_DR",       SHIFT_IR       |-> "EXIT1_IR",
    EXIT1_DR         |-> "UPDATE_DR",      EXIT1_IR       |-> "UPDATE_IR",
    PAUSE_DR         |-> "EXIT2_DR",       PAUSE_IR       |-> "EXIT2_IR",
    EXIT2_DR         |-> "UPDATE_DR",      EXIT2_IR       |-> "UPDATE_IR",
    UPDATE_DR        |-> "SELECT_DR_SCAN", UPDATE_IR      |-> "SELECT_DR_SCAN" ]

Edge(s, tms) == IF tms THEN OnHigh[s] ELSE OnLow[s]

(***************************************************************************)
(* A block of n edges, all with TMS low except that the last one is high   *)
(* when `last` holds.  Two low edges reach a state that low edges no       *)
(* longer leave, so no recursion is needed (lemma LowIsStable).            *)
(***************************************************************************)
Lows(s, n) ==
  IF n = 0 THEN s ELSE IF n = 1 THEN OnLow[s] ELSE OnLow[OnLow[s]]

Block(s, n, last) ==
  IF n = 0 THEN s
  ELSE IF last THEN OnHigh[Lows(s, n - 1)] ELSE Lows(s, n)

==============================================================================
