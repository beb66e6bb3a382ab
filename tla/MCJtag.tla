------------------------------- MODULE MCJtag --------------------------------
(***************************************************************************)
(* Small instances of Jtag for TLC.                                        *)
(***************************************************************************)
EXTENDS Jtag

OneDevice == {<<2>>}
NoneOrThree == {<<>>, <<1, 2, 2>>}
CallersGoals == {"TEST_LOGIC_RESET", "SELECT_DR_SCAN", "SHIFT_DR", "SHIFT_IR"}
NoMisuse == {}
AbandonScan == {"abandon"}
ZeroLength == {"zero"}
Idle == {"RUN_TEST_IDLE"}
IdleOrExit1 == {"RUN_TEST_IDLE", "EXIT1_IR"}

(* The locals of a method are dead between two calls; so are the counts of *)
(* a scan that has been left.                                              *)
View ==
  <<hardware, cable, current_state, params, shiftDRincomplete, pc, erase,
    IF pc \in {"idle", "sleep"} THEN <<>> ELSE <<walk, reset, op, want>>,
    IF pc \in {"idle", "sleep"} /\ ~Midway THEN <<>> ELSE <<clocked>>,
    IF shiftDRincomplete THEN <<want>> ELSE <<>> >>
==============================================================================
