-------------------------------- MODULE Avr ---------------------------------
(***************************************************************************)
(* jAVR (src/javr.cpp) and ProgAlgAVR (src/progalgavr.cpp).  The fuses and *)
(* the EEPROM are read to be shown.  What comes after the S-record file    *)
(* was read, the chip erase and the pages, is not here: DecodeSRecordLine  *)
(* accepts no line, so that no run reaches it.                             *)
(***************************************************************************)
EXTENDS Programmer

AtAvr(stage) == Running("avr", stage)

UnknownAvr == AtAvr("begin") /\ ~req.known /\ host' = Exit(Tell(host, TRUE), 1) /\ Quiet

(* progmode(true), read_fuses and read_eeprom.                             *)
ProgMode(on) == dev' = [dev EXCEPT !.isc = on] /\ UNCHANGED <<req, disk>>
EnterAvr == AtAvr("begin") /\ req.known /\ ProgMode(TRUE) /\ host' = Go("args")

(* Only the first argument is looked at, and nothing but its name.         *)
ShownAvr == AtAvr("args") /\ NoMoreArgs /\ host' = Go("leave") /\ Quiet
OpenAvr == AtAvr("args") /\ ~NoMoreArgs /\ host' = [Go("srec") EXCEPT !.n = 1] /\ Quiet
SrecFile == LET n == readSrecFile(disk[Arg.name]) IN
            /\ AtAvr("srec") /\ n <= 0 /\ Quiet
            /\ host' = [Tell(Go("leave"), n = 0) EXCEPT !.ret = 1]

LeaveAvr == AtAvr("leave") /\ ProgMode(FALSE) /\ host' = Exit(host, host.ret)

AvrNext == UnknownAvr \/ EnterAvr \/ ShownAvr \/ OpenAvr \/ SrecFile \/ LeaveAvr
==============================================================================
