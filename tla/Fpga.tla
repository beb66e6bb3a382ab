-------------------------------- MODULE Fpga --------------------------------
(***************************************************************************)
(* programXC3S (src/xc3sprog.cpp) and ProgAlgXC3S (src/progalgxc3s.cpp):   *)
(* an FPGA is cleared, loaded and started.  An FPGA that takes a bit       *)
(* stream comes up with it, one that does not stays blank.                 *)
(***************************************************************************)
EXTENDS Programmer

CONSTANT StartPolls   \* bound: looks at a device that starts, 50 in the code

ASSUME StartPollsAssumption == StartPolls \in Nat \ {0}

AtFpga(stage) == Running("fpga", stage)

IsUp == ~dev.busy /\ dev.cells # Blank

FpgaBegin == /\ AtFpga("begin") /\ host' = Go(IF req.reconfig THEN "reconfig" ELSE "args") /\ Quiet

(* reconfig: the device loads itself again, from a memory of its own.      *)
Reconfigurable == req.device \in {"xc2v", "xc3s", "xc6s"}
reconfig ==
  /\ AtFpga("reconfig")
  /\ host' = [Exit(Tell(host, ~Reconfigurable), 0) EXCEPT !.blind = Reconfigurable]
  /\ \E own \in {dev.cells, Blank} :
       dev' = IF Reconfigurable THEN Working(own) ELSE dev
  /\ UNCHANGED <<req, disk>>

FpgaOpen == AtFpga("args") /\ TakeArg("check")
FpgaReturn == AtFpga("args") /\ NoMoreArgs /\ host' = Exit(host, 0) /\ Quiet

(* What is not supported is passed over, and told to who asked for -v.     *)
Unsupported == ~IsWrite \/ Arg.offset # 0 \/ Arg.length # 0
FpgaSkip == /\ AtFpga("check") /\ Unsupported
        /\ host' = Tell(Go("args"), req.verbose) /\ Quiet
FpgaRead == /\ AtFpga("check") /\ ~Unsupported /\ Quiet
        /\ \E r \in readFile(Arg.style, File) :
             host' = IF r.res # 0 THEN Tell(Go("args"), TRUE)
                     ELSE [Go(IF req.device = "xc2s" THEN "load" ELSE "enable")
                             EXCEPT !.bytes = r.bytes]

(* flow_enable and JPROGRAM; then the loop waits for INIT without a bound. *)
jprogram == /\ AtFpga("enable") /\ host' = Go("clearing")
            /\ dev' = [Working(Blank) EXCEPT !.isc = TRUE] /\ UNCHANGED <<req, disk>>
WaitInit == AtFpga("clearing") /\ ~dev.busy /\ host' = Go("load") /\ Quiet

(* flow_program_legacy and flow_disable; flow_program_xc2s, which looks at *)
(* nothing the device answers.                                             *)
FpgaLoad == /\ AtFpga("load")
        /\ \E accepted \in {FALSE, Len(host.bytes) = N} :
             dev' = [Working(IF accepted THEN host.bytes ELSE Blank) EXCEPT !.isc = FALSE]
        /\ host' = [Go(IF req.device = "xc2s" THEN "args" ELSE "starting")
                      EXCEPT !.polls = 0, !.res = 0, !.blind = @ \/ req.device = "xc2s"]
        /\ UNCHANGED <<req, disk>>

(* The instruction capture shows whether the device has come up.  One that *)
(* is up at the last look is reported as not configured, too.              *)
StartingUp == host.res = 0 /\ host.polls < StartPolls
FpgaPoll == /\ AtFpga("starting") /\ StartingUp /\ Quiet
        /\ host' = [host EXCEPT !.polls = @ + 1, !.res = IF IsUp THEN 1 ELSE 0]
GaveUp == host.polls = StartPolls
FpgaProgrammed == /\ AtFpga("starting") /\ ~StartingUp /\ Quiet
              /\ host' = [Tell(Go("args"), GaveUp) EXCEPT !.blind = @ \/ dev.busy]

FpgaNext == \/ FpgaBegin \/ reconfig \/ FpgaOpen \/ FpgaReturn \/ FpgaSkip \/ FpgaRead \/ jprogram
            \/ WaitInit \/ FpgaLoad \/ FpgaPoll \/ FpgaProgrammed
==============================================================================
