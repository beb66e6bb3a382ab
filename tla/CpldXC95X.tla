------------------------------ MODULE CpldXC95X ------------------------------
(***************************************************************************)
(* programXC95X (src/xc3sprog.cpp) and ProgAlgXC95X                        *)
(* (src/progalgxc95x.cpp).  A cell is a word of DRegLength bytes; a sector *)
(* is programmed when its last word has come.                              *)
(***************************************************************************)
EXTENDS Programmer

CONSTANTS
  SectorWords,    \* 15 in the code
  SectorPolls     \* bound: 32 in the code

ASSUME SectorAssumption ==
  /\ {SectorWords, SectorPolls} \subseteq Nat \ {0}
  /\ \A r \in Requests : r.kind = "xc95x" => Len(r.cells) % SectorWords = 0

At95(stage) == Running("xc95x", stage)

Begin95 == /\ At95("begin") /\ Quiet
           /\ host' = [Go(IF req.erase THEN "erase" ELSE "args") EXCEPT !.then = "args"]

(* erase: flow_enable, flow_erase, and a blank check whose result nobody   *)
(* uses.  The erase may leave the cells as they are.                       *)
Erase95 == /\ At95("erase") /\ host' = Go("erasing")
           /\ \E cells \in {Blank, dev.cells} :
                dev' = [(IF dev.busy THEN dev ELSE Working(cells)) EXCEPT !.isc = TRUE]
           /\ UNCHANGED <<req, disk>>
Erased95 ==
  /\ At95("erasing") /\ Quiet
  /\ host' = [Tell(Go(host.then), dev.busy) EXCEPT !.blind = @ \/ dev.busy]

TooMany95 == /\ At95("args") /\ ~NoMoreArgs /\ host.n >= 2 /\ Quiet
             /\ host' = [Tell(host, TRUE) EXCEPT !.n = @ + 1]
Open95 == At95("args") /\ host.n < 2 /\ TakeArg("file")
Return95 == At95("args") /\ NoMoreArgs /\ host' = Exit(host, 0) /\ Quiet
Ignore95 == At95("file") /\ Arg.action \notin {"r", "v", "w", "W"} /\ host' = Go("args") /\ Quiet

(* Whether the JEDEC file could be read is not looked at: its fuses are    *)
(* used, and the first one that is not there ends the program.             *)
AfterFile ==
  CASE Arg.action = "w" /\ ~req.erase -> "erase"
    [] IsWrite -> "program"
    [] OTHER -> "enable"
File95 == /\ At95("file") /\ Arg.action \in {"v", "w", "W"} /\ Quiet
          /\ \E jed \in readJed(File) :
               host' = IF jed.res = Thrown THEN Throw
                       ELSE [Go(AfterFile) EXCEPT !.bytes = jed.fuses, !.then = "program"]

------------------------------------------------------------------------------
(***************************************************************************)
(* flow_array_program.  Nothing enables the device here: it still is after *)
(* an erase, and is not after a verify.                                    *)
(***************************************************************************)
LastOfSector == (host.i + 1) % SectorWords = 0
NoFuse == host.i + 1 > Len(host.bytes)

Latched == [dev.latch EXCEPT ![host.i + 1] = host.bytes[host.i + 1]]
Program95 ==
  /\ At95("program") /\ host.i < N /\ ~NoFuse
  /\ IF LastOfSector
     THEN /\ Command([Working(Burnt(dev.cells, Latched, 0)) EXCEPT !.latch = Blank])
          /\ host' = [Go("polling") EXCEPT !.polls = 0]
     ELSE /\ Command([dev EXCEPT !.latch = Latched])
          /\ host' = [host EXCEPT !.i = @ + 1]
  /\ UNCHANGED <<req, disk>>
PollSector == /\ At95("polling") /\ ~Ready /\ host.polls < SectorPolls /\ Quiet
              /\ host' = [host EXCEPT !.polls = @ + 1]
SectorDone == /\ At95("polling") /\ Ready /\ host.polls < SectorPolls /\ Quiet
              /\ host' = [Go("program") EXCEPT !.i = @ + 1]
(* "failed"; array_program forgets it, and the verify comes next.          *)
SectorFailed == /\ At95("polling") /\ host.polls = SectorPolls /\ Quiet
                /\ host' = [Tell(Go("enable"), TRUE) EXCEPT !.blind = @ \/ dev.busy]
Programmed95 == At95("program") /\ host.i = N /\ host' = Go("enable") /\ Quiet
NoFuse95 == At95("program") /\ host.i < N /\ NoFuse /\ host' = Throw /\ Quiet

------------------------------------------------------------------------------
(***************************************************************************)
(* flow_array_verify and flow_array_read.  Every word comes with the next  *)
(* address, and the last one with the same address again.                  *)
(***************************************************************************)
Enable95 == /\ At95("enable") \/ (At95("file") /\ Arg.action = "r")
            /\ host' = [Go(IF Arg.action = "r" THEN "read" ELSE "verify") EXCEPT
                          !.i = 0, !.out = Blank]
            /\ dev' = [dev EXCEPT !.isc = TRUE] /\ UNCHANGED <<req, disk>>

Address_wrong == IF host.i = 0 THEN 1 ELSE host.i
Address == IF host.i < N THEN host.i + 1 ELSE N
Scan95 == host.i <= N /\ dev' = Fetch(Address) /\ UNCHANGED <<req, disk>>

Matches == host.i = 0 \/ dev.pipe = host.bytes[host.i]
Verify95 ==
  /\ At95("verify") /\ Scan95
  /\ host' = IF host.i > Len(host.bytes) THEN Throw
             ELSE IF Matches THEN [host EXCEPT !.i = @ + 1]
             ELSE [Tell(Go("verified"), TRUE) EXCEPT !.ret = 1]
Read95 ==
  /\ At95("read") /\ Scan95
  /\ host' = [host EXCEPT !.i = @ + 1,
                          !.out = IF host.i = 0 THEN @ ELSE [@ EXCEPT ![host.i] = dev.pipe]]

(* flow_disable.                                                           *)
Disable95 ==
  /\ At95("verified") \/ (At95("verify") /\ host.i > N) \/ (At95("read") /\ host.i > N)
  /\ dev' = [dev EXCEPT !.isc = FALSE] /\ UNCHANGED req
  /\ host' = EndOfArg
  /\ IF Arg.action = "r" /\ host.fp
     THEN Written(saveAsJed(host.out, req.device), FALSE) ELSE UNCHANGED disk

Next95 == \/ Begin95 \/ Erase95 \/ Erased95 \/ TooMany95 \/ Open95 \/ Return95 \/ Ignore95
          \/ File95 \/ Program95 \/ PollSector \/ SectorDone \/ SectorFailed
          \/ Programmed95 \/ NoFuse95 \/ Enable95 \/ Verify95 \/ Read95 \/ Disable95
==============================================================================
