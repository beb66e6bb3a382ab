------------------------------ MODULE CpldXC2C ------------------------------
(***************************************************************************)
(* programXC2C (src/xc3sprog.cpp) and ProgAlgXC2C (src/progalgxc2c.cpp).   *)
(* A row has two cells here: the second stands for its last byte, which    *)
(* blank_check does not look at.  The host waits the longest time an erase *)
(* or a row can take.                                                      *)
(***************************************************************************)
EXTENDS Programmer

ASSUME RowAssumption ==
  \A r \in Requests : r.kind = "xc2c" => /\ Len(r.cells) % 2 = 0
                                         /\ r.map => Len(r.cells) = Len(FuseMap)

At2C(stage) == Running("xc2c", stage)

Rows == N \div 2
Row(bytes, r) == SubSeq(bytes, 2 * r + 1, 2 * r + 2)
Mapped == req.map /\ Arg.style = "JEDEC"

Begin2C == /\ At2C("begin") /\ Quiet
           /\ host' = [Go(IF req.erase THEN "erase" ELSE "args") EXCEPT !.then = "args"]

(* erase, which may fail for all the cells or for some.                    *)
LastBytesKept == [a \in 1..N |-> IF a % 2 = 0 THEN dev.cells[a] ELSE Erased]
Erase2C == /\ At2C("erase") /\ host' = [Go("blank") EXCEPT !.i = 0]
           /\ \E cells \in {Blank, dev.cells, LastBytesKept} :
                dev' = [dev EXCEPT !.cells = cells, !.isc = TRUE, !.pipe = 0]
           /\ UNCHANGED <<req, disk>>

(* Each row comes out with the address of the next one.                    *)
NextRow == dev' = [dev EXCEPT !.pipe = host.i + 1] /\ UNCHANGED <<req, disk>>
ThisRow == Row(dev.cells, dev.pipe)
CloseIsc == dev' = [dev EXCEPT !.isc = FALSE]

BlankRow == /\ At2C("blank") /\ host.i < Rows /\ ThisRow[1] = Erased
            /\ NextRow /\ host' = [host EXCEPT !.i = @ + 1]
IsBlank == /\ At2C("blank") /\ host.i = Rows /\ CloseIsc
           /\ host' = [Go(host.then) EXCEPT !.i = 0]
           /\ UNCHANGED <<req, disk>>
(* A row that is not blank leaves the device enabled.  After -e this ends  *)
(* the program, before a program it only keeps from that.                  *)
NotBlank == /\ At2C("blank") /\ host.i < Rows /\ ThisRow[1] # Erased /\ Quiet
            /\ host' = Tell(IF host.then = "args" THEN Exit(host, 1) ELSE Go("verify"), TRUE)

Open2C == At2C("args") /\ TakeArg("file")
Return2C == At2C("args") /\ NoMoreArgs /\ host' = Exit(host, 0) /\ Quiet
TooMany2C == At2C("file") /\ host.n > 2 /\ host' = Tell(Go("args"), TRUE) /\ Quiet
AtFile2C == At2C("file") /\ host.n <= 2
Ignore2C == /\ AtFile2C /\ Arg.action \notin {"r", "v", "w", "W"} /\ host' = Go("args")
            /\ Quiet

------------------------------------------------------------------------------
(***************************************************************************)
(* The file.  Where a map is there, the device of the JEDEC file is looked *)
(* at, even when a bit file was read.                                      *)
(***************************************************************************)
After2C ==
  CASE Arg.action = "w" /\ ~req.erase -> "erase"
    [] IsWrite -> "program"
    [] OTHER -> "verify"
Checked2C(res, bytes, device) ==
  LET ret == IF device # req.device THEN 3 ELSE res
  IN  IF ret # 0 THEN Exit(Tell(host, TRUE), ret)
      ELSE [Go(After2C) EXCEPT !.bytes = bytes, !.then = "program"]
JedFile2C ==
  /\ AtFile2C /\ Arg.action \in {"v", "w", "W"} /\ Mapped /\ Quiet
  /\ \E jed \in readJed(File) :
       host' = IF jed.res = Thrown THEN Throw
               ELSE Checked2C(jed.res, jedecfile2bitfile(jed.fuses), jed.device)
PartName == IF Arg.style = "BIT" /\ ~req.map THEN File.device ELSE "none"
BitFile2C ==
  /\ AtFile2C /\ Arg.action \in {"v", "w", "W"} /\ ~Mapped /\ Quiet
  /\ \E r \in readFile(Arg.style, File) :
       host' = IF r.bytes = <<>> THEN Exit(Tell(host, TRUE), 2)
               ELSE Tell(Checked2C(0, r.bytes, PartName), r.res # 0)

------------------------------------------------------------------------------
(***************************************************************************)
(* array_program, array_verify, done_program and array_read.               *)
(***************************************************************************)
Short == 2 * host.i + 2 > Len(host.bytes)
Program2C ==
  /\ At2C("program") /\ host.i < Rows /\ ~Short
  /\ dev' = [dev EXCEPT !.isc = TRUE,
                        !.cells = Burnt(@, Row(host.bytes, host.i), 2 * host.i)]
  /\ host' = [host EXCEPT !.i = @ + 1] /\ UNCHANGED <<req, disk>>
Programmed2C == /\ At2C("program") /\ host.i = Rows /\ CloseIsc
                /\ host' = [Go("verify") EXCEPT !.i = 0] /\ UNCHANGED <<req, disk>>

OpenRows(stage, next) ==
  /\ At2C(stage) /\ host' = [Go(next) EXCEPT !.i = 0, !.out = Blank]
  /\ dev' = [dev EXCEPT !.isc = TRUE, !.pipe = 0] /\ UNCHANGED <<req, disk>>
StartVerify == OpenRows("verify", "verifying")
StartRead == AtFile2C /\ Arg.action = "r" /\ OpenRows("file", "reading")

Verify2C == /\ At2C("verifying") /\ host.i < Rows /\ ~Short
            /\ ThisRow = Row(host.bytes, host.i)
            /\ NextRow /\ host' = [host EXCEPT !.i = @ + 1]
Verified2C == /\ At2C("verifying") /\ host.i = Rows /\ CloseIsc /\ host' = Go("finish")
              /\ UNCHANGED <<req, disk>>
(* Cell by cell, as far as the file goes: a difference ends the verify, and *)
(* get_bit throws at the first bit past the end of the file.               *)
Differs == \E c \in 1..2 : /\ 2 * host.i + c \in DOMAIN host.bytes
                           /\ ThisRow[c] # host.bytes[2 * host.i + c]
Mismatch2C == /\ At2C("verifying") /\ host.i < Rows /\ Differs /\ CloseIsc
              /\ host' = [Tell(Go("finish"), TRUE) EXCEPT !.ret = 1] /\ UNCHANGED <<req, disk>>
NoBit == /\ At2C("program") \/ (At2C("verifying") /\ ~Differs)
         /\ host.i < Rows /\ Short /\ host' = Throw /\ Quiet

(* The done bits are programmed after every verify, the failed ones too.   *)
DoneProgram == /\ At2C("finish") /\ dev' = [dev EXCEPT !.done = TRUE, !.isc = FALSE]
               /\ host' = EndOfArg
               /\ UNCHANGED <<req, disk>>

Read2C == /\ At2C("reading") /\ host.i < Rows /\ NextRow
          /\ host' = [host EXCEPT !.i = @ + 1,
                                  !.out = [a \in DOMAIN @ |->
                                    IF a - 2 * host.i \in 1..2 THEN ThisRow[a - 2 * host.i]
                                    ELSE @[a]]]
(* Without a file saveAsJed gives up, and saveAs writes to none and dies,  *)
(* but for a style it does not know.                                       *)
NoStyle == ~Mapped /\ Arg.style \notin Savable
Save2C ==
  /\ At2C("reading") /\ host.i = Rows /\ CloseIsc /\ UNCHANGED req
  /\ host' = IF host.fp \/ Mapped \/ NoStyle THEN Tell(Go("args"), NoStyle)
             ELSE Exit(host, Segfault)
  /\ IF ~host.fp THEN UNCHANGED disk
     ELSE Written(IF Mapped THEN saveAsJed(bitfile2jedecfile(host.out), req.device)
                  ELSE [saveAs(Arg.style, host.out, 0) EXCEPT !.device = req.device], TRUE)

Next2C == \/ Begin2C \/ Erase2C \/ BlankRow \/ IsBlank \/ NotBlank \/ Open2C \/ Return2C
          \/ TooMany2C \/ Ignore2C \/ JedFile2C \/ BitFile2C \/ Program2C \/ Programmed2C
          \/ StartVerify \/ StartRead \/ Verify2C \/ Verified2C \/ Mismatch2C \/ NoBit
          \/ DoneProgram \/ Read2C \/ Save2C
==============================================================================
