----------------------------- MODULE Programmer -----------------------------
(***************************************************************************)
(* What the algorithms for the devices share: one run of xc3sprog with one *)
(* device, its file arguments, and the files.                              *)
(*                                                                         *)
(* The host runs beside the device, which is busy after some commands for  *)
(* as long as it likes and takes no other command until then.              *)
(***************************************************************************)
EXTENDS ImageFile

CONSTANT Requests   \* the runs: command lines, devices and files found

Kinds == {"fpga", "xc95x", "xc2c", "xmega", "avr", "other"}
Arguments == [name : STRING, action : STRING, section : STRING, offset : Nat,
              style : STRING, length : Nat]

(* A CPLD is programmed from fuses, but with a bit file where that is asked*)
(* for or there is no map.                                                 *)
TakesFuses(kind, map, style) == kind = "xc95x" \/ (kind = "xc2c" /\ map /\ style = "JEDEC")

(* What is offered as a JEDEC file has fields, what is offered as another  *)
(* has lines, whatever is in them.                                         *)
Fits(file, name, r) ==
  \E fuses \in BOOLEAN :
    /\ file \in Files(IF fuses THEN Fields ELSE Lines)
    /\ \A k \in DOMAIN r.args :
         r.args[k].name = name => TakesFuses(r.kind, r.map, r.args[k].style) = fuses

ASSUME RequestAssumption ==
  \A r \in Requests :
    /\ {"kind", "device", "args", "erase", "verbose", "reconfig", "map", "known", "chain",
        "pos", "npos", "cells", "disk"} \subseteq DOMAIN r
    /\ r.kind \in Kinds /\ r.device \in STRING /\ r.cells \in Seq(Byte) \ {<<>>}
    /\ {r.erase, r.verbose, r.reconfig, r.map, r.known} \subseteq BOOLEAN
    /\ r.chain \in Seq(BOOLEAN) /\ {r.pos, r.npos} \subseteq Nat
    /\ r.args \in Seq(Arguments)
    /\ \A k \in DOMAIN r.args : r.args[k].name \in DOMAIN r.disk
    /\ \A name \in DOMAIN r.disk : Fits(r.disk[name], name, r)

VARIABLES
  req,      \* [kind, erase, verbose, reconfig, args, device, map, known,
            \*  chain, pos, npos], the run
  host,     \* the program: see Started
  dev,      \* the device: see Fresh
  disk      \* the files, by name

vars == <<req, host, dev, disk>>

Fresh(cells) ==
  [cells |-> cells, todo |-> cells,    \* the memory, and what it is becoming
   busy |-> FALSE, isc |-> FALSE,      \* at work; ready to be programmed
   pipe |-> Erased,                    \* the word read last
   latch |-> Fill(Len(cells), Erased), \* a page or sector to be programmed
   done |-> FALSE]                     \* told that it is programmed
Started ==
  [pc |-> "main", n |-> 0,             \* the argument at work
   fp |-> FALSE, bytes |-> <<>>,       \* its file, opened and read
   out |-> <<>>,                       \* what was read from the device
   i |-> 0, polls |-> 0, then |-> "",  \* loops, and where a call returns to
   res |-> 0, ret |-> 0,               \* the result of a call, and the exit code
   wait |-> 0,                         \* the result of a wait for the device
   told |-> FALSE,                     \* something was reported as wrong
   blind |-> FALSE,                    \* history: went on with a busy device
   exit |-> -1]

RunInit == \E r \in Requests :
          /\ req = [x \in DOMAIN r \ {"cells", "disk"} |-> r[x]]
          /\ host = Started /\ dev = Fresh(r.cells) /\ disk = r.disk

Running(kind, stage) == req.kind = kind /\ host.pc = stage
Go(stage) == [host EXCEPT !.pc = stage]
Tell(h, wrong) == [h EXCEPT !.told = @ \/ wrong]
Exit(h, code) == [h EXCEPT !.pc = "done", !.exit = code]
Throw == Exit(host, Thrown)
EndOfArg_wrong == Go("args")
EndOfArg == IF host.ret # 0 THEN Exit(host, host.ret) ELSE Go("args")
Quiet == UNCHANGED <<req, dev, disk>>

------------------------------------------------------------------------------
(***************************************************************************)
(* The device.  A word read comes out one read late.                       *)
(***************************************************************************)
N == Len(dev.cells)
Working(cells) == [dev EXCEPT !.todo = cells, !.busy = TRUE]
Ready == dev.isc /\ ~dev.busy
Command(d) == dev' = IF Ready THEN d ELSE dev
Burnt(cells, data, at) ==       \* data at the cells after at
  [a \in DOMAIN cells |-> IF a - at \in DOMAIN data THEN Burn(cells[a], data[a - at])
                          ELSE cells[a]]
Blank == Fill(N, Erased)
Fetch(a) == [dev EXCEPT !.pipe = IF Ready THEN dev.cells[a] ELSE Erased]

DeviceDone == /\ dev.busy /\ dev' = [dev EXCEPT !.cells = dev.todo, !.busy = FALSE]
              /\ UNCHANGED <<req, host, disk>>

------------------------------------------------------------------------------
(***************************************************************************)
(* getFile_and_Attribute_from_name: the next argument, with its attributes.*)
(* A file to be written is created, unless there is one with something in  *)
(* and the action is not R; to the drivers R is r.                         *)
(***************************************************************************)
Arg == [req.args[host.n] EXCEPT !.action = IF @ = "R" THEN "r" ELSE @]
HasFile(arg) == CASE arg.action = "R" -> TRUE
                  [] arg.action = "r" -> disk[arg.name].lines = <<>>
                  [] OTHER -> disk[arg.name] # Missing
NextArg == req.args[host.n + 1]
NoMoreArgs == host.n = Len(req.args)
TakeArg(stage) ==
  /\ ~NoMoreArgs
  /\ host' = [Tell(Go(stage), ~HasFile(NextArg)) EXCEPT
                !.n = @ + 1, !.fp = HasFile(NextArg), !.ret = 0, !.i = 0,
                !.bytes = <<>>, !.out = <<>>]
  /\ disk' = IF NextArg.action \in {"r", "R"} /\ HasFile(NextArg)
             THEN [disk EXCEPT ![NextArg.name] = Empty] ELSE disk
  /\ UNCHANGED <<req, dev>>
IsWrite == Arg.action \in {"w", "W"}
File == IF host.fp THEN disk[Arg.name] ELSE Missing

(* What is written to a file nobody closes stays in the C library's buffer *)
(* until the program ends.                                                 *)
Written(file, closed) == disk' = [disk EXCEPT ![Arg.name] = [file EXCEPT !.flushed = closed]]
==============================================================================
