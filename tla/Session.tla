------------------------------ MODULE Session -------------------------------
(***************************************************************************)
(* One run of xc3sprog: main (src/xc3sprog.cpp) looks at the chain, finds  *)
(* the device and hands its file arguments to the algorithm for it.  The   *)
(* algorithms are shown to implement DeviceContract.                       *)
(***************************************************************************)
EXTENDS Fpga, CpldXC95X, CpldXC2C, XMega, Avr

AtMain(stage) == host.pc = stage /\ Quiet

(* init_chain: one device the data base does not know spoils the chain.    *)
init_chain == /\ AtMain("main")
              /\ host' = IF req.chain # <<>> /\ \A k \in DOMAIN req.chain : req.chain[k]
                         THEN Go("get_id") ELSE Tell(Go("no_id"), TRUE)
get_id == /\ AtMain("get_id")
          /\ host' = IF req.pos < Len(req.chain) THEN Go("dispatch")
                     ELSE Tell(Go("no_id"), TRUE)

(* Without anything to do the chain is shown; 255 is the end of usage.     *)
detectchain == req.args = <<>> /\ ~req.reconfig /\ ~req.erase
NoId == AtMain("no_id") /\ host' = Exit(host, IF detectchain THEN 0 ELSE 2)
Dispatch ==
  /\ AtMain("dispatch")
  /\ host' = CASE detectchain -> Exit(host, 0)
               [] ~detectchain /\ req.npos # 1 -> Exit(Tell(host, TRUE), 255)
               [] OTHER -> IF req.kind = "other" THEN Exit(Tell(host, TRUE), 1) ELSE Go("begin")
MainNext == init_chain \/ get_id \/ NoId \/ Dispatch

Finished == host.pc = "done"
Stay == Finished /\ ~dev.busy /\ UNCHANGED vars

Next == \/ MainNext \/ FpgaNext \/ Next95 \/ Next2C \/ NextX \/ AvrNext
        \/ DeviceDone \/ Stay

(* Neither the program nor a device at work stops for ever.                *)
Spec == RunInit /\ [][Next]_vars /\ WF_vars(Next)

------------------------------------------------------------------------------
(***************************************************************************)
(* What the user asked for: the job of the contract.                       *)
(***************************************************************************)
BeforeJobs == host.pc \in {"main", "get_id", "no_id", "dispatch"}
BetweenJobs == BeforeJobs \/ host.pc \in {"args", "release", "leave", "done"}
Open == ~BetweenJobs /\ (host.n > 0 \/ req.erase)

OfXMega == req.kind = "xmega"
UsesFile == Arg.action \in {"v", "w", "W"}
FromFuses == TakesFuses(req.kind, req.map, Arg.style)
Broken == UsesFile /\ IF FromFuses THEN \A jed \in readJed(File) : jed.res # 0
                      ELSE \A r \in readFile(Arg.style, File) : r.res # 0
Asked == CASE Broken -> "impossible"
           [] ~Broken /\ Arg.action = "r" -> "read"
           [] ~Broken /\ Arg.action = "v" -> "verify"
           [] ~Broken /\ IsWrite -> "write"
           [] OTHER -> IF Arg.action = "e" THEN "erase" ELSE "nothing"
Contents(file) == SubSeq(file.of, 1, Min({N, Len(file.of)}))
Skip == IF IsWrite THEN Page * (Arg.offset \div Page) ELSE 0

JobX ==
  LET low == base(Arg.section)
  IN  CASE Arg.action = "r" -> Job("read", low + Arg.offset, ReadLength, 0, <<>>)
        [] Arg.action = "e" -> Job("erase", low, Sizes[Arg.section], 0, <<>>)
        [] OTHER -> Job(Asked, low, Sizes[Arg.section], low + Skip,
                        SubSeq(File.of, Skip + 1, Len(File.of)))
JobOther ==
  Job(Asked, 0, N, 0,
      IF ~UsesFile THEN <<>>
      ELSE IF req.kind = "xc2c" /\ Mapped THEN jedecfile2bitfile(File.of)
      ELSE IF req.kind \in {"xc95x", "xc2c"} THEN Contents(File) ELSE File.of)
job == IF BeforeJobs \/ (host.n = 0 /\ ~req.erase) THEN NoJob
       ELSE IF host.n = 0 THEN Job("erase", 0, N, 0, <<>>)
       ELSE IF ~OfXMega THEN JobOther
       ELSE IF Arg.section \in DOMAIN Sizes THEN JobX ELSE NoJob

(* What a file that was read says of the cells; bits without a fuse are    *)
(* not in a JEDEC file.                                                    *)
SavedCells ==
  LET of == disk[Arg.name].of
  IN  IF req.kind = "xc2c" /\ Mapped
      THEN [k \in 1..N |-> IF FuseMap[k] \in DOMAIN of THEN of[FuseMap[k]] ELSE dev.cells[k]]
      ELSE FillUp(of, job.size)
TooMany == req.kind = "xc95x" /\ host.n > 2    \* passed over, not even opened
saved == IF Open \/ TooMany \/ job.does # "read" THEN <<>> ELSE SavedCells

------------------------------------------------------------------------------
(***************************************************************************)
(* What the code is known to get wrong without a word to the user.         *)
(***************************************************************************)
IgnoredErase == req.erase /\ req.kind \in {"fpga", "avr"}
UncheckedErase ==       \* the blank check is not used, or skips the last bytes
  /\ req.erase
  /\ \/ req.kind = "xc95x"
     \/ req.kind = "xc2c" /\ \A a \in 1..N : a % 2 = 0 \/ dev.cells[a] = Erased
IgnoredAction ==
  \/ req.kind \in {"xc95x", "xc2c"} /\ Arg.action \notin {"r", "v", "w", "W"}
  \/ OfXMega /\ Arg.action \notin {"r", "v", "e", "w", "W"}
  \/ req.kind = "fpga" /\ Unsupported
ChangesX == OfXMega /\ Arg.action \in {"e", "w", "W"}
OnlyShown == ChangesX /\ Arg.section \in {"f", "l"}
WritesOver ==           \* -e erases once, and w does not then
  /\ ChangesX /\ req.erase /\ Arg.action = "w" /\ Arg.section # "e"
  /\ \E k \in 1..(host.n - 1) : req.args[k].action \in {"e", "w", "W"}
BeyondFirstPage == ChangesX /\ Arg.section = "e" /\ Len(job.data) > Page
Untold == ~BeforeJobs /\ IF host.n = 0 THEN IgnoredErase \/ UncheckedErase
                           ELSE IgnoredAction \/ OnlyShown \/ WritesOver
                                \/ BeyondFirstPage

(* The program works on with a device it believes ready, or with bytes     *)
(* that are not the file's, or not for the section.                        *)
Misread ==
  /\ UsesFile
  /\ IF FromFuses
     THEN \E jed \in readJed(File) : jed.res # 0 \/ jed.fuses # File.of
     ELSE \E r \in readFile(Arg.style, File) : r.res # 0 \/ r.bytes # File.of
Overlong == ChangesX /\ job.from + Len(job.data) > job.low + job.size
BeyondMemory ==
  /\ OfXMega /\ Arg.section \in DOMAIN Sizes
  /\ \/ Arg.action = "r" /\ job.low + job.size > N
     \/ Arg.action = "v" /\ job.from + Len(job.data) > N
PartOfPage == ChangesX /\ Len(job.data) % Page # 0
ErasesTwice == ChangesX /\ Arg.action = "e" /\ req.erase /\ host.fp
Astray == \/ host.blind
          \/ host.n > 0 /\ (Misread \/ Overlong \/ BeyondMemory \/ PartOfPage \/ ErasesTwice)

trouble == IF Astray THEN "lost"
           ELSE IF host.told \/ host.ret # 0 \/ host.exit > 0 \/ Untold THEN "told"
           ELSE "none"

Contract == INSTANCE DeviceContract WITH cells <- dev.cells, open <- Open

------------------------------------------------------------------------------
(***************************************************************************)
(* Properties.                                                             *)
(***************************************************************************)

(* The host's loops stay in their bounds, bytes and cells stay bytes, and  *)
(* no algorithm changes the size of the device or of its page buffer.      *)
TypeOK ==
  /\ host.n \in 0..Len(req.args) /\ host.i \in Nat /\ host.ret \in 0..3
  /\ host.polls \in 0..Max({StartPolls, SectorPolls, PdiRetries})
  /\ {host.bytes, host.out} \subseteq Seq(Byte)
  /\ {dev.cells, dev.todo, dev.latch} \subseteq [DOMAIN dev.cells -> Byte]
  /\ \A name \in DOMAIN disk : disk[name].of \in Seq(Byte)
  /\ Finished <=> host.exit >= 0

(* Every algorithm, whatever the files, the options and the delays of the  *)
(* device: the cells outside a job's area are left alone, those inside go  *)
(* only towards what was asked for, and the job ends with it achieved, or  *)
(* with the user told; the exceptions are those named above.               *)
ImplementsDevice == Contract!Spec

(* A file the program saved reads back as what was saved, in the style it  *)
(* was saved in (src/bitfile.cpp saveAs and readFile, src/jedecfile.cpp),  *)
(* once it is closed, by the program or by its end, but for one with       *)
(* a last line one byte short of full.                                     *)
LastLineShort(file) ==
  \/ file.style \in Records /\ Len(file.of) % LineLen = LineLen - 1
  \/ file.style = "HEXRAW" /\ Len(file.of) % RawLen = RawLen - 1
Closed(file) == [file EXCEPT !.flushed = @ \/ (Finished /\ host.exit \notin {Thrown, Segfault})]
SavedReadsBack ==
  host.n > 0 /\ ~TooMany /\ Arg.action = "r" =>
    LET file == Closed(File)
    IN  file.flushed /\ ~LastLineShort(file) =>
          /\ file.style = "JEDEC" => readJed(file) = {Jed(0, file.of, req.device)}
          /\ file.style \in Readable => readFile(file.style, file) = {Result(0, file.of)}

(* Exit code 0 after a verify, or after a write to a CPLD, which verifies, *)
(* means that the device holds the file: a script has no more to look at.  *)
(* A third argument of a CPLD is not worked on, and yet does not count.    *)
(* Astray exempts a verify against bytes that are not the file's, too: a   *)
(* file misread without a result to look at may well end with 0.           *)
Verifies == \/ job.does = "verify" /\ req.kind # "fpga"
            \/ job.does = "write" /\ req.kind \in {"xc95x", "xc2c"}
WorkedOn == host.fp /\ ~(req.kind \in {"xc95x", "xc2c"} /\ host.n > 2)
ZeroMeansVerified ==
  Finished /\ host.exit = 0 /\ host.n > 0 /\ Verifies /\ WorkedOn /\ ~Astray
    => Contract!Part(dev.cells, job.from, Len(job.data)) = job.data

(* Every run ends, whatever the device and the line to it do, if the       *)
(* device is done with its work some time: the FPGA loop has no bound of   *)
(* its own, the others count.                                              *)
Ends == <>Finished
==============================================================================
