---------------------------- MODULE SessionProofs ----------------------------
(***************************************************************************)
(* A run of xc3sprog: its types, and that the algorithms for the devices   *)
(* implement DeviceContract, for every command line, every file, every     *)
(* device and every delay.                                                 *)
(***************************************************************************)
EXTENDS Session, ImageFileProofs

------------------------------------------------------------------------------
(***************************************************************************)
(* The sections of an XMega lie one after the other.                       *)
(***************************************************************************)
LEMMA SizesAre ==
  ASSUME NEW s \in {"a", "b", "e", "f", "l"}
  PROVE  Sizes[s] \in Nat \ {0} /\ s \in DOMAIN Sizes
BY XMegaAssumption

LEMMA BeforeIs ==
  /\ Before[0] = 0 /\ Before[1] = Sizes["a"] /\ Before[2] = Before[1] + Sizes["b"]
  /\ Before[3] = Before[2] + Sizes["e"] /\ Before[4] = Before[3] + Sizes["f"]
  /\ Before[5] = Before[4] + Sizes["l"]
<1> DEFINE S(k) == Sizes[Sections[k]]
           Eq(g) == g = [k \in 0..5 |-> IF k = 0 THEN 0 ELSE g[k - 1] + S(k)]
           h == [k \in 0..5 |-> CASE k = 0 -> 0
                                  [] k = 1 -> S(1)
                                  [] k = 2 -> S(1) + S(2)
                                  [] k = 3 -> S(1) + S(2) + S(3)
                                  [] k = 4 -> S(1) + S(2) + S(3) + S(4)
                                  [] k = 5 -> S(1) + S(2) + S(3) + S(4) + S(5)]
<1>1. /\ S(1) = Sizes["a"] /\ S(2) = Sizes["b"] /\ S(3) = Sizes["e"] /\ S(4) = Sizes["f"]
      /\ S(5) = Sizes["l"]
  BY DEF Sections
<1>2. S(1) \in Nat /\ S(2) \in Nat /\ S(3) \in Nat /\ S(4) \in Nat /\ S(5) \in Nat
  BY <1>1, SizesAre
<1> HIDE DEF S
<1>3. Eq(h)
  <2>1. 0..5 = {0, 1, 2, 3, 4, 5}  OBVIOUS
  <2>2. /\ h[0] = 0 /\ h[1] = S(1) /\ h[2] = S(1) + S(2) /\ h[3] = S(1) + S(2) + S(3)
        /\ h[4] = S(1) + S(2) + S(3) + S(4) /\ h[5] = S(1) + S(2) + S(3) + S(4) + S(5)
    BY <1>2
  <2>3. h = [k \in 0..5 |-> h[k]]  OBVIOUS
  <2> HIDE DEF h
  <2>4. \A k \in 0..5 : h[k] = IF k = 0 THEN 0 ELSE h[k - 1] + S(k)
    BY <2>1, <2>2, <1>2
  <2>5. QED  BY <2>3, <2>4
<1>4. Eq(Before)
  <2>1. Eq(CHOOSE g : Eq(g))  BY <1>3
  <2>2. Before = CHOOSE g : Eq(g)  BY DEF Before, S
  <2>3. QED  BY <2>1, <2>2
<1>5. Before = [k \in 0..5 |-> IF k = 0 THEN 0 ELSE Before[k - 1] + S(k)]
  BY <1>4
<1> HIDE DEF Eq, h
<1>6. \A k \in 0..5 : Before[k] = IF k = 0 THEN 0 ELSE Before[k - 1] + S(k)
  BY <1>5
<1>7. /\ Before[0] = 0 /\ Before[1] = Before[0] + S(1) /\ Before[2] = Before[1] + S(2)
      /\ Before[3] = Before[2] + S(3) /\ Before[4] = Before[3] + S(4)
      /\ Before[5] = Before[4] + S(5)
  <2>1. 0 \in 0..5 /\ 1 \in 0..5 /\ 2 \in 0..5 /\ 3 \in 0..5 /\ 4 \in 0..5 /\ 5 \in 0..5
    OBVIOUS
  <2>2. Before[1] = Before[0] + S(1)  BY <1>6, <2>1
  <2>3. Before[2] = Before[1] + S(2)  BY <1>6, <2>1
  <2>4. Before[3] = Before[2] + S(3)  BY <1>6, <2>1
  <2>5. Before[4] = Before[3] + S(4)  BY <1>6, <2>1
  <2>6. Before[5] = Before[4] + S(5)  BY <1>6, <2>1
  <2>7. QED  BY <1>6, <2>1, <2>2, <2>3, <2>4, <2>5, <2>6
<1>8. QED  BY <1>1, <1>2, <1>7

------------------------------------------------------------------------------
(***************************************************************************)
(* The type invariant: what a run is asked for, what is on the disk, and   *)
(* how far each algorithm is at each of its stages.                        *)
(***************************************************************************)
RequestOK ==
  /\ req.kind \in Kinds /\ req.device \in STRING
  /\ req.args \in Seq(Arguments)
  /\ \A k \in DOMAIN req.args : req.args[k].name \in DOMAIN disk
  /\ req.kind = "xc95x" => N % SectorWords = 0
  /\ req.kind = "xc2c" => N % 2 = 0 /\ (req.map => N = Len(FuseMap))
  /\ req.kind = "xmega" => N = Before[5]

(* A file is used for fuses by all the arguments that name it, or by none. *)
ForFuses(name) == \A k \in DOMAIN req.args : req.args[k].name = name =>
                    TakesFuses(req.kind, req.map, req.args[k].style)
ForBytes(name) == \A k \in DOMAIN req.args : req.args[k].name = name =>
                    ~TakesFuses(req.kind, req.map, req.args[k].style)
DiskOK == \A name \in DOMAIN disk :
            \/ disk[name] \in NamedFiles(NamedFields) /\ ForFuses(name)
            \/ disk[name] \in NamedFiles(Lines) /\ ForBytes(name)

HostFields == {"pc", "n", "fp", "bytes", "out", "i", "polls", "then", "res", "ret", "wait",
               "told", "blind", "exit"}
HostOK ==
  /\ DOMAIN host = HostFields
  /\ host.n \in 0..Len(req.args) /\ host.i \in Nat /\ host.polls \in Nat
  /\ host.res \in Nat /\ host.ret \in 0..1 /\ host.wait \in 0..1
  /\ host.bytes \in Seq(Byte) /\ host.out \in Seq(Byte)
  /\ host.exit \in Int /\ (Finished <=> host.exit >= 0) /\ (~Finished => host.exit = -1)
  /\ req.kind = "fpga" => host.polls <= StartPolls
  /\ req.kind = "xc95x" => host.polls <= SectorPolls
  /\ req.kind = "xmega" => host.polls < PdiRetries
  /\ req.kind \notin {"fpga", "xc95x", "xmega"} => host.polls = 0

DeviceFields == {"cells", "todo", "busy", "isc", "pipe", "latch", "done"}
DeviceOK ==
  /\ DOMAIN dev = DeviceFields
  /\ dev.cells \in Seq(Byte) /\ N > 0
  /\ dev.todo \in Seq(Byte) /\ Len(dev.todo) = N
  /\ dev.latch \in Seq(Byte) /\ Len(dev.latch) = N
  /\ req.kind = "xc2c" => dev.pipe \in Nat
  /\ req.kind # "xc2c" => dev.pipe \in Byte

First == {"main", "get_id", "no_id", "dispatch", "begin", "reconfig", "inited", "chiperase"}
Worked == {"check", "enable", "clearing", "load", "starting", "file", "program", "polling",
           "verify", "read", "verified", "verifying", "reading", "finish", "pdi", "write",
           "page", "next", "srec"}
StageOK ==
  /\ host.pc \in First => host.n = 0
  /\ host.pc \in Worked => host.n > 0
  /\ req.kind = "other" => host.pc \in {"main", "get_id", "no_id", "dispatch", "done"}
  /\ req.kind = "fpga" =>
       host.pc \in {"main", "get_id", "no_id", "dispatch", "begin", "args", "done", "reconfig",
                    "check", "enable", "clearing", "load", "starting"}
  /\ req.kind = "xc95x" =>
       host.pc \in {"main", "get_id", "no_id", "dispatch", "begin", "args", "done", "erase",
                    "erasing", "file", "program", "polling", "enable", "verify", "read", "verified"}
  /\ req.kind = "xc2c" =>
       host.pc \in {"main", "get_id", "no_id", "dispatch", "begin", "args", "done", "erase",
                    "blank", "file", "program", "verify", "verifying", "reading", "finish"}
  /\ req.kind = "xmega" =>
       host.pc \in {"main", "get_id", "no_id", "dispatch", "begin", "args", "done", "inited",
                    "chiperase", "release", "nvmbusy", "nvmen", "erased", "file", "pdi", "erase",
                    "write", "load", "page", "next"}
  /\ req.kind = "avr" =>
       host.pc \in {"main", "get_id", "no_id", "dispatch", "begin", "args", "done", "srec", "leave"}

(* Which argument the stages of the CPLDs and of the XMega are about.      *)
CpldOK ==
  /\ req.kind \in {"xc95x", "xc2c"} /\ host.pc \in {"erase", "erasing", "blank"} =>
       \/ host.then = "args" /\ host.n = 0 /\ req.erase
       \/ host.then = "program" /\ host.n > 0 /\ Arg.action = "w" /\ ~req.erase
  /\ host.pc = "file" => host.i = 0
  /\ req.kind = "xc95x" /\ host.n > 0 /\ host.pc \in {"erase", "erasing"} => host.i = 0
  /\ req.kind \in {"xc95x", "xc2c"} /\ host.pc = "program" => IsWrite /\ host.i <= N
  /\ req.kind = "xc95x" /\ host.pc = "polling" => IsWrite /\ host.i < N
  /\ req.kind = "xc95x" /\ host.pc \in {"enable", "verify", "verified"} =>
       Arg.action \in {"v", "w", "W"}
  /\ req.kind = "xc2c" /\ host.pc \in {"verify", "verifying", "finish"} =>
       Arg.action \in {"v", "w", "W"}
  /\ host.pc \in {"read", "reading"} => Arg.action = "r" /\ Len(host.out) = N
  /\ host.pc \in {"verify", "read"} => host.i <= N + 1
  /\ host.pc \in {"blank", "verifying", "reading"} => host.i <= Rows /\ dev.pipe = host.i
  /\ req.kind = "xc2c" /\ host.pc = "program" => host.i <= Rows

Waiting == host.pc \in {"nvmbusy", "nvmen"}
StageX == IF Waiting THEN host.then ELSE host.pc
XMegaOK ==
  req.kind = "xmega" =>
    /\ Waiting => host.then \in {"inited", "erased", "load", "next"}
    /\ StageX = "inited" => host.n = 0
    /\ StageX \in {"load", "next"} => host.n > 0
    /\ host.pc = "erase" => host.n > 0
    /\ StageX = "erased" /\ host.n = 0 => req.erase
    /\ StageX = "chiperase" => req.erase
    /\ (StageX \in {"pdi", "erase", "write", "load", "page", "next"}
          \/ (StageX = "erased" /\ host.n > 0)) =>
         ~Skipped
    /\ StageX = "pdi" => /\ Arg.action \in {"r", "v"} /\ host.i <= Len(host.out)
                         /\ Arg.action = "r" => Len(host.out) = ReadLength
                                                /\ host.res = Arg.offset
                         /\ Arg.action = "v" => Len(host.out) = Len(host.bytes)
                                                /\ host.res = 0
    /\ (StageX = "erase" \/ (StageX = "erased" /\ host.n > 0)) => ErasesFirst
    /\ StageX \in {"write", "load", "page", "next"} => Arg.action \in {"e", "w", "W"}
    /\ StageX \in {"load", "page", "next"} => Writes

TypeInv == /\ RequestOK /\ DiskOK /\ HostOK /\ DeviceOK
           /\ StageOK /\ CpldOK /\ XMegaOK

------------------------------------------------------------------------------
(***************************************************************************)
(* Bytes stay bytes.                                                       *)
(***************************************************************************)
LEMMA BytesIn ==
  ASSUME NEW n \in Nat, NEW S, NEW f, DOMAIN f = 1..n, \A k \in 1..n : f[k] \in S,
         f = [k \in DOMAIN f |-> f[k]]
  PROVE  f \in Seq(S) /\ Len(f) = n
<1>1. f \in [1..n -> S]  OBVIOUS
<1>2. QED  BY <1>1, AsSequence

LEMMA ExceptIn ==
  ASSUME NEW S, NEW s \in Seq(S), NEW m, NEW v \in S
  PROVE  [s EXCEPT ![m] = v] \in Seq(S) /\ Len([s EXCEPT ![m] = v]) = Len(s)
<1> DEFINE f == [s EXCEPT ![m] = v]
<1>1. s \in [1..Len(s) -> S] /\ Len(s) \in Nat  OBVIOUS
<1>2. f \in [1..Len(s) -> S]
  <2> DEFINE n == Len(s)
  <2> HIDE DEF n
  <2>1. s \in [1..n -> S]  BY <1>1 DEF n
  <2>2. f \in [1..n -> S]  BY <2>1
  <2>3. QED  BY <2>2 DEF n
<1> HIDE DEF f
<1>3. f \in Seq(S) /\ Len(f) = Len(s)  BY <1>1, <1>2, AsSequence
<1>4. QED  BY <1>3 DEF f

LEMMA BurntIn ==
  ASSUME NEW cells \in Seq(Byte), NEW data \in Seq(Byte), NEW at \in Int
  PROVE  Burnt(cells, data, at) \in Seq(Byte) /\ Len(Burnt(cells, data, at)) = Len(cells)
<1> DEFINE n == Len(cells)
           f == [a \in 1..n |-> IF a - at \in DOMAIN data THEN Burn(cells[a], data[a - at])
                                ELSE cells[a]]
<1>1. n \in Nat /\ DOMAIN cells = 1..n  OBVIOUS
<1>2. ASSUME NEW a \in 1..n
      PROVE  (IF a - at \in DOMAIN data THEN Burn(cells[a], data[a - at]) ELSE cells[a]) \in Byte
  <2>1. cells[a] \in Byte  BY <1>1
  <2>2. ASSUME a - at \in DOMAIN data PROVE Burn(cells[a], data[a - at]) \in Byte
    <3>1. data[a - at] \in Byte  BY <2>2
    <3>2. QED  BY <2>1, <3>1, BurnIs
  <2>3. QED  BY <2>1, <2>2
<1>3. f \in [1..n -> Byte]  BY <1>2
<1>4. Burnt(cells, data, at) = f  BY <1>1 DEF Burnt
<1> HIDE DEF f, n
<1>5. f \in Seq(Byte) /\ Len(f) = n  BY <1>1, <1>3, AsSequence
<1>6. QED  BY <1>4, <1>5 DEF n

LEMMA BlankIn ==
  ASSUME DeviceOK
  PROVE  /\ N \in Nat /\ N > 0 /\ DOMAIN dev.cells = 1..N /\ DOMAIN dev.latch = 1..N
         /\ DOMAIN dev.todo = 1..N
         /\ Blank \in Seq(Byte) /\ Len(Blank) = N /\ \A a \in 1..N : Blank[a] = Erased
<1>1. N \in Nat /\ N > 0 /\ DOMAIN dev.cells = 1..N /\ DOMAIN dev.latch = 1..N
      /\ DOMAIN dev.todo = 1..N
  BY DEF DeviceOK, N
<1>2. Erased \in Byte  BY DEF Erased, Byte
<1>3. QED  BY <1>1, <1>2, FillIn DEF Blank

------------------------------------------------------------------------------
(***************************************************************************)
(* The argument at work and its file.                                      *)
(***************************************************************************)
LEMMA ArgIs ==
  ASSUME RequestOK, HostOK, host.n > 0
  PROVE  /\ host.n \in 1..Len(req.args) /\ req.args[host.n] \in Arguments
         /\ Arg.name = req.args[host.n].name /\ Arg.name \in DOMAIN disk
         /\ Arg.offset \in Nat /\ Arg.length \in Nat /\ Arg.style \in STRING
         /\ Arg.style = req.args[host.n].style
<1>1. host.n \in 1..Len(req.args) /\ DOMAIN req.args = 1..Len(req.args)
  BY DEF RequestOK, HostOK
<1>2. req.args[host.n] \in Arguments /\ req.args[host.n].name \in DOMAIN disk
  BY <1>1 DEF RequestOK
<1>3. QED  BY <1>1, <1>2 DEF Arg, Arguments

LEMMA FileIs ==
  ASSUME RequestOK, HostOK, DiskOK, host.n > 0
  PROVE  /\ FromFuses => File = Missing \/ File.lines \in Seq(NamedFields)
         /\ ~FromFuses => File = Missing \/ File.lines \in Seq(Lines)
         /\ File # Missing => File = disk[Arg.name] /\ File.of \in Seq(Byte)
<1>1. /\ host.n \in DOMAIN req.args /\ Arg.name \in DOMAIN disk
      /\ Arg.name = req.args[host.n].name /\ Arg.style = req.args[host.n].style
  BY ArgIs DEF RequestOK
<1>2. /\ disk[Arg.name] \in NamedFiles(NamedFields) => disk[Arg.name].lines \in Seq(NamedFields)
      /\ disk[Arg.name] \in NamedFiles(Lines) => disk[Arg.name].lines \in Seq(Lines)
      /\ \A of : disk[Arg.name] \in NamedFiles(of) => disk[Arg.name].of \in Seq(Byte)
  BY DEF NamedFiles
<1>3. CASE disk[Arg.name] \in NamedFiles(NamedFields) /\ ForFuses(Arg.name)
  <2>1. FromFuses  BY <1>1, <1>3 DEF FromFuses, ForFuses
  <2>2. QED  BY <1>2, <1>3, <2>1 DEF File
<1>4. CASE disk[Arg.name] \in NamedFiles(Lines) /\ ForBytes(Arg.name)
  <2>1. ~FromFuses  BY <1>1, <1>4 DEF FromFuses, ForBytes
  <2>2. QED  BY <1>2, <1>4, <2>1 DEF File
<1>5. QED  BY <1>1, <1>3, <1>4 DEF DiskOK

------------------------------------------------------------------------------
(***************************************************************************)
(* Every step keeps what the run is asked for and the size of the device.  *)
(***************************************************************************)
LEMMA RequestStays ==
  ASSUME RequestOK, UNCHANGED req, DOMAIN disk' = DOMAIN disk, N' = N
  PROVE  RequestOK'
BY DEF RequestOK

(* What a step that leaves the files and the device alone has to show.     *)
LEMMA QuietTypes ==
  ASSUME RequestOK, DiskOK, DeviceOK, Quiet
  PROVE  RequestOK' /\ DiskOK' /\ DeviceOK'
<1>1. UNCHANGED <<req, dev, disk>> /\ N' = N  BY DEF Quiet, N
<1>2. DiskOK'  BY <1>1 DEF DiskOK, ForFuses, ForBytes
<1>3. DeviceOK'  BY <1>1 DEF DeviceOK
<1>4. QED  BY <1>1, <1>2, <1>3, RequestStays

LEMMA MainTyped ==
  ASSUME TypeInv, MainNext
  PROVE  TypeInv'
<1>1. RequestOK' /\ DiskOK' /\ DeviceOK' /\ UNCHANGED <<req, disk, dev>>
  <2>1. Quiet  BY DEF MainNext, init_chain, get_id, NoId, Dispatch, AtMain
  <2>2. QED  BY <2>1, QuietTypes DEF TypeInv, Quiet
<1> USE DEF TypeInv
<1>2. CASE init_chain
  <2>1. HostOK'  BY <1>1, <1>2 DEF init_chain, AtMain, HostOK, HostFields, Go, Tell, Finished
  <2>2. StageOK'
    BY <1>1, <1>2 DEF init_chain, AtMain, HostOK, HostFields, StageOK, First, Worked, Go, Tell
  <2>3. CpldOK' /\ XMegaOK'
    BY <1>1, <1>2 DEF init_chain, AtMain, HostOK, HostFields, CpldOK, XMegaOK, Waiting, StageX, Go, Tell
  <2>4. QED  BY <1>1, <2>1, <2>2, <2>3
<1>3. CASE get_id
  <2>1. HostOK'  BY <1>1, <1>3 DEF get_id, AtMain, HostOK, HostFields, Go, Tell, Finished
  <2>2. StageOK'
    BY <1>1, <1>3 DEF get_id, AtMain, HostOK, HostFields, StageOK, First, Worked, Go, Tell
  <2>3. CpldOK' /\ XMegaOK'
    BY <1>1, <1>3 DEF get_id, AtMain, HostOK, HostFields, CpldOK, XMegaOK, Waiting, StageX, Go, Tell
  <2>4. QED  BY <1>1, <2>1, <2>2, <2>3
<1>4. CASE NoId
  <2>1. HostOK'  BY <1>1, <1>4 DEF NoId, AtMain, HostOK, HostFields, Exit, Finished
  <2>2. StageOK'
    BY <1>1, <1>4 DEF NoId, AtMain, HostOK, HostFields, StageOK, First, Worked, Exit
  <2>3. CpldOK' /\ XMegaOK'
    BY <1>1, <1>4 DEF NoId, AtMain, HostOK, HostFields, CpldOK, XMegaOK, Waiting, StageX, Exit
  <2>4. QED  BY <1>1, <2>1, <2>2, <2>3
<1>5. CASE Dispatch
  <2>1. HostOK'  BY <1>1, <1>5 DEF Dispatch, AtMain, HostOK, HostFields, Go, Tell, Exit, Finished
  <2>2. StageOK'
    BY <1>1, <1>5 DEF Dispatch, AtMain, HostOK, HostFields, StageOK, First, Worked, Go, Tell, Exit, RequestOK, Kinds
  <2>3. CpldOK' /\ XMegaOK'
    BY <1>1, <1>5 DEF Dispatch, AtMain, HostOK, HostFields, CpldOK, XMegaOK, Waiting, StageX, Go, Tell, Exit
  <2>4. QED  BY <1>1, <2>1, <2>2, <2>3
<1>6. QED  BY <1>2, <1>3, <1>4, <1>5 DEF MainNext

(* Opening the next file may leave an empty one.                           *)
LEMMA TakeArgTyped ==
  ASSUME TypeInv, NEW stage, stage # "done", host.pc # "done", TakeArg(stage)
  PROVE  /\ RequestOK' /\ DiskOK' /\ HostOK' /\ DeviceOK'
         /\ host'.n = host.n + 1 /\ host'.n > 0 /\ host'.pc = stage /\ host'.i = 0
         /\ host'.ret = 0 /\ host'.bytes = <<>> /\ host'.out = <<>>
         /\ UNCHANGED <<req, dev>> /\ DOMAIN disk' = DOMAIN disk
<1> USE DEF TypeInv
<1>1. UNCHANGED <<req, dev>> /\ N' = N  BY DEF TakeArg, N
<1>2. /\ host' = [Tell(Go(stage), ~HasFile(NextArg)) EXCEPT
                !.n = @ + 1, !.fp = HasFile(NextArg), !.ret = 0, !.i = 0,
                !.bytes = <<>>, !.out = <<>>]
      /\ host.n # Len(req.args)
  BY DEF TakeArg, NoMoreArgs
<1>3. disk' = disk \/ disk' = [disk EXCEPT ![NextArg.name] = Empty]
  BY DEF TakeArg
<1>4. DOMAIN disk' = DOMAIN disk /\ \A name \in DOMAIN disk : disk'[name] \in {disk[name], Empty}
  BY <1>3
<1>5. Empty \in NamedFiles(NamedFields) /\ Empty \in NamedFiles(Lines)  BY NoFileIn
<1>6. DiskOK'  BY <1>1, <1>4, <1>5 DEF DiskOK, ForFuses, ForBytes
<1>7. /\ host'.n = host.n + 1 /\ host'.pc = stage /\ host'.i = 0 /\ host'.ret = 0
      /\ host'.bytes = <<>> /\ host'.out = <<>> /\ DOMAIN host' = HostFields
      /\ host'.polls = host.polls /\ host'.res = host.res /\ host'.wait = host.wait
      /\ host'.exit = host.exit
  BY <1>2 DEF Go, Tell, HostOK, HostFields
<1>8. /\ host.n + 1 \in 0..Len(req.args) /\ host.n + 1 > 0 /\ <<>> \in Seq(Byte)
  BY <1>2 DEF HostOK, RequestOK
<1>9. HostOK'  BY <1>1, <1>7, <1>8 DEF HostOK, Finished
<1>10. DeviceOK'  BY <1>1 DEF DeviceOK
<1>11. RequestOK'  BY <1>1, <1>4, RequestStays
<1>12. QED  BY <1>1, <1>4, <1>6, <1>7, <1>8, <1>9, <1>10, <1>11

(* Work of the device leads to bytes.                                      *)
LEMMA WorkingTyped ==
  ASSUME DeviceOK, NEW cells \in Seq(Byte), Len(cells) = N
  PROVE  /\ Working(cells).todo = cells /\ Working(cells).cells = dev.cells
         /\ Working(cells).latch = dev.latch /\ Working(cells).pipe = dev.pipe
         /\ Working(cells).busy = TRUE /\ Working(cells).isc = dev.isc
         /\ DOMAIN Working(cells) = DeviceFields
BY DEF DeviceOK, DeviceFields, Working

LEMMA FpgaTyped ==
  ASSUME TypeInv, FpgaNext
  PROVE  TypeInv'
<1> USE DEF TypeInv
<1>0. req.kind = "fpga"
  BY DEF FpgaNext, FpgaBegin, reconfig, FpgaOpen, FpgaReturn, FpgaSkip, FpgaRead, jprogram,
         WaitInit, FpgaLoad, FpgaPoll, FpgaProgrammed, AtFpga, Running
<1>1. ASSUME RequestOK', DiskOK', HostOK', DeviceOK', StageOK', UNCHANGED req
      PROVE  TypeInv'
  <2>1. CpldOK'  BY <1>0, <1>1 DEF CpldOK, StageOK
  <2>2. XMegaOK'  BY <1>0, <1>1 DEF XMegaOK
  <2>3. QED  BY <1>1, <2>1, <2>2
<1>2. ASSUME Quiet, HostOK', StageOK' PROVE TypeInv'
  BY <1>1, <1>2, QuietTypes DEF Quiet
<1>3. CASE FpgaBegin
  <2>1. HostOK' /\ StageOK' /\ Quiet
    BY <1>0, <1>3 DEF FpgaBegin, AtFpga, Running, Quiet, HostOK, HostFields, StageOK, First, Worked, Go,
                      Finished
  <2>2. QED  BY <1>2, <2>1
<1>4. CASE reconfig
  <2>1. HostOK' /\ StageOK' /\ UNCHANGED <<req, disk>>
    BY <1>0, <1>4 DEF reconfig, AtFpga, Running, HostOK, HostFields, StageOK, First, Worked, Exit,
                      Tell, Finished
  <2>2. DeviceOK' /\ N' = N
    <3>1. PICK own \in {dev.cells, Blank} : dev' = dev \/ dev' = Working(own)
      BY <1>4 DEF reconfig
    <3>2. own \in Seq(Byte) /\ Len(own) = N  BY <3>1, BlankIn DEF DeviceOK, N
    <3>3. QED  BY <1>0, <2>1, <3>1, <3>2, WorkingTyped, ZenonT(60) DEF DeviceOK, N
  <2>3. DiskOK'  BY <2>1 DEF DiskOK, ForFuses, ForBytes
  <2>4. QED  BY <1>1, <2>1, <2>2, <2>3, RequestStays
<1>5. CASE FpgaOpen
  <2>1. TakeArg("check") /\ host.pc = "args"  BY <1>5 DEF FpgaOpen, AtFpga, Running
  <2>2. /\ RequestOK' /\ DiskOK' /\ HostOK' /\ DeviceOK' /\ UNCHANGED <<req, dev>>
        /\ host'.pc = "check" /\ host'.n > 0
    <3>1. "check" # "done"  OBVIOUS
    <3>2. QED  BY <2>1, <3>1, TakeArgTyped
  <2>3. StageOK'  BY <1>0, <2>2 DEF StageOK, First, Worked
  <2>4. QED  BY <1>1, <2>2, <2>3
<1>6. CASE FpgaReturn
  <2>1. HostOK' /\ StageOK' /\ Quiet
    BY <1>0, <1>6 DEF FpgaReturn, AtFpga, Running, Quiet, HostOK, HostFields, StageOK, First, Worked, Exit,
                      Finished
  <2>2. QED  BY <1>2, <2>1
<1>7. CASE FpgaSkip
  <2>1. HostOK' /\ StageOK' /\ Quiet
    BY <1>0, <1>7 DEF FpgaSkip, AtFpga, Running, Quiet, HostOK, HostFields, StageOK, First, Worked, Go,
                      Tell, Finished
  <2>2. QED  BY <1>2, <2>1
<1>8. CASE FpgaRead
  <2>0. host.n > 0 /\ Quiet  BY <1>8 DEF FpgaRead, AtFpga, Running, StageOK, Worked
  <2>1. ~FromFuses  BY <1>0 DEF FromFuses, TakesFuses
  <2>2. readFile(Arg.style, File) \in SUBSET Results
    BY <2>0, <2>1, FileIs, FileIn
  <2>3. PICK r \in readFile(Arg.style, File) :
             host' = IF r.res # 0 THEN Tell(Go("args"), TRUE)
                     ELSE [Go(IF req.device = "xc2s" THEN "load" ELSE "enable")
                             EXCEPT !.bytes = r.bytes]
    BY <1>8 DEF FpgaRead
  <2>4. r.bytes \in Seq(Byte)  BY <2>2, <2>3 DEF Results
  <2>5. HostOK' /\ StageOK'
    BY <1>0, <1>8, <2>0, <2>3, <2>4 DEF FpgaRead, AtFpga, Running, Quiet, HostOK, HostFields, StageOK,
      First, Worked, Go, Tell, Finished
  <2>6. QED  BY <1>2, <2>0, <2>5
<1>9. CASE jprogram
  <2>1. HostOK' /\ StageOK' /\ UNCHANGED <<req, disk>>
    BY <1>0, <1>9 DEF jprogram, AtFpga, Running, HostOK, HostFields, StageOK, First, Worked, Go,
                      Finished
  <2>2. DeviceOK' /\ N' = N
    <3>1. dev' = [Working(Blank) EXCEPT !.isc = TRUE]
      BY <1>9 DEF jprogram
    <3>2. Blank \in Seq(Byte) /\ Len(Blank) = N  BY BlankIn
    <3> DEFINE w == Working(Blank)
    <3>3. w.todo = Blank /\ w.cells = dev.cells /\ w.latch = dev.latch /\ w.pipe = dev.pipe
          /\ DOMAIN w = DeviceFields
      BY <3>2, WorkingTyped
    <3> HIDE DEF w
    <3>4. dev' = [w EXCEPT !.isc = TRUE]  BY <3>1 DEF w
    <3>5. QED  BY <1>0, <2>1, <3>2, <3>3, <3>4 DEF DeviceOK, DeviceFields, N
  <2>3. DiskOK'  BY <2>1 DEF DiskOK, ForFuses, ForBytes
  <2>4. QED  BY <1>1, <2>1, <2>2, <2>3, RequestStays
<1>10. CASE WaitInit
  <2>1. HostOK' /\ StageOK' /\ Quiet
    BY <1>0, <1>10 DEF WaitInit, AtFpga, Running, Quiet, HostOK, HostFields, StageOK, First, Worked, Go,
                      Finished
  <2>2. QED  BY <1>2, <2>1
<1>11. CASE FpgaLoad
  <2>1. HostOK' /\ StageOK' /\ UNCHANGED <<req, disk>>
    BY <1>0, <1>11, StartPollsAssumption
       DEF FpgaLoad, AtFpga, Running, HostOK, HostFields, StageOK, First, Worked, Go, Finished
  <2>2. DeviceOK' /\ N' = N
    <3>1. PICK accepted \in {FALSE, Len(host.bytes) = N} :
            dev' = [Working(IF accepted THEN host.bytes ELSE Blank) EXCEPT !.isc = FALSE]
      BY <1>11 DEF FpgaLoad
    <3> DEFINE c == IF accepted THEN host.bytes ELSE Blank
               w == Working(c)
    <3>2. c \in Seq(Byte) /\ Len(c) = N  BY <3>1, BlankIn DEF HostOK
    <3>3. w.todo = c /\ w.cells = dev.cells /\ w.latch = dev.latch /\ w.pipe = dev.pipe
          /\ DOMAIN w = DeviceFields
      <4> HIDE DEF c
      <4> QED  BY <3>2, WorkingTyped
    <3>4. dev' = [w EXCEPT !.isc = FALSE]  BY <3>1
    <3> HIDE DEF w, c
    <3>5. QED  BY <1>0, <2>1, <3>2, <3>3, <3>4 DEF DeviceOK, DeviceFields, N
  <2>3. DiskOK'  BY <2>1 DEF DiskOK, ForFuses, ForBytes
  <2>4. QED  BY <1>1, <2>1, <2>2, <2>3, RequestStays
<1>12. CASE FpgaPoll
  <2>1. HostOK' /\ StageOK' /\ Quiet
    BY <1>0, <1>12, StartPollsAssumption
       DEF FpgaPoll, AtFpga, Running, Quiet, HostOK, HostFields, StageOK, First, Worked, StartingUp, Finished
  <2>2. QED  BY <1>2, <2>1
<1>13. CASE FpgaProgrammed
  <2>1. HostOK' /\ StageOK' /\ Quiet
    BY <1>0, <1>13 DEF FpgaProgrammed, AtFpga, Running, Quiet, HostOK, HostFields, StageOK, First,
      Worked, Go, Tell, Finished
  <2>2. QED  BY <1>2, <2>1
<1>14. QED
  BY <1>3, <1>4, <1>5, <1>6, <1>7, <1>8, <1>9, <1>10, <1>11, <1>12, <1>13 DEF FpgaNext

LEMMA AvrTyped ==
  ASSUME TypeInv, AvrNext
  PROVE  TypeInv'
<1> USE DEF TypeInv, AtAvr, Running, HostFields, Go, Tell, Exit, Finished, First, Worked
<1>0. req.kind = "avr" /\ UNCHANGED <<req, disk>>
  BY DEF AvrNext, UnknownAvr, EnterAvr, ShownAvr, OpenAvr, SrecFile, LeaveAvr, Quiet, ProgMode
<1>1. HostOK' /\ StageOK'
  <2>1. CASE UnknownAvr
    BY <1>0, <2>1 DEF HostOK, StageOK, UnknownAvr
  <2>2. CASE OpenAvr
    BY <1>0, <2>2 DEF HostOK, StageOK, OpenAvr, RequestOK, NoMoreArgs
  <2>3. CASE SrecFile
    BY <1>0, <2>3 DEF HostOK, StageOK, SrecFile
  <2>4. CASE EnterAvr
    BY <1>0, <2>4 DEF HostOK, StageOK, EnterAvr
  <2>5. CASE ShownAvr
    BY <1>0, <2>5 DEF HostOK, StageOK, ShownAvr
  <2>6. CASE LeaveAvr
    <3>1. host' = Exit(host, host.ret) /\ host.pc = "leave"  BY <2>6 DEF LeaveAvr
    <3>2. QED  BY <1>0, <3>1 DEF HostOK, StageOK
  <2>7. QED  BY <2>1, <2>2, <2>3, <2>4, <2>5, <2>6 DEF AvrNext
<1>2. dev' = dev \/ dev' = [dev EXCEPT !.isc = TRUE] \/ dev' = [dev EXCEPT !.isc = FALSE]
  BY DEF AvrNext, UnknownAvr, EnterAvr, ShownAvr, OpenAvr, SrecFile, LeaveAvr, Quiet, ProgMode
<1>3. DeviceOK' /\ N' = N  BY <1>0, <1>2 DEF DeviceOK, DeviceFields, N
<1>4. DiskOK'  BY <1>0 DEF DiskOK, ForFuses, ForBytes
<1>5. CpldOK' /\ XMegaOK'  BY <1>0, <1>1 DEF CpldOK, XMegaOK, StageOK
<1>6. QED  BY <1>0, <1>1, <1>3, <1>4, <1>5, RequestStays

LEMMA DeviceTyped ==
  ASSUME TypeInv, DeviceDone
  PROVE  TypeInv'
<1> USE DEF TypeInv
<1>1. /\ UNCHANGED <<req, host, disk>> /\ N' = N /\ dev'.cells = dev.todo /\ dev'.todo = dev.todo
      /\ dev'.latch = dev.latch /\ dev'.pipe = dev.pipe /\ DOMAIN dev' = DeviceFields
  BY DEF DeviceDone, DeviceOK, DeviceFields, N
<1>2. DeviceOK'  BY <1>1 DEF DeviceOK
<1>3. DiskOK'  BY <1>1 DEF DiskOK, ForFuses, ForBytes
<1>4. HostOK' /\ StageOK'  BY <1>1 DEF HostOK, StageOK, Finished
<1>5. Arg' = Arg /\ Rows' = Rows  BY <1>1 DEF Arg, Rows
<1>6. CpldOK'  BY <1>1, <1>5 DEF CpldOK, IsWrite
<1>7. XMegaOK'
  BY <1>1, <1>5 DEF XMegaOK, Waiting, StageX, Skipped, ReadLength, ErasesFirst, Writes
<1>8. QED  BY <1>1, <1>2, <1>3, <1>4, <1>6, <1>7, RequestStays

LEMMA StayTyped ==
  ASSUME TypeInv, UNCHANGED vars
  PROVE  TypeInv'
<1> USE DEF TypeInv
<1>1. UNCHANGED <<req, host, dev, disk>> /\ N' = N  BY DEF vars, N
<1>2. DeviceOK'  BY <1>1 DEF DeviceOK
<1>3. DiskOK'  BY <1>1 DEF DiskOK, ForFuses, ForBytes
<1>4. HostOK' /\ StageOK'  BY <1>1 DEF HostOK, StageOK, Finished
<1>5. Arg' = Arg /\ Rows' = Rows  BY <1>1 DEF Arg, Rows
<1>6. CpldOK'  BY <1>1, <1>5 DEF CpldOK, IsWrite
<1>7. XMegaOK'
  BY <1>1, <1>5 DEF XMegaOK, Waiting, StageX, Skipped, ReadLength, ErasesFirst, Writes
<1>8. QED  BY <1>1, <1>2, <1>3, <1>4, <1>6, <1>7, RequestStays

------------------------------------------------------------------------------
(***************************************************************************)
(* The XC9500XL.                                                           *)
(***************************************************************************)
LEMMA ClosedIn ==
  ASSUME NEW of, NEW file \in NamedFiles(of)
  PROVE  /\ [file EXCEPT !.flushed = TRUE] \in NamedFiles(of)
         /\ [file EXCEPT !.flushed = FALSE] \in NamedFiles(of)
BY DEF NamedFiles

LEMMA WrittenTyped ==
  ASSUME TypeInv, host.n > 0, UNCHANGED req, NEW g, disk' = [disk EXCEPT ![Arg.name] = g],
         \/ FromFuses /\ g \in NamedFiles(NamedFields)
         \/ ~FromFuses /\ g \in NamedFiles(Lines)
  PROVE  DiskOK' /\ DOMAIN disk' = DOMAIN disk
<1> USE DEF TypeInv
<1>1. /\ host.n \in DOMAIN req.args /\ Arg.name \in DOMAIN disk
      /\ Arg.name = req.args[host.n].name /\ Arg.style = req.args[host.n].style
  BY ArgIs DEF RequestOK
<1>2. /\ ForFuses(Arg.name) => FromFuses
      /\ ForBytes(Arg.name) => ~FromFuses
  BY <1>1 DEF ForFuses, ForBytes, FromFuses
<1>3. \/ disk'[Arg.name] \in NamedFiles(NamedFields) /\ ForFuses(Arg.name)
      \/ disk'[Arg.name] \in NamedFiles(Lines) /\ ForBytes(Arg.name)
  BY <1>1, <1>2 DEF DiskOK
<1>4. \A name \in DOMAIN disk : ForFuses(name)' = ForFuses(name) /\ ForBytes(name)' = ForBytes(name)
  BY DEF ForFuses, ForBytes
<1>5. \A name \in DOMAIN disk : name # Arg.name => disk'[name] = disk[name]
  OBVIOUS
<1>6. DOMAIN disk' = DOMAIN disk  OBVIOUS
<1>7. DiskOK'
  <2>1. SUFFICES ASSUME NEW name \in DOMAIN disk
                 PROVE  \/ disk'[name] \in NamedFiles(NamedFields) /\ ForFuses(name)
                        \/ disk'[name] \in NamedFiles(Lines) /\ ForBytes(name)
    BY <1>4, <1>6 DEF DiskOK, ForFuses, ForBytes
  <2>2. CASE name = Arg.name  BY <1>3, <2>2
  <2>3. CASE name # Arg.name  BY <1>5, <2>3 DEF DiskOK
  <2>4. QED  BY <2>2, <2>3
<1>8. QED  BY <1>6, <1>7

LEMMA QuietTyped95 ==
  ASSUME TypeInv, req.kind = "xc95x",
         \/ Begin95 \/ Erased95 \/ TooMany95 \/ Return95 \/ Ignore95 \/ PollSector \/ SectorDone
         \/ SectorFailed \/ Programmed95 \/ NoFuse95
  PROVE  TypeInv'
<1> USE DEF TypeInv, At95, Running, HostFields, Go, Tell, Exit, Throw
<1>1. Quiet
  BY DEF Begin95, Erased95, TooMany95, Return95, Ignore95, PollSector, SectorDone,
         SectorFailed, Programmed95, NoFuse95
<1>2. UNCHANGED <<req, dev, disk>> /\ N' = N  BY <1>1 DEF Quiet, N
<1>3. HostOK'
  <2>1. CASE TooMany95
    BY <1>2, <2>1 DEF HostOK, RequestOK, Finished, TooMany95, NoMoreArgs
  <2>2. CASE Begin95 \/ Erased95 \/ Return95 \/ Ignore95
    <3>1. CASE Erased95
      <4>1. host.then # "done"  BY <3>1 DEF Erased95, CpldOK
      <4>2. QED  BY <1>2, <3>1, <4>1 DEF HostOK, Finished, Erased95
    <3>2. CASE Begin95  BY <1>2, <3>2 DEF HostOK, Finished, Begin95
    <3>3. CASE Return95  BY <1>2, <3>3 DEF HostOK, Finished, Return95
    <3>4. CASE Ignore95  BY <1>2, <3>4 DEF HostOK, Finished, Ignore95
    <3>5. QED  BY <2>2, <3>1, <3>2, <3>3, <3>4
  <2>3. CASE PollSector \/ SectorDone \/ SectorFailed \/ Programmed95 \/ NoFuse95
    <3>1. CASE PollSector  BY <1>2, <3>1, SectorAssumption DEF HostOK, Finished, PollSector
    <3>2. CASE SectorDone  BY <1>2, <3>2 DEF HostOK, Finished, SectorDone
    <3>3. CASE SectorFailed  BY <1>2, <3>3 DEF HostOK, Finished, SectorFailed
    <3>4. CASE Programmed95  BY <1>2, <3>4 DEF HostOK, Finished, Programmed95
    <3>5. CASE NoFuse95  BY <1>2, <3>5 DEF HostOK, Finished, NoFuse95, Thrown
    <3>6. QED  BY <2>3, <3>1, <3>2, <3>3, <3>4, <3>5
  <2>4. QED  BY <2>1, <2>2, <2>3
<1>4. StageOK'
  <2>1. CASE TooMany95 \/ Begin95 \/ Return95 \/ Ignore95
    BY <1>2, <2>1, ZenonT(60) DEF HostOK, StageOK, First, Worked, TooMany95, Begin95, Return95, Ignore95
  <2>2. CASE Erased95
    BY <1>2, <2>2 DEF HostOK, StageOK, First, Worked, Erased95, CpldOK
  <2>3. CASE PollSector \/ SectorDone \/ SectorFailed \/ Programmed95 \/ NoFuse95
    BY <1>2, <2>3, ZenonT(60) DEF HostOK, StageOK, First, Worked, PollSector, SectorDone, SectorFailed,
                      Programmed95, NoFuse95
  <2>4. QED  BY <2>1, <2>2, <2>3
<1>5. CpldOK'
  <2>1. CASE TooMany95 \/ Return95 \/ Ignore95
    BY <1>2, <2>1 DEF HostOK, CpldOK, TooMany95, Return95, Ignore95
  <2>2. CASE Begin95
    BY <1>2, <2>2 DEF HostOK, StageOK, First, CpldOK, Begin95
  <2>3. Erased95 \/ PollSector \/ SectorDone \/ SectorFailed \/ Programmed95 \/ NoFuse95 =>
          host'.n = host.n
    BY DEF HostOK, Erased95, PollSector, SectorDone, SectorFailed, Programmed95, NoFuse95
  <2>4. host'.n = host.n => Arg' = Arg  BY <1>2 DEF Arg
  <2>5. CASE Erased95 \/ PollSector \/ SectorDone
    <3>1. CASE Erased95
      BY <1>2, <2>3, <2>4, <3>1, BlankIn DEF HostOK, StageOK, Worked, CpldOK, IsWrite, Erased95
    <3>2. CASE PollSector
      BY <1>2, <2>3, <2>4, <3>2 DEF HostOK, StageOK, Worked, CpldOK, IsWrite, PollSector
    <3>3. CASE SectorDone
      BY <1>2, <2>3, <2>4, <3>3, BlankIn DEF HostOK, StageOK, Worked, CpldOK, IsWrite, SectorDone
    <3>4. QED  BY <2>5, <3>1, <3>2, <3>3
  <2>6. CASE SectorFailed \/ Programmed95 \/ NoFuse95
    BY <1>2, <2>3, <2>4, <2>6, ZenonT(60) DEF HostOK, StageOK, Worked, CpldOK, IsWrite, SectorFailed, Programmed95, NoFuse95
  <2>7. QED  BY <2>1, <2>2, <2>5, <2>6
<1>6. XMegaOK'  BY <1>2 DEF XMegaOK
<1>7. QED  BY <1>1, <1>3, <1>4, <1>5, <1>6, QuietTypes

LEMMA FileTyped95 ==
  ASSUME TypeInv, File95
  PROVE  TypeInv'
<1> USE DEF TypeInv, At95, Running, HostFields, Go, Exit, Throw
<1>1. /\ UNCHANGED <<req, dev, disk>> /\ N' = N /\ Quiet /\ req.kind = "xc95x" /\ host.pc = "file"
      /\ host.n > 0 /\ Arg.action \in {"v", "w", "W"}
  BY DEF File95, Quiet, N, StageOK, Worked
<1>2. readJed(File) \in SUBSET Jeds
  <2>1. FromFuses  BY <1>1 DEF FromFuses, TakesFuses
  <2>2. QED  BY <1>1, <2>1, FileIs, JedIn
<1>3. PICK jed \in readJed(File) :
        host' = IF jed.res = Thrown THEN Throw
                ELSE [Go(AfterFile) EXCEPT !.bytes = jed.fuses, !.then = "program"]
  BY DEF File95
<1>4. jed.fuses \in Seq(Byte)  BY <1>2, <1>3 DEF Jeds
<1>5. AfterFile \in {"erase", "program", "enable"} /\ (AfterFile = "program" => IsWrite)
      /\ (AfterFile = "erase" => Arg.action = "w" /\ ~req.erase)
  BY DEF AfterFile
<1>6. /\ host'.n = host.n /\ host'.i = host.i /\ host'.pc \in {"done", AfterFile}
      /\ host'.pc = AfterFile => host'.then = "program"
  BY <1>3, <1>5 DEF HostOK
<1>7. Arg' = Arg  BY <1>1, <1>6 DEF Arg
<1>8. HostOK'  BY <1>1, <1>3, <1>4, <1>5 DEF HostOK, Finished, Thrown
<1>9. StageOK'  BY <1>1, <1>5, <1>6 DEF StageOK, First, Worked
<1>10. CpldOK'
  <2>1. N > 0 /\ N \in Nat /\ host.i = 0  BY <1>1, BlankIn DEF CpldOK
  <2>2. QED  BY <1>1, <1>5, <1>6, <1>7, <2>1 DEF CpldOK, IsWrite
<1>11. XMegaOK'  BY <1>1 DEF XMegaOK
<1>12. QED  BY <1>1, <1>8, <1>9, <1>10, <1>11, QuietTypes

LEMMA LatchedIn ==
  ASSUME HostOK, DeviceOK, host.i < N, ~NoFuse
  PROVE  Latched \in Seq(Byte) /\ Len(Latched) = N /\ host.bytes[host.i + 1] \in Byte
<1>1. host.i + 1 \in DOMAIN host.bytes /\ host.bytes \in Seq(Byte) /\ dev.latch \in Seq(Byte)
      /\ Len(dev.latch) = N
  BY DEF HostOK, DeviceOK, NoFuse
<1>2. host.bytes[host.i + 1] \in Byte  BY <1>1
<1> DEFINE v == host.bytes[host.i + 1]
           m == host.i + 1
           f == [dev.latch EXCEPT ![m] = v]
<1>3. Latched = f  BY DEF Latched
<1>4. f \in Seq(Byte) /\ Len(f) = N
  <2> HIDE DEF m, v
  <2>1. v \in Byte  BY <1>2 DEF v
  <2>2. QED  BY <1>1, <2>1, ExceptIn
<1> HIDE DEF f
<1>5. QED  BY <1>2, <1>3, <1>4

(* The steps that use the device.                                          *)
LEMMA DeviceTyped95 ==
  ASSUME TypeInv, Erase95 \/ Program95 \/ Enable95 \/ Verify95 \/ Read95
  PROVE  TypeInv'
<1> USE DEF TypeInv, At95, Running
<1>1. UNCHANGED <<req, disk>> /\ req.kind = "xc95x"
  BY DEF Erase95, Program95, Enable95, Verify95, Read95, Scan95
<1>2. DeviceOK' /\ N' = N
  <2>1. CASE Erase95
    <3>1. PICK cells \in {Blank, dev.cells} :
                dev' = [(IF dev.busy THEN dev ELSE Working(cells)) EXCEPT !.isc = TRUE]
      BY <2>1 DEF Erase95
    <3>2. cells \in Seq(Byte) /\ Len(cells) = N  BY <3>1, BlankIn DEF DeviceOK, N
    <3> DEFINE w == Working(cells)
    <3>3. w.todo = cells /\ w.cells = dev.cells /\ w.latch = dev.latch /\ w.pipe = dev.pipe
          /\ DOMAIN w = DeviceFields
      BY <3>2, WorkingTyped
    <3>4. dev' = [w EXCEPT !.isc = TRUE] \/ dev' = [dev EXCEPT !.isc = TRUE]  BY <3>1
    <3> HIDE DEF w
    <3>5. QED  BY <1>1, <3>2, <3>3, <3>4 DEF DeviceOK, DeviceFields, N
  <2>2. CASE Program95
    <3> DEFINE c == Burnt(dev.cells, Latched, 0)
               w == Working(c)
    <3>1. Latched \in Seq(Byte) /\ Len(Latched) = N
      BY <2>2, LatchedIn DEF Program95
    <3>2. c \in Seq(Byte) /\ Len(c) = N  BY <3>1, BurntIn DEF DeviceOK, N
    <3>3. w.todo = c /\ w.cells = dev.cells /\ w.latch = dev.latch /\ w.pipe = dev.pipe
          /\ DOMAIN w = DeviceFields
      <4> HIDE DEF c
      <4> QED  BY <3>2, WorkingTyped
    <3>4. dev' \in {dev, [w EXCEPT !.latch = Blank], [dev EXCEPT !.latch = Latched]}
      BY <2>2 DEF Program95, Command
    <3>5. Blank \in Seq(Byte) /\ Len(Blank) = N  BY BlankIn
    <3> HIDE DEF w, c
    <3>6. QED  BY <1>1, <3>1, <3>2, <3>3, <3>4, <3>5 DEF DeviceOK, DeviceFields, N
  <2>3. CASE Enable95
    BY <1>1, <2>3 DEF Enable95, DeviceOK, DeviceFields, N
  <2>4. CASE Verify95 \/ Read95
    <3>1. Address \in 1..N  BY BlankIn, <2>4 DEF Verify95, Read95, Scan95, Address, HostOK
    <3>2. dev.cells[Address] \in Byte /\ Erased \in Byte
      BY <3>1, BlankIn DEF DeviceOK, Erased, Byte
    <3>3. dev' = Fetch(Address)  BY <2>4 DEF Verify95, Read95, Scan95
    <3>4. QED  BY <1>1, <3>2, <3>3 DEF Fetch, DeviceOK, DeviceFields, N
  <2>5. QED  BY <2>1, <2>2, <2>3, <2>4
<1>3. HostOK'
  <2> USE DEF HostFields, Go, Tell, Finished
  <2>1. CASE Erase95  BY <1>1, <2>1 DEF HostOK, Erase95
  <2>2. CASE Program95
    <3>1. host.pc = "program" /\ (\/ host' = [Go("polling") EXCEPT !.polls = 0]
                                  \/ host' = [host EXCEPT !.i = @ + 1])
      BY <2>2 DEF Program95
    <3>2. CASE host' = [Go("polling") EXCEPT !.polls = 0]
      BY <1>1, <3>1, <3>2, SectorAssumption DEF HostOK
    <3>3. CASE host' = [host EXCEPT !.i = @ + 1]
      BY <1>1, <3>1, <3>3 DEF HostOK
    <3>4. QED  BY <3>1, <3>2, <3>3
  <2>3. CASE Enable95
    <3>1. Blank \in Seq(Byte)  BY BlankIn
    <3>2. host' = [Go(IF Arg.action = "r" THEN "read" ELSE "verify") EXCEPT !.i = 0, !.out = Blank]
          /\ host.pc # "done"
      BY <2>3 DEF Enable95
    <3>3. QED  BY <1>1, <3>1, <3>2 DEF HostOK
  <2>4. CASE Verify95  BY <1>1, <2>4 DEF HostOK, Verify95, Throw, Exit, Thrown
  <2>5. CASE Read95
    <3> DEFINE o == IF host.i = 0 THEN host.out ELSE [host.out EXCEPT ![host.i] = dev.pipe]
    <3>1. o \in Seq(Byte)
      <4>1. dev.pipe \in Byte /\ host.out \in Seq(Byte)  BY <1>1 DEF DeviceOK, HostOK
      <4>2. QED  BY <4>1, ExceptIn
    <3>2. host' = [host EXCEPT !.i = @ + 1, !.out = o]  BY <2>5 DEF Read95, HostOK
    <3> HIDE DEF o
    <3>3. host.pc = "read"  BY <2>5 DEF Read95
    <3>4. QED  BY <1>1, <3>1, <3>2, <3>3 DEF HostOK
  <2>6. QED  BY <2>1, <2>2, <2>3, <2>4, <2>5
<1>4. StageOK'
  <2> USE DEF HostFields, Go, Tell, First, Worked, HostOK, StageOK
  <2>1. CASE Erase95  BY <1>1, <2>1 DEF Erase95
  <2>2. CASE Program95  BY <1>1, <2>2 DEF Program95
  <2>3. CASE Enable95  BY <1>1, <2>3 DEF Enable95
  <2>4. CASE Verify95  BY <1>1, <2>4 DEF Verify95, Throw, Exit
  <2>5. CASE Read95  BY <1>1, <2>5 DEF Read95
  <2>6. QED  BY <2>1, <2>2, <2>3, <2>4, <2>5
<1>5. CpldOK'
  <2> USE DEF HostFields, Go, Tell, HostOK, CpldOK
  <2>1. Arg' = Arg
    <3>1. host'.n = host.n  BY DEF Erase95, Program95, Enable95, Verify95, Read95, Throw, Exit
    <3>2. QED  BY <1>1, <3>1 DEF Arg
  <2>2. CASE Erase95  BY <1>1, <1>2, <2>1, <2>2, BlankIn DEF Erase95, IsWrite
  <2>3. CASE Program95
    <3>1. /\ host.pc = "program" /\ host.i < N /\ N \in Nat /\ host.i \in Nat
          /\ \/ host' = [Go("polling") EXCEPT !.polls = 0]
             \/ host' = [host EXCEPT !.i = @ + 1]
      BY <2>3, BlankIn DEF Program95
    <3>2. IsWrite /\ IsWrite' = IsWrite  BY <1>1, <2>1, <3>1 DEF IsWrite
    <3>3. CASE host' = [Go("polling") EXCEPT !.polls = 0]
      <4>1. host'.pc = "polling" /\ host'.i = host.i  BY <3>3
      <4>2. QED  BY <1>1, <1>2, <3>1, <3>2, <4>1
    <3>4. CASE host' = [host EXCEPT !.i = @ + 1]
      <4>1. host'.pc = "program" /\ host'.i = host.i + 1  BY <3>1, <3>4
      <4>2. QED  BY <1>1, <1>2, <3>1, <3>2, <4>1
    <3>5. QED  BY <3>1, <3>3, <3>4
  <2>4. CASE Enable95  BY <1>1, <1>2, <2>1, <2>4, BlankIn DEF Enable95, IsWrite
  <2>5. CASE Verify95
    BY <1>1, <1>2, <2>1, <2>5, BlankIn DEF Verify95, Throw, Exit, Scan95, IsWrite
  <2>6. CASE Read95
    <3> DEFINE o == IF host.i = 0 THEN host.out ELSE [host.out EXCEPT ![host.i] = dev.pipe]
    <3>1. Len(o) = Len(host.out)
      <4>1. dev.pipe \in Byte /\ host.out \in Seq(Byte)  BY <1>1 DEF DeviceOK, HostOK
      <4>2. QED  BY <4>1, ExceptIn
    <3>2. host' = [host EXCEPT !.i = @ + 1, !.out = o]  BY <2>6 DEF Read95, HostOK
    <3> HIDE DEF o
    <3>3. QED  BY <1>1, <1>2, <2>1, <2>6, <3>1, <3>2, BlankIn DEF Read95, Scan95, IsWrite
  <2>7. QED  BY <2>2, <2>3, <2>4, <2>5, <2>6
<1>6. XMegaOK'  BY <1>1 DEF XMegaOK
<1>7. DiskOK'  BY <1>1 DEF DiskOK, ForFuses, ForBytes
<1>8. QED  BY <1>1, <1>2, <1>3, <1>4, <1>5, <1>6, <1>7, RequestStays

LEMMA Typed95 ==
  ASSUME TypeInv, Next95
  PROVE  TypeInv'
<1> USE DEF TypeInv, At95, Running
<1>1. req.kind = "xc95x"
  BY DEF Next95, Begin95, Erase95, Erased95, TooMany95, Open95, Return95, Ignore95, File95,
         Program95, PollSector, SectorDone, SectorFailed, Programmed95, NoFuse95, Enable95,
         Verify95, Read95, Disable95
<1>2. CASE Open95
  <2>1. TakeArg("file") /\ host.pc = "args"  BY <1>2 DEF Open95
  <2>2. /\ RequestOK' /\ DiskOK' /\ HostOK' /\ DeviceOK' /\ UNCHANGED <<req, dev>>
        /\ host'.pc = "file" /\ host'.n > 0 /\ host'.i = 0
    <3>1. "file" # "done"  OBVIOUS
    <3>2. QED  BY <2>1, <3>1, TakeArgTyped
  <2>3. StageOK'  BY <1>1, <2>2 DEF StageOK, First, Worked
  <2>4. CpldOK'  BY <1>1, <2>2 DEF CpldOK
  <2>5. XMegaOK'  BY <1>1, <2>2 DEF XMegaOK
  <2>6. QED  BY <2>2, <2>3, <2>4, <2>5
<1>3. CASE Disable95
  <2>1. UNCHANGED req /\ host.pc \in {"verify", "read", "verified"} /\ host.n > 0
        /\ dev' = [dev EXCEPT !.isc = FALSE] /\ host' = EndOfArg
    BY <1>3 DEF Disable95, StageOK, Worked
  <2>2. DeviceOK' /\ N' = N  BY <1>1, <2>1 DEF DeviceOK, DeviceFields, N
  <2>3. HostOK'
    BY <1>1, <2>1 DEF HostOK, HostFields, EndOfArg, Go, Exit, Finished
  <2>4. StageOK' /\ host'.pc \in {"args", "done"}
    BY <1>1, <2>1 DEF StageOK, HostOK, HostFields, First, Worked, EndOfArg, Go, Exit
  <2>5. CpldOK' /\ XMegaOK'  BY <1>1, <2>1, <2>4 DEF CpldOK, XMegaOK
  <2>6. DiskOK' /\ DOMAIN disk' = DOMAIN disk
    <3>1. CASE UNCHANGED disk  BY <2>1, <3>1 DEF DiskOK, ForFuses, ForBytes
    <3>2. CASE Written(saveAsJed(host.out, req.device), FALSE)
      <4> DEFINE file == saveAsJed(host.out, req.device)
                 g == [file EXCEPT !.flushed = FALSE]
      <4>1. file \in NamedFiles(NamedFields)
        <5>1. req.device \in Names /\ host.out \in Seq(Byte)  BY DEF RequestOK, Names, HostOK
        <5>2. QED  BY <5>1, SavedJedIn
      <4> HIDE DEF file
      <4>2. g \in NamedFiles(NamedFields)  BY <4>1, ClosedIn
      <4>3. disk' = [disk EXCEPT ![Arg.name] = g]  BY <3>2 DEF Written, file
      <4>4. FromFuses  BY <1>1 DEF FromFuses, TakesFuses
      <4> HIDE DEF g
      <4>5. QED  BY <2>1, <4>2, <4>3, <4>4, WrittenTyped
    <3>3. QED  BY <1>3, <3>1, <3>2 DEF Disable95
  <2>7. QED  BY <2>1, <2>2, <2>3, <2>4, <2>5, <2>6, RequestStays
<1>4. QED
  BY <1>1, <1>2, <1>3, QuietTyped95, FileTyped95, DeviceTyped95 DEF Next95

------------------------------------------------------------------------------
(***************************************************************************)
(* The CoolRunner-II.                                                      *)
(***************************************************************************)
(* The steps that only the host makes.                                     *)
LEMMA QuietTyped2C ==
  ASSUME TypeInv, req.kind = "xc2c",
         \/ Begin2C \/ NotBlank \/ Return2C \/ TooMany2C \/ Ignore2C \/ NoBit
  PROVE  TypeInv'
<1> USE DEF TypeInv, At2C, AtFile2C, Running, HostFields, Go, Tell, Exit, Throw
<1>1. Quiet
  BY DEF Begin2C, NotBlank, Return2C, TooMany2C, Ignore2C, NoBit
<1>2. UNCHANGED <<req, dev, disk>> /\ N' = N  BY <1>1 DEF Quiet, N
<1>3. HostOK' /\ StageOK' /\ host'.n = host.n
  <2> USE DEF HostOK, StageOK, Finished, First, Worked
  <2>1. CASE Begin2C  BY <1>2, <2>1 DEF Begin2C
  <2>2. CASE NotBlank
    <3>1. host.n > 0 \/ host.then = "args"  BY <1>2, <2>2 DEF NotBlank, CpldOK
    <3>2. QED  BY <1>2, <2>2, <3>1 DEF NotBlank
  <2>3. CASE Return2C  BY <1>2, <2>3 DEF Return2C
  <2>4. CASE TooMany2C  BY <1>2, <2>4 DEF TooMany2C
  <2>5. CASE Ignore2C  BY <1>2, <2>5 DEF Ignore2C
  <2>6. CASE NoBit  BY <1>2, <2>6 DEF NoBit, Thrown
  <2>7. QED  BY <2>1, <2>2, <2>3, <2>4, <2>5, <2>6
<1>4. CpldOK'
  <2>1. Arg' = Arg  BY <1>2, <1>3 DEF Arg
  <2>2. Rows' = Rows /\ Rows \in Nat /\ Rows <= N  BY <1>2, BlankIn DEF Rows
  <2> USE DEF HostOK, StageOK, CpldOK, First
  <2>3. CASE Begin2C  BY <1>2, <1>3, <2>3 DEF Begin2C
  <2>4. CASE NotBlank
    <3>1. host.then = "args" \/ (host.then = "program" /\ Arg.action = "w")
      BY <1>2, <2>4 DEF NotBlank
    <3>2. host.i <= Rows /\ N \in Nat /\ host.i \in Nat  BY <2>2, <2>4, BlankIn DEF NotBlank
    <3>3. host' = Tell(Exit(host, 1), TRUE) \/ (host' = Tell(Go("verify"), TRUE) /\ host.then # "args")
      BY <2>4 DEF NotBlank
    <3>4. CASE host' = Tell(Exit(host, 1), TRUE)
      <4>1. host'.pc = "done"  BY <3>4
      <4>2. QED  BY <1>2, <4>1
    <3>5. CASE host' = Tell(Go("verify"), TRUE) /\ host.then # "args"
      <4>1. host'.pc = "verify" /\ host'.i = host.i  BY <3>5
      <4>2. QED  BY <1>2, <2>1, <2>2, <3>1, <3>2, <3>5, <4>1
    <3>6. QED  BY <3>3, <3>4, <3>5
  <2>5. CASE Return2C \/ TooMany2C \/ Ignore2C
    <3>1. host'.pc \in {"args", "done"}  BY <2>5 DEF Return2C, TooMany2C, Ignore2C
    <3>2. QED  BY <1>2, <3>1
  <2>6. CASE NoBit
    <3>1. host'.pc = "done"  BY <2>6 DEF NoBit
    <3>2. QED  BY <1>2, <3>1
  <2>7. QED  BY <2>3, <2>4, <2>5, <2>6
<1>5. XMegaOK'  BY <1>2 DEF XMegaOK
<1>6. QED  BY <1>1, <1>3, <1>4, <1>5, QuietTypes

LEMMA FileTyped2C ==
  ASSUME TypeInv, JedFile2C \/ BitFile2C
  PROVE  TypeInv'
<1> USE DEF TypeInv, At2C, AtFile2C, Running, HostFields, Go, Exit, Throw
<1>1. /\ UNCHANGED <<req, dev, disk>> /\ N' = N /\ Quiet /\ req.kind = "xc2c" /\ host.pc = "file"
      /\ host.n > 0 /\ Arg.action \in {"v", "w", "W"}
  BY SMTT(30) DEF JedFile2C, BitFile2C, Quiet, N, StageOK, Worked
<1> DEFINE Next2(h, bytes) ==
             \/ h = [Go(After2C) EXCEPT !.bytes = bytes, !.then = "program"]
             \/ h = Tell([Go(After2C) EXCEPT !.bytes = bytes, !.then = "program"], TRUE)
             \/ h = Tell([Go(After2C) EXCEPT !.bytes = bytes, !.then = "program"], FALSE)
           Gone(h, code) == \/ h = Exit(host, code)
                            \/ h = Exit(Tell(host, TRUE), code)
                            \/ h = Tell(Exit(Tell(host, TRUE), code), TRUE)
                            \/ h = Tell(Exit(Tell(host, TRUE), code), FALSE)
<1>2. \E bytes \in Seq(Byte), code \in Nat : Next2(host', bytes) \/ Gone(host', code)
  <2>1. CASE JedFile2C
    <3>1. readJed(File) \in SUBSET Jeds
      <4>1. FromFuses  BY <1>1, <2>1 DEF FromFuses, TakesFuses, JedFile2C, Mapped
      <4>2. QED  BY <1>1, <4>1, FileIs, JedIn
    <3>2. PICK jed \in readJed(File) :
            host' = IF jed.res = Thrown THEN Throw
                    ELSE Checked2C(jed.res, jedecfile2bitfile(jed.fuses), jed.device)
      BY <2>1 DEF JedFile2C
    <3>3. jed.fuses \in Seq(Byte) /\ jed.res \in Nat  BY <3>1, <3>2 DEF Jeds, Thrown
    <3> DEFINE bytes == jedecfile2bitfile(jed.fuses)
    <3>4. bytes \in Seq(Byte)  BY <3>3, ToBits
    <3> HIDE DEF bytes
    <3>5. host' \in {Exit(host, Thrown), Exit(Tell(host, TRUE), 3), Exit(Tell(host, TRUE), jed.res),
                     [Go(After2C) EXCEPT !.bytes = bytes, !.then = "program"]}
      BY <3>2 DEF Checked2C, bytes
    <3>6. 3 \in Nat /\ Thrown \in Nat  BY DEF Thrown
    <3>7. QED  BY <3>3, <3>4, <3>5, <3>6
  <2>2. CASE BitFile2C
    <3>1. readFile(Arg.style, File) \in SUBSET Results
      <4>1. ~FromFuses  BY <1>1, <2>2 DEF FromFuses, TakesFuses, BitFile2C, Mapped
      <4>2. QED  BY <1>1, <4>1, FileIs, FileIn
    <3>2. PICK r \in readFile(Arg.style, File) :
            host' = IF r.bytes = <<>> THEN Exit(Tell(host, TRUE), 2)
                    ELSE Tell(Checked2C(0, r.bytes, PartName), r.res # 0)
      BY <2>2 DEF BitFile2C
    <3>3. r.bytes \in Seq(Byte)  BY <3>1, <3>2 DEF Results
    <3>4. (r.res # 0) \in {TRUE, FALSE}  OBVIOUS
    <3>5. Checked2C(0, r.bytes, PartName) \in
            {Exit(Tell(host, TRUE), 3), [Go(After2C) EXCEPT !.bytes = r.bytes, !.then = "program"]}
      BY DEF Checked2C
    <3>6. \/ host' = Exit(Tell(host, TRUE), 2)
          \/ host' = Tell(Checked2C(0, r.bytes, PartName), TRUE)
          \/ host' = Tell(Checked2C(0, r.bytes, PartName), FALSE)
      BY <3>2
    <3>7. 2 \in Nat /\ 3 \in Nat  OBVIOUS
    <3>8. QED  BY <3>3, <3>5, <3>6, <3>7
  <2>3. QED  BY <2>1, <2>2
<1>3. PICK bytes \in Seq(Byte), code \in Nat : Next2(host', bytes) \/ Gone(host', code)
  BY <1>2
<1>4. After2C \in {"erase", "program", "verify"} /\ (After2C = "program" => IsWrite)
      /\ (After2C = "erase" => Arg.action = "w" /\ ~req.erase)
  BY DEF After2C
<1> USE DEF Tell
<1>5. /\ host'.n = host.n /\ host'.i = host.i /\ host'.pc \in {"done", After2C}
      /\ host'.polls = host.polls /\ host'.res = host.res /\ host'.ret = host.ret
      /\ host'.wait = host.wait /\ host'.out = host.out /\ DOMAIN host' = DOMAIN host
      /\ host'.bytes \in {host.bytes, bytes}
      /\ \/ host'.pc = After2C /\ host'.then = "program" /\ host'.exit = host.exit
         \/ host'.pc = "done" /\ host'.exit = code
  <2>1. CASE Next2(host', bytes)  BY <1>3, <1>4, <2>1, ZenonT(60) DEF HostOK
  <2>2. CASE Gone(host', code)  BY <1>3, <1>4, <2>2, ZenonT(60) DEF HostOK
  <2>3. QED  BY <1>3, <2>1, <2>2
<1> HIDE DEF Next2, Gone, Tell, Go, Exit
<1>6. Arg' = Arg /\ Rows' = Rows  BY <1>1, <1>5 DEF Arg, Rows
<1>7. HostOK'
  BY <1>1, <1>3, <1>4, <1>5 DEF HostOK, Finished
<1>8. StageOK'  BY <1>1, <1>4, <1>5 DEF StageOK, First, Worked
<1>9. CpldOK'
  <2>1. Rows \in Nat /\ N > 0 /\ N \in Nat /\ host.i = 0  BY <1>1, BlankIn DEF CpldOK, Rows
  <2>2. QED  BY <1>1, <1>4, <1>5, <1>6, <2>1 DEF CpldOK, IsWrite
<1>10. XMegaOK'  BY <1>1 DEF XMegaOK
<1>11. QED  BY <1>1, <1>7, <1>8, <1>9, <1>10, QuietTypes

(* A row of the model is two cells of the device.                          *)
LEMMA RowsAre ==
  ASSUME RequestOK, DeviceOK, req.kind = "xc2c"
  PROVE  /\ Rows \in Nat /\ 2 * Rows = N /\ Rows <= N
         /\ \A r \in 0..(Rows - 1) : 2 * r + 1 \in 1..N /\ 2 * r + 2 \in 1..N
<1>1. N \in Nat /\ N % 2 = 0  BY BlankIn DEF RequestOK
<1>2. Rows \in Nat /\ 2 * Rows = N  BY <1>1 DEF Rows
<1>3. QED  BY <1>1, <1>2

LEMMA RowIs ==
  ASSUME NEW bytes \in Seq(Byte), NEW r \in Nat, 2 * r + 2 <= Len(bytes)
  PROVE  /\ Row(bytes, r) \in Seq(Byte) /\ Len(Row(bytes, r)) = 2
         /\ Row(bytes, r)[1] = bytes[2 * r + 1] /\ Row(bytes, r)[2] = bytes[2 * r + 2]
<1> DEFINE a == 2 * r + 1
           b == 2 * r + 2
<1>1. a \in Nat /\ a > 0 /\ b = a + 1 /\ b \in 1..Len(bytes) /\ Len(bytes) \in Nat  OBVIOUS
<1>2. Row(bytes, r) = SubSeq(bytes, a, b)  BY DEF Row
<1> HIDE DEF a, b
<1>3. SubSeq(bytes, a, b) = [k \in 1..2 |-> bytes[a + k - 1]]
  BY <1>1
<1>4. bytes[a] \in Byte /\ bytes[b] \in Byte  BY <1>1
<1> DEFINE s == SubSeq(bytes, a, b)
<1>5. DOMAIN s = 1..2 /\ s[1] = bytes[a] /\ s[2] = bytes[b] /\ s = [k \in DOMAIN s |-> s[k]]
  BY <1>1, <1>3
<1>6. \A k \in 1..2 : s[k] \in Byte  BY <1>1, <1>3, <1>4
<1> HIDE DEF s
<1>7. s \in Seq(Byte) /\ Len(s) = 2  BY <1>5, <1>6, BytesIn
<1>8. QED  BY <1>2, <1>5, <1>7 DEF s, a, b

LEMMA LastBytesIn ==
  ASSUME DeviceOK
  PROVE  /\ LastBytesKept \in Seq(Byte) /\ Len(LastBytesKept) = N
         /\ \A a \in 1..N : LastBytesKept[a] = IF a % 2 = 0 THEN dev.cells[a] ELSE Erased
<1> DEFINE n == N
<1>1. n \in Nat /\ DOMAIN dev.cells = 1..n /\ dev.cells \in Seq(Byte)  BY BlankIn DEF DeviceOK
<1>2. \A a \in 1..n : dev.cells[a] \in Byte  BY <1>1
<1>3. Erased \in Byte  BY DEF Erased, Byte
<1> DEFINE f == [a \in 1..n |-> IF a % 2 = 0 THEN dev.cells[a] ELSE Erased]
<1>4. LastBytesKept = f  BY DEF LastBytesKept
<1> HIDE DEF n
<1>5. f \in [1..n -> Byte]  BY <1>2, <1>3
<1>6. \A a \in 1..n : f[a] = IF a % 2 = 0 THEN dev.cells[a] ELSE Erased  OBVIOUS
<1> HIDE DEF f
<1>7. f \in Seq(Byte) /\ Len(f) = n  BY <1>1, <1>5, AsSequence
<1>8. QED  BY <1>4, <1>6, <1>7 DEF n

(* What was read so far, and the next row.                                 *)
ReadRow(out) == [a \in DOMAIN out |-> IF a - 2 * host.i \in 1..2 THEN ThisRow[a - 2 * host.i]
                                      ELSE out[a]]
LEMMA ReadRowIn ==
  ASSUME RequestOK, DeviceOK, req.kind = "xc2c", dev.pipe = host.i, host.i \in Nat, host.i < Rows,
         NEW out \in Seq(Byte), Len(out) = N
  PROVE  /\ ReadRow(out) \in Seq(Byte) /\ Len(ReadRow(out)) = N
         /\ \A a \in 1..N : ReadRow(out)[a] = IF a \in {2 * host.i + 1, 2 * host.i + 2}
                                              THEN dev.cells[a] ELSE out[a]
<1> DEFINE n == N
           i == host.i
<1>1. n \in Nat /\ 2 * i + 2 <= n /\ dev.cells \in Seq(Byte) /\ Len(dev.cells) = n
      /\ i \in Nat /\ DOMAIN out = 1..n
  BY RowsAre, BlankIn DEF DeviceOK, N
<1>2. /\ ThisRow \in Seq(Byte) /\ Len(ThisRow) = 2
      /\ ThisRow[1] = dev.cells[2 * i + 1] /\ ThisRow[2] = dev.cells[2 * i + 2]
  <2>1. ThisRow = Row(dev.cells, i)  BY DEF ThisRow
  <2> HIDE DEF i
  <2>2. QED  BY <1>1, <2>1, RowIs
<1> DEFINE val(a) == IF a - 2 * i \in 1..2 THEN ThisRow[a - 2 * i] ELSE out[a]
           f == [a \in 1..n |-> val(a)]
<1>3. ReadRow(out) = f  BY <1>1 DEF ReadRow
<1> HIDE DEF n, i
<1>4. ASSUME NEW a \in 1..n
      PROVE  /\ val(a) = IF a \in {2 * i + 1, 2 * i + 2} THEN dev.cells[a] ELSE out[a]
             /\ val(a) \in Byte
  <2>1. a - 2 * i \in 1..2 <=> a \in {2 * i + 1, 2 * i + 2}  BY <1>1
  <2>2. CASE a = 2 * i + 1
    <3>1. a - 2 * i = 1  BY <1>1, <2>2
    <3>2. dev.cells[a] \in Byte  BY <1>1
    <3>3. QED  BY <1>2, <2>2, <3>1, <3>2
  <2>3. CASE a = 2 * i + 2
    <3>1. a - 2 * i = 2  BY <1>1, <2>3
    <3>2. dev.cells[a] \in Byte  BY <1>1
    <3>3. QED  BY <1>2, <2>3, <3>1, <3>2
  <2>4. CASE a \notin {2 * i + 1, 2 * i + 2}
    <3>1. out[a] \in Byte  BY <1>1
    <3>2. QED  BY <2>1, <2>4, <3>1
  <2>5. QED  BY <2>2, <2>3, <2>4
<1> HIDE DEF val
<1>5. f \in [1..n -> Byte] /\ \A a \in 1..n : f[a] = val(a)  BY <1>4
<1> HIDE DEF f
<1>6. f \in Seq(Byte) /\ Len(f) = n  BY <1>1, <1>5, AsSequence
<1>7. QED  BY <1>3, <1>4, <1>5, <1>6 DEF n, i

(* The steps that use the device.                                          *)
LEMMA DeviceTyped2C ==
  ASSUME TypeInv,
         \/ Erase2C \/ BlankRow \/ IsBlank \/ Program2C \/ Programmed2C \/ StartVerify \/ StartRead
         \/ Verify2C \/ Verified2C \/ Mismatch2C \/ DoneProgram \/ Read2C
  PROVE  TypeInv'
<1> USE DEF TypeInv, At2C, AtFile2C, Running, OpenRows, NextRow, CloseIsc
<1>1. UNCHANGED <<req, disk>> /\ req.kind = "xc2c"
  BY DEF Erase2C, BlankRow, IsBlank, Program2C, Programmed2C, StartVerify, StartRead,
         Verify2C, Verified2C, Mismatch2C, DoneProgram, Read2C
<1>2. DeviceOK' /\ N' = N
  <2>1. CASE Erase2C
    <3>1. PICK cells \in {Blank, dev.cells, LastBytesKept} :
                dev' = [dev EXCEPT !.cells = cells, !.isc = TRUE, !.pipe = 0]
      BY <2>1 DEF Erase2C
    <3>2. cells \in Seq(Byte) /\ Len(cells) = N  BY <3>1, BlankIn, LastBytesIn DEF DeviceOK, N
    <3>3. QED  BY <1>1, <3>1, <3>2 DEF DeviceOK, DeviceFields, N
  <2>2. CASE Program2C
    <3> DEFINE data == Row(host.bytes, host.i)
               c == Burnt(dev.cells, data, 2 * host.i)
    <3>1. data \in Seq(Byte)
      <4>1. host.bytes \in Seq(Byte) /\ host.i \in Nat /\ 2 * host.i + 2 <= Len(host.bytes)
        BY <2>2 DEF Program2C, Short, HostOK
      <4>2. QED  BY <4>1, RowIs
    <3>2. c \in Seq(Byte) /\ Len(c) = N
      <4> HIDE DEF data
      <4>1. 2 * host.i \in Int /\ dev.cells \in Seq(Byte) /\ Len(dev.cells) = N
        BY DEF HostOK, DeviceOK, N
      <4>2. QED  BY <3>1, <4>1, BurntIn
    <3>3. dev' = [dev EXCEPT !.isc = TRUE, !.cells = c]
      BY <2>2 DEF Program2C, DeviceOK, DeviceFields
    <3> HIDE DEF c
    <3>4. QED  BY <1>1, <3>2, <3>3 DEF DeviceOK, DeviceFields, N
  <2>3. CASE BlankRow \/ Verify2C \/ Read2C
    <3>1. dev' = [dev EXCEPT !.pipe = host.i + 1] /\ host.i + 1 \in Nat
      BY <2>3 DEF BlankRow, Verify2C, Read2C, HostOK
    <3>2. QED  BY <1>1, <3>1 DEF DeviceOK, DeviceFields, N
  <2>4. CASE StartVerify \/ StartRead
    <3>1. dev' = [dev EXCEPT !.isc = TRUE, !.pipe = 0]  BY <2>4 DEF StartVerify, StartRead
    <3>2. QED  BY <1>1, <3>1 DEF DeviceOK, DeviceFields, N
  <2>5. CASE IsBlank \/ Programmed2C \/ Verified2C \/ Mismatch2C \/ DoneProgram
    <3>1. dev' = [dev EXCEPT !.isc = FALSE] \/ dev' = [dev EXCEPT !.done = TRUE, !.isc = FALSE]
      BY <2>5 DEF IsBlank, Programmed2C, Verified2C, Mismatch2C, DoneProgram
    <3>2. QED  BY <1>1, <3>1 DEF DeviceOK, DeviceFields, N
  <2>6. QED  BY <2>1, <2>2, <2>3, <2>4, <2>5
<1>3. Rows' = Rows /\ Rows \in Nat /\ 2 * Rows = N /\ Rows <= N /\ N \in Nat
  BY <1>1, <1>2, RowsAre, BlankIn DEF Rows
<1>4. host.pc # "done" /\ host.exit = -1
  <2>1. host.pc # "done"
    BY DEF Erase2C, BlankRow, IsBlank, Program2C, Programmed2C, StartVerify, StartRead,
           Verify2C, Verified2C, Mismatch2C, DoneProgram, Read2C
  <2>2. QED  BY <1>1, <2>1 DEF HostOK, Finished
<1> USE DEF HostFields, Go, Tell, Finished, First, Worked
<1>5. ASSUME host'.n = host.n, DOMAIN host' = HostFields, host'.i \in Nat, host'.polls = host.polls,
             host'.res = host.res, host'.ret \in 0..1, host'.wait = host.wait,
             host'.bytes = host.bytes, host'.out \in Seq(Byte),
             host'.exit = host.exit /\ host'.pc # "done"
      PROVE  HostOK' /\ Arg' = Arg
  BY <1>1, <1>4, <1>5 DEF HostOK, Arg
<1>6. CASE Erase2C
  <2>1. HostOK' /\ Arg' = Arg  BY <1>4, <1>5, <1>6 DEF Erase2C, HostOK
  <2>2. StageOK'  BY <1>1, <1>6, <2>1 DEF Erase2C, HostOK, StageOK
  <2>3. CpldOK'
    <3>1. dev'.pipe = 0  BY <1>6 DEF Erase2C, DeviceOK, DeviceFields
    <3>2. QED  BY <1>1, <1>2, <1>3, <1>6, <2>1, <3>1 DEF Erase2C, HostOK, CpldOK
  <2>4. QED  BY <1>1, <1>2, <2>1, <2>2, <2>3, RequestStays DEF XMegaOK, DiskOK, ForFuses, ForBytes
<1>7. CASE BlankRow \/ Verify2C \/ Verified2C \/ Mismatch2C
  <2>1. HostOK' /\ Arg' = Arg
    <3>1. CASE BlankRow \/ Verify2C
      BY <1>4, <1>5, <3>1 DEF BlankRow, Verify2C, HostOK
    <3>2. CASE Verified2C \/ Mismatch2C
      <4>1. CASE Verified2C  BY <1>4, <1>5, <4>1 DEF Verified2C, HostOK
      <4>2. CASE Mismatch2C  BY <1>4, <1>5, <4>2 DEF Mismatch2C, HostOK
      <4>3. QED  BY <3>2, <4>1, <4>2
    <3>3. QED  BY <1>7, <3>1, <3>2
  <2>2. StageOK'
    <3>1. CASE BlankRow \/ Verify2C
      BY <1>1, <2>1, <3>1 DEF BlankRow, Verify2C, HostOK, StageOK
    <3>2. CASE Verified2C \/ Mismatch2C
      BY <1>1, <2>1, <3>2 DEF Verified2C, Mismatch2C, HostOK, StageOK
    <3>3. QED  BY <1>7, <3>1, <3>2
  <2>3. CpldOK'
    <3>1. CASE BlankRow \/ Verify2C
      <4>1. dev'.pipe = host.i + 1  BY <3>1 DEF BlankRow, Verify2C, DeviceOK, DeviceFields
      <4>2. /\ host'.pc = host.pc /\ host'.i = host.i + 1 /\ host'.then = host.then
            /\ host.pc \in {"blank", "verifying"} /\ host.i < Rows /\ host'.n = host.n
        BY <3>1 DEF BlankRow, Verify2C, HostOK
      <4>3. host.i \in Nat  BY DEF HostOK
      <4>4. QED  BY <1>1, <1>2, <1>3, <2>1, <4>1, <4>2, <4>3 DEF CpldOK
    <3>2. CASE Verified2C \/ Mismatch2C
      <4>1. host'.pc = "finish" /\ host.pc = "verifying"
        BY <3>2 DEF Verified2C, Mismatch2C, HostOK
      <4>2. QED  BY <1>1, <2>1, <4>1 DEF CpldOK
    <3>3. QED  BY <1>7, <3>1, <3>2
  <2>4. QED  BY <1>1, <1>2, <2>1, <2>2, <2>3, RequestStays DEF XMegaOK, DiskOK, ForFuses, ForBytes
<1>8. CASE IsBlank
  <2>1. host.then \in {"args", "program"} /\ (host.then = "program" => host.n > 0 /\ IsWrite)
    BY <1>1, <1>8 DEF IsBlank, CpldOK, IsWrite
  <2>2. HostOK' /\ Arg' = Arg /\ host'.pc = host.then /\ host'.i = 0 /\ host'.n = host.n
    BY <1>4, <1>5, <1>8, <2>1 DEF IsBlank, HostOK
  <2>3. StageOK'  BY <1>1, <2>1, <2>2 DEF StageOK
  <2>4. CpldOK'  BY <1>1, <1>2, <1>3, <2>1, <2>2 DEF CpldOK, IsWrite
  <2>5. QED  BY <1>1, <1>2, <2>2, <2>3, <2>4, RequestStays DEF XMegaOK, DiskOK, ForFuses, ForBytes
<1>9. CASE Program2C \/ Programmed2C
  <2>1. HostOK' /\ Arg' = Arg /\ host'.n = host.n
    <3>1. CASE Program2C  BY <1>4, <1>5, <3>1 DEF Program2C, HostOK
    <3>2. CASE Programmed2C  BY <1>4, <1>5, <3>2 DEF Programmed2C, HostOK
    <3>3. QED  BY <1>9, <3>1, <3>2
  <2>2. StageOK'  BY <1>1, <1>9, <2>1 DEF Program2C, Programmed2C, HostOK, StageOK
  <2>3. /\ host.pc = "program" /\ IsWrite
        /\ \/ host'.pc = "program" /\ host.i < Rows /\ host'.i = host.i + 1
           \/ host'.pc = "verify" /\ host'.i = 0
    BY <1>1, <1>9 DEF Program2C, Programmed2C, HostOK, CpldOK
  <2>4. host.i \in Nat  BY DEF HostOK
  <2>5. CpldOK'  BY <1>1, <1>2, <1>3, <2>1, <2>3, <2>4 DEF CpldOK, IsWrite
  <2>6. QED  BY <1>1, <1>2, <2>1, <2>2, <2>5, RequestStays DEF XMegaOK, DiskOK, ForFuses, ForBytes
<1>10. CASE StartVerify \/ StartRead
  <2>1. Blank \in Seq(Byte) /\ Len(Blank) = N  BY BlankIn
  <2>2. HostOK' /\ Arg' = Arg /\ host'.n = host.n /\ host'.i = 0 /\ host'.out = Blank
    BY <1>4, <1>5, <1>10, <2>1 DEF StartVerify, StartRead, HostOK
  <2>3. /\ dev'.pipe = 0
        /\ \/ host.pc = "verify" /\ host'.pc = "verifying"
           \/ host.pc = "file" /\ host'.pc = "reading" /\ Arg.action = "r"
    BY <1>10 DEF StartVerify, StartRead, HostOK, DeviceOK, DeviceFields
  <2>4. StageOK'  BY <1>1, <2>2, <2>3 DEF StageOK
  <2>5. CpldOK'  BY <1>1, <1>2, <1>3, <2>1, <2>2, <2>3 DEF CpldOK
  <2>6. QED  BY <1>1, <1>2, <2>2, <2>4, <2>5, RequestStays DEF XMegaOK, DiskOK, ForFuses, ForBytes
<1>11. CASE DoneProgram
  <2>1. HostOK'  BY <1>1, <1>11 DEF DoneProgram, HostOK, EndOfArg, Exit
  <2>2. host'.pc \in {"args", "done"} /\ host'.n = host.n
    BY <1>11 DEF DoneProgram, HostOK, EndOfArg, Exit
  <2>3. StageOK' /\ CpldOK'  BY <1>1, <2>2 DEF StageOK, CpldOK
  <2>4. QED  BY <1>1, <1>2, <2>1, <2>3, RequestStays DEF XMegaOK, DiskOK, ForFuses, ForBytes
<1>12. CASE Read2C
  <2> DEFINE o == ReadRow(host.out)
  <2>1. host.pc = "reading" /\ host.i < Rows /\ dev.pipe = host.i /\ host.i \in Nat
        /\ host.out \in Seq(Byte) /\ Len(host.out) = N
    BY <1>12 DEF Read2C, CpldOK, HostOK
  <2>2. o \in Seq(Byte) /\ Len(o) = N  BY <1>1, <2>1, ReadRowIn
  <2>3. host' = [host EXCEPT !.i = @ + 1, !.out = o]  BY <1>12 DEF Read2C, ReadRow, HostOK
  <2> HIDE DEF o
  <2>4. HostOK' /\ Arg' = Arg /\ host'.pc = host.pc /\ host'.i = host.i + 1 /\ host'.out = o
        /\ host'.n = host.n
    BY <1>4, <1>5, <2>2, <2>3 DEF HostOK
  <2>5. dev'.pipe = host.i + 1  BY <1>12 DEF Read2C, DeviceOK, DeviceFields
  <2>6. StageOK'  BY <1>1, <2>1, <2>4 DEF StageOK
  <2>7. CpldOK'  BY <1>1, <1>2, <1>3, <2>1, <2>2, <2>4, <2>5 DEF CpldOK
  <2>8. QED  BY <1>1, <1>2, <2>4, <2>6, <2>7, RequestStays DEF XMegaOK, DiskOK, ForFuses, ForBytes
<1>13. QED
  BY <1>6, <1>7, <1>8, <1>9, <1>10, <1>11, <1>12

LEMMA Typed2C ==
  ASSUME TypeInv, Next2C
  PROVE  TypeInv'
<1> USE DEF TypeInv, At2C, AtFile2C, Running
<1>1. req.kind = "xc2c"
  BY DEF Next2C, Begin2C, Erase2C, BlankRow, IsBlank, NotBlank, Open2C, Return2C, TooMany2C, Ignore2C,
         JedFile2C, BitFile2C, Program2C, Programmed2C, StartVerify, StartRead, OpenRows, Verify2C,
         Verified2C, Mismatch2C, NoBit, DoneProgram, Read2C, Save2C
<1>2. CASE Open2C
  <2>1. TakeArg("file") /\ host.pc = "args"  BY <1>2 DEF Open2C
  <2>2. /\ RequestOK' /\ DiskOK' /\ HostOK' /\ DeviceOK' /\ UNCHANGED <<req, dev>>
        /\ host'.pc = "file" /\ host'.n > 0 /\ host'.i = 0
    <3>1. "file" # "done"  OBVIOUS
    <3>2. QED  BY <2>1, <3>1, TakeArgTyped
  <2>3. StageOK'  BY <1>1, <2>2 DEF StageOK, First, Worked
  <2>4. CpldOK'  BY <1>1, <2>2 DEF CpldOK
  <2>5. XMegaOK'  BY <1>1, <2>2 DEF XMegaOK
  <2>6. QED  BY <2>2, <2>3, <2>4, <2>5
<1>3. CASE Save2C
  <2>1. UNCHANGED req /\ host.pc = "reading" /\ host.n > 0 /\ dev' = [dev EXCEPT !.isc = FALSE]
    BY <1>3 DEF Save2C, CloseIsc, StageOK, Worked
  <2>2. DeviceOK' /\ N' = N  BY <1>1, <2>1 DEF DeviceOK, DeviceFields, N
  <2>3. host' \in {Tell(Go("args"), NoStyle), Exit(host, Segfault)}
    BY <1>3 DEF Save2C
  <2>4. HostOK'
    <3>1. CASE host' = Tell(Go("args"), NoStyle)
      BY <1>1, <2>1, <3>1 DEF HostOK, HostFields, Go, Tell, Finished, NoStyle
    <3>2. CASE host' = Exit(host, Segfault)
      BY <1>1, <2>1, <3>2 DEF HostOK, HostFields, Exit, Finished, Segfault
    <3>3. QED  BY <2>3, <3>1, <3>2
  <2>5. host'.pc \in {"args", "done"} /\ host'.n = host.n
    BY <2>3 DEF HostOK, HostFields, Go, Tell, Exit
  <2>6. StageOK' /\ CpldOK' /\ XMegaOK'
    BY <1>1, <2>1, <2>5 DEF StageOK, First, Worked, CpldOK, XMegaOK
  <2>7. DiskOK' /\ DOMAIN disk' = DOMAIN disk
    <3>1. CASE UNCHANGED disk  BY <2>1, <3>1 DEF DiskOK, ForFuses, ForBytes
    <3>2. CASE Mapped /\ Written(saveAsJed(bitfile2jedecfile(host.out), req.device), TRUE)
      <4> DEFINE fuses == bitfile2jedecfile(host.out)
                 file == saveAsJed(fuses, req.device)
                 g == [file EXCEPT !.flushed = TRUE]
      <4>1. fuses \in Seq(Byte)
        <5>1. host.out \in Seq(Byte) /\ Len(host.out) = Len(FuseMap)
          BY <1>1, <2>1, <3>2 DEF HostOK, CpldOK, RequestOK, Mapped
        <5>2. QED  BY <5>1, ToFuses
      <4>2. file \in NamedFiles(NamedFields)
        <5>1. req.device \in Names  BY DEF RequestOK, Names
        <5> HIDE DEF fuses
        <5>2. QED  BY <4>1, <5>1, SavedJedIn
      <4>3. disk' = [disk EXCEPT ![Arg.name] = g]  BY <3>2 DEF Written
      <4> HIDE DEF file
      <4>4. g \in NamedFiles(NamedFields)  BY <4>2, ClosedIn
      <4>5. FromFuses  BY <1>1, <3>2 DEF FromFuses, TakesFuses, Mapped
      <4> HIDE DEF g
      <4>6. QED  BY <2>1, <4>3, <4>4, <4>5, WrittenTyped
    <3>3. CASE ~Mapped /\ Written([saveAs(Arg.style, host.out, 0) EXCEPT !.device = req.device], TRUE)
      <4> DEFINE made == saveAs(Arg.style, host.out, 0)
                 file == [made EXCEPT !.device = req.device]
                 g == [file EXCEPT !.flushed = TRUE]
      <4>1. made \in NamedFiles(Lines)
        <5>1. Arg.style \in STRING /\ host.out \in Seq(Byte) /\ 0 \in 0..Len(host.out)
          BY <2>1, ArgIs DEF HostOK
        <5>2. QED  BY <5>1, SavedIn
      <4>2. disk' = [disk EXCEPT ![Arg.name] = g]  BY <3>3 DEF Written
      <4> HIDE DEF made
      <4>3. file \in NamedFiles(Lines)
        <5>1. req.device \in Names  BY DEF RequestOK, Names
        <5>2. QED  BY <4>1, <5>1 DEF NamedFiles
      <4> HIDE DEF file
      <4>4. g \in NamedFiles(Lines)  BY <4>3, ClosedIn
      <4>5. ~FromFuses  BY <1>1, <3>3 DEF FromFuses, TakesFuses, Mapped
      <4> HIDE DEF g
      <4>6. QED  BY <2>1, <4>2, <4>4, <4>5, WrittenTyped
    <3>4. QED  BY <1>3, <3>1, <3>2, <3>3 DEF Save2C
  <2>8. QED  BY <2>1, <2>2, <2>4, <2>6, <2>7, RequestStays
<1>4. QED
  BY <1>1, <1>2, <1>3, QuietTyped2C, FileTyped2C, DeviceTyped2C DEF Next2C

------------------------------------------------------------------------------
(***************************************************************************)
(* The XMega.                                                              *)
(***************************************************************************)
LEMMA BasesAre ==
  /\ base("a") = 0 /\ base("b") = Before[1] /\ base("e") = Before[2] /\ base("f") = Before[3]
  /\ base("l") = Before[4]
<1>1. /\ Sections[1] = "a" /\ Sections[2] = "b" /\ Sections[3] = "e" /\ Sections[4] = "f"
      /\ Sections[5] = "l"
  BY DEF Sections
<1>2. 1..5 = {1, 2, 3, 4, 5}  OBVIOUS
<1>3. (CHOOSE k \in 1..5 : Sections[k] = "a") = 1  BY <1>1, <1>2
<1>4. (CHOOSE k \in 1..5 : Sections[k] = "b") = 2  BY <1>1, <1>2
<1>5. (CHOOSE k \in 1..5 : Sections[k] = "e") = 3  BY <1>1, <1>2
<1>6. (CHOOSE k \in 1..5 : Sections[k] = "f") = 4  BY <1>1, <1>2
<1>7. (CHOOSE k \in 1..5 : Sections[k] = "l") = 5  BY <1>1, <1>2
<1>8. base("a") = Before[1 - 1] /\ base("b") = Before[2 - 1]  BY <1>3, <1>4 DEF base
<1>9. base("e") = Before[3 - 1] /\ base("f") = Before[4 - 1]  BY <1>5, <1>6 DEF base
<1>10. base("l") = Before[5 - 1]  BY <1>7 DEF base
<1>11. 1 - 1 = 0 /\ 2 - 1 = 1 /\ 3 - 1 = 2 /\ 4 - 1 = 3 /\ 5 - 1 = 4  OBVIOUS
<1>12. QED  BY <1>8, <1>9, <1>10, <1>11, BeforeIs

LEMMA SectionIs ==
  ASSUME NEW s \in DOMAIN Sizes
  PROVE  /\ s \in {"a", "b", "e", "f", "l"} /\ Sizes[s] \in Nat /\ Sizes[s] > 0
         /\ base(s) \in Nat /\ base(s) + Sizes[s] <= Before[5]
<1>1. s \in {"a", "b", "e", "f", "l"}  BY XMegaAssumption
<1> DEFINE a == Sizes["a"]
           b == Sizes["b"]
           e == Sizes["e"]
           f == Sizes["f"]
           l == Sizes["l"]
<1>2. a \in Nat /\ a > 0 /\ b \in Nat /\ b > 0 /\ e \in Nat /\ e > 0 /\ f \in Nat /\ f > 0
      /\ l \in Nat /\ l > 0
  BY SizesAre
<1>3. /\ Before[1] = a /\ Before[2] = a + b /\ Before[3] = a + b + e /\ Before[4] = a + b + e + f
      /\ Before[5] = a + b + e + f + l
  BY BeforeIs
<1> HIDE DEF a, b, e, f, l
<1>4. CASE s = "a"  BY <1>2, <1>3, <1>4, BasesAre DEF a
<1>5. CASE s = "b"  BY <1>2, <1>3, <1>5, BasesAre DEF b
<1>6. CASE s = "e"  BY <1>2, <1>3, <1>6, BasesAre DEF e
<1>7. CASE s = "f"  BY <1>2, <1>3, <1>7, BasesAre DEF f
<1>8. CASE s = "l"  BY <1>2, <1>3, <1>8, BasesAre DEF l
<1>9. QED  BY <1>1, <1>4, <1>5, <1>6, <1>7, <1>8

(* The steps that wait for the device, and those between the arguments.    *)
LEMMA WaitTypedX ==
  ASSUME TypeInv, \/ wait_nvmbusy \/ wait_for_nvmen \/ InitX \/ ErasedX \/ DoneX
                  \/ SkipX \/ IgnoreX
  PROVE  TypeInv'
<1> USE DEF TypeInv, AtX, Running
<1>1. Quiet /\ req.kind = "xmega"
  BY DEF wait_nvmbusy, wait_for_nvmen, InitX, ErasedX, DoneX, SkipX, IgnoreX
<1>2. UNCHANGED <<req, dev, disk>> /\ N' = N  BY <1>1 DEF Quiet, N
<1> USE DEF HostFields
<1> DEFINE Gone(stage) == /\ host'.pc = stage /\ host'.then = host.then
                          /\ DOMAIN host' = HostFields /\ host'.n = host.n /\ host'.i = host.i
                          /\ host'.res = host.res /\ host'.bytes = host.bytes
                          /\ host'.out = host.out /\ host'.fp = host.fp
<1>3. CASE wait_nvmbusy \/ wait_for_nvmen
  <2>1. /\ host.pc \in {"nvmbusy", "nvmen"}
        /\ \/ Gone(host.then) /\ host'.polls = host.polls /\ host'.wait \in 0..1 /\ host'.ret = host.ret
           \/ Gone(host.pc) /\ host'.polls = host.polls + 1 /\ host'.wait = host.wait
              /\ host.polls + 1 # PdiRetries /\ host'.ret = host.ret
        /\ host'.exit = host.exit
    <3>1. CASE wait_nvmbusy
      <4>1. PICK read \in BOOLEAN : \E busy \in Seen(read) :
              host' = IF busy THEN PollAgain ELSE [Returned(0) EXCEPT !.blind = @ \/ dev.busy]
        BY <3>1 DEF wait_nvmbusy
      <4>2. host' \in {Returned(1), [host EXCEPT !.polls = @ + 1],
                       [Returned(0) EXCEPT !.blind = @ \/ dev.busy]}
            /\ (host' = [host EXCEPT !.polls = @ + 1] => host.polls + 1 # PdiRetries
                  \/ host' \in {Returned(1), [Returned(0) EXCEPT !.blind = @ \/ dev.busy]})
        BY <4>1 DEF PollAgain
      <4>3. host.pc = "nvmbusy"  BY <3>1 DEF wait_nvmbusy
      <4>4. CASE host' = Returned(1)  BY <4>3, <4>4 DEF Returned, Go, HostOK
      <4>5. CASE host' = [Returned(0) EXCEPT !.blind = @ \/ dev.busy]
        BY <4>3, <4>5 DEF Returned, Go, HostOK
      <4>6. CASE host' = [host EXCEPT !.polls = @ + 1] /\ host.polls + 1 # PdiRetries
        BY <4>3, <4>6 DEF HostOK
      <4>7. QED  BY <4>2, <4>4, <4>5, <4>6
    <3>2. CASE wait_for_nvmen
      <4>1. host' \in {Tell(Returned(1), TRUE), Returned(0), Returned(1), [host EXCEPT !.polls = @ + 1]}
            /\ (host' = [host EXCEPT !.polls = @ + 1] => host.polls + 1 # PdiRetries
                  \/ host' \in {Returned(1), Returned(0), Tell(Returned(1), TRUE)})
        BY <3>2 DEF wait_for_nvmen, PollAgain
      <4>2. host.pc = "nvmen"  BY <3>2 DEF wait_for_nvmen
      <4>3. CASE host' = Tell(Returned(1), TRUE)  BY <4>2, <4>3 DEF Tell, Returned, Go, HostOK
      <4>4. CASE host' = Returned(1)  BY <4>2, <4>4 DEF Returned, Go, HostOK
      <4>5. CASE host' = Returned(0)  BY <4>2, <4>5 DEF Returned, Go, HostOK
      <4>6. CASE host' = [host EXCEPT !.polls = @ + 1] /\ host.polls + 1 # PdiRetries
        BY <4>2, <4>6 DEF HostOK
      <4>7. QED  BY <4>1, <4>3, <4>4, <4>5, <4>6
    <3>3. QED  BY <1>3, <3>1, <3>2
  <2>2. host.then \in {"inited", "erased", "load", "next"}  BY <1>1, <2>1 DEF XMegaOK, Waiting
  <2>3. HostOK'
    <3>1. host'.pc # "done" /\ host.pc # "done"  BY <2>1, <2>2
    <3>2. /\ host'.polls \in Nat /\ host'.polls < PdiRetries /\ host'.wait \in 0..1
          /\ host'.ret = host.ret
      BY <1>1, <2>1, XMegaAssumption, SMTT(30) DEF HostOK
    <3>3. /\ DOMAIN host' = HostFields /\ host'.n = host.n /\ host'.i = host.i
          /\ host'.res = host.res /\ host'.bytes = host.bytes /\ host'.out = host.out
          /\ host'.exit = host.exit
      BY <2>1
    <3>4. QED  BY <1>1, <1>2, <3>1, <3>2, <3>3 DEF HostOK, Finished
  <2>4. Arg' = Arg /\ StageX' = StageX
    BY <2>1, <2>2, <1>2 DEF Arg, StageX, Waiting
  <2>5. StageOK'
    BY <1>1, <1>2, <2>1, <2>2 DEF StageOK, First, Worked, XMegaOK, StageX, Waiting
  <2>6. CpldOK'  BY <1>1, <1>2, <2>1, <2>2 DEF CpldOK
  <2>7. XMegaOK'
    <3>1. UNCHANGED <<host.n, host.i, host.out, host.bytes, host.fp, host.res>> /\ Waiting
          /\ host'.pc \in {host.pc, host.then} /\ host'.then = host.then
      BY <2>1 DEF Waiting
    <3>2. (Skipped' <=> Skipped) /\ ReadLength' = ReadLength /\ (ErasesFirst' <=> ErasesFirst)
          /\ (Writes' <=> Writes)
      BY <1>2, <2>4, <3>1 DEF Skipped, ReadLength, ErasesFirst, Writes
    <3>3. QED  BY <1>2, <2>2, <2>4, <3>1, <3>2 DEF XMegaOK, Waiting
  <2>8. QED  BY <1>1, <2>3, <2>5, <2>6, <2>7, QuietTypes
<1>4. CASE InitX
  <2>1. host.pc = "inited" /\ host.n = 0  BY <1>1, <1>4 DEF InitX, XMegaOK, StageX, Waiting
  <2>2. HostOK' /\ StageOK' /\ CpldOK'
    BY <1>1, <1>2, <1>4, <2>1 DEF InitX, HostOK, StageOK, First, Worked, CpldOK, Finished, Go, Tell, Exit
  <2>3. XMegaOK'
    BY <1>1, <1>2, <1>4, <2>1 DEF InitX, HostOK, XMegaOK, StageX, Waiting, Go, Tell, Exit
  <2>4. QED  BY <1>1, <2>2, <2>3, QuietTypes
<1>5. CASE ErasedX
  <2>1. host.pc = "erased" /\ StageX = "erased"  BY <1>5 DEF ErasedX, StageX, Waiting
  <2>2. /\ host' \in {Release(1), Go("args")} \/ (host' = Go("write") /\ host.n # 0 /\ Arg.action # "e")
    BY <1>5 DEF ErasedX
  <2>3. HostOK' /\ host'.n = host.n /\ host'.pc \in {"release", "args", "write"}
        /\ host'.fp = host.fp /\ host'.bytes = host.bytes /\ host'.i = host.i
        /\ (host'.pc = "write" => host.n # 0 /\ Arg.action # "e")
    <3>1. CASE host' = Release(1)
      BY <1>1, <1>2, <2>1, <3>1 DEF HostOK, Finished, Go, Tell, Release
    <3>2. CASE host' = Go("args")
      BY <1>1, <1>2, <2>1, <3>2 DEF HostOK, Finished, Go
    <3>3. CASE host' = Go("write") /\ host.n # 0 /\ Arg.action # "e"
      BY <1>1, <1>2, <2>1, <3>3 DEF HostOK, Finished, Go
    <3>4. QED  BY <2>2, <3>1, <3>2, <3>3
  <2>4. StageOK' /\ CpldOK'
    BY <1>1, <1>2, <2>1, <2>3 DEF StageOK, First, Worked, CpldOK, HostOK
  <2>5. Arg' = Arg  BY <1>2, <2>3 DEF Arg
  <2>6. XMegaOK'
    <3>1. CASE host'.pc # "write"  BY <1>1, <1>2, <2>3, <3>1 DEF XMegaOK, StageX, Waiting
    <3>2. CASE host'.pc = "write"
      <4>1. host.n > 0  BY <2>3, <3>2 DEF HostOK
      <4>2. ~Skipped /\ ErasesFirst  BY <1>1, <2>1, <4>1 DEF XMegaOK
      <4>3. ~Skipped' /\ Arg.action = "w"
        BY <1>2, <2>3, <2>5, <3>2, <4>2 DEF Skipped, ErasesFirst
      <4>4. StageX' = "write" /\ ~Waiting'  BY <3>2 DEF StageX, Waiting
      <4>5. QED  BY <1>1, <1>2, <2>3, <2>5, <3>2, <4>1, <4>3, <4>4 DEF XMegaOK
    <3>3. QED  BY <3>1, <3>2
  <2>7. QED  BY <1>1, <2>3, <2>4, <2>6, QuietTypes
<1>6. CASE DoneX \/ SkipX \/ IgnoreX
  <2>1. HostOK' /\ host'.n = host.n /\ host'.pc \in {"release", "args"}
    <3>1. CASE DoneX  BY <1>1, <1>2, <3>1 DEF DoneX, HostOK, Finished, Go
    <3>2. CASE SkipX  BY <1>1, <1>2, <3>2 DEF SkipX, HostOK, Finished, Go, Tell
    <3>3. CASE IgnoreX  BY <1>1, <1>2, <3>3 DEF IgnoreX, HostOK, Finished, Go
    <3>4. QED  BY <1>6, <3>1, <3>2, <3>3
  <2>2. StageOK' /\ CpldOK' /\ XMegaOK'
    BY <1>1, <1>2, <2>1 DEF StageOK, First, Worked, CpldOK, HostOK, XMegaOK, StageX, Waiting
  <2>3. QED  BY <1>1, <2>1, <2>2, QuietTypes
<1>7. QED  BY <1>3, <1>4, <1>5, <1>6

(* Reading, and what comes of it.                                          *)
LEMMA PdiTypedX ==
  ASSUME TypeInv, PdiGood \/ PdiDelay \/ PdiFails \/ PdiWraps \/ VerifiedX
  PROVE  TypeInv'
<1> USE DEF TypeInv, AtX, Running, HostFields
<1>1. Quiet /\ req.kind = "xmega" /\ host.pc = "pdi"
  BY DEF PdiGood, PdiDelay, PdiFails, PdiWraps, VerifiedX
<1>2. UNCHANGED <<req, dev, disk>> /\ N' = N  BY <1>1 DEF Quiet, N
<1>3. StageX = "pdi" /\ host.n > 0  BY <1>1 DEF StageX, Waiting, StageOK, Worked
<1>4. CASE PdiGood
  <2> DEFINE at == base(Arg.section) + host.res + host.i + 1
             v == IF at <= N THEN dev.cells[at] ELSE Erased
             m == host.i + 1
             o == [host.out EXCEPT ![m] = v]
  <2>1. host' = [host EXCEPT !.i = @ + 1, !.out = o]  BY <1>4 DEF PdiGood, HostOK
  <2>2. host.out \in Seq(Byte) /\ host.i \in Nat /\ host.i < Len(host.out)
    <3>1. host.i <= Len(host.out) /\ host.i # Len(host.out)
      BY <1>1, <1>3, <1>4 DEF XMegaOK, PdiGood, PdiDone
    <3>2. host.out \in Seq(Byte) /\ host.i \in Nat  BY DEF HostOK
    <3>3. QED  BY <3>1, <3>2
  <2>3. v \in Byte
    <3>1. base(Arg.section) \in Nat /\ host.res \in Nat
      <4>1. Arg.section \in DOMAIN Sizes  BY <1>1, <1>3 DEF XMegaOK, Skipped
      <4>2. QED  BY <4>1, SectionIs DEF HostOK
    <3>2. at \in Nat /\ at > 0  BY <2>2, <3>1
    <3> HIDE DEF at
    <3>3. at <= N => dev.cells[at] \in Byte  BY <3>2, BlankIn DEF DeviceOK
    <3>4. QED  BY <3>3 DEF Erased, Byte
  <2>4. o \in Seq(Byte) /\ Len(o) = Len(host.out)
    <3> HIDE DEF v, m
    <3>1. QED  BY ONLY <2>2, <2>3, ExceptIn
  <2> HIDE DEF o
  <2>5. HostOK'  BY <1>1, <1>2, <2>1, <2>4 DEF HostOK, Finished
  <2>6. /\ host'.pc = "pdi" /\ host'.n = host.n /\ host'.i = host.i + 1 /\ host'.out = o
        /\ host'.bytes = host.bytes /\ host'.fp = host.fp /\ host'.res = host.res
    BY <1>1, <2>1 DEF HostOK
  <2>7. StageOK' /\ CpldOK'  BY <1>1, <1>2, <1>3, <2>6 DEF StageOK, First, Worked, CpldOK
  <2>8. Arg' = Arg /\ StageX' = "pdi" /\ ~Waiting'  BY <1>2, <2>6 DEF Arg, StageX, Waiting
  <2>9. (Skipped' <=> Skipped) /\ ReadLength' = ReadLength
    BY <1>2, <2>6, <2>8 DEF Skipped, ReadLength
  <2>10. Len(host.out) \in Nat  BY <2>2
  <2>11. XMegaOK'
    BY <1>1, <1>2, <1>3, <2>2, <2>4, <2>6, <2>8, <2>9, <2>10 DEF XMegaOK
  <2>12. QED  BY <1>1, <2>5, <2>7, <2>11, QuietTypes
<1>5. CASE PdiDelay
  <2>1. host' = [host EXCEPT !.polls = @ + 1] /\ host.polls + 1 < PdiRetries
    BY <1>5 DEF PdiDelay, Delays
  <2>2. HostOK'  BY <1>1, <1>2, <2>1 DEF HostOK, Finished
  <2>3. /\ host'.pc = "pdi" /\ host'.n = host.n /\ host'.i = host.i /\ host'.out = host.out
        /\ host'.bytes = host.bytes /\ host'.fp = host.fp /\ host'.res = host.res
    BY <1>1, <2>1 DEF HostOK
  <2>4. StageOK' /\ CpldOK'  BY <1>1, <1>2, <1>3, <2>3 DEF StageOK, First, Worked, CpldOK
  <2>5. Arg' = Arg /\ StageX' = "pdi" /\ ~Waiting'  BY <1>2, <2>3 DEF Arg, StageX, Waiting
  <2>6. (Skipped' <=> Skipped) /\ ReadLength' = ReadLength
    BY <1>2, <2>3, <2>5 DEF Skipped, ReadLength
  <2>7. XMegaOK'  BY <1>1, <1>2, <1>3, <2>3, <2>5, <2>6 DEF XMegaOK
  <2>8. QED  BY <1>1, <2>2, <2>4, <2>7, QuietTypes
<1>6. CASE PdiFails \/ PdiWraps \/ VerifiedX
  <2>1. \E ret \in 0..1 : host' = Release(ret) \/ host' = Go("args")
    <3>1. host.ret \in 0..1 /\ 1 \in 0..1  BY DEF HostOK
    <3>2. QED  BY <1>6, <3>1 DEF PdiFails, PdiWraps, VerifiedX, ReadFailed
  <2>2. PICK ret \in 0..1 : host' = Release(ret) \/ host' = Go("args")  BY <2>1
  <2>3. HostOK' /\ host'.n = host.n /\ host'.pc \in {"release", "args"}
    <3>1. CASE host' = Release(ret)
      BY <1>1, <1>2, <3>1 DEF HostOK, Finished, Release, Tell, Go
    <3>2. CASE host' = Go("args")  BY <1>1, <1>2, <3>2 DEF HostOK, Finished, Go
    <3>3. QED  BY <2>2, <3>1, <3>2
  <2>4. StageOK' /\ CpldOK' /\ XMegaOK'
    BY <1>1, <1>2, <2>3 DEF StageOK, First, Worked, CpldOK, HostOK, XMegaOK, StageX, Waiting
  <2>5. QED  BY <1>1, <2>3, <2>4, QuietTypes
<1>7. QED  BY <1>4, <1>5, <1>6

(* The start of the work on an argument.                                   *)
LEMMA StartTypedX ==
  ASSUME TypeInv, StartReadX \/ StartVerifyX \/ FileX
  PROVE  TypeInv'
<1> USE DEF TypeInv, AtX, Running, HostFields
<1>1. Quiet /\ req.kind = "xmega" /\ host.pc = "file" /\ ~Skipped /\ host.n > 0
  BY DEF StartReadX, StartVerifyX, FileX, StageOK, Worked
<1>2. UNCHANGED <<req, dev, disk>> /\ N' = N  BY <1>1 DEF Quiet, N
<1>3. PdiRetries \in Nat \ {0} /\ Arg.section \in DOMAIN Sizes
  BY <1>1, XMegaAssumption DEF Skipped
<1>4. readFile(Arg.style, File) \in SUBSET Results
  <2>1. ~FromFuses  BY <1>1 DEF FromFuses, TakesFuses
  <2>2. QED  BY <1>1, <2>1, FileIs, FileIn
<1>5. ReadLength \in Nat /\ Arg.offset \in Nat  BY <1>1, <1>3, ArgIs, SectionIs DEF ReadLength
<1>6. CASE StartReadX
  <2> DEFINE o == Fill(ReadLength, Erased)
  <2>1. o \in Seq(Byte) /\ Len(o) = ReadLength
    <3>1. Erased \in Byte  BY DEF Erased, Byte
    <3>2. QED  BY <1>5, <3>1, FillIn
  <2>2. /\ host' = [Call("pdi", "") EXCEPT !.i = 0, !.res = Arg.offset, !.out = o]
        /\ Arg.action = "r"
    BY <1>6 DEF StartReadX, ReadMemory
  <2> HIDE DEF o
  <2>3. HostOK'  BY <1>1, <1>2, <1>3, <1>5, <2>1, <2>2 DEF HostOK, Finished, Call, Go
  <2>4. /\ host'.pc = "pdi" /\ host'.n = host.n /\ host'.i = 0 /\ host'.out = o
        /\ host'.fp = host.fp /\ host'.res = Arg.offset
    BY <2>2 DEF HostOK, Call, Go
  <2>5. StageOK' /\ CpldOK'  BY <1>1, <1>2, <2>4 DEF StageOK, First, Worked, CpldOK
  <2>6. Arg' = Arg /\ StageX' = "pdi" /\ ~Waiting'  BY <1>2, <2>4 DEF Arg, StageX, Waiting
  <2>7. (Skipped' <=> Skipped) /\ ReadLength' = ReadLength
    BY <1>2, <2>4, <2>6 DEF Skipped, ReadLength
  <2>8. Arg.action = "r"  BY <2>2
  <2>9. XMegaOK'  BY <1>1, <1>2, <1>5, <2>1, <2>4, <2>6, <2>7, <2>8 DEF XMegaOK
  <2>10. QED  BY <1>1, <2>3, <2>5, <2>9, QuietTypes
<1>7. CASE StartVerifyX
  <2>1. PICK r \in readFile(Arg.style, File) :
          host' = [Tell(ReadMemory(0, Len(r.bytes)), r.res # 0) EXCEPT !.bytes = r.bytes]
    BY <1>7 DEF StartVerifyX
  <2> DEFINE bytes == r.bytes
             o == Fill(Len(bytes), Erased)
  <2>2. bytes \in Seq(Byte)  BY <1>4, <2>1 DEF Results
  <2>3. o \in Seq(Byte) /\ Len(o) = Len(bytes)
    <3>1. Erased \in Byte /\ Len(bytes) \in Nat  BY <2>2 DEF Erased, Byte
    <3>2. QED  BY <3>1, FillIn
  <2>4. /\ host' = [Tell([Call("pdi", "") EXCEPT !.i = 0, !.res = 0, !.out = o], r.res # 0)
                      EXCEPT !.bytes = bytes]
        /\ Arg.action = "v"
    BY <1>7, <2>1 DEF StartVerifyX, ReadMemory
  <2> HIDE DEF o, bytes
  <2>5. HostOK'
    <3>1. /\ host'.pc = "pdi" /\ host'.n = host.n /\ host'.i = 0 /\ host'.out = o
          /\ host'.polls = 0 /\ host'.wait = 0 /\ host'.res = 0 /\ host'.bytes = bytes
          /\ host'.ret = host.ret /\ host'.exit = host.exit /\ DOMAIN host' = HostFields
      BY <2>4 DEF HostOK, Call, Go, Tell
    <3>2. QED  BY <1>1, <1>2, <1>3, <2>2, <2>3, <3>1 DEF HostOK, Finished
  <2>6. /\ host'.pc = "pdi" /\ host'.n = host.n /\ host'.i = 0 /\ host'.out = o
        /\ host'.fp = host.fp /\ host'.res = 0 /\ host'.bytes = bytes
    BY <2>4 DEF HostOK, Call, Go, Tell
  <2>7. StageOK' /\ CpldOK'  BY <1>1, <1>2, <2>6 DEF StageOK, First, Worked, CpldOK
  <2>8. Arg' = Arg /\ StageX' = "pdi" /\ ~Waiting'  BY <1>2, <2>6 DEF Arg, StageX, Waiting
  <2>9. (Skipped' <=> Skipped) /\ ReadLength' = ReadLength
    BY <1>2, <2>6, <2>8 DEF Skipped, ReadLength
  <2>10. XMegaOK'  BY <1>1, <1>2, <2>2, <2>3, <2>4, <2>6, <2>8, <2>9 DEF XMegaOK
  <2>11. QED  BY <1>1, <2>5, <2>7, <2>10, QuietTypes
<1>8. CASE FileX
  <2>1. PICK r \in readFile(Arg.style, File) :
          host' = [Tell(Go(IF ErasesFirst THEN "erase" ELSE "write"), r.res # 0)
                     EXCEPT !.bytes = r.bytes, !.i = Page * (Arg.offset \div Page)]
    BY <1>8 DEF FileX
  <2>2. r.bytes \in Seq(Byte)  BY <1>4, <2>1 DEF Results
  <2> DEFINE at == Page * (Arg.offset \div Page)
             stage == IF ErasesFirst THEN "erase" ELSE "write"
  <2>3. at \in Nat
    <3>1. Page \in Nat /\ Page > 0  BY XMegaAssumption
    <3>2. Arg.offset \div Page \in Nat  BY <1>5, <3>1
    <3>3. QED  BY <3>1, <3>2
  <2>4. host' = [Tell(Go(stage), r.res # 0) EXCEPT !.bytes = r.bytes, !.i = at]
        /\ ((stage = "erase" /\ ErasesFirst) \/ stage = "write") /\ Arg.action \in {"e", "w", "W"}
    BY <1>8, <2>1 DEF FileX
  <2> HIDE DEF at, stage
  <2>5. HostOK'
    <3>1. stage # "done"  BY <2>4
    <3>2. QED  BY <1>1, <1>2, <2>2, <2>3, <2>4, <3>1 DEF HostOK, Finished, Go, Tell
  <2>6. host'.pc = stage /\ host'.n = host.n /\ host'.fp = host.fp
    BY <2>4 DEF HostOK, Go, Tell
  <2>7. StageOK' /\ CpldOK'  BY <1>1, <1>2, <2>4, <2>6 DEF StageOK, First, Worked, CpldOK
  <2>8. Arg' = Arg /\ StageX' = stage /\ ~Waiting'  BY <1>2, <2>4, <2>6 DEF Arg, StageX, Waiting
  <2>9. (Skipped' <=> Skipped) /\ (ErasesFirst' <=> ErasesFirst)
    BY <1>2, <2>6, <2>8 DEF Skipped, ErasesFirst
  <2>10. XMegaOK'  BY <1>1, <1>2, <2>4, <2>6, <2>8, <2>9 DEF XMegaOK
  <2>11. QED  BY <1>1, <2>5, <2>7, <2>10, QuietTypes
<1>9. QED  BY <1>6, <1>7, <1>8

(* Erasing and writing.                                                    *)
LEMMA PageIn ==
  ASSUME DeviceOK, HostOK, NEW rest \in {0, Erased},
         NEW f, f = [a \in DOMAIN dev.latch |->
                       IF ~OfPage(a) THEN dev.latch[a]
                       ELSE LET k == a - base(Arg.section)
                            IN  Burn(dev.latch[a], IF k \in DOMAIN host.bytes THEN host.bytes[k]
                                                   ELSE rest)]
  PROVE  f \in Seq(Byte) /\ Len(f) = N
<1>1. DOMAIN dev.latch = 1..N /\ N \in Nat /\ dev.latch \in Seq(Byte) /\ host.bytes \in Seq(Byte)
  BY BlankIn DEF DeviceOK, HostOK
<1>2. rest \in Byte  BY DEF Erased, Byte
<1>3. ASSUME NEW a \in 1..N PROVE f[a] \in Byte
  <2> DEFINE k == a - base(Arg.section)
             b == IF k \in DOMAIN host.bytes THEN host.bytes[k] ELSE rest
  <2>1. dev.latch[a] \in Byte  BY <1>1
  <2>2. b \in Byte  BY <1>1, <1>2
  <2>3. f[a] \in {dev.latch[a], Burn(dev.latch[a], b)}  BY <1>1
  <2> HIDE DEF b
  <2>4. QED  BY <2>1, <2>2, <2>3, BurnIs
<1>4. QED  BY <1>1, <1>3, BytesIn

LEMMA CellsIn ==
  ASSUME DeviceOK, NEW S, NEW T,
         NEW f, f = [a \in 1..N |-> IF a \in S THEN Erased
                                    ELSE IF a \notin T THEN dev.cells[a]
                                    ELSE IF Programs THEN Burn(dev.cells[a], dev.latch[a])
                                    ELSE dev.latch[a]]
  PROVE  f \in Seq(Byte) /\ Len(f) = N
<1>1. DOMAIN dev.latch = 1..N /\ N \in Nat /\ dev.latch \in Seq(Byte) /\ dev.cells \in Seq(Byte)
      /\ DOMAIN dev.cells = 1..N
  BY BlankIn DEF DeviceOK
<1>2. Erased \in Byte  BY DEF Erased, Byte
<1>3. ASSUME NEW a \in 1..N PROVE f[a] \in Byte
  <2>1. dev.latch[a] \in Byte /\ dev.cells[a] \in Byte  BY <1>1
  <2>2. f[a] \in {Erased, dev.cells[a], dev.latch[a], Burn(dev.cells[a], dev.latch[a])}  OBVIOUS
  <2>3. QED  BY <1>2, <2>1, <2>2, BurnIs
<1>4. QED  BY <1>1, <1>3, BytesIn

LEMMA WriteTypedX ==
  ASSUME TypeInv, \/ BeginX \/ chip_erase \/ ReleaseX \/ EraseX \/ WrittenX \/ erase_buffer
                  \/ load_buffer \/ write_page \/ NextPage
  PROVE  TypeInv'
<1> USE DEF TypeInv, AtX, Running, HostFields
<1>1. UNCHANGED <<req, disk>> /\ req.kind = "xmega"
  BY DEF BeginX, chip_erase, ReleaseX, EraseX, WrittenX, erase_buffer, load_buffer, write_page,
         NextPage, Quiet
<1>2. DeviceOK' /\ N' = N
  <2>1. ASSUME NEW c \in Seq(Byte), Len(c) = N, dev' \in {dev, Working(c)}
        PROVE  DeviceOK' /\ N' = N
    BY <1>1, <2>1, WorkingTyped, ZenonT(60) DEF DeviceOK, N
  <2>2. Blank \in Seq(Byte) /\ Len(Blank) = N /\ N \in Nat  BY BlankIn
  <2>3. CASE BeginX \/ ReleaseX
    <3>1. dev' = [dev EXCEPT !.isc = TRUE] \/ dev' = [dev EXCEPT !.isc = FALSE]
      BY <2>3 DEF BeginX, ReleaseX
    <3>2. QED  BY <1>1, <3>1 DEF DeviceOK, DeviceFields, N
  <2>4. CASE chip_erase
    <3>1. dev' \in {dev, Working(Blank)}  BY <2>4 DEF chip_erase, Command
    <3>2. QED  BY <2>1, <2>2, <3>1
  <2>5. CASE WrittenX \/ NextPage
    <3>1. dev' = dev  BY <2>5 DEF WrittenX, NextPage, Quiet
    <3>2. QED  BY <1>1, <3>1 DEF DeviceOK, N
  <2>6. CASE EraseX
    <3> DEFINE S == Within(Arg.section)
               T == {}
               f == [a \in 1..N |-> IF a \in S THEN Erased
                                    ELSE IF a \notin T THEN dev.cells[a]
                                    ELSE IF Programs THEN Burn(dev.cells[a], dev.latch[a])
                                    ELSE dev.latch[a]]
               c == [a \in 1..N |-> IF a \in S THEN Erased ELSE dev.cells[a]]
    <3>1. dev' \in {dev, Working(c)}  BY <2>6 DEF EraseX, Command
    <3>2. c = f  OBVIOUS
    <3> HIDE DEF S, T, c
    <3>3. f \in Seq(Byte) /\ Len(f) = N  BY CellsIn
    <3> HIDE DEF f
    <3>4. QED  BY <2>1, <3>1, <3>2, <3>3
  <2>7. CASE erase_buffer
    <3> DEFINE w == Working(dev.cells)
    <3>1. dev.cells \in Seq(Byte) /\ Len(dev.cells) = N  BY DEF DeviceOK, N
    <3>2. w.todo = dev.cells /\ w.cells = dev.cells /\ w.latch = dev.latch /\ w.pipe = dev.pipe
          /\ DOMAIN w = DeviceFields
      BY <3>1, WorkingTyped
    <3>3. dev' \in {dev, [w EXCEPT !.latch = Blank]}  BY <2>7 DEF erase_buffer, Command
    <3> HIDE DEF w
    <3>4. QED  BY <1>1, <2>2, <3>1, <3>2, <3>3 DEF DeviceOK, DeviceFields, N
  <2>8. CASE load_buffer
    <3>1. PICK rest \in {0, Erased} :
            Command([dev EXCEPT !.latch = [a \in DOMAIN @ |->
               IF ~OfPage(a) THEN @[a]
               ELSE LET k == a - base(Arg.section)
                    IN  Burn(@[a], IF k \in DOMAIN host.bytes THEN host.bytes[k] ELSE rest)]])
      BY <2>8 DEF load_buffer
    <3> DEFINE f == [a \in DOMAIN dev.latch |->
                       IF ~OfPage(a) THEN dev.latch[a]
                       ELSE LET k == a - base(Arg.section)
                            IN  Burn(dev.latch[a], IF k \in DOMAIN host.bytes THEN host.bytes[k]
                                                   ELSE rest)]
    <3>2. dev' \in {dev, [dev EXCEPT !.latch = f]}
      BY <3>1 DEF Command, DeviceOK, DeviceFields
    <3>3. f \in Seq(Byte) /\ Len(f) = N
      <4>1. \E g : g = f  OBVIOUS
      <4> HIDE DEF f
      <4>2. PICK g : g = f  BY <4>1
      <4>3. QED  BY <4>2, PageIn DEF f
    <3> HIDE DEF f
    <3>4. QED  BY <1>1, <3>2, <3>3 DEF DeviceOK, DeviceFields, N
  <2>9. CASE write_page
    <3> DEFINE S == {}
               T == {a \in 1..N : Reaches(a)}
               f == [a \in 1..N |-> IF a \in S THEN Erased
                                    ELSE IF a \notin T THEN dev.cells[a]
                                    ELSE IF Programs THEN Burn(dev.cells[a], dev.latch[a])
                                    ELSE dev.latch[a]]
               c == [a \in 1..N |->
                       IF ~Reaches(a) THEN dev.cells[a]
                       ELSE IF Programs THEN Burn(dev.cells[a], dev.latch[a]) ELSE dev.latch[a]]
    <3>1. dev' \in {dev, Working(c)}  BY <2>9 DEF write_page, Command
    <3>2. c = f  OBVIOUS
    <3> HIDE DEF S, T, c
    <3>3. f \in Seq(Byte) /\ Len(f) = N  BY CellsIn
    <3> HIDE DEF f
    <3>4. QED  BY <2>1, <3>1, <3>2, <3>3
  <2>10. QED  BY <2>3, <2>4, <2>5, <2>6, <2>7, <2>8, <2>9
<1>3. PdiRetries \in Nat \ {0}  BY XMegaAssumption
<1> DEFINE Calling(stage, then) == host' = Call(stage, then)
<1>4. host.pc # "done" /\ host.exit = -1
  <2>1. host.pc # "done"
    BY DEF BeginX, chip_erase, ReleaseX, EraseX, WrittenX, erase_buffer, load_buffer, write_page,
           NextPage
  <2>2. QED  BY <2>1 DEF HostOK, Finished
<1>5. ASSUME NEW stage, NEW then, stage # "done", Calling(stage, then)
      PROVE  /\ HostOK' /\ host'.pc = stage /\ host'.then = then /\ host'.n = host.n
             /\ host'.i = host.i /\ host'.bytes = host.bytes /\ host'.fp = host.fp
  BY <1>1, <1>3, <1>4, <1>5 DEF HostOK, Finished, Call, Go
<1> HIDE DEF Calling
<1>7. host'.n = host.n => Arg' = Arg  BY <1>1 DEF Arg
<1>8. CASE BeginX
  <2>1. Calling("nvmbusy", "inited") /\ host.pc = "begin"  BY <1>8 DEF BeginX, Calling
  <2>2. "nvmbusy" # "done" /\ host.n = 0  BY <2>1 DEF StageOK, First
  <2>3. HostOK' /\ host'.pc = "nvmbusy" /\ host'.then = "inited" /\ host'.n = host.n
    BY <1>5, <2>1, <2>2
  <2>4. StageOK' /\ CpldOK' /\ XMegaOK'
    BY <1>1, <2>2, <2>3 DEF StageOK, First, Worked, CpldOK, XMegaOK, StageX, Waiting
  <2>5. QED  BY <1>1, <1>2, <2>3, <2>4, RequestStays DEF DiskOK, ForFuses, ForBytes
<1>9. CASE chip_erase
  <2>1. Calling("nvmen", "erased") /\ host.pc = "chiperase"  BY <1>9 DEF chip_erase, Calling
  <2>2. "nvmen" # "done" /\ host.n = 0 /\ req.erase
    BY <1>1, <2>1 DEF StageOK, First, XMegaOK, StageX, Waiting
  <2>3. HostOK' /\ host'.pc = "nvmen" /\ host'.then = "erased" /\ host'.n = host.n
    BY <1>5, <2>1, <2>2
  <2>4. StageOK' /\ CpldOK' /\ XMegaOK'
    BY <1>1, <2>2, <2>3 DEF StageOK, First, Worked, CpldOK, XMegaOK, StageX, Waiting
  <2>5. QED  BY <1>1, <1>2, <2>3, <2>4, RequestStays DEF DiskOK, ForFuses, ForBytes
<1>10. CASE ReleaseX
  <2>1. host' = Exit(host, host.ret)  BY <1>10 DEF ReleaseX
  <2>2. HostOK' /\ host'.pc = "done"  BY <1>1, <2>1 DEF HostOK, Finished, Exit
  <2>3. StageOK' /\ CpldOK' /\ XMegaOK'
    BY <1>1, <2>2 DEF StageOK, First, Worked, CpldOK, XMegaOK, StageX, Waiting
  <2>4. QED  BY <1>1, <1>2, <2>2, <2>3, RequestStays DEF DiskOK, ForFuses, ForBytes
<1>11. CASE EraseX
  <2>1. host.pc = "erase" /\ StageX = "erase"  BY <1>11 DEF EraseX, StageX, Waiting
  <2>2. host.n > 0 /\ host.n # 0 /\ ~Skipped /\ ErasesFirst
    BY <1>1, <2>1 DEF XMegaOK, HostOK, RequestOK
  <2>3. PICK stage \in {"nvmbusy", "nvmen", "erased"}, then \in {"", "erased"} :
          Calling(stage, then) /\ (stage = "erased" \/ then = "erased")
    BY <1>11 DEF EraseX, Calling
  <2>4. stage # "done"  BY <2>3
  <2>5. HostOK' /\ host'.pc = stage /\ host'.then = then /\ host'.n = host.n /\ host'.fp = host.fp
    BY <1>5, <2>3, <2>4
  <2>6. StageX' = "erased" /\ (Waiting' => host'.then = "erased")
    BY <2>3, <2>5 DEF StageX, Waiting
  <2>7. (Skipped' <=> Skipped) /\ (ErasesFirst' <=> ErasesFirst)
    BY <1>1, <1>7, <2>5 DEF Skipped, ErasesFirst
  <2>8. StageOK' /\ CpldOK'  BY <1>1, <2>2, <2>5 DEF StageOK, First, Worked, CpldOK
  <2>9. host'.n > 0 /\ host'.n # 0 /\ host'.pc # "erase"  BY <2>2, <2>3, <2>5
  <2>10. XMegaOK'
    <3>1. ~Skipped' /\ ErasesFirst'  BY <2>2, <2>7
    <3>2. host'.n # 0  BY <2>5, <2>9
    <3>3. QED  BY <2>6, <2>9, <3>1, <3>2 DEF XMegaOK
  <2>11. QED  BY <1>1, <1>2, <2>5, <2>8, <2>10, RequestStays DEF DiskOK, ForFuses, ForBytes
<1>12. CASE erase_buffer \/ write_page
  <2>1. /\ StageX = host.pc /\ host.pc \in {"write", "page"} /\ Writes
    BY <1>1, <1>12 DEF erase_buffer, write_page, StageX, Waiting, XMegaOK
  <2>2. host.n > 0 /\ ~Skipped /\ Arg.action \in {"e", "w", "W"}
    BY <1>1, <2>1 DEF XMegaOK, StageOK, Worked
  <2>3. PICK then \in {"load", "next"} : Calling("nvmbusy", then)
    BY <1>12 DEF erase_buffer, write_page, Calling
  <2>4. "nvmbusy" # "done"  OBVIOUS
  <2>5. /\ HostOK' /\ host'.pc = "nvmbusy" /\ host'.then = then /\ host'.n = host.n
        /\ host'.i = host.i /\ host'.bytes = host.bytes /\ host'.fp = host.fp
    BY <1>5, <2>3, <2>4
  <2>6. StageX' = then /\ Waiting'  BY <2>5 DEF StageX, Waiting
  <2>7. (Skipped' <=> Skipped) /\ (Writes' <=> Writes) /\ Arg' = Arg
    BY <1>1, <1>7, <2>5 DEF Skipped, Writes
  <2>8. StageOK' /\ CpldOK'  BY <1>1, <2>2, <2>5 DEF StageOK, First, Worked, CpldOK
  <2>9. XMegaOK'  BY <2>1, <2>2, <2>5, <2>6, <2>7 DEF XMegaOK
  <2>10. QED  BY <1>1, <1>2, <2>5, <2>8, <2>9, RequestStays DEF DiskOK, ForFuses, ForBytes
<1>13. CASE load_buffer
  <2>1. StageX = "load"  BY <1>13 DEF load_buffer, StageX, Waiting
  <2>2. host.n > 0 /\ ~Skipped /\ Arg.action \in {"e", "w", "W"} /\ Writes
    BY <1>1, <2>1 DEF XMegaOK
  <2>3. /\ host'.pc = "page" /\ host'.then = host.then /\ host'.n = host.n
        /\ host'.i = host.i /\ host'.bytes = host.bytes /\ host'.fp = host.fp
    BY <1>13 DEF load_buffer, HostOK, Go
  <2>4. HostOK'
    <3>1. host' = [Go("page") EXCEPT !.blind = @ \/ host.wait # 0]  BY <1>13 DEF load_buffer
    <3>2. QED  BY <1>1, <1>4, <3>1 DEF HostOK, Finished, Go
  <2>5. StageX' = "page" /\ ~Waiting'  BY <2>3 DEF StageX, Waiting
  <2>6. (Skipped' <=> Skipped) /\ (Writes' <=> Writes) /\ Arg' = Arg
    BY <1>1, <1>7, <2>3 DEF Skipped, Writes
  <2>7. StageOK' /\ CpldOK'  BY <1>1, <2>2, <2>3 DEF StageOK, First, Worked, CpldOK
  <2>8. XMegaOK'  BY <2>2, <2>3, <2>5, <2>6 DEF XMegaOK
  <2>9. QED  BY <1>1, <1>2, <2>4, <2>7, <2>8, RequestStays DEF DiskOK, ForFuses, ForBytes
<1>14. CASE WrittenX \/ NextPage
  <2>1. host' \in {Release(1), Go("args"), [Go("write") EXCEPT !.i = Following]}
        /\ host.pc \in {"write", "next"}
        /\ (host.pc = "write" => host' = Go("args"))
    BY <1>14 DEF WrittenX, NextPage
  <2>2. StageX = host.pc /\ host.n > 0 /\ ~Skipped /\ Arg.action \in {"e", "w", "W"}
    BY <1>1, <2>1 DEF XMegaOK, StageX, Waiting, StageOK, Worked
  <2>3. host.i \in Nat /\ Page \in Nat  BY XMegaAssumption DEF HostOK
  <2>4. HostOK' /\ host'.pc \in {"release", "args", "write"} /\ host'.n = host.n
        /\ host'.fp = host.fp
    <3>1. CASE host' = Release(1)
      BY <1>1, <1>4, <3>1 DEF HostOK, Finished, Release, Tell, Go
    <3>2. CASE host' = Go("args")  BY <1>1, <1>4, <3>2 DEF HostOK, Finished, Go
    <3>3. CASE host' = [Go("write") EXCEPT !.i = Following]
      BY <1>1, <1>4, <2>3, <3>3 DEF HostOK, Finished, Go, Following
    <3>4. QED  BY <2>1, <3>1, <3>2, <3>3
  <2>5. StageX' = host'.pc /\ ~Waiting'  BY <2>4 DEF StageX, Waiting
  <2>6. (Skipped' <=> Skipped) /\ Arg' = Arg  BY <1>1, <1>7, <2>4 DEF Skipped
  <2>7. StageOK' /\ CpldOK'  BY <1>1, <2>2, <2>4 DEF StageOK, First, Worked, CpldOK
  <2>8. XMegaOK'  BY <2>2, <2>4, <2>5, <2>6 DEF XMegaOK
  <2>9. QED  BY <1>1, <1>2, <2>4, <2>7, <2>8, RequestStays DEF DiskOK, ForFuses, ForBytes
<1>15. QED
  BY <1>8, <1>9, <1>10, <1>11, <1>12, <1>13, <1>14

LEMMA TypedX ==
  ASSUME TypeInv, NextX
  PROVE  TypeInv'
<1> USE DEF TypeInv, AtX, Running
<1>1. CASE OpenX
  <2>1. TakeArg("file") /\ host.pc = "args" /\ req.kind = "xmega"  BY <1>1 DEF OpenX
  <2>2. /\ RequestOK' /\ DiskOK' /\ HostOK' /\ DeviceOK' /\ UNCHANGED <<req, dev>>
        /\ host'.pc = "file" /\ host'.n > 0 /\ host'.i = 0
    <3>1. "file" # "done"  OBVIOUS
    <3>2. QED  BY <2>1, <3>1, TakeArgTyped
  <2>3. StageOK' /\ CpldOK' /\ XMegaOK'
    BY <2>1, <2>2 DEF StageOK, First, Worked, CpldOK, XMegaOK, StageX, Waiting
  <2>4. QED  BY <2>2, <2>3
<1>2. CASE SaveX
  <2>1. /\ UNCHANGED <<req, dev>> /\ host.pc = "pdi" /\ host.n > 0 /\ req.kind = "xmega"
        /\ host' = Tell(Go("args"), Arg.style \notin Savable) /\ Arg.action = "r" /\ N' = N
        /\ Written(saveAs(Arg.style, host.out, Explicit), FALSE)
    BY <1>2 DEF SaveX, StageOK, Worked, N
  <2>2. HostOK' /\ host'.pc = "args"
    BY <2>1 DEF HostOK, HostFields, Finished, Go, Tell
  <2>3. StageOK' /\ CpldOK' /\ XMegaOK'
    BY <2>1, <2>2 DEF StageOK, First, Worked, CpldOK, XMegaOK, StageX, Waiting
  <2>4. DeviceOK'  BY <2>1 DEF DeviceOK
  <2>5. DiskOK' /\ DOMAIN disk' = DOMAIN disk
    <3> DEFINE file == saveAs(Arg.style, host.out, Explicit)
               g == [file EXCEPT !.flushed = FALSE]
    <3>1. file \in NamedFiles(Lines)
      <4>1. ~Skipped /\ Len(host.out) = ReadLength  BY <2>1 DEF XMegaOK, StageX, Waiting
      <4>2. ReadLength \in Nat  BY <2>1, <4>1, ArgIs, SectionIs DEF ReadLength, Skipped
      <4>3. Explicit \in 0..Len(host.out) /\ host.out \in Seq(Byte) /\ Arg.style \in STRING
        BY <2>1, <4>1, <4>2, ArgIs DEF Explicit, HostOK
      <4>4. QED  BY <4>3, SavedIn
    <3>2. disk' = [disk EXCEPT ![Arg.name] = g]  BY <2>1 DEF Written
    <3> HIDE DEF file
    <3>3. g \in NamedFiles(Lines)  BY <3>1, ClosedIn
    <3>4. ~FromFuses  BY <2>1 DEF FromFuses, TakesFuses
    <3> HIDE DEF g
    <3>5. QED  BY <2>1, <3>2, <3>3, <3>4, WrittenTyped
  <2>6. QED  BY <2>1, <2>2, <2>3, <2>4, <2>5, RequestStays
<1>3. QED
  BY <1>1, <1>2, WaitTypedX, PdiTypedX, StartTypedX, WriteTypedX DEF NextX

------------------------------------------------------------------------------
(***************************************************************************)
(* Types.                                                                  *)
(***************************************************************************)
LEMMA TypeStep ==
  ASSUME TypeInv, [Next]_vars
  PROVE  TypeInv'
BY MainTyped, FpgaTyped, Typed95, Typed2C, TypedX, AvrTyped, DeviceTyped, StayTyped DEF Next, Stay

LEMMA TypeInit == RunInit => TypeInv
<1> SUFFICES ASSUME RunInit PROVE TypeInv
  OBVIOUS
<1>1. PICK r \in Requests :
        /\ req = [x \in DOMAIN r \ {"cells", "disk"} |-> r[x]]
        /\ host = Started /\ dev = Fresh(r.cells) /\ disk = r.disk
  BY DEF RunInit
<1>2. /\ req.kind = r.kind /\ req.device = r.device /\ req.args = r.args
      /\ req.map = r.map
  BY <1>1, RequestAssumption
<1> DEFINE c == r.cells
<1>3. c \in Seq(Byte) /\ c # <<>>  BY RequestAssumption
<1>4. Erased \in Byte  BY DEF Erased, Byte
<1>5. /\ dev = [cells |-> c, todo |-> c, busy |-> FALSE, isc |-> FALSE, pipe |-> Erased,
                latch |-> Fill(Len(c), Erased), done |-> FALSE]
      /\ Fill(Len(c), Erased) \in Seq(Byte) /\ Len(Fill(Len(c), Erased)) = Len(c)
  <2>1. Len(c) \in Nat  BY <1>3
  <2>2. Fill(Len(c), Erased) \in Seq(Byte) /\ Len(Fill(Len(c), Erased)) = Len(c)
    <3> HIDE DEF c
    <3>1. QED  BY <1>4, <2>1, FillIn
  <2>3. QED  BY <1>1, <2>2 DEF Fresh
<1> DEFINE blank == Fill(Len(c), Erased)
<1>6. N = Len(r.cells)  BY <1>5 DEF N
<1>7. RequestOK
  BY <1>1, <1>2, <1>6, RequestAssumption, SectorAssumption, RowAssumption, MemoryAssumption
     DEF RequestOK
<1>8. DeviceOK
  <2>1. Len(c) > 0  BY <1>3
  <2> HIDE DEF blank, c
  <2>2. dev = [cells |-> c, todo |-> c, busy |-> FALSE, isc |-> FALSE, pipe |-> Erased,
                latch |-> blank, done |-> FALSE]
    BY <1>5 DEF blank
  <2>3. blank \in Seq(Byte) /\ Len(blank) = Len(c)  BY <1>5 DEF blank
  <2>4. QED  BY <1>3, <1>4, <2>1, <2>2, <2>3 DEF DeviceOK, DeviceFields, N, Erased
<1>9. /\ HostOK
  <2>1. <<>> \in Seq(Byte) /\ Len(req.args) \in Nat  BY <1>7 DEF RequestOK
  <2>2. host = Started /\ StartPolls \in Nat /\ SectorPolls \in Nat /\ PdiRetries \in Nat \ {0}
    BY <1>1, StartPollsAssumption, SectorAssumption, XMegaAssumption
  <2>3. /\ host.pc = "main" /\ host.n = 0 /\ host.i = 0 /\ host.polls = 0 /\ host.res = 0
        /\ host.ret = 0 /\ host.wait = 0 /\ host.bytes = <<>> /\ host.out = <<>>
        /\ host.exit = -1 /\ DOMAIN host = HostFields
    BY <2>2 DEF Started, HostFields
  <2>4. QED  BY <2>1, <2>2, <2>3 DEF HostOK, Finished
<1>10. StageOK /\ CpldOK /\ XMegaOK
  <2>1. host.pc = "main" /\ host.n = 0  BY <1>1 DEF Started
  <2>2. QED  BY <1>7, <2>1 DEF StageOK, First, Worked, CpldOK, XMegaOK, StageX, Waiting, RequestOK, Kinds
<1>11. DiskOK
  <2> SUFFICES ASSUME NEW name \in DOMAIN disk
               PROVE  \/ disk[name] \in NamedFiles(NamedFields) /\ ForFuses(name)
                      \/ disk[name] \in NamedFiles(Lines) /\ ForBytes(name)
    BY DEF DiskOK
  <2>1. PICK fuses \in BOOLEAN :
          /\ r.disk[name] \in Files(IF fuses THEN Fields ELSE Lines)
          /\ \A k \in DOMAIN r.args :
               r.args[k].name = name => TakesFuses(r.kind, r.map, r.args[k].style) = fuses
    BY <1>1, RequestAssumption DEF Fits
  <2>2. Fields \subseteq NamedFields  BY DEF Fields, NamedFields, Names
  <2>3. ASSUME NEW of, NEW wide, of \subseteq wide, NEW file \in Files(of)
        PROVE  file \in NamedFiles(wide)
    <3>1. file.lines \in Seq(wide)
      <4>1. file.lines \in Seq(of)  BY <2>3 DEF Files
      <4>2. QED  BY <2>3, <4>1
    <3>2. QED  BY <2>3, <3>1 DEF Files, NamedFiles, Names
  <2>4. CASE fuses
    <3>1. disk[name] \in Files(Fields)  BY <1>1, <2>1, <2>4
    <3>2. ForFuses(name)  BY <1>2, <2>1, <2>4 DEF ForFuses
    <3>3. QED  BY <2>2, <2>3, <3>1, <3>2
  <2>5. CASE ~fuses
    <3>1. disk[name] \in Files(Lines)  BY <1>1, <2>1, <2>5
    <3>2. ForBytes(name)  BY <1>2, <2>1, <2>5 DEF ForBytes
    <3>3. Lines \subseteq Lines  OBVIOUS
    <3>4. QED  BY <2>3, <3>1, <3>2, <3>3
  <2>6. QED  BY <2>4, <2>5
<1>12. QED  BY <1>7, <1>8, <1>9, <1>10, <1>11 DEF TypeInv

LEMMA TypeInvariant == Spec => []TypeInv
<1>1. QED  BY TypeInit, TypeStep, PTL DEF Spec

LEMMA TypesFollow == TypeInv => TypeOK
<1> SUFFICES ASSUME TypeInv PROVE TypeOK
  OBVIOUS
<1> USE DEF TypeInv
<1>1. host.n \in 0..Len(req.args) /\ host.i \in Nat /\ host.ret \in 0..3
      /\ (Finished <=> host.exit >= 0)
  BY DEF HostOK
<1>2. host.polls \in 0..Max({StartPolls, SectorPolls, PdiRetries})
  <2> DEFINE S == {StartPolls, SectorPolls, PdiRetries}
  <2>1. S \in SUBSET Nat /\ S # {}
    BY StartPollsAssumption, SectorAssumption, XMegaAssumption
  <2>2. PICK m \in S : \A y \in S : y <= m  BY <2>1
  <2>3. Max(S) = m
    <3> HIDE DEF S
    <3>1. S \in SUBSET Int  BY <2>1
    <3>2. QED  BY <2>2, <3>1, MaxIs
  <2>4. host.polls <= StartPolls \/ host.polls <= SectorPolls \/ host.polls <= PdiRetries
    BY <2>1 DEF HostOK
  <2>5. QED  BY <2>1, <2>2, <2>3, <2>4 DEF HostOK
<1>3. {host.bytes, host.out} \subseteq Seq(Byte)  BY DEF HostOK
<1>4. {dev.cells, dev.todo, dev.latch} \subseteq [DOMAIN dev.cells -> Byte]
  <2> DEFINE n == N
  <2>1. DOMAIN dev.cells = 1..n /\ Len(dev.cells) = n /\ Len(dev.todo) = n /\ Len(dev.latch) = n
    BY BlankIn DEF DeviceOK, N
  <2> HIDE DEF n
  <2>2. ASSUME NEW s \in Seq(Byte), Len(s) = n PROVE s \in [1..n -> Byte]
    BY <2>2
  <2>3. QED  BY <2>1, <2>2 DEF DeviceOK
<1>5. \A name \in DOMAIN disk : disk[name].of \in Seq(Byte)
  BY DEF DiskOK, NamedFiles
<1>6. QED  BY <1>1, <1>2, <1>3, <1>4, <1>5 DEF TypeOK

(* The host's loops stay in their bounds, bytes stay bytes, and the device *)
(* and its page buffer keep their sizes, in every run of xc3sprog.         *)
THEOREM TypeCorrect == Spec => []TypeOK
<1>1. QED  BY TypeInvariant, TypesFollow, PTL

------------------------------------------------------------------------------
(***************************************************************************)
(* A saved file reads back.  A file that was opened to be written is empty *)
(* until it is saved; then its lines are made from the bytes it remembers. *)
(***************************************************************************)
SavedBytes(file) ==
  /\ file.style \in Savable /\ file.of \in Seq(Byte) /\ file.of # <<>>
  /\ file.lines = LinesOf(file.style, Oriented(file.style, file.of))
SavedFuses(file) ==
  /\ file.style = "JEDEC" /\ file.of \in Seq(Byte) /\ file.of # <<>>
  /\ file.lines = saveAsJed(file.of, req.device).lines
Unsaved(file) == file.style \in {"none", "empty"}
SavedFile(file) == Unsaved(file) \/ SavedBytes(file) \/ SavedFuses(file)
SavedInv == /\ req.kind = "avr" => ~host.fp
            /\ host.n > 0 /\ ~TooMany /\ Arg.action = "r" => SavedFile(File)

(* The steps that turn to another argument, or write a file.               *)
Turns == \/ req.kind # "avr" /\ \E stage \in {"check", "file"} : TakeArg(stage)
         \/ TooMany95 \/ OpenAvr
Saves == Disable95 \/ Save2C \/ SaveX

LEMMA MostStay ==
  ASSUME TypeInv, [Next]_vars, ~Turns, ~Saves
  PROVE  UNCHANGED <<req, disk, host.n, host.fp>>
<1> USE DEF TypeInv, HostOK, HostFields, Go, Tell, Exit, Throw, Quiet
<1>1. CASE MainNext
  BY <1>1 DEF MainNext, init_chain, get_id, NoId, Dispatch, AtMain
<1>2. CASE FpgaNext
  BY <1>2 DEF FpgaNext, FpgaBegin, reconfig, FpgaOpen, FpgaReturn, FpgaSkip, FpgaRead, jprogram,
              WaitInit, FpgaLoad, FpgaPoll, FpgaProgrammed, Turns, AtFpga, Running
<1>3. CASE Next95
  <2>1. CASE Begin95 \/ Erase95 \/ Erased95 \/ Open95 \/ Return95 \/ Ignore95 \/ File95 \/ Program95
    BY <2>1 DEF Begin95, Erase95, Erased95, Open95, Return95, Ignore95, File95, Program95, Turns,
                At95, Running
  <2>2. CASE PollSector \/ SectorDone \/ SectorFailed \/ Programmed95 \/ NoFuse95 \/ Enable95
             \/ Verify95 \/ Read95
    BY <2>2 DEF PollSector, SectorDone, SectorFailed, Programmed95, NoFuse95, Enable95, Verify95,
                Read95, Scan95
  <2>3. QED  BY <1>3, <2>1, <2>2 DEF Next95, Turns, Saves
<1>4. CASE Next2C
  <2>1. CASE Begin2C \/ Erase2C \/ BlankRow \/ IsBlank \/ NotBlank \/ Open2C \/ Return2C \/ TooMany2C
    BY <2>1 DEF Begin2C, Erase2C, BlankRow, IsBlank, NotBlank, Open2C, Return2C, TooMany2C, NextRow,
                Turns, At2C, Running
  <2>2. CASE Ignore2C \/ JedFile2C \/ BitFile2C \/ Program2C \/ Programmed2C \/ StartVerify
             \/ StartRead
    BY <2>2 DEF Ignore2C, JedFile2C, BitFile2C, Program2C, Programmed2C, StartVerify, StartRead,
                OpenRows, Checked2C
  <2>3. CASE Verify2C \/ Verified2C \/ Mismatch2C \/ NoBit \/ DoneProgram \/ Read2C
    BY <2>3 DEF Verify2C, Verified2C, Mismatch2C, NoBit, DoneProgram, Read2C, NextRow, EndOfArg
  <2>4. QED  BY <1>4, <2>1, <2>2, <2>3 DEF Next2C, Saves
<1>5. CASE NextX
  <2> USE DEF Call, Release
  <2>1. CASE wait_nvmbusy \/ wait_for_nvmen \/ PdiGood \/ PdiDelay \/ PdiFails \/ PdiWraps \/ BeginX
    BY <2>1 DEF wait_nvmbusy, wait_for_nvmen, PdiGood, PdiDelay, PdiFails, PdiWraps, BeginX,
                PollAgain, Returned, ReadFailed
  <2>2. CASE InitX \/ chip_erase \/ ErasedX \/ OpenX \/ DoneX \/ ReleaseX \/ SkipX \/ IgnoreX
    BY <2>2 DEF InitX, chip_erase, ErasedX, OpenX, DoneX, ReleaseX, SkipX, IgnoreX, Turns,
                AtX, Running
  <2>3. CASE StartReadX \/ StartVerifyX \/ VerifiedX \/ FileX \/ EraseX
    BY <2>3 DEF StartReadX, StartVerifyX, VerifiedX, FileX, EraseX, ReadMemory
  <2>4. CASE WrittenX \/ erase_buffer \/ load_buffer \/ write_page \/ NextPage
    BY <2>4 DEF WrittenX, erase_buffer, load_buffer, write_page, NextPage
  <2>5. QED  BY <1>5, <2>1, <2>2, <2>3, <2>4 DEF NextX, Saves
<1>6. CASE AvrNext
  BY <1>6 DEF AvrNext, UnknownAvr, EnterAvr, ShownAvr, OpenAvr, SrecFile, LeaveAvr, ProgMode, Turns
<1>7. CASE DeviceDone \/ UNCHANGED vars
  BY <1>7 DEF DeviceDone, vars
<1>8. QED
  BY <1>1, <1>2, <1>3, <1>4, <1>5, <1>6, <1>7 DEF Next, Stay

LEMMA SavedTurns ==
  ASSUME TypeInv, TypeInv', SavedInv, Turns
  PROVE  SavedInv'
<1> USE DEF TypeInv
<1>1. /\ RequestOK /\ DOMAIN host = HostFields /\ host.n \in Nat /\ UNCHANGED req
      /\ Len(req.args) \in Nat
  <2>1. UNCHANGED req  BY DEF Turns, TakeArg, TooMany95, OpenAvr, Quiet
  <2>2. Len(req.args) \in Nat  BY DEF RequestOK
  <2>3. QED  BY <2>1, <2>2 DEF HostOK
<1>2. CASE TooMany95
  <2>1. host.n + 1 > 2 /\ host'.n = host.n + 1
    BY <1>1, <1>2 DEF TooMany95, Tell, HostFields
  <2>2. req'.kind = "xc95x" /\ TooMany'  BY <1>1, <1>2, <2>1 DEF TooMany95, At95, Running, TooMany
  <2>3. QED  BY <2>2 DEF SavedInv
<1>3. CASE OpenAvr
  <2>1. host'.fp = host.fp /\ req.kind = "avr" /\ UNCHANGED <<req, disk>>
    BY <1>1, <1>3 DEF OpenAvr, Go, HostFields, AtAvr, Running, Quiet
  <2>2. ~host'.fp  BY <2>1 DEF SavedInv
  <2>3. File' = Missing  BY <2>2 DEF File
  <2>4. Unsaved(File')  BY <2>3 DEF Unsaved, Missing
  <2>5. QED  BY <2>2, <2>4 DEF SavedInv, SavedFile
<1>4. CASE \E stage \in {"check", "file"} : TakeArg(stage) /\ req.kind # "avr"
  <2>1. PICK stage \in {"check", "file"} : TakeArg(stage) /\ req.kind # "avr"  BY <1>4
  <2>2. /\ host'.n = host.n + 1 /\ host'.fp = HasFile(NextArg)
        /\ disk' = IF NextArg.action \in {"r", "R"} /\ HasFile(NextArg)
                   THEN [disk EXCEPT ![NextArg.name] = Empty] ELSE disk
    BY <1>1, <2>1 DEF TakeArg, Go, Tell, HostFields
  <2>3. host.n + 1 \in DOMAIN req.args /\ NextArg \in Arguments /\ NextArg.name \in DOMAIN disk
    <3>1. host.n # Len(req.args) /\ host.n <= Len(req.args)
      BY <2>1 DEF TakeArg, NoMoreArgs, HostOK
    <3>2. host.n + 1 \in DOMAIN req.args  BY <1>1, <3>1 DEF RequestOK
    <3>3. QED  BY <3>2 DEF RequestOK, NextArg
  <2>4. Arg'.name = NextArg.name
        /\ (Arg'.action = "r" <=> NextArg.action \in {"r", "R"})
    BY <1>1, <2>2, <2>3 DEF Arg, NextArg, Arguments
  <2>5. ASSUME Arg'.action = "r" PROVE SavedFile(File)'
    <3>1. CASE HasFile(NextArg)
      <4>1. disk'[Arg'.name] = Empty  BY <2>2, <2>3, <2>4, <2>5, <3>1
      <4>2. File' = Empty  BY <2>2, <3>1, <4>1 DEF File
      <4>3. QED  BY <4>2 DEF SavedFile, Unsaved, Empty, Missing
    <3>2. CASE ~HasFile(NextArg)
      <4>1. File' = Missing  BY <2>2, <3>2 DEF File
      <4>2. QED  BY <4>1 DEF SavedFile, Unsaved, Missing
    <3>3. QED  BY <3>1, <3>2
  <2>6. QED  BY <1>1, <2>1, <2>5 DEF SavedInv
<1>5. QED  BY <1>2, <1>3, <1>4 DEF Turns

(* What a step writes to the file of the argument at work.                 *)
LEMMA SavedWritten ==
  ASSUME TypeInv, SavedInv, UNCHANGED req, host'.n = host.n, host'.fp = host.fp, host.n > 0,
         NEW g, NEW closed, Written(g, closed),
         \/ g.style \in {"none", "empty"}
         \/ g.style \in Savable /\ g.of \in Seq(Byte) /\ g.of # <<>>
              /\ g.lines = LinesOf(g.style, Oriented(g.style, g.of))
         \/ g.style = "JEDEC" /\ g.of \in Seq(Byte) /\ g.of # <<>>
              /\ g.lines = saveAsJed(g.of, req.device).lines,
         \E of : g \in NamedFiles(of)
  PROVE  SavedInv'
<1> DEFINE h == [g EXCEPT !.flushed = closed]
<1>1. h.style = g.style /\ h.of = g.of /\ h.lines = g.lines
  BY DEF NamedFiles
<1>2. disk' = [disk EXCEPT ![Arg.name] = h] /\ Arg.name \in DOMAIN disk
  BY ArgIs DEF Written, TypeInv
<1> HIDE DEF h
<1>3. Arg' = Arg  BY DEF Arg
<1>4. File' = IF host.fp THEN h ELSE Missing  BY <1>2, <1>3 DEF File
<1>5. SavedFile(h)'
  BY <1>1 DEF SavedFile, Unsaved, SavedBytes, SavedFuses
<1>6. SavedFile(Missing)'  BY DEF SavedFile, Unsaved, Missing
<1>7. SavedFile(File)'
  <2>1. CASE host.fp  BY <1>4, <1>5, <2>1 DEF SavedFile, Unsaved, SavedBytes, SavedFuses
  <2>2. CASE ~host.fp  BY <1>4, <1>6, <2>2 DEF SavedFile, Unsaved, SavedBytes, SavedFuses
  <2>3. QED  BY <2>1, <2>2
<1>8. QED  BY <1>7 DEF SavedInv

LEMMA SavesAs ==
  ASSUME NEW style \in STRING, NEW bytes \in Seq(Byte), NEW rlength \in 0..Len(bytes)
  PROVE  LET g == saveAs(style, bytes, rlength)
         IN  \/ g.style \in {"none", "empty"}
             \/ g.style \in Savable /\ g.of \in Seq(Byte) /\ g.of # <<>>
                  /\ g.lines = LinesOf(g.style, Oriented(g.style, g.of))
<1>1. CASE bytes = <<>> \/ style \notin Savable
  BY <1>1 DEF saveAs, Empty, Missing
<1>2. CASE bytes # <<>> /\ style \in Savable
  <2>1. Clipped(bytes, rlength) \in Seq(Byte) /\ Clipped(bytes, rlength) # <<>>
    BY <1>2, ClippedIs
  <2>2. QED  BY <1>2, <2>1 DEF saveAs
<1>3. QED  BY <1>1, <1>2

LEMMA SavesJed ==
  ASSUME NEW fuses \in Seq(Byte), fuses # <<>>, NEW device
  PROVE  LET g == saveAsJed(fuses, device)
         IN  /\ g.style = "JEDEC" /\ g.of \in Seq(Byte) /\ g.of # <<>>
             /\ g.lines = saveAsJed(g.of, device).lines
BY DEF saveAsJed, JedecFile

LEMMA SavedSaves ==
  ASSUME TypeInv, SavedInv, Saves
  PROVE  SavedInv'
<1> USE DEF TypeInv
<1>1. DOMAIN host = HostFields /\ UNCHANGED req
  BY DEF HostOK, Saves, Disable95, Save2C, SaveX
<1>2. host'.n = host.n /\ host'.fp = host.fp
  <2>1. CASE Disable95
    BY <1>1, <2>1 DEF Disable95, EndOfArg, Exit, Go, HostFields
  <2>2. CASE Save2C
    BY <1>1, <2>2 DEF Save2C, Exit, Go, Tell, HostFields
  <2>3. CASE SaveX
    BY <1>1, <2>3, SMTT(30) DEF SaveX, Go, Tell, HostFields
  <2>4. QED  BY <2>1, <2>2, <2>3 DEF Saves
<1>3. CASE disk' = disk
  BY <1>1, <1>2, <1>3 DEF SavedInv, SavedFile, Unsaved, SavedBytes, SavedFuses, Arg, File, TooMany
<1>4. /\ N > 0 /\ N \in Nat /\ req.device \in Names /\ host.out \in Seq(Byte)
      /\ Len(<<>>) = 0
  <2>1. N > 0 /\ N \in Nat  BY BlankIn
  <2>2. req.device \in Names  BY DEF RequestOK, Names
  <2>3. host.out \in Seq(Byte)  BY DEF HostOK
  <2>4. QED  BY <2>1, <2>2, <2>3
<1>5. CASE Disable95 /\ disk' # disk
  <2>1. Arg.action = "r" /\ Written(saveAsJed(host.out, req.device), FALSE)
    BY <1>5 DEF Disable95
  <2>2. host.pc = "read" /\ host.n > 0
    BY <1>5, <2>1 DEF Disable95, At95, Running, CpldOK, StageOK, Worked
  <2>3. Len(host.out) = N  BY <2>2 DEF CpldOK
  <2>4. host.out # <<>>  BY <1>4, <2>3
  <2>5. saveAsJed(host.out, req.device) \in NamedFiles(NamedFields)  BY <1>4, SavedJedIn
  <2>6. QED  BY <1>1, <1>2, <1>4, <2>1, <2>2, <2>4, <2>5, SavesJed, SavedWritten
<1>6. CASE Save2C /\ disk' # disk /\ Mapped
  <2> DEFINE fuses == bitfile2jedecfile(host.out)
  <2>1. host.pc = "reading" /\ req.kind = "xc2c" /\ Written(saveAsJed(fuses, req.device), TRUE)
    BY <1>6 DEF Save2C, At2C, Running
  <2>2. host.n > 0 /\ Len(host.out) = N /\ N = Len(FuseMap)
    BY <1>6, <2>1 DEF CpldOK, StageOK, Worked, RequestOK, Mapped
  <2>3. fuses \in Seq(Byte) /\ fuses # <<>>  BY <1>4, <2>2, ToFuses
  <2> HIDE DEF fuses
  <2>4. saveAsJed(fuses, req.device) \in NamedFiles(NamedFields)  BY <1>4, <2>3, SavedJedIn
  <2>5. QED  BY <1>1, <1>2, <2>1, <2>2, <2>3, <2>4, SavesJed, SavedWritten
<1>7. CASE Save2C /\ disk' # disk /\ ~Mapped
  <2> DEFINE g == saveAs(Arg.style, host.out, 0)
             h == [g EXCEPT !.device = req.device]
  <2>1. host.pc = "reading" /\ Written(h, TRUE)
    BY <1>7 DEF Save2C, At2C, Running
  <2>2. host.n > 0  BY <2>1 DEF StageOK, Worked
  <2>3. Arg.style \in STRING  BY <2>2, ArgIs
  <2>4. 0 \in 0..Len(host.out)  BY <1>4
  <2>5. g \in NamedFiles(Lines)  BY <1>4, <2>3, <2>4, SavedIn
  <2>6. \/ g.style \in {"none", "empty"}
        \/ g.style \in Savable /\ g.of \in Seq(Byte) /\ g.of # <<>>
             /\ g.lines = LinesOf(g.style, Oriented(g.style, g.of))
    BY <1>4, <2>3, <2>4, SavesAs
  <2> HIDE DEF g
  <2>7. h \in NamedFiles(Lines) /\ h.style = g.style /\ h.of = g.of /\ h.lines = g.lines
    BY <1>4, <2>5 DEF NamedFiles
  <2> HIDE DEF h
  <2>8. QED  BY <1>1, <1>2, <2>1, <2>2, <2>6, <2>7, SavedWritten
<1>8. CASE SaveX
  <2>1. host.pc = "pdi" /\ req.kind = "xmega" /\ Written(saveAs(Arg.style, host.out, Explicit), FALSE)
        /\ Arg.action = "r"
    BY <1>8 DEF SaveX, AtX, Running
  <2>2. host.n > 0  BY <2>1 DEF StageOK, Worked
  <2>3. Arg.style \in STRING  BY <2>2, ArgIs
  <2>4. Len(host.out) = ReadLength
    BY <2>1 DEF XMegaOK, StageX, Waiting
  <2>5. Explicit \in 0..Len(host.out)
    BY <1>4, <2>4 DEF Explicit
  <2>6. saveAs(Arg.style, host.out, Explicit) \in NamedFiles(Lines)
    BY <1>4, <2>3, <2>5, SavedIn
  <2>7. QED  BY <1>1, <1>2, <1>4, <2>1, <2>2, <2>3, <2>5, <2>6, SavesAs, SavedWritten
<1>9. QED  BY <1>3, <1>5, <1>6, <1>7, <1>8 DEF Saves

LEMMA SavedInvariant == Spec => [](TypeInv /\ SavedInv)
<1>1. RunInit => SavedInv
  <2> SUFFICES ASSUME RunInit  PROVE SavedInv
    OBVIOUS
  <2>1. host = Started  BY DEF RunInit
  <2>2. host.fp = FALSE /\ host.n = 0  BY <2>1 DEF Started
  <2>3. QED  BY <2>2 DEF SavedInv
<1>2. TypeInv /\ TypeInv' /\ SavedInv /\ [Next]_vars => SavedInv'
  <2> SUFFICES ASSUME TypeInv, TypeInv', SavedInv, [Next]_vars  PROVE SavedInv'
    OBVIOUS
  <2>1. CASE ~Turns /\ ~Saves
    <3>1. UNCHANGED <<req, disk, host.n, host.fp>>  BY <2>1, MostStay
    <3>2. QED
      BY <3>1 DEF SavedInv, SavedFile, Unsaved, SavedBytes, SavedFuses, Arg, File, TooMany
  <2>2. QED  BY <2>1, SavedTurns, SavedSaves
<1>3. QED  BY <1>1, <1>2, TypeInvariant, PTL DEF Spec

(* A file the program saved reads back as what was saved, for every file   *)
(* and every style but for the lines one byte short of full: saveAs and    *)
(* readFile of src/bitfile.cpp, and src/jedecfile.cpp.                     *)
THEOREM SavedFilesReadBack == Spec => []SavedReadsBack
<1>1. TypeInv /\ SavedInv => SavedReadsBack
  <2> SUFFICES ASSUME TypeInv, SavedInv, host.n > 0, ~TooMany, Arg.action = "r",
                      Closed(File).flushed, ~LastLineShort(Closed(File))
               PROVE  /\ Closed(File).style = "JEDEC" =>
                           readJed(Closed(File)) = {Jed(0, Closed(File).of, req.device)}
                      /\ Closed(File).style \in Readable =>
                           readFile(Closed(File).style, Closed(File))
                             = {Result(0, Closed(File).of)}
    BY DEF SavedReadsBack
  <2> DEFINE f == Closed(File)
  <2>1. \E of : File \in NamedFiles(of)
    <3>1. CASE File = Missing  BY <3>1, NoFileIn
    <3>2. CASE File # Missing
      BY <3>2, FileIs, ArgIs DEF TypeInv, DiskOK
    <3>3. QED  BY <3>1, <3>2
  <2>2. f.style = File.style /\ f.of = File.of /\ f.lines = File.lines
    BY <2>1 DEF Closed, NamedFiles
  <2>3. SavedFile(File)  BY DEF SavedInv
  <2> HIDE DEF f
  <2>4. f.style # "none" => f # Missing  BY DEF Missing
  <2>5. CASE Unsaved(File)
    BY <2>2, <2>5 DEF Unsaved, f, Readable
  <2>6. CASE SavedBytes(File)
    <3>1. f.style \in Savable /\ f.of \in Seq(Byte) /\ f.of # <<>>
          /\ f.lines = LinesOf(f.style, Oriented(f.style, f.of))
      BY <2>2, <2>6 DEF SavedBytes
    <3>2. f.style # "JEDEC" /\ f.style # "none"  BY <3>1 DEF Savable, Reversed
    <3>3. ~ShortAtEnd(f.style, Len(f.of))  BY DEF LastLineShort, ShortAtEnd, f
    <3>4. f.flushed  BY DEF f
    <3>5. ASSUME f.style \in Readable PROVE readFile(f.style, f) = {Result(0, f.of)}
      BY <2>4, <3>1, <3>2, <3>3, <3>4, <3>5, FileReadsBack
    <3>6. QED  BY <3>2, <3>5 DEF f
  <2>7. CASE SavedFuses(File)
    <3>1. f.style = "JEDEC" /\ f.of \in Seq(Byte) /\ f.of # <<>>
          /\ f.lines = saveAsJed(f.of, req.device).lines
      BY <2>2, <2>7 DEF SavedFuses
    <3>2. f.flushed /\ req.device \in Names  BY DEF f, TypeInv, RequestOK, Names
    <3>3. readJed(f) = {Jed(0, f.of, req.device)}  BY <2>4, <3>1, <3>2, JedReadsBack
    <3>4. QED  BY <3>1, <3>3 DEF f, Readable
  <2>8. QED  BY <2>3, <2>5, <2>6, <2>7 DEF SavedFile
<1>2. QED  BY <1>1, SavedInvariant, PTL

------------------------------------------------------------------------------
(***************************************************************************)
(* What the algorithms know of the device and of the file.                 *)
(***************************************************************************)
Coming == IF dev.busy THEN dev.todo ELSE dev.cells

(* Without a file for it an argument is only worked on when that was told. *)
ToldInv == host.n > 0 /\ ~host.fp /\ req.kind # "avr" => host.told

(* What the program works with is what the file is made from.              *)
Image == IF req.kind = "xc2c" /\ Mapped THEN jedecfile2bitfile(File.of) ELSE File.of
Loaded == UsesFile /\ ~Misread => ~Broken /\ host.bytes = Image

(* The device is at work only where the program waits for it.              *)
IdleInv ==
  dev.busy /\ ~host.blind =>
    /\ req.kind \in {"fpga", "xc95x", "xmega"}
    /\ req.kind = "fpga" => host.pc \in {"clearing", "starting"}
    /\ req.kind = "xc95x" => host.pc \in {"erasing", "polling"}
    /\ req.kind = "xmega" => \/ StageX \in {"erased", "load", "next"}
                             \/ host.pc \in {"release", "done"} /\ host.told /\ host.ret = 1

(* Its work goes towards what the job is for.                              *)
TowardsJob(a) == IF a - job.low \in 1..job.size THEN Contract!Towards(a) ELSE {dev.cells[a]}
TowardsInv ==
  dev.busy /\ ~Astray =>
    job.does \in {"erase", "write"} /\ \A a \in 1..N : dev.todo[a] \in TowardsJob(a)

FpgaInv ==
  req.kind = "fpga" =>
    /\ host.pc \in {"enable", "clearing", "load", "starting"} => ~Unsupported /\ Loaded
    /\ host.pc = "starting" /\ ~host.blind =>
         /\ dev.todo \in {Blank, host.bytes} /\ (~dev.busy => dev.cells = dev.todo)
         /\ host.res # 0 => ~dev.busy /\ dev.cells # Blank

Ended == host.pc \in {"args", "done"} /\ host.exit \in {-1, 0}
Holds(bytes) == \A k \in 1..N : k \in DOMAIN bytes /\ dev.cells[k] = bytes[k]
HoldsUpTo(bytes, n) == \A k \in 1..N : k <= n => k \in DOMAIN bytes /\ dev.cells[k] = bytes[k]
VerifiedCpld ==
  req.kind \in {"xc95x", "xc2c"} /\ Ended /\ host.n \in 1..2 /\ UsesFile /\ ~Astray
    => ~Broken /\ Holds(Image)

Piped == host.i > 0 => dev.pipe = dev.cells[IF host.i > N THEN N ELSE host.i]
Inv95 ==
  req.kind = "xc95x" =>
    /\ host.n > 0 /\ host.pc \in {"erase", "erasing", "program", "polling", "enable", "verify",
                                  "verified"} => Loaded
    /\ ~host.blind /\ host.pc = "program" =>
         /\ \A a \in 1..N : \/ dev.latch[a] = Erased
                            \/ a \in DOMAIN host.bytes /\ dev.latch[a] = host.bytes[a]
         /\ host.i % SectorWords = 0 \/ ~dev.isc => dev.latch = Blank
    /\ ~host.blind /\ host.pc \notin {"program", "done"} => dev.latch = Blank
    /\ ~host.blind /\ host.pc = "verify" =>
         dev.isc /\ Piped /\ HoldsUpTo(host.bytes, host.i - 1)
    /\ host.pc = "verified" => host.ret = 1
    /\ ~host.blind /\ host.pc = "read" => dev.isc /\ Piped /\ HoldsUpTo(host.out, host.i - 1)
    /\ host.pc \in {"file", "read"} => host.n <= 2

Inv2C ==
  req.kind = "xc2c" =>
    /\ ~dev.busy /\ ~host.blind
    /\ host.n > 0 /\ host.pc \in {"erase", "blank", "program", "verify", "verifying", "finish"}
         => Loaded
    /\ host.pc = "blank" =>
         \A a \in 1..N : a <= 2 * host.i => a % 2 = 0 \/ dev.cells[a] = Erased
    /\ host.pc = "verifying" => HoldsUpTo(host.bytes, 2 * host.i)
    /\ host.pc = "finish" => host.ret = 1 \/ Holds(host.bytes)
    /\ host.pc = "reading" => HoldsUpTo(host.out, 2 * host.i)

(* No argument up to the m-th changes the memory.                          *)
Untouched(m) == \A k \in 1..m : req.args[k].action \notin {"e", "w", "W"}
At(k) == Coming[base(Arg.section) + k]
Programmable == Arg.section \in {"a", "b", "e"}
Behind == IF StageX = "next" THEN host.i + Page ELSE host.i
ReadX(k) == LET a == base(Arg.section) + host.res + k IN IF a <= N THEN dev.cells[a] ELSE Erased
DataX == SubSeq(File.of, Skip + 1, Len(File.of))
EraseInv ==
  req.kind = "xmega" =>
    /\ StageX = "erased" /\ ~host.blind => IF host.n = 0 THEN Coming = Blank
                             ELSE Programmable => \A k \in 1..Sizes[Arg.section] : At(k) = Erased
    /\ host.n > 0 /\ StageX \in {"erase", "erased"} /\ IsWrite => host.i = Skip
    /\ req.erase /\ ~host.blind /\ host.pc \in {"args", "file", "pdi"}
         /\ Untouched(IF host.pc = "file" THEN host.n - 1 ELSE host.n) => dev.cells = Blank
WriteInv ==
  req.kind = "xmega" /\ StageX \in {"write", "load", "page", "next"} =>
    /\ Arg.action = "e" => req.erase /\ (~host.fp => host.bytes = <<>>)
    /\ IsWrite => /\ host.i % Page = 0 /\ Skip <= host.i
                  /\ ~Astray /\ ~WritesOver /\ Programmable =>
                       \A k \in (Skip + 1)..Len(host.bytes) :
                         /\ k <= Behind => At(k) = host.bytes[k]
                         /\ k > Behind /\ Programs => At(k) = Erased
                  /\ ~Astray /\ StageX = "load" => dev.latch = Blank
                  /\ ~Astray /\ StageX = "page" =>
                       \A k \in 1..Page : /\ host.i + k <= Len(host.bytes)
                                          /\ dev.latch[PageAt + k] = host.bytes[host.i + k]
XInv ==
  req.kind = "xmega" =>
    /\ host.pc \notin {"main", "get_id", "no_id", "dispatch", "begin", "done"} => dev.isc
    /\ StageX = "inited" => ~dev.busy /\ ~host.blind
    /\ host.pc \in {"erased", "load", "next"} /\ ~host.blind /\ host.wait = 0 => ~dev.busy
    /\ host.n > 0 /\ StageX \in {"pdi", "erase", "erased", "write", "load", "page", "next"} => Loaded
    /\ ~host.blind /\ host.pc = "pdi" => \A k \in 1..host.i : host.out[k] = ReadX(k)
VerifiedX2 ==
  req.kind = "xmega" /\ host.pc \in {"args", "release", "done"} /\ host.ret = 0
    /\ host.exit \in {-1, 0} /\ host.n > 0 /\ Arg.action = "v" /\ host.fp /\ ~Astray
    /\ Arg.section \in DOMAIN Sizes =>
    ~Broken /\ \A k \in DOMAIN File.of : dev.cells[base(Arg.section) + k] = File.of[k]
FirstIdle == host.pc \in First => ~dev.busy /\ ~host.blind

------------------------------------------------------------------------------
(***************************************************************************)
(* While the argument at work stays, so does the job.                      *)
(***************************************************************************)
Wrong == host.n > 0 /\ (Misread \/ Overlong \/ BeyondMemory \/ PartOfPage \/ ErasesTwice)
Frame == UNCHANGED <<req, disk, host.n, host.fp, N>> /\ (BeforeJobs <=> BeforeJobs')

LEMMA FrameArg ==
  ASSUME UNCHANGED <<req, disk, host.n, host.fp, N>>
  PROVE  /\ Arg' = Arg /\ File' = File /\ (Mapped <=> Mapped') /\ (IsWrite <=> IsWrite')
         /\ (Skipped <=> Skipped') /\ ReadLength' = ReadLength /\ Explicit' = Explicit
         /\ (UsesFile <=> UsesFile') /\ (FromFuses <=> FromFuses') /\ Skip' = Skip
         /\ (Unsupported <=> Unsupported') /\ (ErasesFirst <=> ErasesFirst')
         /\ (TooMany <=> TooMany') /\ (OfXMega <=> OfXMega') /\ Image' = Image
         /\ (Broken <=> Broken') /\ (Misread <=> Misread') /\ (WritesOver <=> WritesOver')
         /\ (ChangesX <=> ChangesX') /\ (OnlyShown <=> OnlyShown') /\ (IgnoredAction <=> IgnoredAction')
<1>1. Arg' = Arg  BY DEF Arg
<1>2. File' = File  BY <1>1 DEF File
<1>3. (Mapped <=> Mapped') /\ (IsWrite <=> IsWrite') /\ (OfXMega <=> OfXMega')
      /\ (UsesFile <=> UsesFile')
  BY <1>1 DEF Mapped, IsWrite, OfXMega, UsesFile
<1>4. (Skipped <=> Skipped') /\ ReadLength' = ReadLength /\ Explicit' = Explicit /\ Skip' = Skip
  BY <1>1, <1>3 DEF Skipped, ReadLength, Explicit, Skip, IsWrite
<1>5. (FromFuses <=> FromFuses') /\ (Unsupported <=> Unsupported') /\ (ErasesFirst <=> ErasesFirst')
      /\ (TooMany <=> TooMany')
  BY <1>1, <1>3 DEF FromFuses, Unsupported, ErasesFirst, TooMany
<1>6. Image' = Image  BY <1>2, <1>3 DEF Image
<1>7. (Broken <=> Broken') /\ (Misread <=> Misread')
  BY <1>1, <1>2, <1>3, <1>5 DEF Broken, Misread
<1>8. (ChangesX <=> ChangesX') /\ (OnlyShown <=> OnlyShown') /\ (IgnoredAction <=> IgnoredAction')
  BY <1>1, <1>3, <1>5 DEF ChangesX, OnlyShown, IgnoredAction
<1>9. (WritesOver <=> WritesOver')  BY <1>1, <1>8 DEF WritesOver
<1>10. QED  BY <1>1, <1>2, <1>3, <1>4, <1>5, <1>6, <1>7, <1>8, <1>9

LEMMA FrameJob ==
  ASSUME Frame
  PROVE  /\ job' = job /\ (Wrong <=> Wrong') /\ (BeyondFirstPage <=> BeyondFirstPage')
         /\ DataX' = DataX
<1> USE DEF Frame
<1>1. Asked' = Asked  BY FrameArg DEF Asked
<1>2. JobX' = JobX  BY <1>1, FrameArg DEF JobX
<1>3. Contents(File)' = Contents(File)  BY FrameArg DEF Contents
<1>4. JobOther' = JobOther  BY <1>1, <1>3, FrameArg DEF JobOther
<1>5. job' = job  BY <1>2, <1>4, FrameArg DEF job
<1>6. (BeyondFirstPage <=> BeyondFirstPage') /\ DataX' = DataX
  BY <1>5, FrameArg DEF BeyondFirstPage, DataX
<1>7. (Overlong <=> Overlong') /\ (BeyondMemory <=> BeyondMemory')
      /\ (PartOfPage <=> PartOfPage') /\ (ErasesTwice <=> ErasesTwice')
  BY <1>5, FrameArg DEF Overlong, BeyondMemory, PartOfPage, ErasesTwice
<1>8. (Wrong <=> Wrong')  BY <1>7, FrameArg DEF Wrong
<1>9. QED  BY <1>5, <1>6, <1>8
LEMMA TroubleIs ==
  /\ Astray <=> host.blind \/ Wrong
  /\ trouble = "lost" <=> Astray
  /\ trouble = "none" <=> ~(Astray \/ host.told \/ host.ret # 0 \/ host.exit > 0 \/ Untold)
BY DEF Astray, Wrong, trouble

(* What main does before it calls an algorithm.                            *)
LEMMA MainIs ==
  ASSUME TypeInv, MainNext
  PROVE  /\ Quiet /\ UNCHANGED <<host.n, host.fp, host.blind>> /\ (host.told => host'.told)
         /\ host.pc \in {"main", "get_id", "no_id", "dispatch"}
         /\ host'.pc \in {"get_id", "no_id", "dispatch", "begin", "done"}
<1>1. DOMAIN host = HostFields  BY DEF TypeInv, HostOK
<1> USE DEF HostFields, AtMain, Go, Tell, Exit
<1>2. CASE init_chain  BY <1>1, <1>2 DEF init_chain
<1>3. CASE get_id  BY <1>1, <1>3 DEF get_id
<1>4. CASE NoId  BY <1>1, <1>4 DEF NoId
<1>5. CASE Dispatch  BY <1>1, <1>5 DEF Dispatch
<1>6. QED  BY <1>2, <1>3, <1>4, <1>5 DEF MainNext

(* Neither trouble nor the loss of the device is ever taken back.          *)
Worsens == (host.told => host'.told) /\ (host.blind => host'.blind)

LEMMA TroubleStays ==
  ASSUME TypeInv, FirstIdle, [Next]_vars
  PROVE  Worsens
<1> USE DEF TypeInv, HostOK, HostFields, Go, Tell, Exit, Throw, Quiet, Worsens
<1>1. CASE MainNext  BY <1>1, MainIs
<1>2. CASE FpgaNext
  <2>1. CASE FpgaBegin \/ FpgaOpen \/ FpgaReturn \/ FpgaSkip \/ FpgaRead \/ jprogram
    BY <2>1 DEF FpgaBegin, FpgaOpen, FpgaReturn, FpgaSkip, FpgaRead, jprogram, TakeArg
  <2>2. CASE reconfig
    <3>1. ~host.blind  BY <2>2 DEF reconfig, AtFpga, Running, FirstIdle, First
    <3>2. QED  BY <2>2, <3>1 DEF reconfig
  <2>3. CASE FpgaLoad  BY <2>3 DEF FpgaLoad
  <2>4. CASE FpgaProgrammed  BY <2>4 DEF FpgaProgrammed
  <2>5. CASE WaitInit \/ FpgaPoll  BY <2>5 DEF WaitInit, FpgaPoll
  <2>6. QED  BY <1>2, <2>1, <2>2, <2>3, <2>4, <2>5 DEF FpgaNext
<1>3. CASE Next95
  <2>1. CASE Begin95 \/ Erase95 \/ Erased95 \/ Open95 \/ Return95 \/ Ignore95 \/ File95 \/ Program95
    BY <2>1 DEF Begin95, Erase95, Erased95, Open95, Return95, Ignore95, File95, Program95, TakeArg
  <2>2. CASE PollSector \/ SectorDone \/ SectorFailed \/ Programmed95 \/ NoFuse95 \/ Enable95
             \/ Verify95 \/ Read95 \/ TooMany95 \/ Disable95
    BY <2>2 DEF PollSector, SectorDone, SectorFailed, Programmed95, NoFuse95, Enable95, Verify95,
                Read95, Scan95, TooMany95, Disable95, EndOfArg
  <2>3. QED  BY <1>3, <2>1, <2>2 DEF Next95
<1>4. CASE Next2C
  <2>1. CASE Begin2C \/ Erase2C \/ BlankRow \/ IsBlank \/ NotBlank \/ Open2C \/ Return2C \/ TooMany2C
    BY <2>1 DEF Begin2C, Erase2C, BlankRow, IsBlank, NotBlank, Open2C, Return2C, TooMany2C, NextRow,
                TakeArg
  <2>2. CASE Ignore2C \/ JedFile2C \/ BitFile2C
    BY <2>2 DEF Ignore2C, JedFile2C, BitFile2C, Checked2C
  <2>3. CASE Program2C \/ Programmed2C \/ StartVerify \/ StartRead
    BY <2>3 DEF Program2C, Programmed2C, StartVerify, StartRead, OpenRows
  <2>4. CASE Verify2C \/ Verified2C \/ Mismatch2C \/ NoBit \/ DoneProgram \/ Read2C \/ Save2C
    BY <2>4 DEF Verify2C, Verified2C, Mismatch2C, NoBit, DoneProgram, Read2C, NextRow, EndOfArg, Save2C
  <2>5. QED  BY <1>4, <2>1, <2>2, <2>3, <2>4 DEF Next2C
<1>5. CASE NextX
  <2> USE DEF Call, Release
  <2>1. CASE wait_nvmbusy \/ wait_for_nvmen \/ PdiGood \/ PdiDelay \/ PdiFails \/ PdiWraps \/ BeginX
    BY <2>1 DEF wait_nvmbusy, wait_for_nvmen, PdiGood, PdiDelay, PdiFails, PdiWraps, BeginX,
                PollAgain, Returned, ReadFailed
  <2>2. CASE InitX \/ chip_erase \/ ErasedX \/ OpenX \/ DoneX \/ ReleaseX \/ SkipX \/ IgnoreX
    BY <2>2 DEF InitX, chip_erase, ErasedX, OpenX, DoneX, ReleaseX, SkipX, IgnoreX, TakeArg
  <2>3. CASE StartReadX \/ StartVerifyX \/ VerifiedX \/ FileX \/ EraseX \/ SaveX
    BY <2>3 DEF StartReadX, StartVerifyX, VerifiedX, FileX, EraseX, ReadMemory, SaveX
  <2>4. CASE WrittenX \/ erase_buffer \/ load_buffer \/ write_page \/ NextPage
    BY <2>4 DEF WrittenX, erase_buffer, load_buffer, write_page, NextPage
  <2>5. QED  BY <1>5, <2>1, <2>2, <2>3, <2>4 DEF NextX
<1>6. CASE AvrNext
  BY <1>6 DEF AvrNext, UnknownAvr, EnterAvr, ShownAvr, OpenAvr, SrecFile, LeaveAvr, ProgMode
<1>7. CASE DeviceDone \/ UNCHANGED vars
  BY <1>7 DEF DeviceDone, vars
<1>8. QED
  BY <1>1, <1>2, <1>3, <1>4, <1>5, <1>6, <1>7 DEF Next, Stay

LEMMA ToldStep ==
  ASSUME TypeInv, FirstIdle, SavedInv, ToldInv, [Next]_vars
  PROVE  ToldInv'
<1>1. Worsens  BY TroubleStays
<1>2. DOMAIN host = HostFields /\ host.n \in Nat  BY DEF TypeInv, HostOK, RequestOK
<1>3. CASE UNCHANGED <<req, host.n, host.fp>>
  BY <1>1, <1>3 DEF ToldInv, Worsens
<1>4. CASE Turns
  <2>1. UNCHANGED req  BY <1>4 DEF Turns, TakeArg, TooMany95, OpenAvr, Quiet
  <2>2. CASE TooMany95
    BY <1>2, <2>2 DEF TooMany95, Tell, HostFields, ToldInv
  <2>3. CASE OpenAvr  BY <2>1, <2>3 DEF OpenAvr, AtAvr, Running, ToldInv
  <2>4. ASSUME NEW stage, TakeArg(stage) PROVE ToldInv'
    BY <1>2, <2>4 DEF TakeArg, Tell, Go, HostFields, ToldInv
  <2>5. QED  BY <1>4, <2>2, <2>3, <2>4 DEF Turns
<1>5. CASE Saves
  <2>1. UNCHANGED <<req, host.n, host.fp>>
    <3>1. CASE Disable95
      BY <1>2, <3>1 DEF Disable95, EndOfArg, Exit, Go, HostFields
    <3>2. CASE Save2C
      BY <1>2, <3>2 DEF Save2C, Exit, Go, Tell, HostFields
    <3>3. CASE SaveX
      BY <1>2, <3>3 DEF SaveX, Go, Tell, HostFields
    <3>4. QED  BY <1>5, <3>1, <3>2, <3>3 DEF Saves
  <2>2. QED  BY <1>3, <2>1
<1>6. QED  BY <1>3, <1>4, <1>5, MostStay

(* The contract has the bytes of the files.                                *)
LEMMA ContractIs ==
  /\ Contract!Erased = Erased
  /\ \A n, b : Contract!Fill(n, b) = Fill(n, b)
  /\ \A old, new : Contract!Burn(old, new) = Burn(old, new)
<1>1. Contract!Erased = Erased  BY DEF Contract!Erased, Erased
<1>2. \A n, b : Contract!Fill(n, b) = Fill(n, b)  BY DEF Contract!Fill, Fill
<1>3. \A S : Contract!Min(S) = Min(S)  BY DEF Contract!Min, Min
<1>4. \A old, new : Contract!Burn(old, new) = Burn(old, new)
  BY <1>3 DEF Contract!Burn, Burn
<1>5. QED  BY <1>1, <1>2, <1>4

LEMMA TowardsStays ==
  ASSUME TowardsInv, Frame, Worsens, UNCHANGED <<dev.cells, dev.todo, dev.busy>>
  PROVE  TowardsInv'
<1>1. job' = job /\ (Wrong <=> Wrong')  BY FrameJob
<1>2. Astray => Astray'  BY <1>1 DEF Astray, Wrong, Worsens
<1>3. UNCHANGED <<dev.cells, dev.todo, dev.busy, N>>  BY DEF Frame
<1>4. ASSUME NEW a PROVE TowardsJob(a)' = TowardsJob(a)
  BY <1>1, <1>3 DEF TowardsJob, Contract!Towards, Contract!Wanted
<1>5. QED  BY <1>1, <1>2, <1>3, <1>4 DEF TowardsInv

LEMMA NoteStep ==
  ASSUME Frame, UNCHANGED dev.cells, Open <=> Open'
  PROVE  Contract!Note
<1>1. job' = job  BY FrameJob
<1>2. SavedCells' = SavedCells  BY <1>1, FrameArg DEF SavedCells, Frame
<1>3. saved' = saved  BY <1>1, <1>2, FrameArg DEF saved, Frame
<1>4. QED  BY <1>1, <1>3 DEF Contract!Note, Open

LEMMA StartStep ==
  ASSUME ~Open, Open', UNCHANGED dev.cells
  PROVE  Contract!Start
BY DEF Contract!Start, saved

(* A job that ends and is known to have gone wrong.                        *)
LEMMA TellStep ==
  ASSUME Frame, UNCHANGED dev.cells, Open => ~Open' /\ trouble' # "none", ~Open => ~Open'
  PROVE  Contract!Next
<1>1. CASE Open
  BY <1>1, FrameJob DEF Contract!Next, Contract!Finish
<1>2. CASE ~Open  BY <1>2, NoteStep DEF Contract!Next
<1>3. QED  BY <1>1, <1>2

DataInv == /\ ToldInv /\ FirstIdle /\ IdleInv /\ TowardsInv /\ FpgaInv /\ VerifiedCpld
           /\ Inv95 /\ Inv2C /\ EraseInv /\ WriteInv /\ XInv /\ VerifiedX2

(* Before an algorithm begins nothing happens to the device.               *)
LEMMA MainStep ==
  ASSUME TypeInv, TypeInv', SavedInv, DataInv, MainNext
  PROVE  DataInv' /\ Contract!Next
<1> USE DEF TypeInv
<1>1. /\ host.pc \in {"main", "get_id", "no_id", "dispatch"} /\ Quiet
      /\ host'.n = host.n /\ host'.fp = host.fp /\ host'.blind = host.blind
      /\ host'.pc \in {"get_id", "no_id", "dispatch", "begin", "done"}
  BY MainIs
<1>2. host.n = 0 /\ ~dev.busy /\ ~host.blind
  BY <1>1 DEF StageOK, First, DataInv, FirstIdle
<1>3. /\ UNCHANGED <<req, dev, disk, N>> /\ host'.n = 0 /\ ~dev'.busy /\ ~host'.blind
      /\ host'.pc \in {"get_id", "no_id", "dispatch", "begin", "done"}
  BY <1>1, <1>2 DEF Quiet, N
<1>4. ToldInv' /\ FirstIdle' /\ IdleInv' /\ TowardsInv' /\ VerifiedX2' /\ VerifiedCpld' /\ FpgaInv'
  BY <1>3 DEF ToldInv, FirstIdle, IdleInv, TowardsInv, VerifiedX2, VerifiedCpld, FpgaInv
<1>5. Inv95' /\ Inv2C'
  <2>1. req.kind = "xc95x" => dev.latch = Blank
    BY <1>1, <1>2 DEF DataInv, Inv95
  <2>2. dev'.latch = dev.latch /\ Blank' = Blank  BY <1>3 DEF Blank
  <2>3. Inv95'  BY <1>3, <2>1, <2>2 DEF Inv95
  <2>4. Inv2C'  BY <1>3 DEF Inv2C
  <2>5. QED  BY <2>3, <2>4
<1>6. EraseInv' /\ WriteInv'
  BY <1>3 DEF EraseInv, WriteInv, StageX, Waiting
<1>7. XInv'  BY <1>3 DEF XInv, StageX, Waiting
<1>8. DataInv'  BY <1>4, <1>5, <1>6, <1>7 DEF DataInv
<1>9. Contract!Next
  <2>1. job = NoJob /\ ~Open /\ saved = <<>>
    BY <1>1 DEF job, BeforeJobs, Open, BetweenJobs, saved, NoJob, Job
  <2>2. CASE host'.pc # "done" /\ ~Open'
    <3>1. job' = NoJob
      BY <1>3, <2>2 DEF job, BeforeJobs, Open, BetweenJobs
    <3>2. saved' = <<>>  BY <3>1 DEF saved, NoJob, Job
    <3>3. QED
      BY <1>3, <2>1, <2>2, <3>1, <3>2 DEF Contract!Next, Contract!Note, Open
  <2>3. CASE Open'
    BY <1>3, <2>1, <2>3, StartStep DEF Contract!Next
  <2>4. CASE host'.pc = "done"
    <3>1. ~Open'  BY <2>4 DEF Open, BetweenJobs
    <3>2. saved' = <<>> /\ (~req.erase => job' = NoJob)
      BY <1>3 DEF saved, job, Job, NoJob
    <3>3. req.erase => host'.told \/ host'.exit > 0
      <4>1. NoId \/ Dispatch
        BY <2>4 DEF MainNext, init_chain, get_id, AtMain, Go, Tell, HostOK, HostFields
      <4>2. CASE NoId
        BY <4>2 DEF NoId, Exit, HostOK, HostFields, detectchain
      <4>3. CASE Dispatch
        BY <2>4, <4>3 DEF Dispatch, Exit, Go, Tell, HostOK, HostFields, detectchain
      <4>4. QED  BY <4>1, <4>2, <4>3
    <3>4. CASE req.erase
      BY <1>3, <2>1, <3>1, <3>2, <3>3, <3>4, TroubleIs
         DEF Contract!Next, Contract!Refuse, trouble
    <3>5. CASE ~req.erase
      BY <1>3, <2>1, <3>1, <3>2, <3>5 DEF Contract!Next, Contract!Note, Open
    <3>6. QED  BY <3>4, <3>5
  <2>5. QED  BY <2>2, <2>3, <2>4
<1>10. QED  BY <1>8, <1>9

(* The device gets done with its work.                                     *)
LEMMA DoneStep ==
  ASSUME TypeInv, DataInv, DeviceDone
  PROVE  DataInv' /\ Contract!Next
<1> USE DEF TypeInv
<1>1. /\ dev.busy /\ UNCHANGED <<req, host, disk>> /\ DOMAIN dev = DeviceFields
      /\ dev' = [dev EXCEPT !.cells = dev.todo, !.busy = FALSE]
  BY DEF DeviceDone, DeviceOK
<1>2. /\ dev'.cells = dev.todo /\ dev'.busy = FALSE /\ dev'.todo = dev.todo
      /\ dev'.latch = dev.latch /\ dev'.isc = dev.isc /\ dev'.pipe = dev.pipe
  BY <1>1 DEF DeviceFields
<1>3. N' = N  BY <1>2 DEF DeviceOK, N
<1>4. Frame  BY <1>1, <1>3 DEF Frame, BeforeJobs
<1>5. job' = job /\ (Wrong <=> Wrong') /\ (Astray <=> Astray')
  BY <1>1, <1>4, FrameJob DEF Astray, Wrong
<1>6. Coming' = Coming /\ Blank' = Blank  BY <1>1, <1>2, <1>3 DEF Coming, Blank
<1>7. (host.pc = "begin" \/ host.pc \in First) => FALSE
  BY <1>1 DEF DataInv, FirstIdle, First
<1>8. ToldInv' /\ FirstIdle' /\ IdleInv' /\ TowardsInv'
  BY <1>1, <1>2, <1>7 DEF DataInv, ToldInv, FirstIdle, IdleInv, TowardsInv
<1>9. req.kind # "xc2c"  BY <1>1 DEF DataInv, Inv2C
<1>10. ASSUME ~Astray
       PROVE  /\ req.kind = "fpga" => host.pc \in {"clearing", "starting"}
              /\ req.kind = "xc95x" => host.pc \in {"erasing", "polling"}
              /\ req.kind = "xmega" =>
                   \/ StageX \in {"erased", "load", "next"}
                   \/ host.pc \in {"release", "done"} /\ host.told /\ host.ret = 1
  <2>1. ~host.blind  BY <1>10 DEF Astray
  <2>2. IdleInv /\ dev.busy  BY <1>1 DEF DataInv
  <2>3. (req.kind = "fpga" => host.pc \in {"clearing", "starting"})
        /\ (req.kind = "xc95x" => host.pc \in {"erasing", "polling"})
    BY <2>1, <2>2 DEF IdleInv
  <2>4. req.kind = "xmega" =>
          \/ StageX \in {"erased", "load", "next"}
          \/ host.pc \in {"release", "done"} /\ host.told /\ host.ret = 1
    BY <2>1, <2>2 DEF IdleInv
  <2>5. QED  BY <2>3, <2>4
<1>11. (Loaded <=> Loaded') /\ (Unsupported <=> Unsupported') /\ (StageX' = StageX)
  BY <1>1, <1>3, FrameArg DEF Loaded, StageX, Waiting
<1>12. FpgaInv'
  BY <1>1, <1>2, <1>6, <1>10, <1>11 DEF DataInv, FpgaInv
<1>13. VerifiedCpld'
  BY <1>1, <1>5, <1>9, <1>10 DEF VerifiedCpld, Ended
<1>14. Inv95' /\ Inv2C'
  <2>1. ~host.blind /\ req.kind = "xc95x" => host.pc \in {"erasing", "polling"}
    BY <1>1 DEF DataInv, IdleInv
  <2>2. Inv95'  BY <1>1, <1>2, <1>6, <1>11, <2>1 DEF DataInv, Inv95
  <2>3. QED  BY <1>1, <1>9, <2>2 DEF Inv2C
<1>15. ~host.blind /\ req.kind = "xmega" =>
          \/ StageX \in {"erased", "load", "next"}
          \/ host.pc \in {"release", "done"} /\ host.told /\ host.ret = 1
  BY <1>1 DEF DataInv, IdleInv
<1>16. ASSUME NEW k PROVE At(k)' = At(k)
  BY <1>1, <1>3, <1>6, FrameArg DEF At
<1>17. EraseInv'
  <2>1. ASSUME NEW m PROVE Untouched(m)' <=> Untouched(m)
    BY <1>1 DEF Untouched
  <2>2. (Programmable <=> Programmable') /\ Arg' = Arg /\ (IsWrite <=> IsWrite') /\ Skip' = Skip
    BY <1>1, <1>3, FrameArg DEF Programmable
  <2>3. host.pc \in {"args", "file", "pdi"} => StageX = host.pc
    BY DEF StageX, Waiting
  <2>4. req.kind = "xmega" /\ ~host.blind => host.pc \notin {"args", "file", "pdi"}
    BY <1>15, <2>3
  <2>5. QED
    BY <1>1, <1>6, <1>11, <1>16, <2>2, <2>4 DEF DataInv, EraseInv
<1>18. WriteInv'
  <2>1. /\ (Programmable <=> Programmable') /\ Arg' = Arg /\ (IsWrite <=> IsWrite') /\ Skip' = Skip
        /\ (WritesOver <=> WritesOver') /\ (Programs <=> Programs') /\ Behind' = Behind
        /\ PageAt' = PageAt
    BY <1>1, <1>3, <1>11, FrameArg DEF Programmable, Programs, Behind, PageAt
  <2>2. QED
    BY <1>1, <1>2, <1>5, <1>6, <1>11, <1>16, <2>1 DEF DataInv, WriteInv
<1>19. XInv'
  BY <1>1, <1>2, <1>11, <1>15 DEF DataInv, XInv, StageX, Waiting
<1>20. VerifiedX2'
  BY <1>1, <1>5, <1>10 DEF VerifiedX2, StageX, Waiting
<1>21. DataInv'
  BY <1>8, <1>12, <1>13, <1>14, <1>17, <1>18, <1>19, <1>20 DEF DataInv
<1>22. Contract!Next
  <2>1. (Open <=> Open') /\ saved' = saved
    <3>1. Open <=> Open'  BY <1>1 DEF Open, BetweenJobs, BeforeJobs
    <3>2. saved' = saved
      BY <1>1, <1>3, <1>5, <1>9, <3>1, FrameArg DEF saved, SavedCells
    <3>3. QED  BY <3>1, <3>2
  <2>2. CASE Astray
    BY <1>5, <2>1, <2>2, TroubleIs DEF Contract!Next, Contract!Lost, trouble
  <2>3. CASE ~Astray
    <3>1. job.does \in {"erase", "write"} /\ \A a \in 1..N : dev.todo[a] \in TowardsJob(a)
      BY <1>1, <2>3 DEF DataInv, TowardsInv
    <3>2. Open \/ trouble # "none"
      <4>1. ~host.blind  BY <2>3 DEF Astray
      <4>2. CASE host.told  BY <4>2, TroubleIs
      <4>3. CASE ~host.told
        <5>1. \/ req.kind = "fpga" /\ host.pc \in {"clearing", "starting"}
              \/ req.kind = "xc95x" /\ host.pc \in {"erasing", "polling"}
              \/ req.kind = "xmega" /\ StageX \in {"erased", "load", "next"}
          BY <1>1, <4>1, <4>3 DEF DataInv, IdleInv
        <5>2. ~BetweenJobs
          BY <5>1 DEF BetweenJobs, BeforeJobs, StageX, Waiting
        <5>3. host.n > 0 \/ req.erase
          <6>1. host.n \in Nat  BY DEF HostOK, RequestOK
          <6>2. CASE req.kind = "xmega"
            BY <5>1, <6>1, <6>2 DEF XMegaOK
          <6>3. CASE req.kind # "xmega"
            BY <5>1, <6>1, <6>3 DEF StageOK, Worked, CpldOK
          <6>4. QED  BY <6>2, <6>3
        <5>4. QED  BY <5>2, <5>3 DEF Open
      <4>4. QED  BY <4>2, <4>3
    <3>3. DOMAIN dev.cells = 1..N  BY BlankIn
    <3>4. \A a \in DOMAIN dev.cells : dev'.cells[a] \in
            IF a - job.low \in 1..job.size THEN Contract!Towards(a) ELSE {dev.cells[a]}
      BY <1>2, <3>1, <3>3 DEF TowardsJob
    <3>5. Contract!Change
      BY <1>5, <2>1, <3>1, <3>2, <3>4 DEF Contract!Change
    <3>6. QED  BY <3>5 DEF Contract!Next
  <2>4. QED  BY <2>2, <2>3
<1>23. QED  BY <1>21, <1>22

(* Between two arguments the device rests, and the next job starts.        *)
LEMMA TakeStep ==
  ASSUME TypeInv, DataInv, host.pc = "args", NEW stage \in {"check", "file"}, TakeArg(stage)
  PROVE  /\ dev.busy => host.blind
         /\ host'.pc = stage /\ host'.n = host.n + 1 /\ host'.n > 0 /\ host'.blind = host.blind
         /\ host'.ret = 0 /\ UNCHANGED <<req, dev, N>>
         /\ IdleInv' /\ TowardsInv' /\ FirstIdle' /\ Contract!Next
<1>1. DOMAIN host = HostFields /\ host.n \in Nat  BY DEF TypeInv, HostOK, RequestOK
<1>2. /\ host'.pc = stage /\ host'.n = host.n + 1 /\ host'.blind = host.blind
      /\ host'.ret = 0 /\ UNCHANGED <<req, dev>>
  BY <1>1 DEF TakeArg, Tell, Go, HostFields
<1>3. dev.busy => host.blind
  BY DEF DataInv, IdleInv, StageX, Waiting
<1>4. IdleInv' /\ TowardsInv' /\ FirstIdle'
  BY <1>2, <1>3 DEF IdleInv, TowardsInv, FirstIdle, First, Astray
<1>5. host'.n > 0  BY <1>1, <1>2
<1>6. ~Open /\ Open'
  BY <1>2, <1>5 DEF Open, BetweenJobs, BeforeJobs
<1>7. Contract!Next  BY <1>2, <1>6, StartStep DEF Contract!Next
<1>8. QED  BY <1>2, <1>3, <1>4, <1>5, <1>7 DEF N

(* A step inside a job that leaves the device alone.                       *)
LEMMA InsideStep ==
  ASSUME TypeInv, DataInv, UNCHANGED <<req, disk, dev.cells, dev.todo, dev.busy>>, host'.n = host.n, host'.fp = host.fp,
         Open, host'.pc \notin First, Worsens,
         ~BetweenJobs' \/ trouble' # "none"
  PROVE  Frame /\ TowardsInv' /\ FirstIdle' /\ Contract!Next
<1>1. ~BeforeJobs /\ ~BeforeJobs'
  BY DEF Open, BetweenJobs, BeforeJobs, First
<1>2. Frame  BY <1>1 DEF Frame, N
<1>3. TowardsInv'  BY <1>2, TowardsStays DEF DataInv
<1>4. CASE ~BetweenJobs'
  <2>1. Open <=> Open'  BY <1>4 DEF Open
  <2>2. Contract!Next  BY <1>2, <2>1, NoteStep DEF Contract!Next
  <2>3. QED  BY <1>2, <1>3, <2>2 DEF FirstIdle
<1>5. CASE BetweenJobs'
  <2>1. Contract!Next  BY <1>2, <1>5, TellStep DEF Open
  <2>2. QED  BY <1>2, <1>3, <2>1 DEF FirstIdle
<1>6. QED  BY <1>4, <1>5

(* A step outside of any job that leaves the device alone.                 *)
LEMMA OutsideStep ==
  ASSUME TypeInv, DataInv, UNCHANGED <<req, disk, dev.cells>>, host'.n = host.n, host'.fp = host.fp,
         ~BeforeJobs, ~Open, ~BeforeJobs', ~Open'
  PROVE  Frame /\ Contract!Next
<1>1. Frame  BY DEF Frame, N
<1>2. QED  BY <1>1, NoteStep DEF Contract!Next

LEMMA WholeIs ==
  ASSUME NEW S, NEW s \in Seq(S)
  PROVE  SubSeq(s, 1, Len(s)) = s
OBVIOUS

(* The steps of an algorithm are those of one kind of device.              *)
LEMMA KindIs ==
  /\ FpgaNext => req.kind = "fpga" /\ UNCHANGED req
  /\ Next95 => req.kind = "xc95x" /\ UNCHANGED req
  /\ Next2C => req.kind = "xc2c" /\ UNCHANGED req
  /\ NextX => req.kind = "xmega" /\ UNCHANGED req
  /\ AvrNext => req.kind = "avr" /\ UNCHANGED req
<1>1. FpgaNext => req.kind = "fpga" /\ UNCHANGED req
  <2>1. FpgaNext => req.kind = "fpga"
    BY DEF FpgaNext, FpgaBegin, reconfig, FpgaOpen, FpgaReturn, FpgaSkip, FpgaRead, jprogram,
           WaitInit, FpgaLoad, FpgaPoll, FpgaProgrammed, AtFpga, Running
  <2>2. FpgaNext => UNCHANGED req
    BY DEF FpgaNext, FpgaBegin, reconfig, FpgaOpen, FpgaReturn, FpgaSkip, FpgaRead, jprogram,
           WaitInit, FpgaLoad, FpgaPoll, FpgaProgrammed, Quiet, TakeArg
  <2>3. QED  BY <2>1, <2>2
<1>2. Next95 => req.kind = "xc95x" /\ UNCHANGED req
  <2>1. Next95 => req.kind = "xc95x"
    BY DEF Next95, Begin95, Erase95, Erased95, Open95, Return95, Ignore95, File95, Program95,
           PollSector, SectorDone, SectorFailed, Programmed95, NoFuse95, Enable95, Verify95, Read95,
           TooMany95, Disable95, At95, Running
  <2>2. Next95 => UNCHANGED req
    BY DEF Next95, Begin95, Erase95, Erased95, Open95, Return95, Ignore95, File95, Program95,
           PollSector, SectorDone, SectorFailed, Programmed95, NoFuse95, Enable95, Verify95, Read95,
           Scan95, TooMany95, Disable95, Quiet, TakeArg
  <2>3. QED  BY <2>1, <2>2
<1>3. Next2C => req.kind = "xc2c" /\ UNCHANGED req
  <2>1. CASE Begin2C \/ Erase2C \/ BlankRow \/ IsBlank \/ NotBlank \/ Open2C \/ Return2C \/ TooMany2C
             \/ Ignore2C \/ JedFile2C \/ BitFile2C
    BY <2>1 DEF Begin2C, Erase2C, BlankRow, IsBlank, NotBlank, Open2C, Return2C, TooMany2C, Ignore2C,
                JedFile2C, BitFile2C, At2C, AtFile2C, Running, Quiet, NextRow, TakeArg
  <2>2. CASE Program2C \/ Programmed2C \/ StartVerify \/ StartRead \/ Verify2C \/ Verified2C
             \/ Mismatch2C \/ NoBit \/ DoneProgram \/ Read2C \/ Save2C
    BY <2>2 DEF Program2C, Programmed2C, StartVerify, StartRead, Verify2C, Verified2C, Mismatch2C,
                NoBit, DoneProgram, Read2C, Save2C, OpenRows, At2C, AtFile2C, Running, Quiet, NextRow
  <2>3. QED  BY <2>1, <2>2 DEF Next2C
<1>4. NextX => req.kind = "xmega" /\ UNCHANGED req
  <2>1. NextX => req.kind = "xmega"
    BY DEF NextX, wait_nvmbusy, wait_for_nvmen, PdiGood, PdiDelay, PdiFails, PdiWraps, BeginX, InitX,
           chip_erase, ErasedX, OpenX, DoneX, ReleaseX, SkipX, IgnoreX, StartReadX, StartVerifyX, SaveX,
           VerifiedX, FileX, EraseX, WrittenX, erase_buffer, load_buffer, write_page, NextPage, AtX,
           Running
  <2>2. NextX => UNCHANGED req
    BY DEF NextX, wait_nvmbusy, wait_for_nvmen, PdiGood, PdiDelay, PdiFails, PdiWraps, BeginX, InitX,
           chip_erase, ErasedX, OpenX, DoneX, ReleaseX, SkipX, IgnoreX, StartReadX, StartVerifyX, SaveX,
           VerifiedX, FileX, EraseX, WrittenX, erase_buffer, load_buffer, write_page, NextPage, Quiet,
           TakeArg
  <2>3. QED  BY <2>1, <2>2
<1>5. AvrNext => req.kind = "avr" /\ UNCHANGED req
  BY DEF AvrNext, UnknownAvr, EnterAvr, ShownAvr, OpenAvr, SrecFile, LeaveAvr, Quiet, ProgMode,
         AtAvr, Running
<1>6. QED  BY <1>1, <1>2, <1>3, <1>4, <1>5

(***************************************************************************)
(* The FPGA.                                                               *)
(***************************************************************************)
FpgaKeeps == FirstIdle /\ IdleInv /\ TowardsInv /\ FpgaInv

LEMMA FpgaStep ==
  ASSUME TypeInv, TypeInv', SavedInv, DataInv, FpgaNext, Worsens
  PROVE  FpgaKeeps' /\ Contract!Next
<1> USE DEF TypeInv
<1>1. req.kind = "fpga" /\ UNCHANGED req  BY KindIs
<1>2. DOMAIN host = HostFields /\ host.n \in Nat /\ DOMAIN dev = DeviceFields
  BY DEF HostOK, RequestOK, DeviceOK
<1>3. dev.busy /\ ~host.blind => host.pc \in {"clearing", "starting"}
  BY <1>1 DEF DataInv, IdleInv
<1>4. host.pc \in Worked => host.n > 0  BY DEF StageOK
<1>5. CASE FpgaBegin
  <2>1. /\ host.pc = "begin" /\ host'.pc \in {"reconfig", "args"} /\ UNCHANGED <<disk, dev>>
        /\ host'.n = host.n /\ host'.fp = host.fp /\ host'.blind = host.blind
    BY <1>2, <1>5 DEF FpgaBegin, AtFpga, Running, Go, HostFields, Quiet
  <2>2. host.n = 0 /\ ~dev.busy /\ ~host.blind
    BY <2>1 DEF StageOK, First, DataInv, FirstIdle
  <2>3. FpgaKeeps'
    BY <1>1, <2>1, <2>2 DEF FpgaKeeps, FirstIdle, IdleInv, TowardsInv, FpgaInv
  <2>4. Frame  BY <1>1, <2>1 DEF Frame, N, BeforeJobs
  <2>5. CASE Open <=> Open'
    <3>1. dev'.cells = dev.cells  BY <2>1
    <3>2. Contract!Note  BY <2>4, <2>5, <3>1, NoteStep
    <3>3. QED  BY <2>3, <3>2 DEF Contract!Next
  <2>6. CASE ~(Open <=> Open')
    <3>1. Open /\ ~Open' /\ host'.pc = "args" /\ req.erase
      BY <1>1, <2>1, <2>2, <2>6 DEF Open, BetweenJobs, BeforeJobs
    <3>2. Untold'  BY <1>1, <2>1, <2>2, <3>1 DEF Untold, BeforeJobs, IgnoredErase
    <3>3. trouble' # "none" /\ dev'.cells = dev.cells
      BY <2>1, <3>2, TroubleIs DEF trouble
    <3>4. QED  BY <2>3, <2>4, <3>1, <3>3, TellStep
  <2>7. QED  BY <2>3, <2>5, <2>6
<1>6. CASE reconfig
  <2>1. /\ host.pc = "reconfig" /\ host'.pc = "done" /\ UNCHANGED disk /\ dev'.cells = dev.cells
        /\ host'.n = host.n /\ host'.fp = host.fp
    BY <1>2, <1>6 DEF reconfig, AtFpga, Running, Tell, Exit, HostFields, Working, DeviceFields
  <2>2. IF Reconfigurable THEN host'.blind = TRUE ELSE host'.told = TRUE /\ UNCHANGED dev
    BY <1>2, <1>6 DEF reconfig, Tell, Exit, HostFields
  <2>3. host.n = 0 /\ ~dev.busy
    BY <2>1 DEF StageOK, First, DataInv, FirstIdle
  <2>4. dev'.busy => host'.blind  BY <2>2, <2>3
  <2>5. FpgaKeeps'
    BY <1>1, <2>1, <2>4 DEF FpgaKeeps, FirstIdle, First, IdleInv, TowardsInv, FpgaInv, Astray
  <2>6. trouble' # "none"  BY <2>2, TroubleIs DEF trouble, Astray
  <2>7. Frame /\ ~Open'  BY <1>1, <2>1 DEF Frame, N, BeforeJobs, Open, BetweenJobs
  <2>8. QED  BY <2>1, <2>5, <2>6, <2>7, TellStep
<1>7. CASE FpgaOpen
  <2>1. host.pc = "args" /\ TakeArg("check")
    BY <1>7 DEF FpgaOpen, AtFpga, Running
  <2>2. /\ host'.pc = "check" /\ IdleInv' /\ TowardsInv' /\ FirstIdle' /\ Contract!Next
    BY <2>1, TakeStep
  <2>3. QED  BY <2>2 DEF FpgaKeeps, FpgaInv
<1>8. CASE FpgaReturn
  <2>1. /\ host.pc = "args" /\ host'.pc = "done" /\ UNCHANGED <<disk, dev>>
        /\ host'.n = host.n /\ host'.fp = host.fp /\ host'.blind = host.blind
    BY <1>2, <1>8 DEF FpgaReturn, AtFpga, Running, Exit, HostFields, Quiet
  <2>2. Frame /\ ~Open /\ ~Open'  BY <1>1, <2>1 DEF Frame, N, BeforeJobs, Open, BetweenJobs
  <2>3. FpgaKeeps'
    BY <1>1, <1>3, <2>1 DEF FpgaKeeps, FirstIdle, First, IdleInv, TowardsInv, FpgaInv, Astray
  <2>4. QED  BY <2>1, <2>2, <2>3, NoteStep DEF Contract!Next
<1>9. CASE FpgaSkip
  <2>1. /\ host.pc = "check" /\ host'.pc = "args" /\ UNCHANGED <<disk, dev>> /\ Unsupported
        /\ host'.n = host.n /\ host'.fp = host.fp /\ host'.blind = host.blind
    BY <1>2, <1>9 DEF FpgaSkip, AtFpga, Running, Tell, Go, HostFields, Quiet
  <2>2. host.n > 0 /\ Open  BY <1>4, <2>1 DEF Worked, Open, BetweenJobs, BeforeJobs
  <2>3. Unsupported'  BY <1>1, <2>1, FrameArg DEF N
  <2>4. Untold'
    BY <1>1, <2>1, <2>2, <2>3 DEF Untold, BeforeJobs, IgnoredAction
  <2>5. trouble' # "none"  BY <2>4, TroubleIs DEF trouble
  <2>6. TowardsInv' /\ FirstIdle' /\ Contract!Next
    BY <1>1, <2>1, <2>2, <2>5, InsideStep DEF First
  <2>7. QED  BY <1>1, <1>3, <2>1, <2>6 DEF FpgaKeeps, IdleInv, FpgaInv
<1>10. CASE FpgaRead
  <2>1. host.pc = "check" /\ UNCHANGED <<disk, dev>> /\ ~Unsupported
    BY <1>10 DEF FpgaRead, AtFpga, Running, Quiet
  <2>2. PICK r \in readFile(Arg.style, File) :
          host' = IF r.res # 0 THEN Tell(Go("args"), TRUE)
                  ELSE [Go(IF req.device = "xc2s" THEN "load" ELSE "enable") EXCEPT !.bytes = r.bytes]
    BY <1>10 DEF FpgaRead
  <2>3. /\ host'.n = host.n /\ host'.fp = host.fp /\ host'.blind = host.blind
        /\ IF r.res # 0 THEN host'.pc = "args" /\ host'.told = TRUE
           ELSE host'.pc \in {"load", "enable"} /\ host'.bytes = r.bytes
    BY <1>2, <2>2 DEF Tell, Go, HostFields
  <2>4. host.n > 0 /\ Open  BY <1>4, <2>1 DEF Worked, Open, BetweenJobs, BeforeJobs
  <2>5. ~BetweenJobs' \/ trouble' # "none"
    <3>1. CASE r.res # 0  BY <2>3, <3>1, TroubleIs DEF trouble
    <3>2. CASE r.res = 0  BY <2>3, <3>2 DEF BetweenJobs, BeforeJobs
    <3>3. QED  BY <3>1, <3>2
  <2>6. Frame /\ TowardsInv' /\ FirstIdle' /\ Contract!Next
    BY <1>1, <2>1, <2>3, <2>4, <2>5, InsideStep DEF First
  <2>7. host'.pc \in {"load", "enable"} => ~Unsupported' /\ Loaded'
    <3>1. SUFFICES ASSUME r.res = 0, UsesFile, ~Misread
                   PROVE  ~Broken /\ host'.bytes = Image
      BY <1>1, <2>1, <2>3, <2>6, FrameArg DEF Loaded, Frame
    <3>2. ~FromFuses  BY <1>1 DEF FromFuses, TakesFuses
    <3>3. r.bytes = File.of  BY <2>2, <3>1, <3>2 DEF Misread
    <3>4. ~Broken  BY <2>2, <3>1, <3>2 DEF Broken
    <3>5. QED  BY <1>1, <2>3, <3>1, <3>3, <3>4 DEF Image
  <2>8. FpgaInv'
    <3>1. host'.pc \in {"load", "enable", "args"}  BY <2>3
    <3>2. QED  BY <2>7, <3>1 DEF FpgaInv
  <2>9. IdleInv'  BY <1>1, <1>3, <2>1, <2>3 DEF IdleInv
  <2>10. QED  BY <2>6, <2>8, <2>9 DEF FpgaKeeps
<1>11. CASE jprogram
  <2>1. /\ host.pc = "enable" /\ host'.pc = "clearing" /\ UNCHANGED disk
        /\ host'.n = host.n /\ host'.fp = host.fp /\ host'.bytes = host.bytes
        /\ host'.blind = host.blind
        /\ dev'.cells = dev.cells /\ dev'.todo = Blank
    BY <1>2, <1>11 DEF jprogram, AtFpga, Running, Go, HostFields, Working, DeviceFields
  <2>2. host.n > 0 /\ Open /\ Open'
    BY <1>4, <2>1 DEF Worked, Open, BetweenJobs, BeforeJobs
  <2>3. Frame  BY <1>1, <2>1 DEF Frame, N, BeforeJobs
  <2>4. Contract!Next  BY <2>1, <2>2, <2>3, NoteStep DEF Contract!Next
  <2>5. ~Unsupported /\ Loaded  BY <1>1, <2>1 DEF DataInv, FpgaInv
  <2>6. ~Unsupported' /\ Loaded'  BY <2>1, <2>3, <2>5, FrameArg DEF Loaded, Frame
  <2>7. TowardsInv'
    <3>1. SUFFICES ASSUME ~Astray'
                   PROVE  /\ job'.does \in {"erase", "write"}
                          /\ \A a \in 1..N' : dev'.todo[a] \in TowardsJob(a)'
      BY DEF TowardsInv
    <3>2. ~Misread' /\ UsesFile' /\ ~Broken' /\ IsWrite'
      BY <2>1, <2>2, <2>6, <3>1 DEF Loaded, Unsupported, IsWrite, UsesFile, Astray
    <3>3. job' = JobOther'
      BY <1>1, <2>1, <2>2 DEF job, BeforeJobs, OfXMega
    <3>4. job'.does = "write"
      BY <3>2, <3>3 DEF JobOther, Job, Asked, IsWrite
    <3>5. \A a \in 1..N : Blank[a] = Erased  BY BlankIn
    <3>7. job'.low = 0 /\ job'.size = N'  BY <3>3 DEF JobOther, Job
    <3>8. N' \in Nat /\ N' = N  BY <2>3, BlankIn DEF Frame
    <3>9. ASSUME NEW a \in 1..N'  PROVE dev'.todo[a] \in TowardsJob(a)'
      <4>1. a - job'.low \in 1..job'.size  BY <3>7, <3>8
      <4>2. dev'.todo[a] = Erased  BY <2>1, <3>5, <3>8
      <4>3. QED  BY <4>1, <4>2, ContractIs DEF TowardsJob, Contract!Towards
    <3>10. QED  BY <3>4, <3>9
  <2>8. QED
    BY <1>1, <2>1, <2>4, <2>6, <2>7 DEF FpgaKeeps, FirstIdle, First, IdleInv, FpgaInv
<1>12. CASE WaitInit
  <2>1. /\ host.pc = "clearing" /\ host'.pc = "load" /\ UNCHANGED <<disk, dev>> /\ ~dev.busy
        /\ host'.n = host.n /\ host'.fp = host.fp /\ host'.bytes = host.bytes
    BY <1>2, <1>12 DEF WaitInit, AtFpga, Running, Go, HostFields, Quiet
  <2>2. host.n > 0 /\ Open /\ ~BetweenJobs'
    BY <1>4, <2>1 DEF Worked, Open, BetweenJobs, BeforeJobs
  <2>3. Frame /\ TowardsInv' /\ FirstIdle' /\ Contract!Next
    BY <1>1, <2>1, <2>2, InsideStep DEF First
  <2>4. ~Unsupported' /\ Loaded'
    BY <1>1, <2>1, <2>3, FrameArg DEF Loaded, Frame, DataInv, FpgaInv
  <2>5. QED  BY <2>1, <2>3, <2>4 DEF FpgaKeeps, IdleInv, FpgaInv
<1>13. CASE FpgaLoad
  <2>1. PICK accepted \in {FALSE, Len(host.bytes) = N} :
          dev' = [Working(IF accepted THEN host.bytes ELSE Blank) EXCEPT !.isc = FALSE]
    BY <1>13 DEF FpgaLoad
  <2>2. /\ host.pc = "load" /\ UNCHANGED disk
        /\ host'.pc = IF req.device = "xc2s" THEN "args" ELSE "starting"
        /\ host'.n = host.n /\ host'.fp = host.fp /\ host'.bytes = host.bytes /\ host'.res = 0
        /\ IF req.device = "xc2s" THEN host'.blind = TRUE ELSE host'.blind <=> host.blind
    <3>1. /\ host.pc = "load" /\ UNCHANGED disk
          /\ host' = [Go(IF req.device = "xc2s" THEN "args" ELSE "starting")
                        EXCEPT !.polls = 0, !.res = 0, !.blind = @ \/ req.device = "xc2s"]
      BY <1>13 DEF FpgaLoad, AtFpga, Running
    <3>2. /\ host'.n = host.n /\ host'.fp = host.fp /\ host'.bytes = host.bytes /\ host'.res = 0
          /\ host'.blind = (host.blind \/ req.device = "xc2s")
      BY <1>2, <3>1 DEF Go, HostFields
    <3>3. host'.pc = IF req.device = "xc2s" THEN "args" ELSE "starting"
      BY <1>2, <3>1 DEF Go, HostFields
    <3>4. IF req.device = "xc2s" THEN host'.blind = TRUE ELSE host'.blind = (host.blind \/ FALSE)
      BY <3>2
    <3>5. QED  BY <3>1, <3>2, <3>3, <3>4
  <2>3. dev'.cells = dev.cells /\ dev'.busy = TRUE
        /\ (dev'.todo = Blank \/ (dev'.todo = host.bytes /\ Len(host.bytes) = N))
    BY <1>2, <2>1 DEF Working, DeviceFields
  <2>4. host.n > 0 /\ Open  BY <1>4, <2>2 DEF Worked, Open, BetweenJobs, BeforeJobs
  <2>5. Frame  BY <1>1, <2>2, <2>3 DEF Frame, N, BeforeJobs
  <2>6. ~Unsupported /\ Loaded  BY <1>1, <2>2 DEF DataInv, FpgaInv
  <2>7. ~Unsupported' /\ Loaded'  BY <2>2, <2>5, <2>6, FrameArg DEF Loaded, Frame
  <2>8. TowardsInv'
    <3>1. SUFFICES ASSUME ~Astray'
                   PROVE  /\ job'.does \in {"erase", "write"}
                          /\ \A a \in 1..N' : dev'.todo[a] \in TowardsJob(a)'
      BY DEF TowardsInv
    <3>2. /\ ~Misread' /\ UsesFile' /\ ~Broken' /\ IsWrite' /\ host'.bytes = Image'
      BY <2>2, <2>4, <2>7, <3>1 DEF Loaded, Unsupported, IsWrite, UsesFile, Astray
    <3>3. job' = JobOther'
      BY <1>1, <2>2, <2>4 DEF job, BeforeJobs, OfXMega
    <3>4. job'.does = "write"
      BY <3>2, <3>3 DEF JobOther, Job, Asked, IsWrite
    <3>5. job'.low = 0 /\ job'.size = N' /\ job'.from = 0 /\ job'.data = host'.bytes
      BY <1>1, <3>2, <3>3 DEF JobOther, Job, Image
    <3>6. \A a \in 1..N : Blank[a] = Erased  BY BlankIn
    <3>7. N' \in Nat /\ N' = N  BY <2>5, BlankIn DEF Frame
    <3>8. CASE dev'.todo = Blank
      <4>1. ASSUME NEW a \in 1..N'  PROVE dev'.todo[a] \in TowardsJob(a)'
        <5>1. a - job'.low \in 1..job'.size  BY <3>5, <3>7
        <5>2. dev'.todo[a] = Erased  BY <3>6, <3>7, <3>8
        <5>3. QED  BY <5>1, <5>2, ContractIs DEF TowardsJob, Contract!Towards
      <4>2. QED  BY <3>4, <4>1
    <3>9. CASE dev'.todo = host.bytes /\ Len(host.bytes) = N
      <4>1. DOMAIN host.bytes = 1..N  BY <3>9 DEF HostOK
      <4>2. QED
        BY <2>2, <3>4, <3>5, <3>7, <3>9, <4>1 DEF TowardsJob, Contract!Towards, Contract!Wanted
    <3>10. QED  BY <2>3, <3>8, <3>9
  <2>9. FirstIdle' /\ IdleInv' /\ FpgaInv'
    <3>1. FirstIdle' /\ IdleInv'  BY <1>1, <2>2 DEF FirstIdle, First, IdleInv
    <3>2. Blank' = Blank  BY <2>5 DEF Frame, Blank
    <3>3. FpgaInv'  BY <2>2, <2>3, <2>7, <3>2 DEF FpgaInv
    <3>4. QED  BY <3>1, <3>3
  <2>10. Contract!Next
    <3>1. CASE host'.pc = "starting"
      <4>1. Open'  BY <1>1, <2>2, <2>4, <3>1 DEF Open, BetweenJobs, BeforeJobs
      <4>2. QED  BY <2>3, <2>4, <2>5, <4>1, NoteStep DEF Contract!Next
    <3>2. CASE host'.pc = "args"
      <4>1. ~Open'  BY <3>2 DEF Open, BetweenJobs
      <4>2. trouble' # "none"  BY <2>2, <3>2, TroubleIs DEF trouble, Astray
      <4>3. QED  BY <2>3, <2>5, <4>1, <4>2, TellStep
    <3>3. QED  BY <2>2, <3>1, <3>2
  <2>11. QED  BY <2>8, <2>9, <2>10 DEF FpgaKeeps
<1>14. CASE FpgaPoll
  <2>1. /\ host.pc = "starting" /\ host'.pc = "starting" /\ UNCHANGED <<disk, dev>>
        /\ host'.n = host.n /\ host'.fp = host.fp /\ host'.bytes = host.bytes
        /\ host'.blind = host.blind /\ host'.res = IF IsUp THEN 1 ELSE 0
    BY <1>2, <1>14 DEF FpgaPoll, AtFpga, Running, HostFields, Quiet
  <2>2. host.n > 0 /\ Open /\ ~BetweenJobs'
    BY <1>4, <2>1 DEF Worked, Open, BetweenJobs, BeforeJobs
  <2>3. Frame /\ TowardsInv' /\ FirstIdle' /\ Contract!Next
    BY <1>1, <2>1, <2>2, InsideStep DEF First
  <2>4. ~Unsupported' /\ Loaded'
    BY <1>1, <2>1, <2>3, FrameArg DEF Loaded, Frame, DataInv, FpgaInv
  <2>5. FpgaInv'
    <3>1. Blank' = Blank  BY <2>3 DEF Frame, Blank
    <3>2. QED  BY <1>1, <2>1, <2>4, <3>1 DEF FpgaInv, DataInv, IsUp
  <2>6. IdleInv'  BY <1>1, <2>1 DEF IdleInv
  <2>7. QED  BY <2>3, <2>5, <2>6 DEF FpgaKeeps
<1>15. CASE FpgaProgrammed
  <2>1. /\ host.pc = "starting" /\ host'.pc = "args" /\ UNCHANGED <<disk, dev>> /\ ~StartingUp
        /\ host'.n = host.n /\ host'.fp = host.fp
        /\ host'.blind = (host.blind \/ dev.busy)
        /\ host'.told = (host.told \/ GaveUp)
    BY <1>2, <1>15 DEF FpgaProgrammed, AtFpga, Running, Tell, Go, HostFields, Quiet
  <2>2. host.n > 0 /\ Open /\ ~Open'
    BY <1>4, <2>1 DEF Worked, Open, BetweenJobs, BeforeJobs
  <2>3. Frame  BY <1>1, <2>1 DEF Frame, N, BeforeJobs
  <2>4. dev'.busy => host'.blind  BY <2>1
  <2>5. FpgaKeeps'
    BY <1>1, <2>1, <2>4 DEF FpgaKeeps, FirstIdle, First, IdleInv, TowardsInv, FpgaInv, Astray
  <2>6. CASE trouble' # "none"
    <3>1. dev'.cells = dev.cells  BY <2>1
    <3>2. Contract!Next  BY <2>2, <2>3, <2>6, <3>1, TellStep
    <3>3. QED  BY <2>5, <3>2
  <2>7. CASE trouble' = "none"
    <3>1. ~Astray' /\ ~host'.told  BY <2>7, TroubleIs DEF trouble
    <3>2. ~host.blind /\ ~dev.busy /\ ~GaveUp
      BY <2>1, <3>1 DEF Astray
    <3>3. host.res # 0
      <4>1. host.polls \in Nat /\ host.polls <= StartPolls  BY <1>1 DEF HostOK
      <4>2. host.polls < StartPolls
        BY <3>2, <4>1, StartPollsAssumption DEF GaveUp
      <4>3. QED  BY <2>1, <4>2 DEF StartingUp
    <3>4. ~Unsupported /\ Loaded /\ dev.cells # Blank /\ dev.cells \in {Blank, host.bytes}
      BY <1>1, <2>1, <3>2, <3>3 DEF DataInv, FpgaInv
    <3>5. ~Astray
      BY <1>1, <2>1, <2>3, <3>1, FrameJob DEF Astray, Wrong
    <3>6. ~Misread /\ UsesFile /\ IsWrite
      BY <2>2, <3>4, <3>5 DEF Astray, Unsupported, UsesFile, IsWrite
    <3>7. ~Broken /\ dev.cells = Image  BY <3>4, <3>6 DEF Loaded
    <3>8. job = JobOther  BY <1>1, <2>1, <2>2 DEF job, BeforeJobs, OfXMega
    <3>9. job.does = "write" /\ job.from = 0 /\ job.data = dev.cells
      BY <1>1, <3>6, <3>7, <3>8 DEF JobOther, Job, Asked, IsWrite, Image
    <3>10. Contract!Achieved(saved')
      <4>1. SubSeq(dev.cells, 1, Len(dev.cells)) = dev.cells  BY WholeIs DEF DeviceOK
      <4>2. Len(dev.cells) \in Nat  BY DEF DeviceOK
      <4>3. SubSeq(dev.cells, 0 + 1, 0 + Len(dev.cells)) = dev.cells  BY <4>1, <4>2
      <4>4. QED  BY <3>9, <4>3 DEF Contract!Achieved, Contract!Part
    <3>11. Contract!Finish
      BY <2>1, <2>2, <2>3, <3>10, FrameJob DEF Contract!Finish
    <3>12. QED  BY <2>5, <3>11 DEF Contract!Next
  <2>8. QED  BY <2>6, <2>7
<1>16. QED
  BY <1>5, <1>6, <1>7, <1>8, <1>9, <1>10, <1>11, <1>12, <1>13, <1>14, <1>15 DEF FpgaNext

(***************************************************************************)
(* The AVR: nothing happens to its memory.                                 *)
(***************************************************************************)
LEMMA AvrStep ==
  ASSUME TypeInv, TypeInv', SavedInv, DataInv, AvrNext
  PROVE  (FirstIdle /\ IdleInv /\ TowardsInv)' /\ req'.kind = "avr" /\ Contract!Next
<1> USE DEF TypeInv
<1>1. req.kind = "avr" /\ UNCHANGED <<req, disk>>
  <2>1. UNCHANGED disk
    BY DEF AvrNext, UnknownAvr, EnterAvr, ShownAvr, OpenAvr, SrecFile, LeaveAvr, Quiet, ProgMode
  <2>2. QED  BY <2>1, KindIs
<1>2. DOMAIN host = HostFields /\ host.n \in Nat /\ DOMAIN dev = DeviceFields
  BY DEF HostOK, RequestOK, DeviceOK
<1>3. dev.busy => host.blind  BY <1>1 DEF DataInv, IdleInv
<1>4. UNCHANGED <<dev.cells, dev.busy, N>>
  <2>1. UNCHANGED dev \/ dev' = [dev EXCEPT !.isc = TRUE] \/ dev' = [dev EXCEPT !.isc = FALSE]
    BY DEF AvrNext, UnknownAvr, EnterAvr, ShownAvr, OpenAvr, SrecFile, LeaveAvr, Quiet, ProgMode
  <2>2. QED  BY <1>2, <2>1 DEF DeviceFields, N
<1>5. host'.blind = host.blind /\ host'.pc \in {"done", "args", "leave", "srec"}
      /\ host'.fp = host.fp
  BY <1>2 DEF AvrNext, UnknownAvr, EnterAvr, ShownAvr, OpenAvr, SrecFile, LeaveAvr, Exit, Tell, Go,
              HostFields
<1>6. (FirstIdle /\ IdleInv /\ TowardsInv)'
  BY <1>3, <1>4, <1>5 DEF FirstIdle, First, IdleInv, TowardsInv, Astray
<1>7. ASSUME host'.n = host.n, ~BeforeJobs PROVE Frame
  BY <1>1, <1>4, <1>5, <1>7 DEF Frame, BeforeJobs
<1>8. Contract!Next
  <2>1. CASE UnknownAvr
    <3>1. host.pc = "begin" /\ host'.pc = "done" /\ host'.n = host.n /\ host'.told = TRUE
      BY <1>2, <2>1 DEF UnknownAvr, AtAvr, Running, Exit, Tell, HostFields
    <3>2. Frame /\ ~Open' /\ trouble' # "none"
      BY <1>7, <3>1, TroubleIs DEF BeforeJobs, Open, BetweenJobs, trouble
    <3>3. QED  BY <1>4, <3>2, TellStep
  <2>2. CASE EnterAvr
    <3>1. host.pc = "begin" /\ host'.pc = "args" /\ host'.n = host.n
      BY <1>2, <2>2 DEF EnterAvr, AtAvr, Running, Go, HostFields
    <3>2. Frame /\ ~Open' /\ host.n = 0
      BY <1>7, <3>1 DEF BeforeJobs, Open, BetweenJobs, StageOK, First
    <3>3. Open => Untold'
      BY <1>1, <3>1, <3>2 DEF Open, Untold, BeforeJobs, IgnoredErase
    <3>4. Open => trouble' # "none"  BY <3>3, TroubleIs DEF trouble
    <3>5. QED  BY <1>4, <3>2, <3>4, TellStep
  <2>3. CASE ShownAvr \/ LeaveAvr
    <3>1. host.pc \in {"args", "leave"} /\ host'.pc \in {"leave", "done"} /\ host'.n = host.n
      BY <1>2, <2>3 DEF ShownAvr, LeaveAvr, AtAvr, Running, Go, Exit, HostFields
    <3>2. Frame /\ ~Open /\ ~Open'
      BY <1>7, <3>1 DEF BeforeJobs, Open, BetweenJobs
    <3>3. QED  BY <1>4, <3>2, NoteStep DEF Contract!Next
  <2>4. CASE OpenAvr
    <3>1. host.pc = "args" /\ host'.pc = "srec" /\ host'.n = 1
      BY <1>2, <2>4 DEF OpenAvr, AtAvr, Running, Go, HostFields
    <3>2. ~Open /\ Open'  BY <3>1 DEF BeforeJobs, Open, BetweenJobs
    <3>3. QED  BY <1>4, <3>2, StartStep DEF Contract!Next
  <2>5. CASE SrecFile
    <3>1. host.pc = "srec" /\ host'.pc = "leave" /\ host'.n = host.n /\ host'.ret = 1
      BY <1>2, <2>5 DEF SrecFile, AtAvr, Running, Tell, Go, HostFields
    <3>2. Frame /\ ~Open' /\ trouble' # "none"
      BY <1>7, <3>1, TroubleIs DEF BeforeJobs, Open, BetweenJobs, trouble
    <3>3. QED  BY <1>4, <3>2, TellStep
  <2>6. QED  BY <2>1, <2>2, <2>3, <2>4, <2>5 DEF AvrNext
<1>9. QED  BY <1>1, <1>6, <1>8

(***************************************************************************)
(* The jobs of the CPLDs.                                                  *)
(***************************************************************************)
LEMMA CpldJob ==
  ASSUME req.kind \in {"xc95x", "xc2c"}, ~BeforeJobs, host.n > 0
  PROVE  /\ job.low = 0 /\ job.size = N /\ job.from = 0
         /\ Arg.action = "r" => job.does = "read"
         /\ UsesFile /\ ~Broken =>
              /\ job.does = IF Arg.action = "v" THEN "verify" ELSE "write"
              /\ job.data = IF req.kind = "xc2c" /\ Mapped THEN Image
                            ELSE SubSeq(Image, 1, Min({N, Len(Image)}))
<1>1. job = JobOther  BY DEF job, OfXMega
<1>2. Arg.action = "r" => Asked = "read"
  <2>1. Arg.action = "r" => ~UsesFile  BY DEF UsesFile
  <2>2. ~UsesFile => ~Broken  BY DEF Broken
  <2>3. QED  BY <2>1, <2>2 DEF Asked, IsWrite
<1>3. UsesFile /\ ~Broken => Asked = IF Arg.action = "v" THEN "verify" ELSE "write"
  BY DEF Asked, UsesFile, IsWrite
<1>4. UsesFile => job.data = IF req.kind = "xc2c" /\ Mapped THEN Image
                             ELSE SubSeq(Image, 1, Min({N, Len(Image)}))
  BY <1>1 DEF JobOther, Job, Image, Contents
<1>5. QED  BY <1>1, <1>2, <1>3, <1>4 DEF JobOther, Job

LEMMA ImageIn ==
  ASSUME TypeInv, host.n > 0
  PROVE  Image \in Seq(Byte) /\ (req.kind = "xc2c" /\ Mapped => Len(Image) = N)
<1>1. File.of \in Seq(Byte)
  <2>1. Missing.of \in Seq(Byte)  BY DEF Missing
  <2>2. File # Missing => File.of \in Seq(Byte)  BY FileIs DEF TypeInv
  <2>3. QED  BY <2>1, <2>2
<1>2. jedecfile2bitfile(File.of) \in Seq(Byte) /\ Len(jedecfile2bitfile(File.of)) = Len(FuseMap)
  BY <1>1, ToBits
<1>3. QED  BY <1>1, <1>2 DEF Image, TypeInv, RequestOK, Mapped

LEMMA SameSequence ==
  ASSUME NEW s \in Seq(Byte), NEW t \in Seq(Byte), Len(s) = Len(t),
         \A k \in 1..Len(s) : s[k] = t[k]
  PROVE  s = t
OBVIOUS

(* The end of a verify that found no difference.                           *)
LEMMA CpldVerified ==
  ASSUME TypeInv, req.kind \in {"xc95x", "xc2c"}, ~BeforeJobs, host.n > 0, UsesFile, ~Broken,
         Holds(Image)
  PROVE  Contract!Part(dev.cells, job.from, Len(job.data)) = job.data
<1>1. Image \in Seq(Byte) /\ dev.cells \in Seq(Byte) /\ N = Len(dev.cells) /\ N \in Nat /\ N > 0
  BY ImageIn, BlankIn DEF TypeInv, DeviceOK, N
<1>2. N \in 1..N /\ DOMAIN Image = 1..Len(Image)  BY <1>1
<1>3. N \in 1..Len(Image)  BY <1>2 DEF Holds
<1>4. N \in 0..Len(Image) /\ Min({N, Len(Image)}) = N
  BY <1>1, <1>3, MinOfTwo
<1>5. SubSeq(Image, 1, N) \in Seq(Byte) /\ Len(SubSeq(Image, 1, N)) = N
      /\ \A k \in 1..N : SubSeq(Image, 1, N)[k] = Image[k]
  BY <1>1, <1>4, Beginning
<1>6. SubSeq(Image, 1, N) = dev.cells
  <2> DEFINE s == SubSeq(Image, 1, N)
  <2>1. \A k \in 1..N : s[k] = dev.cells[k]  BY <1>5 DEF Holds
  <2>2. s \in Seq(Byte) /\ Len(s) = N  BY <1>5
  <2> HIDE DEF s
  <2>3. s = dev.cells  BY <1>1, <2>1, <2>2, SameSequence
  <2>4. QED  BY <2>3 DEF s
<1>7. job.data = dev.cells
  <2>1. CASE req.kind = "xc2c" /\ Mapped
    <3>1. SubSeq(Image, 1, Len(Image)) = Image  BY <1>1, WholeIs
    <3>2. QED  BY <1>6, <2>1, <3>1, CpldJob, ImageIn
  <2>2. CASE ~(req.kind = "xc2c" /\ Mapped)
    BY <1>4, <1>6, <2>2, CpldJob
  <2>3. QED  BY <2>1, <2>2
<1>8. SubSeq(dev.cells, 1, Len(dev.cells)) = dev.cells  BY <1>1, WholeIs
<1>9. job.from = 0 /\ SubSeq(dev.cells, 0 + 1, 0 + Len(dev.cells)) = dev.cells
  BY <1>1, <1>8, CpldJob
<1>10. QED  BY <1>7, <1>9 DEF Contract!Part

(***************************************************************************)
(* The XC9500XL.                                                           *)
(***************************************************************************)
Keeps95 == FirstIdle /\ IdleInv /\ TowardsInv /\ Inv95 /\ VerifiedCpld

(* VerifiedCpld where nothing ends, and where a job ended before.          *)
LEMMA VerifiedBefore ==
  ASSUME VerifiedCpld, host.pc \in {"args", "done"}, host'.pc \in {"args", "done"},
         host.exit = -1, Frame, UNCHANGED dev.cells, Worsens
  PROVE  VerifiedCpld'
<1>1. Astray => Astray'  BY FrameJob DEF Astray, Wrong, Worsens
<1>2. Holds(Image)' <=> Holds(Image)  BY FrameArg DEF Holds, Frame
<1>3. QED  BY <1>1, <1>2, FrameArg DEF VerifiedCpld, Ended, Frame

LEMMA Begin95Step ==
  ASSUME TypeInv, TypeInv', DataInv, Worsens, Begin95 \/ Erased95 \/ TooMany95 \/ Open95 \/ Return95
  PROVE  Keeps95' /\ Contract!Next
<1> USE DEF TypeInv
<1>1. req.kind = "xc95x" /\ UNCHANGED <<req, dev, N>> /\ DOMAIN host = HostFields /\ host.n \in Nat
  <2>1. UNCHANGED <<req, dev>>
    BY DEF Begin95, Erased95, TooMany95, Open95, Return95, Quiet, TakeArg
  <2>2. req.kind = "xc95x"
    BY DEF Begin95, Erased95, TooMany95, Open95, Return95, At95, Running
  <2>3. QED  BY <2>1, <2>2 DEF N, HostOK, RequestOK
<1>2. dev.busy /\ ~host.blind => host.pc \in {"erasing", "polling"}
  BY <1>1 DEF DataInv, IdleInv
<1>3. ~host.blind /\ host.pc \notin {"program", "done"} => dev.latch = Blank
  BY <1>1 DEF DataInv, Inv95
<1>4. Blank' = Blank  BY <1>1 DEF Blank
<1>5. CASE Begin95
  <2>1. /\ host.pc = "begin" /\ host'.pc = IF req.erase THEN "erase" ELSE "args"
        /\ UNCHANGED disk /\ host'.n = host.n /\ host'.fp = host.fp /\ host'.blind = host.blind
    BY <1>1, <1>5 DEF Begin95, At95, Running, Go, HostFields, Quiet
  <2>2. host.n = 0 /\ ~dev.busy /\ ~host.blind
    BY <2>1 DEF StageOK, First, DataInv, FirstIdle
  <2>3. Keeps95'
    BY <1>1, <1>3, <1>4, <2>1, <2>2
       DEF Keeps95, FirstIdle, First, IdleInv, TowardsInv, Inv95, VerifiedCpld
  <2>4. Frame /\ (Open <=> Open')
    BY <1>1, <2>1, <2>2 DEF Frame, BeforeJobs, Open, BetweenJobs
  <2>5. Contract!Next  BY <1>1, <2>4, NoteStep DEF Contract!Next
  <2>6. QED  BY <2>3, <2>5
<1>6. CASE Erased95
  <2>1. /\ host.pc = "erasing" /\ host'.pc = host.then /\ UNCHANGED disk
        /\ host'.n = host.n /\ host'.fp = host.fp /\ host'.i = host.i /\ host'.bytes = host.bytes
        /\ host'.blind = (host.blind \/ dev.busy)
    BY <1>1, <1>6 DEF Erased95, At95, Running, Tell, Go, HostFields, Quiet
  <2>2. \/ host.then = "args" /\ host.n = 0 /\ req.erase
        \/ host.then = "program" /\ host.n > 0 /\ host.i = 0
    BY <1>1, <2>1 DEF CpldOK
  <2>3. Open /\ host'.pc \notin First /\ host'.pc \in {"args", "program"}
    BY <1>1, <2>1, <2>2 DEF Open, BetweenJobs, BeforeJobs, First
  <2>4. ~BetweenJobs' \/ trouble' # "none"
    <3>1. CASE host.then = "args"
      <4>1. Untold'  BY <1>1, <2>1, <2>2, <3>1 DEF Untold, BeforeJobs, UncheckedErase
      <4>2. QED  BY <4>1, TroubleIs DEF trouble
    <3>2. CASE host.then = "program"
      BY <2>1, <3>2 DEF BetweenJobs, BeforeJobs
    <3>3. QED  BY <2>2, <3>1, <3>2
  <2>5. Frame /\ TowardsInv' /\ FirstIdle' /\ Contract!Next
    BY <1>1, <2>1, <2>3, <2>4, InsideStep
  <2>6. IdleInv'  BY <1>1, <2>1 DEF IdleInv
  <2>7. Inv95'
    <3>1. host'.n > 0 => Loaded'
      BY <1>1, <2>1, <2>5, FrameArg DEF Loaded, Frame, DataInv, Inv95
    <3>2. ~host'.blind => dev'.latch = Blank' /\ \A a \in 1..N' : dev'.latch[a] = Erased
      BY <1>1, <1>3, <1>4, <2>1, BlankIn
    <3>3. QED  BY <2>3, <3>1, <3>2 DEF Inv95
  <2>8. VerifiedCpld'
    BY <2>1, <2>2 DEF VerifiedCpld, Ended
  <2>9. QED  BY <2>5, <2>6, <2>7, <2>8 DEF Keeps95
<1>7. CASE TooMany95
  <2>1. /\ host.pc = "args" /\ host'.pc = "args" /\ UNCHANGED disk /\ host'.n = host.n + 1
        /\ host.n >= 2 /\ host'.blind = host.blind /\ host'.told = TRUE
    BY <1>1, <1>7 DEF TooMany95, At95, Running, Tell, HostFields, Quiet
  <2>2. dev.busy => host.blind  BY <1>2, <2>1
  <2>3. host'.n > 2  BY <1>1, <2>1
  <2>4. Keeps95'
    <3>1. FirstIdle' /\ IdleInv' /\ TowardsInv'
      BY <1>1, <2>1, <2>2 DEF FirstIdle, First, IdleInv, TowardsInv, Astray
    <3>2. Inv95'  BY <1>3, <1>4, <1>1, <2>1 DEF Inv95
    <3>3. VerifiedCpld'  BY <2>3 DEF VerifiedCpld
    <3>4. QED  BY <3>1, <3>2, <3>3 DEF Keeps95
  <2>5. ~Open /\ ~Open' /\ trouble' # "none" /\ saved' = <<>>
    BY <1>1, <2>1, <2>3, TroubleIs DEF Open, BetweenJobs, trouble, saved, TooMany
  <2>6. Contract!Next  BY <1>1, <2>5 DEF Contract!Next, Contract!Refuse
  <2>7. QED  BY <2>4, <2>6
<1>8. CASE Open95
  <2>1. host.pc = "args" /\ TakeArg("file")
    BY <1>8 DEF Open95, At95, Running
  <2>2. /\ host'.pc = "file" /\ IdleInv' /\ TowardsInv' /\ FirstIdle' /\ Contract!Next
        /\ host'.blind = host.blind
    BY <2>1, TakeStep
  <2>3. host'.n <= 2
    <3>1. host.n < 2 /\ host'.n = host.n + 1
      BY <1>1, <1>8 DEF Open95, TakeArg, Tell, Go, HostFields
    <3>2. QED  BY <1>1, <3>1
  <2>5. Inv95' /\ VerifiedCpld'
    BY <1>1, <1>3, <1>4, <2>1, <2>2, <2>3 DEF Inv95, VerifiedCpld, Ended
  <2>6. QED  BY <2>2, <2>5 DEF Keeps95
<1>9. CASE Return95
  <2>1. /\ host.pc = "args" /\ host'.pc = "done" /\ UNCHANGED disk
        /\ host'.n = host.n /\ host'.fp = host.fp /\ host'.blind = host.blind
    BY <1>1, <1>9 DEF Return95, At95, Running, Exit, HostFields, Quiet
  <2>2. Frame /\ ~Open /\ ~Open'  BY <1>1, <2>1 DEF Frame, BeforeJobs, Open, BetweenJobs
  <2>3. FirstIdle' /\ IdleInv' /\ TowardsInv' /\ Inv95'
    BY <1>1, <1>2, <2>1 DEF FirstIdle, First, IdleInv, TowardsInv, Inv95, Astray
  <2>4. host.exit = -1  BY <2>1 DEF HostOK, Finished
  <2>5. VerifiedCpld'  BY <1>1, <2>1, <2>2, <2>4, VerifiedBefore DEF DataInv
  <2>6. Contract!Next  BY <1>1, <2>2, NoteStep DEF Contract!Next
  <2>7. QED  BY <2>3, <2>5, <2>6 DEF Keeps95
<1>10. QED  BY <1>5, <1>6, <1>7, <1>8, <1>9

LEMMA Work95Step ==
  ASSUME TypeInv, TypeInv', DataInv, Worsens, Erase95 \/ Ignore95 \/ File95 \/ Program95
  PROVE  Keeps95' /\ Contract!Next
<1> USE DEF TypeInv
<1>1. req.kind = "xc95x" /\ UNCHANGED <<req, disk>> /\ DOMAIN host = HostFields
      /\ DOMAIN dev = DeviceFields /\ host.n \in Nat
  <2>1. UNCHANGED <<req, disk>>
    BY DEF Erase95, Ignore95, File95, Program95, Quiet
  <2>2. req.kind = "xc95x"
    BY DEF Erase95, Ignore95, File95, Program95, At95, Running
  <2>3. QED  BY <2>1, <2>2 DEF HostOK, RequestOK, DeviceOK
<1>2. dev.busy /\ ~host.blind => host.pc \in {"erasing", "polling"}
  BY <1>1 DEF DataInv, IdleInv
<1>3. ~host.blind /\ host.pc \notin {"program", "done"} => dev.latch = Blank
  BY <1>1 DEF DataInv, Inv95
<1>4. N \in Nat /\ DOMAIN dev.cells = 1..N /\ DOMAIN dev.latch = 1..N
      /\ \A a \in 1..N : Blank[a] = Erased
  BY BlankIn
<1>5. CASE Erase95
  <2>1. /\ host.pc = "erase" /\ host'.pc = "erasing"
        /\ host'.n = host.n /\ host'.fp = host.fp /\ host'.blind = host.blind
        /\ host'.bytes = host.bytes
    BY <1>1, <1>5 DEF Erase95, At95, Running, Go, HostFields
  <2>2. PICK cells \in {Blank, dev.cells} :
          dev' = [(IF dev.busy THEN dev ELSE Working(cells)) EXCEPT !.isc = TRUE]
    BY <1>5 DEF Erase95
  <2>3. /\ dev'.cells = dev.cells /\ dev'.latch = dev.latch
        /\ ~dev.busy => dev'.todo = cells
    BY <1>1, <2>2 DEF Working, DeviceFields
  <2>4. \/ host.n = 0 /\ req.erase
        \/ host.n > 0 /\ Arg.action = "w"
    BY <1>1, <2>1 DEF CpldOK
  <2>5. Open /\ Open'
    BY <1>1, <2>1, <2>4 DEF Open, BetweenJobs, BeforeJobs
  <2>6. Frame  BY <1>1, <2>1, <2>3 DEF Frame, N, BeforeJobs
  <2>7. Contract!Next  BY <2>3, <2>5, <2>6, NoteStep DEF Contract!Next
  <2>8. host.n > 0 => Loaded /\ Loaded'
    BY <1>1, <2>1, <2>6, FrameArg DEF Loaded, Frame, DataInv, Inv95
  <2>9. TowardsInv'
    <3>1. SUFFICES ASSUME ~Astray'
                   PROVE  /\ job'.does \in {"erase", "write"}
                          /\ \A a \in 1..N' : dev'.todo[a] \in TowardsJob(a)'
      BY DEF TowardsInv
    <3>2. ~Astray  BY <2>1, <2>6, <3>1, FrameJob DEF Astray, Wrong
    <3>3. dev'.todo \in {Blank, dev.cells}
      BY <1>2, <2>1, <2>3, <3>2 DEF Astray
    <3>4. /\ job.does \in {"erase", "write"} /\ job.low = 0 /\ job.size = N
      <4>1. CASE host.n = 0
        BY <2>1, <2>4, <4>1 DEF job, BeforeJobs, Job
      <4>2. CASE host.n > 0
        <5>1. UsesFile /\ ~Misread  BY <2>4, <3>2, <4>2 DEF UsesFile, Astray
        <5>2. ~Broken  BY <2>8, <4>2, <5>1 DEF Loaded
        <5>3. ~BeforeJobs  BY <2>1 DEF BeforeJobs
        <5>4. QED  BY <1>1, <2>4, <4>2, <5>1, <5>2, <5>3, CpldJob
      <4>3. QED  BY <1>1, <4>1, <4>2
    <3>5. ASSUME NEW a \in 1..N'  PROVE dev'.todo[a] \in TowardsJob(a)'
      <4>1. a \in 1..N /\ N' = N /\ job' = job  BY <2>6, FrameJob DEF Frame
      <4>2. a - job'.low \in 1..job'.size  BY <1>4, <3>4, <4>1
      <4>3. dev'.todo[a] \in {dev'.cells[a], Erased}
        BY <1>4, <2>3, <3>3, <4>1
      <4>4. QED  BY <4>2, <4>3, ContractIs DEF TowardsJob, Contract!Towards
    <3>6. QED  BY <2>6, <3>4, <3>5, FrameJob
  <2>10. Blank' = Blank  BY <2>6 DEF Blank, Frame
  <2>11. FirstIdle' /\ IdleInv' /\ Inv95' /\ VerifiedCpld'
    <3>1. FirstIdle' /\ IdleInv' /\ VerifiedCpld'
      BY <1>1, <2>1 DEF FirstIdle, First, IdleInv, VerifiedCpld, Ended
    <3>2. Inv95'  BY <1>3, <2>1, <2>3, <2>8, <2>10 DEF Inv95
    <3>3. QED  BY <3>1, <3>2
  <2>12. QED  BY <2>7, <2>9, <2>11 DEF Keeps95
<1>6. CASE Ignore95
  <2>1. /\ host.pc = "file" /\ host'.pc = "args" /\ UNCHANGED dev
        /\ host'.n = host.n /\ host'.fp = host.fp /\ host'.blind = host.blind
        /\ Arg.action \notin {"r", "v", "w", "W"}
    BY <1>1, <1>6 DEF Ignore95, At95, Running, Go, HostFields, Quiet
  <2>2. host.n > 0 /\ Open
    BY <2>1 DEF StageOK, Worked, Open, BetweenJobs, BeforeJobs
  <2>3. Arg' = Arg  BY <1>1, <2>1 DEF Arg
  <2>4. Untold'
    BY <1>1, <2>1, <2>2, <2>3 DEF Untold, BeforeJobs, IgnoredAction
  <2>5. trouble' # "none"  BY <2>4, TroubleIs DEF trouble
  <2>6. Frame /\ TowardsInv' /\ FirstIdle' /\ Contract!Next
    BY <1>1, <2>1, <2>2, <2>5, InsideStep DEF First
  <2>7. IdleInv' /\ VerifiedCpld'
    BY <1>1, <1>2, <2>1, <2>3 DEF IdleInv, VerifiedCpld, UsesFile
  <2>8. Inv95'
    <3>1. Blank' = Blank  BY <2>6 DEF Blank, Frame
    <3>2. QED  BY <1>3, <2>1, <3>1 DEF Inv95
  <2>9. QED  BY <2>6, <2>7, <2>8 DEF Keeps95
<1>7. CASE File95
  <2>1. /\ host.pc = "file" /\ UNCHANGED dev /\ UsesFile
    BY <1>7 DEF File95, At95, Running, Quiet, UsesFile
  <2>2. PICK jed \in readJed(File) :
          host' = IF jed.res = Thrown THEN Throw
                  ELSE [Go(AfterFile) EXCEPT !.bytes = jed.fuses, !.then = "program"]
    BY <1>7 DEF File95
  <2>3. /\ host'.n = host.n /\ host'.fp = host.fp /\ host'.blind = host.blind /\ host'.i = host.i
        /\ IF jed.res = Thrown THEN host'.pc = "done" /\ host'.exit = Thrown
           ELSE host'.pc = AfterFile /\ host'.bytes = jed.fuses
    BY <1>1, <2>2 DEF Throw, Exit, Go, HostFields
  <2>4. host.n > 0 /\ Open /\ host.i = 0
    BY <2>1 DEF StageOK, Worked, Open, BetweenJobs, BeforeJobs, CpldOK
  <2>5. AfterFile \in {"erase", "program", "enable"}  BY DEF AfterFile
  <2>6. ~BetweenJobs' \/ trouble' # "none"
    <3>1. CASE jed.res = Thrown  BY <2>3, <3>1, TroubleIs DEF trouble, Thrown
    <3>2. CASE jed.res # Thrown  BY <2>3, <2>5, <3>2 DEF BetweenJobs, BeforeJobs
    <3>3. QED  BY <3>1, <3>2
  <2>7. host'.pc \notin First /\ host'.pc \in {"erase", "program", "enable", "done"}
    BY <2>3, <2>5 DEF First
  <2>8. Frame /\ TowardsInv' /\ FirstIdle' /\ Contract!Next
    BY <1>1, <2>1, <2>3, <2>4, <2>6, <2>7, InsideStep
  <2>9. host'.pc # "done" => Loaded'
    <3>1. SUFFICES ASSUME jed.res # Thrown, ~Misread
                   PROVE  ~Broken /\ host'.bytes = Image
      BY <2>3, <2>8, FrameArg DEF Loaded, Frame
    <3>2. FromFuses  BY <1>1 DEF FromFuses, TakesFuses
    <3>3. jed.res = 0 /\ jed.fuses = File.of  BY <2>1, <2>2, <3>1, <3>2 DEF Misread
    <3>4. ~Broken  BY <2>2, <3>2, <3>3 DEF Broken
    <3>5. QED  BY <1>1, <2>3, <3>1, <3>3, <3>4 DEF Image
  <2>10. Inv95'
    <3>1. ~host'.blind => dev'.latch = Blank' /\ \A a \in 1..N' : dev'.latch[a] = Erased
      BY <1>3, <1>4, <2>1, <2>3, <2>8 DEF Blank, Frame
    <3>2. QED  BY <2>7, <2>9, <3>1 DEF Inv95
  <2>11. VerifiedCpld'
    <3>1. CASE jed.res = Thrown
      <4>1. host'.exit = 134  BY <2>3, <3>1 DEF Thrown
      <4>2. QED  BY <4>1 DEF VerifiedCpld, Ended
    <3>2. CASE jed.res # Thrown
      <4>1. host'.pc \notin {"args", "done"}  BY <2>3, <2>5, <3>2
      <4>2. QED  BY <4>1 DEF VerifiedCpld, Ended
    <3>3. QED  BY <3>1, <3>2
  <2>12. IdleInv'  BY <1>1, <1>2, <2>1, <2>3 DEF IdleInv
  <2>13. QED  BY <2>8, <2>10, <2>11, <2>12 DEF Keeps95
<1>8. CASE Program95
  <2>1. /\ host.pc = "program" /\ host'.pc \in {"program", "polling"} /\ host.i < N /\ ~NoFuse
        /\ host'.n = host.n /\ host'.fp = host.fp /\ host'.blind = host.blind
        /\ host'.bytes = host.bytes
        /\ IF LastOfSector THEN host'.pc = "polling" ELSE host'.pc = "program" /\ host'.i = host.i + 1
    BY <1>1, <1>8 DEF Program95, At95, Running, Go, HostFields
  <2>2. host.n > 0 /\ Open /\ Open' /\ IsWrite /\ host.i \in Nat
    BY <1>1, <2>1 DEF StageOK, Worked, Open, BetweenJobs, BeforeJobs, CpldOK, HostOK
  <2>3. host.i + 1 \in 1..N /\ host.i + 1 \in DOMAIN host.bytes
    <3>1. host.bytes \in Seq(Byte)  BY DEF HostOK
    <3>2. Len(host.bytes) \in Nat /\ DOMAIN host.bytes = 1..Len(host.bytes)  BY <3>1
    <3>3. host.i + 1 <= Len(host.bytes)  BY <2>1, <2>2, <3>2 DEF NoFuse
    <3>4. QED  BY <1>4, <2>1, <2>2, <3>2, <3>3
  <2>4. IF Ready
        THEN IF LastOfSector
             THEN dev' = [Working(Burnt(dev.cells, Latched, 0)) EXCEPT !.latch = Blank]
             ELSE dev' = [dev EXCEPT !.latch = Latched]
        ELSE dev' = dev
    BY <1>8 DEF Program95, Command
  <2>5. dev'.cells = dev.cells /\ dev'.isc = dev.isc
    BY <1>1, <2>4 DEF Working, DeviceFields
  <2>6. Frame  BY <1>1, <2>1, <2>5 DEF Frame, N, BeforeJobs
  <2>7. Contract!Next  BY <2>2, <2>5, <2>6, NoteStep DEF Contract!Next
  <2>8. Loaded /\ Loaded'
    BY <1>1, <2>1, <2>2, <2>6, FrameArg DEF Loaded, Frame, DataInv, Inv95
  <2>9. Blank' = Blank /\ N' = N  BY <2>6 DEF Blank, Frame
  <2>10. ASSUME ~host.blind
         PROVE  /\ \A a \in 1..N : \/ Latched[a] = Erased
                                   \/ a \in DOMAIN host.bytes /\ Latched[a] = host.bytes[a]
                /\ ~dev.isc => dev.latch = Blank
                /\ ~dev.busy
    <3>1. \A a \in 1..N : \/ dev.latch[a] = Erased
                          \/ a \in DOMAIN host.bytes /\ dev.latch[a] = host.bytes[a]
      BY <1>1, <2>1, <2>10 DEF DataInv, Inv95
    <3>2. ~dev.isc => dev.latch = Blank
      BY <1>1, <2>1, <2>10 DEF DataInv, Inv95
    <3>3. \A a \in 1..N : Latched[a] = IF a = host.i + 1 THEN host.bytes[a] ELSE dev.latch[a]
      BY <1>4 DEF Latched
    <3>4. \A a \in 1..N : \/ Latched[a] = Erased
                          \/ a \in DOMAIN host.bytes /\ Latched[a] = host.bytes[a]
      BY <2>3, <3>1, <3>3
    <3>5. ~dev.busy  BY <1>2, <2>1, <2>10
    <3>6. QED  BY <3>2, <3>4, <3>5
  <2>11. TowardsInv'
    <3>1. SUFFICES ASSUME ~Astray', dev'.busy
                   PROVE  /\ job'.does \in {"erase", "write"}
                          /\ \A a \in 1..N' : dev'.todo[a] \in TowardsJob(a)'
      BY DEF TowardsInv
    <3>2. ~Astray /\ ~host.blind  BY <2>1, <2>6, <3>1, FrameJob DEF Astray, Wrong
    <3>3. ~dev.busy  BY <2>10, <3>2
    <3>4. dev'.todo = Burnt(dev.cells, Latched, 0)
      BY <1>1, <2>4, <3>1, <3>3 DEF Working, DeviceFields
    <3>5. UsesFile /\ ~Misread  BY <2>2, <3>2 DEF UsesFile, IsWrite, Astray
    <3>6. ~Broken /\ host.bytes = Image  BY <2>8, <3>5 DEF Loaded
    <3>7. ~BeforeJobs  BY <2>1 DEF BeforeJobs
    <3>8. /\ job.does \in {"erase", "write"} /\ job.low = 0 /\ job.size = N /\ job.from = 0
          /\ job.data = SubSeq(host.bytes, 1, Min({N, Len(host.bytes)}))
      <4>1. Arg.action # "v" /\ req.kind # "xc2c"  BY <1>1, <2>2 DEF IsWrite
      <4>2. QED  BY <1>1, <2>2, <3>5, <3>6, <3>7, <4>1, CpldJob
    <3>9. ASSUME NEW a \in 1..N'  PROVE dev'.todo[a] \in TowardsJob(a)'
      <4>1. a \in 1..N /\ job' = job  BY <2>6, <2>9, FrameJob
      <4>2. a - job'.low \in 1..job'.size  BY <1>4, <3>8, <4>1
      <4>3. dev'.todo[a] = Burn(dev.cells[a], Latched[a])
        <5>1. DOMAIN Latched = 1..N  BY <1>4 DEF Latched
        <5>2. a - 0 = a  BY <4>1
        <5>3. QED  BY <1>4, <3>4, <4>1, <5>1, <5>2 DEF Burnt
      <4>4. dev.cells[a] \in Byte  BY <1>4, <4>1 DEF DeviceOK
      <4>5. CASE Latched[a] = Erased
        <5>1. Erased \in Byte  BY DEF Erased, Byte
        <5>2. dev'.todo[a] = dev'.cells[a]  BY <2>5, <4>3, <4>4, <4>5, <5>1, BurnIs
        <5>3. QED  BY <4>2, <5>2, ContractIs DEF TowardsJob, Contract!Towards
      <4>6. CASE a \in DOMAIN host.bytes /\ Latched[a] = host.bytes[a]
        <5>1. host.bytes \in Seq(Byte) /\ Len(host.bytes) \in Nat /\ a \in 1..Len(host.bytes)
          <6>1. host.bytes \in Seq(Byte)  BY DEF HostOK
          <6>2. Len(host.bytes) \in Nat /\ DOMAIN host.bytes = 1..Len(host.bytes)  BY <6>1
          <6>3. QED  BY <4>6, <6>1, <6>2
        <5>2. Min({N, Len(host.bytes)}) \in 0..Len(host.bytes)
              /\ a \in 1..Min({N, Len(host.bytes)})
          BY <1>4, <4>1, <5>1, MinOfTwo
        <5>3. a \in DOMAIN job.data /\ job.data[a] = host.bytes[a]
          BY <3>8, <5>1, <5>2, Beginning
        <5>4. a - job'.from = a  BY <3>8, <4>1
        <5>5. dev'.todo[a] = Burn(dev'.cells[a], job'.data[a]) /\ a \in DOMAIN job'.data
          BY <2>5, <4>1, <4>3, <4>6, <5>3
        <5>6. QED
          BY <4>2, <5>4, <5>5, ContractIs DEF TowardsJob, Contract!Towards, Contract!Wanted
      <4>7. QED  BY <2>10, <3>2, <4>1, <4>5, <4>6
    <3>10. QED  BY <2>6, <3>8, <3>9, FrameJob
  <2>12. Inv95'
    <3>1. ASSUME ~host.blind, LastOfSector PROVE dev'.latch = Blank
      BY <1>1, <2>4, <2>10, <3>1 DEF Working, DeviceFields, Ready
    <3>2. ASSUME ~host.blind, ~LastOfSector
          PROVE  /\ \A a \in 1..N : \/ dev'.latch[a] = Erased
                                    \/ a \in DOMAIN host.bytes /\ dev'.latch[a] = host.bytes[a]
                 /\ host'.i % SectorWords # 0
                 /\ ~dev'.isc => dev'.latch = Blank
      <4>1. host'.i % SectorWords # 0  BY <2>1, <3>2 DEF LastOfSector
      <4>2. CASE Ready
        <5>1. dev'.latch = Latched /\ dev'.isc  BY <1>1, <2>4, <2>5, <3>2, <4>2 DEF DeviceFields, Ready
        <5>2. QED  BY <2>10, <3>2, <4>1, <5>1
      <4>3. CASE ~Ready
        <5>1. dev' = dev /\ dev.latch = Blank
          BY <2>4, <2>10, <3>2, <4>3 DEF Ready
        <5>2. QED  BY <1>4, <4>1, <5>1
      <4>4. QED  BY <4>2, <4>3
    <3>3. QED  BY <2>1, <2>8, <2>9, <3>1, <3>2 DEF Inv95
  <2>13. FirstIdle' /\ VerifiedCpld'
    BY <2>1 DEF FirstIdle, First, VerifiedCpld, Ended
  <2>14. IdleInv'
    <3>1. CASE LastOfSector  BY <1>1, <2>1, <3>1 DEF IdleInv
    <3>2. CASE ~LastOfSector
      <4>1. dev'.busy = dev.busy  BY <1>1, <2>4, <3>2 DEF DeviceFields
      <4>2. QED  BY <1>1, <1>2, <2>1, <4>1 DEF IdleInv
    <3>3. QED  BY <3>1, <3>2
  <2>15. QED  BY <2>7, <2>11, <2>12, <2>13, <2>14 DEF Keeps95
<1>9. QED  BY <1>5, <1>6, <1>7, <1>8

LEMMA Poll95Step ==
  ASSUME TypeInv, TypeInv', DataInv, Worsens,
         PollSector \/ SectorDone \/ SectorFailed \/ Programmed95 \/ NoFuse95
  PROVE  Keeps95' /\ Contract!Next
<1> USE DEF TypeInv
<1>1. /\ req.kind = "xc95x" /\ UNCHANGED <<req, disk, dev, N>> /\ DOMAIN host = HostFields
      /\ host.pc \in {"program", "polling"}
  <2>1. UNCHANGED <<req, disk, dev>>
    BY DEF PollSector, SectorDone, SectorFailed, Programmed95, NoFuse95, Quiet
  <2>2. req.kind = "xc95x" /\ host.pc \in {"program", "polling"}
    BY DEF PollSector, SectorDone, SectorFailed, Programmed95, NoFuse95, At95, Running
  <2>3. QED  BY <2>1, <2>2 DEF HostOK, N
<1>2. dev.busy /\ ~host.blind => host.pc \in {"erasing", "polling"}
  BY <1>1 DEF DataInv, IdleInv
<1>3. ~host.blind /\ host.pc \notin {"program", "done"} => dev.latch = Blank
  BY <1>1 DEF DataInv, Inv95
<1>4. Blank' = Blank /\ \A a \in 1..N : Blank[a] = Erased
  BY <1>1, BlankIn DEF Blank
<1>5. host.n > 0 /\ Open
  BY <1>1 DEF StageOK, Worked, Open, BetweenJobs, BeforeJobs
<1>6. /\ host'.n = host.n /\ host'.fp = host.fp /\ host'.bytes = host.bytes
      /\ (host'.blind => host.blind \/ dev.busy)
      /\ host'.pc \in {"program", "polling", "enable", "done"}
  <2>1. CASE PollSector  BY <1>1, <2>1 DEF PollSector, HostFields
  <2>2. CASE SectorDone  BY <1>1, <2>2 DEF SectorDone, Go, HostFields
  <2>3. CASE SectorFailed  BY <1>1, <2>3 DEF SectorFailed, Tell, Go, HostFields
  <2>4. CASE Programmed95  BY <1>1, <2>4 DEF Programmed95, Go, HostFields
  <2>5. CASE NoFuse95  BY <1>1, <2>5 DEF NoFuse95, Throw, Exit, HostFields
  <2>6. QED  BY <2>1, <2>2, <2>3, <2>4, <2>5
<1>7. /\ host'.pc = "polling" => host.pc = "polling"
      /\ host'.pc = "program" => host.pc = "polling" /\ ~dev.busy
      /\ host'.pc = "enable" => /\ host.pc = "program" => host.i % SectorWords = 0
                                /\ dev.busy => host'.blind
      /\ host'.pc = "done" => host'.exit = Thrown /\ host.pc = "program"
  <2>1. CASE PollSector
    BY <1>1, <2>1 DEF PollSector, HostFields, At95, Running
  <2>2. CASE SectorDone
    BY <1>1, <2>2 DEF SectorDone, Go, HostFields, At95, Running, Ready
  <2>3. CASE SectorFailed
    BY <1>1, <2>3 DEF SectorFailed, Tell, Go, HostFields, At95, Running
  <2>4. CASE Programmed95
    <3>1. host.pc = "program" /\ host.i = N /\ host'.pc = "enable" /\ host'.blind = host.blind
      BY <1>1, <2>4 DEF Programmed95, Go, HostFields, At95, Running
    <3>2. host.i % SectorWords = 0  BY <1>1, <3>1 DEF RequestOK
    <3>3. QED  BY <1>2, <3>1, <3>2
  <2>5. CASE NoFuse95
    BY <1>1, <2>5 DEF NoFuse95, Throw, Exit, HostFields, At95, Running
  <2>6. QED  BY <2>1, <2>2, <2>3, <2>4, <2>5
<1>8. ~BetweenJobs' \/ trouble' # "none"
  <2>1. CASE host'.pc = "done"
    <3>1. host'.exit = 134  BY <1>7, <2>1 DEF Thrown
    <3>2. QED  BY <3>1, TroubleIs DEF trouble
  <2>2. CASE host'.pc # "done"  BY <1>6, <2>2 DEF BetweenJobs, BeforeJobs
  <2>3. QED  BY <2>1, <2>2
<1>9. Frame /\ TowardsInv' /\ FirstIdle' /\ Contract!Next
  BY <1>1, <1>5, <1>6, <1>8, InsideStep DEF First
<1>10. Loaded'
  BY <1>1, <1>5, <1>6, <1>9, FrameArg DEF Loaded, Frame, DataInv, Inv95
<1>11. IdleInv'
  <2>1. CASE host'.pc = "polling"  BY <1>1, <2>1 DEF IdleInv
  <2>2. CASE host'.pc # "polling"
    <3>1. dev.busy => host'.blind
      <4>1. CASE host'.pc = "program"  BY <1>7, <4>1
      <4>2. CASE host'.pc = "enable"  BY <1>7, <4>2
      <4>3. CASE host'.pc = "done"
        <5>1. dev.busy => host.blind  BY <1>2, <1>7, <4>3
        <5>2. QED  BY <5>1 DEF Worsens
      <4>4. QED  BY <1>6, <2>2, <4>1, <4>2, <4>3
    <3>2. QED  BY <1>1, <3>1 DEF IdleInv
  <2>3. QED  BY <2>1, <2>2
<1>12. VerifiedCpld'
  <2>1. CASE host'.pc = "done"
    <3>1. host'.exit = 134  BY <1>7, <2>1 DEF Thrown
    <3>2. QED  BY <3>1 DEF VerifiedCpld, Ended
  <2>2. CASE host'.pc # "done"  BY <1>6, <2>2 DEF VerifiedCpld, Ended
  <2>3. QED  BY <2>1, <2>2
<1>13. Inv95'
  <2>1. ASSUME ~host'.blind, host'.pc # "done"  PROVE dev.latch = Blank
    <3>1. ~host.blind  BY <2>1 DEF Worsens
    <3>2. CASE host.pc = "polling"  BY <1>3, <3>1, <3>2
    <3>3. CASE host.pc = "program"
      <4>1. host'.pc = "enable"  BY <1>6, <1>7, <2>1, <3>3
      <4>2. host.i % SectorWords = 0  BY <1>7, <3>3, <4>1
      <4>3. QED  BY <1>1, <3>1, <3>3, <4>2 DEF DataInv, Inv95
    <3>4. QED  BY <1>1, <3>2, <3>3
  <2>2. QED  BY <1>1, <1>4, <1>6, <1>10, <2>1 DEF Inv95
<1>14. QED  BY <1>9, <1>11, <1>12, <1>13 DEF Keeps95

LEMMA Scan95Step ==
  ASSUME TypeInv, TypeInv', DataInv, Worsens, Enable95 \/ Verify95 \/ Read95
  PROVE  Keeps95' /\ Contract!Next
<1> USE DEF TypeInv
<1>1. /\ req.kind = "xc95x" /\ UNCHANGED <<req, disk>> /\ DOMAIN host = HostFields
      /\ DOMAIN dev = DeviceFields /\ host.pc \in {"enable", "file", "verify", "read"}
      /\ host.i \in Nat
  <2>1. UNCHANGED <<req, disk>>
    BY DEF Enable95, Verify95, Read95, Scan95
  <2>2. req.kind = "xc95x" /\ host.pc \in {"enable", "file", "verify", "read"}
    BY DEF Enable95, Verify95, Read95, At95, Running
  <2>3. QED  BY <2>1, <2>2 DEF HostOK, DeviceOK
<1>2. dev.busy => host.blind
  BY <1>1 DEF DataInv, IdleInv
<1>3. ~host.blind => dev.latch = Blank
  BY <1>1 DEF DataInv, Inv95
<1>4. /\ UNCHANGED <<dev.cells, dev.todo, dev.busy, dev.latch, N>>
      /\ IF Enable95 THEN dev'.isc = TRUE
         ELSE dev'.isc = dev.isc /\ dev'.pipe = (IF Ready THEN dev.cells[Address] ELSE Erased)
  <2>1. IF Enable95 THEN dev' = [dev EXCEPT !.isc = TRUE] ELSE dev' = Fetch(Address)
    BY DEF Enable95, Verify95, Read95, Scan95
  <2>2. QED  BY <1>1, <2>1 DEF Fetch, DeviceFields, N
<1>5. Blank' = Blank  BY <1>4 DEF Blank
<1>6. host.n > 0 /\ Open
  BY <1>1 DEF StageOK, Worked, Open, BetweenJobs, BeforeJobs
<1>7. N \in Nat /\ N > 0 /\ DOMAIN dev.cells = 1..N  BY BlankIn
<1>8. host'.n = host.n /\ host'.fp = host.fp /\ host'.bytes = host.bytes
      /\ host'.blind = host.blind
  <2>1. CASE Enable95  BY <1>1, <2>1 DEF Enable95, Go, HostFields
  <2>2. CASE Verify95  BY <1>1, <2>2 DEF Verify95, Throw, Exit, Tell, Go, HostFields
  <2>3. CASE Read95  BY <1>1, <2>3 DEF Read95, HostFields
  <2>4. QED  BY <2>1, <2>2, <2>3
<1>9. Frame  BY <1>1, <1>4, <1>6, <1>8, TroubleIs DEF Frame, BeforeJobs, Open, BetweenJobs,
                Enable95, Verify95, Read95, Go, Throw, Exit, Tell, HostFields
<1>10. ASSUME host'.pc \notin First, ~BetweenJobs' \/ trouble' # "none"
       PROVE  TowardsInv' /\ FirstIdle' /\ IdleInv' /\ Contract!Next
  <2>1. TowardsInv' /\ FirstIdle' /\ Contract!Next
    BY <1>1, <1>4, <1>6, <1>8, <1>10, InsideStep
  <2>2. IdleInv'  BY <1>1, <1>2, <1>4, <1>8 DEF IdleInv
  <2>3. QED  BY <2>1, <2>2
<1>11. ASSUME Loaded PROVE Loaded'
  BY <1>8, <1>9, <1>11, FrameArg DEF Loaded, Frame
<1>12. CASE Enable95
  <2>1. /\ host'.pc = IF Arg.action = "r" THEN "read" ELSE "verify"
        /\ host'.i = 0
        /\ host.pc = "enable" \/ (host.pc = "file" /\ Arg.action = "r")
    BY <1>1, <1>12 DEF Enable95, Go, HostFields, At95, Running
  <2>2. host'.pc \notin First /\ ~BetweenJobs' /\ host'.pc \in {"read", "verify"}
    BY <2>1 DEF First, BetweenJobs, BeforeJobs
  <2>3. TowardsInv' /\ FirstIdle' /\ IdleInv' /\ Contract!Next  BY <1>10, <2>2
  <2>4. host'.pc = "verify" => Loaded'
    BY <1>1, <1>6, <1>11, <2>1 DEF DataInv, Inv95
  <2>5. Inv95'
    <3>1. \A k \in 1..N' : ~(k <= host'.i - 1)  BY <1>4, <1>7, <2>1
    <3>2. HoldsUpTo(host.bytes, host.i - 1)'  BY <3>1 DEF HoldsUpTo
    <3>3. HoldsUpTo(host.out, host.i - 1)'  BY <3>1 DEF HoldsUpTo
    <3>4. dev'.isc /\ Piped'  BY <1>4, <1>12, <2>1 DEF Piped
    <3>5. ~host'.blind => dev'.latch = Blank'  BY <1>3, <1>4, <1>5, <1>8
    <3>6. host'.pc = "read" => host'.n <= 2
      <4>1. CASE host.pc = "file"  BY <1>1, <1>8, <4>1 DEF DataInv, Inv95
      <4>2. CASE host.pc = "enable"
        <5>1. Arg.action # "r"  BY <1>1, <4>2 DEF CpldOK
        <5>2. QED  BY <2>1, <5>1
      <4>3. QED  BY <2>1, <4>1, <4>2
    <3>7. QED  BY <2>2, <2>4, <3>2, <3>3, <3>4, <3>5, <3>6 DEF Inv95
  <2>6. VerifiedCpld'  BY <2>2 DEF VerifiedCpld, Ended
  <2>7. QED  BY <2>3, <2>5, <2>6 DEF Keeps95
<1>13. ASSUME ~host.blind, host.i <= N, dev.isc, ~Enable95, host'.i = host.i + 1
       PROVE  Piped' /\ dev'.isc
  <2>1. Ready  BY <1>2, <1>13 DEF Ready
  <2>2. dev'.pipe = dev.cells[Address]  BY <1>4, <1>13, <2>1
  <2>3. Address = IF host'.i > N THEN N ELSE host'.i
    BY <1>1, <1>7, <1>13 DEF Address
  <2>4. QED  BY <1>4, <1>13, <2>2, <2>3 DEF Piped
<1>14. CASE Verify95
  <2>1. host.pc = "verify" /\ host.i <= N
    BY <1>14 DEF Verify95, Scan95, At95, Running
  <2>2. ~Enable95
    BY <1>1, <2>1 DEF Enable95, At95, Running
  <2>3. Loaded  BY <1>1, <1>6, <2>1 DEF DataInv, Inv95
  <2>4. ~host.blind => dev.isc /\ Piped /\ HoldsUpTo(host.bytes, host.i - 1)
    BY <1>1, <2>1 DEF DataInv, Inv95
  <2>5. CASE host.i > Len(host.bytes)
    <3>1. host'.pc = "done" /\ host'.exit = 134
      BY <1>1, <1>14, <2>5 DEF Verify95, Throw, Exit, HostFields, Thrown
    <3>2. TowardsInv' /\ FirstIdle' /\ IdleInv' /\ Contract!Next
      BY <1>10, <3>1, TroubleIs DEF First, trouble
    <3>3. Inv95' /\ VerifiedCpld'
      BY <3>1 DEF Inv95, VerifiedCpld, Ended
    <3>4. QED  BY <3>2, <3>3 DEF Keeps95
  <2>6. CASE ~(host.i > Len(host.bytes)) /\ ~Matches
    <3>1. host'.pc = "verified" /\ host'.ret = 1
      BY <1>1, <1>14, <2>6 DEF Verify95, Tell, Go, HostFields
    <3>2. TowardsInv' /\ FirstIdle' /\ IdleInv' /\ Contract!Next
      BY <1>10, <3>1 DEF First, BetweenJobs, BeforeJobs
    <3>3. Inv95' /\ VerifiedCpld'
      BY <1>3, <1>4, <1>5, <1>8, <1>11, <2>3, <3>1 DEF Inv95, VerifiedCpld, Ended
    <3>4. QED  BY <3>2, <3>3 DEF Keeps95
  <2>7. CASE ~(host.i > Len(host.bytes)) /\ Matches
    <3>1. host'.pc = "verify" /\ host'.i = host.i + 1
      BY <1>1, <1>14, <2>1, <2>7 DEF Verify95, HostFields
    <3>2. TowardsInv' /\ FirstIdle' /\ IdleInv' /\ Contract!Next
      BY <1>10, <3>1 DEF First, BetweenJobs, BeforeJobs
    <3>3. ASSUME ~host.blind  PROVE HoldsUpTo(host.bytes, host.i - 1)'
      <4>1. host.bytes \in Seq(Byte) /\ Len(host.bytes) \in Nat
        <5>1. host.bytes \in Seq(Byte)  BY DEF HostOK
        <5>2. QED  BY <5>1
      <4>2. SUFFICES ASSUME NEW k \in 1..N, k <= host.i
                     PROVE  k \in DOMAIN host.bytes /\ dev.cells[k] = host.bytes[k]
        <5>1. N' = N /\ dev'.cells = dev.cells /\ host'.bytes = host.bytes /\ host'.i - 1 = host.i
          BY <1>1, <1>4, <1>8, <3>1
        <5>2. QED  BY <5>1 DEF HoldsUpTo
      <4>3. CASE k <= host.i - 1  BY <2>4, <3>3, <4>2, <4>3 DEF HoldsUpTo
      <4>4. CASE ~(k <= host.i - 1)
        <5>1. k = host.i /\ host.i > 0 /\ ~(host.i > N)  BY <1>1, <1>7, <4>2, <4>4
        <5>2. dev.pipe = dev.cells[host.i]  BY <2>4, <3>3, <5>1 DEF Piped
        <5>3. dev.pipe = host.bytes[host.i]  BY <2>7, <5>1 DEF Matches
        <5>4. k \in DOMAIN host.bytes  BY <1>1, <2>7, <4>1, <5>1
        <5>5. QED  BY <5>1, <5>2, <5>3, <5>4
      <4>5. QED  BY <4>3, <4>4
    <3>4. Inv95'
      <4>1. ~host.blind => Piped' /\ dev'.isc  BY <1>13, <2>1, <2>2, <2>4, <3>1
      <4>2. ~host'.blind => dev'.latch = Blank'  BY <1>3, <1>4, <1>5, <1>8
      <4>3. Loaded'  BY <1>11, <2>3
      <4>4. QED  BY <1>8, <3>1, <3>3, <4>1, <4>2, <4>3 DEF Inv95
    <3>5. VerifiedCpld'  BY <3>1 DEF VerifiedCpld, Ended
    <3>6. QED  BY <3>2, <3>4, <3>5 DEF Keeps95
  <2>8. QED  BY <2>5, <2>6, <2>7
<1>15. CASE Read95
  <2>1. /\ host.pc = "read" /\ host'.pc = "read" /\ host.i <= N /\ host'.i = host.i + 1
        /\ host'.out = IF host.i = 0 THEN host.out ELSE [host.out EXCEPT ![host.i] = dev.pipe]
    BY <1>1, <1>15 DEF Read95, Scan95, At95, Running, HostFields
  <2>2. ~Enable95
    BY <1>1, <2>1 DEF Enable95, At95, Running
  <2>3. ~host.blind => dev.isc /\ Piped /\ HoldsUpTo(host.out, host.i - 1)
    BY <1>1, <2>1 DEF DataInv, Inv95
  <2>4. TowardsInv' /\ FirstIdle' /\ IdleInv' /\ Contract!Next
    BY <1>10, <2>1 DEF First, BetweenJobs, BeforeJobs
  <2>5. DOMAIN host.out = 1..N
    <3>1. host.out \in Seq(Byte) /\ Len(host.out) = N  BY <2>1 DEF HostOK, CpldOK
    <3>2. QED  BY <3>1
  <2>6. ASSUME ~host.blind  PROVE HoldsUpTo(host.out, host.i - 1)'
    <3>1. SUFFICES ASSUME NEW k \in 1..N, k <= host.i
                   PROVE  k \in DOMAIN host'.out /\ dev.cells[k] = host'.out[k]
      <4>1. N' = N /\ dev'.cells = dev.cells /\ host'.i - 1 = host.i  BY <1>1, <1>4, <2>1
      <4>2. QED  BY <4>1 DEF HoldsUpTo
    <3>2. DOMAIN host'.out = 1..N  BY <2>1, <2>5
    <3>3. CASE k <= host.i - 1
      <4>1. dev.cells[k] = host.out[k]  BY <2>3, <2>6, <3>1, <3>3 DEF HoldsUpTo
      <4>2. k # host.i  BY <1>1, <3>1, <3>3
      <4>3. QED  BY <2>1, <2>5, <3>2, <4>1, <4>2
    <3>4. CASE ~(k <= host.i - 1)
      <4>1. k = host.i /\ host.i > 0 /\ ~(host.i > N)  BY <1>1, <1>7, <3>1, <3>4
      <4>2. dev.pipe = dev.cells[host.i]  BY <2>3, <2>6, <4>1 DEF Piped
      <4>3. host'.out[host.i] = dev.pipe
        <5>1. host.i # 0 /\ host.i \in DOMAIN host.out  BY <2>5, <3>1, <4>1
        <5>2. host'.out = [host.out EXCEPT ![host.i] = dev.pipe]  BY <2>1, <5>1
        <5>3. QED  BY <5>1, <5>2
      <4>4. QED  BY <3>2, <4>1, <4>2, <4>3
    <3>5. QED  BY <3>3, <3>4
  <2>7. Inv95'
    <3>1. ~host.blind => Piped' /\ dev'.isc  BY <1>13, <2>1, <2>2, <2>3
    <3>2. ~host'.blind => dev'.latch = Blank'  BY <1>3, <1>4, <1>5, <1>8
    <3>3. host'.n <= 2  BY <1>1, <1>8, <2>1 DEF DataInv, Inv95
    <3>4. QED  BY <1>8, <2>1, <2>6, <3>1, <3>2, <3>3 DEF Inv95
  <2>8. VerifiedCpld'  BY <2>1 DEF VerifiedCpld, Ended
  <2>9. QED  BY <2>4, <2>7, <2>8 DEF Keeps95
<1>16. QED  BY <1>12, <1>14, <1>15

(* A job that reads does not depend on the file it is saved to.            *)
LEMMA ReadJob ==
  ASSUME req.kind \in {"xc95x", "xc2c"}, ~BeforeJobs, ~BeforeJobs', host.n > 0,
         UNCHANGED <<req, host.n, N>>, Arg.action = "r"
  PROVE  /\ Arg' = Arg /\ (Mapped <=> Mapped') /\ job' = job
         /\ job.does = "read" /\ job.low = 0 /\ job.size = N
<1>1. Arg' = Arg  BY DEF Arg
<1>2. ~UsesFile /\ ~UsesFile' /\ ~Broken /\ ~Broken'  BY <1>1 DEF UsesFile, Broken
<1>3. Asked = "read" /\ Asked' = "read"  BY <1>1, <1>2 DEF Asked, IsWrite
<1>4. job = JobOther /\ job' = JobOther'  BY DEF job, OfXMega
<1>5. JobOther' = JobOther /\ JobOther = Job("read", 0, N, 0, <<>>)
  BY <1>2, <1>3 DEF JobOther
<1>6. QED  BY <1>1, <1>4, <1>5 DEF Job, Mapped

LEMMA HoldsAll ==
  ASSUME NEW out \in Seq(Byte), Len(out) = N, dev.cells \in Seq(Byte), Holds(out)
  PROVE  out = dev.cells /\ SubSeq(dev.cells, 0 + 1, 0 + N) = out
<1>1. Len(dev.cells) = N /\ \A k \in 1..N : out[k] = dev.cells[k]  BY DEF N, Holds
<1>2. N \in Nat  BY <1>1
<1>3. out = dev.cells  BY <1>1, SameSequence
<1>4. SubSeq(dev.cells, 1, Len(dev.cells)) = dev.cells  BY WholeIs
<1>5. QED  BY <1>1, <1>2, <1>3, <1>4

(* A verify ends its argument, and the program when it failed.             *)
LEMMA VerifyEnds ==
  ASSUME TypeInv, req.kind \in {"xc95x", "xc2c"}, UNCHANGED <<req, disk, dev.cells>>,
         Open, ~BeforeJobs, host.n > 0, UsesFile, host.ret \in 0..1,
         host'.n = host.n, host'.fp = host.fp, host'.blind = host.blind,
         IF host.ret # 0 THEN host'.pc = "done" /\ host'.exit = host.ret
         ELSE host'.pc = "args" /\ host'.exit = host.exit,
         host.ret = 0 /\ ~Astray => ~Broken /\ Holds(Image)
  PROVE  VerifiedCpld' /\ Contract!Next
<1>1. Frame /\ ~Open' /\ UNCHANGED N
  BY DEF Frame, BeforeJobs, Open, BetweenJobs, N
<1>2. Astray <=> Astray'  BY <1>1, FrameJob DEF Astray, Wrong
<1>3. CASE host.ret # 0
  <2>1. host'.exit = 1  BY <1>3
  <2>2. trouble' # "none"  BY <2>1, TroubleIs DEF trouble
  <2>3. VerifiedCpld'  BY <2>1 DEF VerifiedCpld, Ended
  <2>4. Contract!Next  BY <1>1, <2>2, TellStep
  <2>5. QED  BY <2>3, <2>4
<1>4. CASE host.ret = 0
  <2>1. VerifiedCpld'
    <3>1. Holds(Image)' <=> Holds(Image)  BY <1>1, FrameArg DEF Holds, Frame
    <3>2. QED  BY <1>1, <1>2, <1>4, <3>1, FrameArg DEF VerifiedCpld, Frame
  <2>2. CASE Astray'
    <3>1. Contract!Finish  BY <1>1, <2>2, FrameJob, TroubleIs DEF Contract!Finish, trouble
    <3>2. QED  BY <2>1, <3>1 DEF Contract!Next
  <2>3. CASE ~Astray'
    <3>1. ~Broken /\ Holds(Image)  BY <1>2, <1>4, <2>3
    <3>2. Contract!Part(dev.cells, job.from, Len(job.data)) = job.data
      BY <3>1, CpldVerified
    <3>3. job.does \in {"write", "verify"}  BY <3>1, CpldJob
    <3>4. Contract!Achieved(saved')  BY <3>2, <3>3 DEF Contract!Achieved
    <3>5. Contract!Finish  BY <1>1, <3>4, FrameJob DEF Contract!Finish
    <3>6. QED  BY <2>1, <3>5 DEF Contract!Next
  <2>4. QED  BY <2>2, <2>3
<1>5. QED  BY <1>3, <1>4

LEMMA Disable95Step ==
  ASSUME TypeInv, TypeInv', DataInv, Worsens, Disable95
  PROVE  Keeps95' /\ Contract!Next
<1> USE DEF TypeInv
<1>1. /\ req.kind = "xc95x" /\ UNCHANGED req /\ DOMAIN host = HostFields
      /\ DOMAIN dev = DeviceFields /\ host.pc \in {"verified", "verify", "read"}
      /\ host.i \in Nat /\ host.ret \in 0..1
  BY DEF Disable95, At95, Running, HostOK, DeviceOK
<1>2. dev.busy => host.blind
  BY <1>1 DEF DataInv, IdleInv
<1>3. ~host.blind => dev.latch = Blank
  BY <1>1 DEF DataInv, Inv95
<1>4. UNCHANGED <<dev.cells, dev.todo, dev.busy, dev.latch, N>>
  BY <1>1 DEF Disable95, DeviceFields, N
<1>5. Blank' = Blank  BY <1>4 DEF Blank
<1>6. host.n > 0 /\ Open /\ host.n \in Nat
  <2>1. host.n > 0  BY <1>1 DEF StageOK, Worked
  <2>2. host.n \in Nat  BY DEF HostOK, RequestOK
  <2>3. QED  BY <1>1, <2>1, <2>2 DEF Open, BetweenJobs, BeforeJobs
<1>7. N \in Nat /\ N > 0 /\ DOMAIN dev.cells = 1..N  BY BlankIn
<1>8. /\ host'.n = host.n /\ host'.fp = host.fp /\ host'.blind = host.blind
      /\ host'.told = host.told /\ host'.ret = host.ret
      /\ IF host.ret # 0 THEN host'.pc = "done" /\ host'.exit = host.ret
         ELSE host'.pc = "args" /\ host'.exit = host.exit
  BY <1>1 DEF Disable95, EndOfArg, Exit, Go, HostFields
<1>9. ~BeforeJobs /\ ~BeforeJobs' /\ ~Open' /\ host'.pc \notin First /\ host'.pc \in {"args", "done"}
  BY <1>1, <1>8 DEF BeforeJobs, Open, BetweenJobs, First
<1>10. FirstIdle' /\ IdleInv' /\ TowardsInv'
  BY <1>1, <1>2, <1>4, <1>8, <1>9 DEF FirstIdle, IdleInv, TowardsInv, Astray
<1>11. Inv95'
  BY <1>3, <1>4, <1>5, <1>8, <1>9 DEF Inv95
<1>12. CASE host.pc = "read"
  <2>1. /\ Arg.action = "r" /\ Len(host.out) = N /\ host.out \in Seq(Byte) /\ host.n <= 2
        /\ host.i <= N + 1
    BY <1>1, <1>12 DEF CpldOK, HostOK, DataInv, Inv95
  <2>2. host.i > N  BY <1>12 DEF Disable95, At95, Running
  <2>3. /\ Arg' = Arg /\ job' = job /\ job.does = "read" /\ job.low = 0 /\ job.size = N
    BY <1>1, <1>4, <1>6, <1>8, <1>9, <2>1, ReadJob
  <2>4. VerifiedCpld'  BY <2>1, <2>3 DEF VerifiedCpld, UsesFile
  <2>5. CASE trouble' # "none"
    <3>1. Contract!Finish
      BY <1>4, <1>6, <1>9, <2>3, <2>5 DEF Contract!Finish
    <3>2. QED  BY <1>10, <1>11, <2>4, <3>1 DEF Keeps95, Contract!Next
  <2>6. CASE trouble' = "none"
    <3>1. ~host'.blind /\ ~host'.told  BY <2>6, TroubleIs DEF trouble, Astray
    <3>2. ~host.blind /\ host.fp
      BY <1>1, <1>6, <1>8, <3>1 DEF DataInv, ToldInv
    <3>3. Holds(host.out)
      <4>1. HoldsUpTo(host.out, host.i - 1)
        BY <1>1, <1>12, <3>2 DEF DataInv, Inv95
      <4>2. \A k \in 1..N : k <= host.i - 1  BY <1>1, <1>7, <2>2
      <4>3. QED  BY <4>1, <4>2 DEF HoldsUpTo, Holds
    <3>4. disk'[Arg.name].of = host.out
      <4>1. Arg.name \in DOMAIN disk  BY <1>6, ArgIs
      <4>2. disk' = [disk EXCEPT ![Arg.name] =
                       [saveAsJed(host.out, req.device) EXCEPT !.flushed = FALSE]]
        BY <2>1, <3>2 DEF Disable95, Written
      <4>3. QED  BY <4>1, <4>2 DEF saveAsJed, JedecFile
    <3>5. saved' = FillUp(host.out, N)
      <4>1. ~TooMany'  BY <1>6, <1>8, <2>1 DEF TooMany
      <4>2. SavedCells' = FillUp(host.out, N)
        BY <1>1, <2>3, <3>4 DEF SavedCells
      <4>3. QED  BY <1>9, <2>3, <4>1, <4>2 DEF saved
    <3>6. FillUp(host.out, N) = host.out
      <4>1. /\ FillUp(host.out, N) \in Seq(Byte) /\ Len(FillUp(host.out, N)) = N
            /\ \A k \in 1..N : FillUp(host.out, N)[k] = host.out[k]
        BY <1>7, <2>1, FilledUp
      <4>2. QED  BY <2>1, <4>1, SameSequence
    <3>7. Contract!Achieved(saved')
      <4>1. dev.cells \in Seq(Byte)  BY DEF DeviceOK
      <4>2. SubSeq(dev.cells, 0 + 1, 0 + N) = host.out  BY <2>1, <3>3, <4>1, HoldsAll
      <4>3. QED
        BY <2>3, <3>5, <3>6, <4>2 DEF Contract!Achieved, Contract!Area, Contract!Part
    <3>8. Contract!Finish
      BY <1>4, <1>6, <1>9, <2>3, <3>7 DEF Contract!Finish
    <3>9. QED  BY <1>10, <1>11, <2>4, <3>8 DEF Keeps95, Contract!Next
  <2>7. QED  BY <2>5, <2>6
<1>13. CASE host.pc # "read"
  <2>1. Arg.action \in {"v", "w", "W"} /\ UsesFile
    BY <1>1, <1>13 DEF CpldOK, UsesFile
  <2>2. UNCHANGED disk  BY <2>1 DEF Disable95
  <2>3. ASSUME host.ret = 0, ~Astray  PROVE ~Broken /\ Holds(Image)
    <3>1. host.pc = "verify" /\ host.i > N
      <4>1. host.pc # "verified"  BY <1>1, <2>3 DEF DataInv, Inv95
      <4>2. QED  BY <1>1, <1>13, <4>1 DEF Disable95, At95, Running
    <3>2. ~host.blind /\ ~Misread  BY <1>6, <2>3 DEF Astray
    <3>3. ~Broken /\ host.bytes = Image
      BY <1>1, <1>6, <2>1, <3>1, <3>2 DEF DataInv, Inv95, Loaded
    <3>4. HoldsUpTo(host.bytes, host.i - 1)
      BY <1>1, <3>1, <3>2 DEF DataInv, Inv95
    <3>5. \A k \in 1..N : k <= host.i - 1  BY <1>1, <1>7, <3>1
    <3>6. QED  BY <3>3, <3>4, <3>5 DEF HoldsUpTo, Holds
  <2>4. VerifiedCpld' /\ Contract!Next
    BY <1>1, <1>4, <1>6, <1>8, <1>9, <2>1, <2>2, <2>3, VerifyEnds
  <2>5. QED  BY <1>10, <1>11, <2>4 DEF Keeps95
<1>14. QED  BY <1>12, <1>13

LEMMA Step95 ==
  ASSUME TypeInv, TypeInv', DataInv, Worsens, Next95
  PROVE  Keeps95' /\ Contract!Next
BY Begin95Step, Work95Step, Poll95Step, Scan95Step, Disable95Step DEF Next95

(***************************************************************************)
(* The CoolRunner-II: the device is never found at work.                   *)
(***************************************************************************)
Keeps2C == FirstIdle /\ IdleInv /\ TowardsInv /\ Inv2C /\ VerifiedCpld

LEMMA Idle2C ==
  ASSUME TypeInv, DataInv, Next2C
  PROVE  /\ req.kind = "xc2c" /\ UNCHANGED req /\ DOMAIN host = HostFields
         /\ DOMAIN dev = DeviceFields /\ ~dev.busy /\ ~host.blind /\ ~dev'.busy /\ ~host'.blind
         /\ UNCHANGED <<dev.todo, dev.busy>>
         /\ FirstIdle' /\ IdleInv' /\ TowardsInv'
<1>1. req.kind = "xc2c" /\ UNCHANGED req  BY KindIs
<1>2. DOMAIN host = HostFields /\ DOMAIN dev = DeviceFields  BY DEF TypeInv, HostOK, DeviceOK
<1>3. ~dev.busy /\ ~host.blind  BY <1>1 DEF DataInv, Inv2C
<1>4. dev'.busy = dev.busy /\ dev'.todo = dev.todo
  <2>1. CASE Begin2C \/ Erase2C \/ BlankRow \/ IsBlank \/ NotBlank \/ Open2C \/ Return2C \/ TooMany2C
             \/ Ignore2C \/ JedFile2C \/ BitFile2C
    BY <1>2, <2>1 DEF Begin2C, Erase2C, BlankRow, IsBlank, NotBlank, Open2C, Return2C, TooMany2C,
                Ignore2C, JedFile2C, BitFile2C, Quiet, NextRow, TakeArg, CloseIsc, DeviceFields
  <2>2. CASE Program2C \/ Programmed2C \/ StartVerify \/ StartRead \/ Verify2C \/ Verified2C
             \/ Mismatch2C \/ NoBit \/ DoneProgram \/ Read2C \/ Save2C
    BY <1>2, <2>2 DEF Program2C, Programmed2C, StartVerify, StartRead, Verify2C, Verified2C, Mismatch2C,
                NoBit, DoneProgram, Read2C, Save2C, OpenRows, Quiet, NextRow, CloseIsc, DeviceFields
  <2>3. QED  BY <2>1, <2>2 DEF Next2C
<1>5. host'.blind = host.blind
  <2> USE DEF Go, Tell, Exit, Throw
  <2>1. CASE Begin2C \/ Erase2C \/ BlankRow \/ IsBlank \/ NotBlank \/ Open2C \/ Return2C \/ TooMany2C
             \/ Ignore2C
    BY <1>2, <2>1 DEF Begin2C, Erase2C, BlankRow, IsBlank, NotBlank, Open2C, Return2C, TooMany2C,
                Ignore2C, TakeArg, HostFields
  <2>2. CASE JedFile2C  BY <1>2, <2>2 DEF JedFile2C, Checked2C, HostFields
  <2>3. CASE BitFile2C  BY <1>2, <2>3 DEF BitFile2C, Checked2C, HostFields
  <2>4. CASE Program2C \/ Programmed2C \/ StartVerify \/ StartRead \/ Verify2C \/ Verified2C
             \/ Mismatch2C \/ NoBit \/ DoneProgram \/ Read2C \/ Save2C
    BY <1>2, <2>4 DEF Program2C, Programmed2C, StartVerify, StartRead, Verify2C, Verified2C, Mismatch2C,
                NoBit, DoneProgram, Read2C, Save2C, OpenRows, EndOfArg, HostFields
  <2>5. QED  BY <2>1, <2>2, <2>3, <2>4 DEF Next2C
<1>6. FirstIdle' /\ IdleInv' /\ TowardsInv'
  BY <1>3, <1>4, <1>5 DEF FirstIdle, IdleInv, TowardsInv
<1>7. QED  BY <1>1, <1>2, <1>3, <1>4, <1>5, <1>6

LEMMA Between2C ==
  ASSUME TypeInv, TypeInv', DataInv, Worsens, Next2C,
         Begin2C \/ Open2C \/ Return2C \/ TooMany2C \/ Ignore2C
  PROVE  Keeps2C' /\ Contract!Next
<1> USE DEF TypeInv
<1>1. /\ req.kind = "xc2c" /\ UNCHANGED req /\ DOMAIN host = HostFields
      /\ ~host.blind /\ ~dev'.busy /\ ~host'.blind /\ FirstIdle' /\ IdleInv' /\ TowardsInv'
      /\ host.n \in Nat
  <2>1. host.n \in Nat  BY DEF HostOK, RequestOK
  <2>2. QED  BY <2>1, Idle2C
<1>2. UNCHANGED <<dev, N>>
  <2>1. UNCHANGED dev
    BY DEF Begin2C, Open2C, Return2C, TooMany2C, Ignore2C, Quiet, TakeArg
  <2>2. QED  BY <2>1 DEF N
<1>3. CASE Begin2C
  <2>1. /\ host.pc = "begin" /\ host'.pc = IF req.erase THEN "erase" ELSE "args"
        /\ UNCHANGED disk /\ host'.n = host.n /\ host'.fp = host.fp
    BY <1>1, <1>3 DEF Begin2C, At2C, Running, Go, HostFields, Quiet
  <2>2. host.n = 0  BY <2>1 DEF StageOK, First
  <2>3. Inv2C' /\ VerifiedCpld'
    BY <1>1, <2>1, <2>2 DEF Inv2C, VerifiedCpld
  <2>4. Frame /\ (Open <=> Open')
    BY <1>1, <1>2, <2>1, <2>2 DEF Frame, BeforeJobs, Open, BetweenJobs
  <2>5. Contract!Next  BY <1>2, <2>4, NoteStep DEF Contract!Next
  <2>6. QED  BY <1>1, <2>3, <2>5 DEF Keeps2C
<1>4. CASE Open2C
  <2>1. host.pc = "args" /\ TakeArg("file")
    BY <1>4 DEF Open2C, At2C, Running
  <2>2. host'.pc = "file" /\ Contract!Next
    BY <2>1, TakeStep
  <2>3. Inv2C' /\ VerifiedCpld'
    BY <1>1, <2>2 DEF Inv2C, VerifiedCpld, Ended
  <2>4. QED  BY <1>1, <2>2, <2>3 DEF Keeps2C
<1>5. CASE Return2C
  <2>1. /\ host.pc = "args" /\ host'.pc = "done" /\ UNCHANGED disk
        /\ host'.n = host.n /\ host'.fp = host.fp
    BY <1>1, <1>5 DEF Return2C, At2C, Running, Exit, HostFields, Quiet
  <2>2. Frame /\ ~Open /\ ~Open'  BY <1>1, <1>2, <2>1 DEF Frame, BeforeJobs, Open, BetweenJobs
  <2>3. Inv2C'  BY <1>1, <2>1 DEF Inv2C
  <2>4. host.exit = -1  BY <2>1 DEF HostOK, Finished
  <2>5. VerifiedCpld'  BY <1>2, <2>1, <2>2, <2>4, VerifiedBefore DEF DataInv
  <2>6. Contract!Next  BY <1>2, <2>2, NoteStep DEF Contract!Next
  <2>7. QED  BY <1>1, <2>3, <2>5, <2>6 DEF Keeps2C
<1>6. CASE TooMany2C \/ Ignore2C
  <2>1. /\ host.pc = "file" /\ host'.pc = "args" /\ UNCHANGED disk
        /\ host'.n = host.n /\ host'.fp = host.fp
        /\ TooMany2C => host'.told = TRUE /\ host.n > 2
        /\ Ignore2C => Arg.action \notin {"r", "v", "w", "W"}
    BY <1>1, <1>6 DEF TooMany2C, Ignore2C, AtFile2C, At2C, Running, Go, Tell, HostFields, Quiet
  <2>2. host.n > 0 /\ Open
    BY <2>1 DEF StageOK, Worked, Open, BetweenJobs, BeforeJobs
  <2>3. Arg' = Arg  BY <1>1, <2>1 DEF Arg
  <2>4. Ignore2C => Untold'
    BY <1>1, <2>1, <2>2, <2>3 DEF Untold, BeforeJobs, IgnoredAction
  <2>5. trouble' # "none"  BY <1>6, <2>1, <2>4, TroubleIs DEF trouble
  <2>6. Contract!Next
    BY <1>1, <1>2, <2>1, <2>2, <2>5, InsideStep DEF First
  <2>7. Inv2C'  BY <1>1, <2>1 DEF Inv2C
  <2>8. VerifiedCpld'
    BY <1>6, <2>1, <2>3 DEF VerifiedCpld, UsesFile
  <2>9. QED  BY <1>1, <2>6, <2>7, <2>8 DEF Keeps2C
<1>7. QED  BY <1>3, <1>4, <1>5, <1>6

LEMMA File2C ==
  ASSUME TypeInv, TypeInv', DataInv, Worsens, Next2C, JedFile2C \/ BitFile2C
  PROVE  Keeps2C' /\ Contract!Next
<1> USE DEF TypeInv
<1>1. /\ req.kind = "xc2c" /\ UNCHANGED req /\ DOMAIN host = HostFields
      /\ ~host.blind /\ ~dev'.busy /\ ~host'.blind /\ FirstIdle' /\ IdleInv' /\ TowardsInv'
  BY Idle2C
<1>2. /\ UNCHANGED <<dev, disk, N>> /\ host.pc = "file" /\ UsesFile
  BY DEF JedFile2C, BitFile2C, Quiet, N, AtFile2C, At2C, Running, UsesFile
<1>3. host.n > 0 /\ Open
  BY <1>2 DEF StageOK, Worked, Open, BetweenJobs, BeforeJobs
<1>4. FromFuses <=> Mapped  BY <1>1 DEF FromFuses, TakesFuses, Mapped
<1>5. After2C \in {"erase", "program", "verify"}  BY DEF After2C
<1>6. /\ host'.n = host.n /\ host'.fp = host.fp
      /\ \/ /\ host'.pc = After2C
            /\ ~Misread => ~Broken /\ host'.bytes = Image
         \/ /\ host'.pc = "done" /\ host'.exit \notin {-1, 0}
  <2>1. CASE JedFile2C
    <3>1. PICK jed \in readJed(File) :
            host' = IF jed.res = Thrown THEN Throw
                    ELSE Checked2C(jed.res, jedecfile2bitfile(jed.fuses), jed.device)
      BY <2>1 DEF JedFile2C
    <3>2. Mapped  BY <2>1 DEF JedFile2C
    <3>3. CASE jed.res = Thrown
      BY <1>1, <3>1, <3>3 DEF Throw, Exit, HostFields, Thrown
    <3>4. CASE jed.res # Thrown
      <4>1. CASE jed.device # req.device
        BY <1>1, <3>1, <3>4, <4>1 DEF Checked2C, Exit, Tell, HostFields
      <4>2. CASE jed.device = req.device /\ jed.res # 0
        <5>1. /\ host'.n = host.n /\ host'.fp = host.fp /\ host'.pc = "done" /\ host'.exit = jed.res
          BY <1>1, <3>1, <3>4, <4>2 DEF Checked2C, Exit, Tell, HostFields
        <5>2. host'.exit >= 0  BY <5>1 DEF HostOK, Finished
        <5>3. QED  BY <4>2, <5>1, <5>2
      <4>3. CASE jed.device = req.device /\ jed.res = 0
        <5>1. /\ host'.n = host.n /\ host'.fp = host.fp /\ host'.pc = After2C
              /\ host'.bytes = jedecfile2bitfile(jed.fuses)
          BY <1>1, <3>1, <3>4, <4>3 DEF Checked2C, Go, HostFields
        <5>2. ~Misread => jed.fuses = File.of
          BY <1>2, <1>4, <3>1, <3>2 DEF Misread
        <5>3. ~Broken  BY <1>4, <3>1, <3>2, <4>3 DEF Broken
        <5>4. QED  BY <1>1, <3>2, <5>1, <5>2, <5>3 DEF Image
      <4>4. QED  BY <4>1, <4>2, <4>3
    <3>5. QED  BY <3>3, <3>4
  <2>2. CASE BitFile2C
    <3>1. PICK r \in readFile(Arg.style, File) :
            host' = IF r.bytes = <<>> THEN Exit(Tell(host, TRUE), 2)
                    ELSE Tell(Checked2C(0, r.bytes, PartName), r.res # 0)
      BY <2>2 DEF BitFile2C
    <3>2. ~Mapped  BY <2>2 DEF BitFile2C
    <3>3. CASE r.bytes = <<>>
      BY <1>1, <3>1, <3>3 DEF Exit, Tell, HostFields
    <3>4. CASE r.bytes # <<>> /\ PartName # req.device
      BY <1>1, <3>1, <3>4 DEF Checked2C, Exit, Tell, HostFields
    <3>5. CASE r.bytes # <<>> /\ PartName = req.device
      <4>1. /\ host'.n = host.n /\ host'.fp = host.fp /\ host'.pc = After2C
            /\ host'.bytes = r.bytes
        BY <1>1, <3>1, <3>5 DEF Checked2C, Go, Tell, HostFields
      <4>2. ~Misread => r.res = 0 /\ r.bytes = File.of
        BY <1>2, <1>4, <3>1, <3>2 DEF Misread
      <4>3. r.res = 0 => ~Broken  BY <1>4, <3>1, <3>2 DEF Broken
      <4>4. QED  BY <3>2, <4>1, <4>2, <4>3 DEF Image
    <3>6. QED  BY <3>3, <3>4, <3>5
  <2>3. QED  BY <2>1, <2>2
<1>7. ~BetweenJobs' \/ trouble' # "none"
  <2>1. CASE host'.pc = After2C  BY <1>5, <2>1 DEF BetweenJobs, BeforeJobs
  <2>2. CASE host'.pc = "done" /\ host'.exit \notin {-1, 0}
    <3>1. host'.exit > 0  BY <2>2 DEF HostOK, Finished
    <3>2. QED  BY <3>1, TroubleIs DEF trouble
  <2>3. QED  BY <1>6, <2>1, <2>2
<1>8. host'.pc \in {"erase", "program", "verify", "done"}  BY <1>5, <1>6
<1>9. Frame /\ Contract!Next
  BY <1>1, <1>2, <1>3, <1>6, <1>7, <1>8, InsideStep DEF First
<1>10. host'.pc # "done" => Loaded'
  BY <1>6, <1>9, FrameArg DEF Loaded, Frame
<1>11. Inv2C'  BY <1>1, <1>8, <1>10 DEF Inv2C
<1>12. VerifiedCpld'
  BY <1>5, <1>6, <1>8 DEF VerifiedCpld, Ended
<1>13. QED  BY <1>1, <1>9, <1>11, <1>12 DEF Keeps2C

LEMMA Rows2C ==
  ASSUME TypeInv, TypeInv', DataInv, Worsens, Next2C,
         \/ BlankRow \/ IsBlank \/ NotBlank \/ Programmed2C \/ StartVerify \/ StartRead
         \/ Verify2C \/ Verified2C \/ Mismatch2C \/ NoBit \/ Read2C
  PROVE  Keeps2C' /\ Contract!Next
<1> USE DEF TypeInv
<1>1. /\ req.kind = "xc2c" /\ UNCHANGED req /\ DOMAIN host = HostFields /\ DOMAIN dev = DeviceFields
      /\ ~host.blind /\ ~dev'.busy /\ ~host'.blind /\ UNCHANGED <<dev.todo, dev.busy>>
      /\ FirstIdle' /\ IdleInv' /\ TowardsInv'
  BY Idle2C
<1>2. UNCHANGED <<dev.cells, disk, N>>
  <2>1. UNCHANGED <<dev.cells, disk>>
    BY <1>1 DEF BlankRow, IsBlank, NotBlank, Programmed2C, StartVerify, StartRead, Verify2C,
                Verified2C, Mismatch2C, NoBit, Read2C, Quiet, NextRow, CloseIsc, OpenRows, DeviceFields
  <2>2. QED  BY <2>1 DEF N
<1>3. /\ host.pc \in {"blank", "program", "verify", "file", "verifying", "reading"}
      /\ host'.n = host.n /\ host'.fp = host.fp /\ host'.bytes = host.bytes
  <2> USE DEF At2C, AtFile2C, Running, Go, Tell, Exit, Throw, HostFields
  <2>1. CASE BlankRow \/ IsBlank \/ NotBlank \/ Programmed2C \/ StartVerify \/ StartRead
    BY <1>1, <2>1 DEF BlankRow, IsBlank, NotBlank, Programmed2C, StartVerify, StartRead, OpenRows
  <2>2. CASE Verify2C \/ Verified2C \/ Mismatch2C \/ NoBit \/ Read2C
    BY <1>1, <2>2 DEF Verify2C, Verified2C, Mismatch2C, NoBit, Read2C
  <2>3. QED  BY <2>1, <2>2
<1>4. Open /\ ~BeforeJobs /\ host.i \in Nat
  <2>1. CASE host.pc = "blank"
    BY <1>1, <2>1 DEF CpldOK, Open, BetweenJobs, BeforeJobs, HostOK
  <2>2. CASE host.pc # "blank"
    BY <1>3, <2>2 DEF StageOK, Worked, Open, BetweenJobs, BeforeJobs, HostOK
  <2>3. QED  BY <2>1, <2>2
<1>5. /\ N \in Nat /\ Rows \in Nat /\ 2 * Rows = N
      /\ \A r \in 0..(Rows - 1) : 2 * r + 1 \in 1..N /\ 2 * r + 2 \in 1..N
      /\ dev.cells \in Seq(Byte) /\ Len(dev.cells) = N /\ DOMAIN dev.cells = 1..N
  BY <1>1, RowsAre, BlankIn DEF DeviceOK, N
<1>6. ASSUME host'.pc \notin First, ~BetweenJobs' \/ trouble' # "none"
      PROVE  Contract!Next /\ (Loaded => Loaded')
  <2>1. Frame /\ Contract!Next
    BY <1>1, <1>2, <1>3, <1>4, <1>6, InsideStep
  <2>2. QED  BY <1>3, <2>1, FrameArg DEF Loaded, Frame
<1>7. host.n > 0 /\ host.pc \in {"blank", "program", "verify", "verifying"} => Loaded
  BY <1>1 DEF DataInv, Inv2C
<1>8. host.i < Rows /\ host.pc \in {"blank", "verifying", "reading"} =>
        /\ 2 * host.i + 2 <= N
        /\ ThisRow = Row(dev.cells, host.i)
        /\ ThisRow[1] = dev.cells[2 * host.i + 1] /\ ThisRow[2] = dev.cells[2 * host.i + 2]
  <2>1. SUFFICES ASSUME host.i < Rows, host.pc \in {"blank", "verifying", "reading"}
                 PROVE  /\ 2 * host.i + 2 <= N
                        /\ ThisRow = Row(dev.cells, host.i)
                        /\ ThisRow[1] = dev.cells[2 * host.i + 1]
                        /\ ThisRow[2] = dev.cells[2 * host.i + 2]
    OBVIOUS
  <2>2. ThisRow = Row(dev.cells, host.i)  BY <2>1 DEF CpldOK, ThisRow
  <2>3. 2 * host.i + 2 <= N  BY <1>4, <1>5, <2>1
  <2>4. /\ Row(dev.cells, host.i)[1] = dev.cells[2 * host.i + 1]
        /\ Row(dev.cells, host.i)[2] = dev.cells[2 * host.i + 2]
    BY <1>4, <1>5, <2>3, RowIs
  <2>5. QED  BY <2>2, <2>3, <2>4
(* The rows up to the next one.                                            *)
<1>9. ASSUME NEW k \in 1..N, host.i < Rows, k <= 2 * (host.i + 1)
      PROVE  k <= 2 * host.i \/ k = 2 * host.i + 1 \/ k = 2 * host.i + 2
  BY <1>4, <1>9
<1>10. CASE BlankRow
  <2>1. /\ host.pc = "blank" /\ host'.pc = "blank" /\ host.i < Rows /\ ThisRow[1] = Erased
        /\ host'.i = host.i + 1
    BY <1>1, <1>10 DEF BlankRow, At2C, Running, HostFields
  <2>2. Contract!Next /\ (Loaded => Loaded')
    BY <1>6, <2>1 DEF First, BetweenJobs, BeforeJobs
  <2>3. ASSUME NEW a \in 1..N, a <= 2 * (host.i + 1)  PROVE a % 2 = 0 \/ dev.cells[a] = Erased
    <3>1. \A b \in 1..N : b <= 2 * host.i => b % 2 = 0 \/ dev.cells[b] = Erased
      BY <1>1, <2>1 DEF DataInv, Inv2C
    <3>2. CASE a <= 2 * host.i  BY <2>3, <3>1, <3>2
    <3>3. CASE a = 2 * host.i + 1  BY <1>8, <2>1, <3>3
    <3>4. CASE a = 2 * host.i + 2  BY <1>4, <3>4
    <3>5. QED  BY <1>9, <2>1, <2>3, <3>2, <3>3, <3>4
  <2>4. Inv2C'  BY <1>1, <1>2, <1>3, <1>7, <2>1, <2>2, <2>3 DEF Inv2C
  <2>5. VerifiedCpld'  BY <2>1 DEF VerifiedCpld, Ended
  <2>6. QED  BY <1>1, <2>2, <2>4, <2>5 DEF Keeps2C
<1>11. CASE IsBlank
  <2>1. /\ host.pc = "blank" /\ host'.pc = host.then /\ host.i = Rows
    BY <1>1, <1>11 DEF IsBlank, At2C, Running, Go, HostFields
  <2>2. \/ host.then = "args" /\ host.n = 0 /\ req.erase
        \/ host.then = "program" /\ host.n > 0
    BY <1>1, <2>1 DEF CpldOK
  <2>3. ~BetweenJobs' \/ trouble' # "none"
    <3>1. CASE host.then = "args"
      <4>1. \A b \in 1..N : b <= 2 * host.i => b % 2 = 0 \/ dev.cells[b] = Erased
        BY <1>1, <2>1 DEF DataInv, Inv2C
      <4>2. \A b \in 1..N' : b % 2 = 0 \/ dev'.cells[b] = Erased
        BY <1>2, <1>5, <2>1, <4>1
      <4>3. Untold'
        BY <1>1, <1>3, <2>1, <2>2, <3>1, <4>2 DEF Untold, BeforeJobs, UncheckedErase
      <4>4. QED  BY <4>3, TroubleIs DEF trouble
    <3>2. CASE host.then = "program"
      BY <2>1, <3>2 DEF BetweenJobs, BeforeJobs
    <3>3. QED  BY <2>2, <3>1, <3>2
  <2>4. Contract!Next /\ (Loaded => Loaded')
    BY <1>6, <2>1, <2>2, <2>3 DEF First
  <2>5. Inv2C'  BY <1>1, <1>3, <1>7, <2>1, <2>2, <2>4 DEF Inv2C
  <2>6. VerifiedCpld'  BY <1>3, <2>1, <2>2 DEF VerifiedCpld, Ended
  <2>7. QED  BY <1>1, <2>4, <2>5, <2>6 DEF Keeps2C
<1>12. CASE NotBlank
  <2>1. /\ host.pc = "blank"
        /\ IF host.then = "args" THEN host'.pc = "done" /\ host'.exit = 1 ELSE host'.pc = "verify"
    BY <1>1, <1>12 DEF NotBlank, At2C, Running, Go, Tell, Exit, HostFields
  <2>2. ~BetweenJobs' \/ trouble' # "none"
    <3>1. CASE host.then = "args"  BY <2>1, <3>1, TroubleIs DEF trouble
    <3>2. CASE host.then # "args"  BY <2>1, <3>2 DEF BetweenJobs, BeforeJobs
    <3>3. QED  BY <3>1, <3>2
  <2>3. Contract!Next /\ (Loaded => Loaded')
    BY <1>6, <2>1, <2>2 DEF First
  <2>4. Inv2C'  BY <1>1, <1>3, <1>7, <2>1, <2>3 DEF Inv2C
  <2>5. VerifiedCpld'  BY <2>1 DEF VerifiedCpld, Ended
  <2>6. QED  BY <1>1, <2>3, <2>4, <2>5 DEF Keeps2C
<1>13. CASE Programmed2C
  <2>1. host.pc = "program" /\ host'.pc = "verify"
    BY <1>1, <1>13 DEF Programmed2C, At2C, Running, Go, HostFields
  <2>2. Contract!Next /\ (Loaded => Loaded')
    BY <1>6, <2>1 DEF First, BetweenJobs, BeforeJobs
  <2>3. Inv2C'  BY <1>1, <1>3, <1>7, <2>1, <2>2 DEF Inv2C
  <2>4. VerifiedCpld'  BY <2>1 DEF VerifiedCpld, Ended
  <2>5. QED  BY <1>1, <2>2, <2>3, <2>4 DEF Keeps2C
<1>14. CASE StartVerify \/ StartRead
  <2>1. /\ host'.i = 0 /\ (StartVerify => host.pc = "verify" /\ host'.pc = "verifying")
        /\ (~StartVerify => host'.pc = "reading")
    BY <1>1, <1>14 DEF StartVerify, StartRead, OpenRows, At2C, AtFile2C, Running, Go, HostFields
  <2>2. host'.pc \in {"verifying", "reading"}  BY <2>1
  <2>3. Contract!Next /\ (Loaded => Loaded')
    BY <1>6, <2>2 DEF First, BetweenJobs, BeforeJobs
  <2>4. host'.pc = "verifying" => Loaded'
    BY <1>3, <1>4, <1>7, <2>1, <2>3 DEF StageOK, Worked
  <2>5. \A k \in 1..N' : ~(k <= 2 * host'.i)  BY <1>2, <1>5, <2>1
  <2>6. HoldsUpTo(host.bytes, 2 * host.i)' /\ HoldsUpTo(host.out, 2 * host.i)'
    BY <2>5 DEF HoldsUpTo
  <2>7. Inv2C'  BY <1>1, <2>2, <2>4, <2>6 DEF Inv2C
  <2>8. VerifiedCpld'  BY <2>2 DEF VerifiedCpld, Ended
  <2>9. QED  BY <1>1, <2>3, <2>7, <2>8 DEF Keeps2C
<1>15. CASE Verify2C
  <2>1. /\ host.pc = "verifying" /\ host'.pc = "verifying" /\ host.i < Rows /\ ~Short
        /\ host'.i = host.i + 1 /\ ThisRow = Row(host.bytes, host.i)
    BY <1>1, <1>15 DEF Verify2C, At2C, Running, HostFields
  <2>2. Contract!Next /\ (Loaded => Loaded')
    BY <1>6, <2>1 DEF First, BetweenJobs, BeforeJobs
  <2>3. Loaded'  BY <1>7, <2>1, <2>2 DEF StageOK, Worked
  <2>4. /\ host.bytes \in Seq(Byte) /\ 2 * host.i + 2 <= Len(host.bytes)
    <3>1. host.bytes \in Seq(Byte)  BY DEF HostOK
    <3>2. Len(host.bytes) \in Nat  BY <3>1
    <3>3. QED  BY <1>4, <2>1, <3>1, <3>2 DEF Short
  <2>5. /\ Row(host.bytes, host.i)[1] = host.bytes[2 * host.i + 1]
        /\ Row(host.bytes, host.i)[2] = host.bytes[2 * host.i + 2]
    BY <1>4, <2>4, RowIs
  <2>6. HoldsUpTo(host.bytes, 2 * host.i)'
    <3>1. SUFFICES ASSUME NEW k \in 1..N, k <= 2 * (host.i + 1)
                   PROVE  k \in DOMAIN host.bytes /\ dev.cells[k] = host.bytes[k]
      <4>1. /\ N' = N /\ dev'.cells = dev.cells /\ host'.bytes = host.bytes
            /\ 2 * host'.i = 2 * (host.i + 1)
        BY <1>2, <1>3, <2>1
      <4>2. QED  BY <4>1 DEF HoldsUpTo
    <3>2. CASE k <= 2 * host.i
      <4>1. HoldsUpTo(host.bytes, 2 * host.i)  BY <1>1, <2>1 DEF DataInv, Inv2C
      <4>2. QED  BY <3>1, <3>2, <4>1 DEF HoldsUpTo
    <3>3. CASE k = 2 * host.i + 1 \/ k = 2 * host.i + 2
      <4>1. k \in DOMAIN host.bytes
        <5>1. DOMAIN host.bytes = 1..Len(host.bytes) /\ Len(host.bytes) \in Nat  BY <2>4
        <5>2. QED  BY <1>4, <2>4, <3>3, <5>1
      <4>2. dev.cells[k] = host.bytes[k]  BY <1>8, <2>1, <2>5, <3>3
      <4>3. QED  BY <4>1, <4>2
    <3>4. QED  BY <1>9, <2>1, <3>1, <3>2, <3>3
  <2>7. Inv2C'  BY <1>1, <2>1, <2>3, <2>6 DEF Inv2C
  <2>8. VerifiedCpld'  BY <2>1 DEF VerifiedCpld, Ended
  <2>9. QED  BY <1>1, <2>2, <2>7, <2>8 DEF Keeps2C
<1>16. CASE Verified2C
  <2>1. host.pc = "verifying" /\ host'.pc = "finish" /\ host.i = Rows
    BY <1>1, <1>16 DEF Verified2C, At2C, Running, Go, HostFields
  <2>2. Contract!Next /\ (Loaded => Loaded')
    BY <1>6, <2>1 DEF First, BetweenJobs, BeforeJobs
  <2>3. Loaded'  BY <1>7, <2>1, <2>2 DEF StageOK, Worked
  <2>4. Holds(host.bytes)'
    <3>1. HoldsUpTo(host.bytes, 2 * host.i)  BY <1>1, <2>1 DEF DataInv, Inv2C
    <3>2. \A k \in 1..N : k <= 2 * host.i  BY <1>5, <2>1
    <3>3. Holds(host.bytes)  BY <3>1, <3>2 DEF HoldsUpTo, Holds
    <3>4. QED  BY <1>2, <1>3, <3>3 DEF Holds
  <2>5. Inv2C'  BY <1>1, <2>1, <2>3, <2>4 DEF Inv2C
  <2>6. VerifiedCpld'  BY <2>1 DEF VerifiedCpld, Ended
  <2>7. QED  BY <1>1, <2>2, <2>5, <2>6 DEF Keeps2C
<1>17. CASE Mismatch2C
  <2>1. host.pc = "verifying" /\ host'.pc = "finish" /\ host'.ret = 1
    BY <1>1, <1>17 DEF Mismatch2C, At2C, Running, Go, Tell, HostFields
  <2>2. Contract!Next /\ (Loaded => Loaded')
    BY <1>6, <2>1 DEF First, BetweenJobs, BeforeJobs
  <2>3. Loaded'  BY <1>7, <2>1, <2>2 DEF StageOK, Worked
  <2>4. Inv2C'  BY <1>1, <2>1, <2>3 DEF Inv2C
  <2>5. VerifiedCpld'  BY <2>1 DEF VerifiedCpld, Ended
  <2>6. QED  BY <1>1, <2>2, <2>4, <2>5 DEF Keeps2C
<1>18. CASE NoBit
  <2>1. host'.pc = "done" /\ host'.exit = 134
    BY <1>1, <1>18 DEF NoBit, Throw, Exit, Thrown, HostFields
  <2>2. trouble' # "none"  BY <2>1, TroubleIs DEF trouble
  <2>3. Contract!Next  BY <1>6, <2>1, <2>2 DEF First
  <2>4. Inv2C'  BY <1>1, <2>1 DEF Inv2C
  <2>5. VerifiedCpld'  BY <2>1 DEF VerifiedCpld, Ended
  <2>6. QED  BY <1>1, <2>3, <2>4, <2>5 DEF Keeps2C
<1>19. CASE Read2C
  <2>1. /\ host.pc = "reading" /\ host'.pc = "reading" /\ host.i < Rows
        /\ host'.i = host.i + 1 /\ host'.out = ReadRow(host.out)
    BY <1>1, <1>19 DEF Read2C, At2C, Running, HostFields, ReadRow
  <2>2. Contract!Next
    BY <1>6, <2>1 DEF First, BetweenJobs, BeforeJobs
  <2>3. host.out \in Seq(Byte) /\ Len(host.out) = N /\ dev.pipe = host.i
    BY <2>1 DEF HostOK, CpldOK
  <2>4. /\ host'.out \in Seq(Byte) /\ Len(host'.out) = N
        /\ \A a \in 1..N : host'.out[a] = IF a \in {2 * host.i + 1, 2 * host.i + 2}
                                          THEN dev.cells[a] ELSE host.out[a]
    BY <1>1, <1>4, <2>1, <2>3, ReadRowIn
  <2>5. HoldsUpTo(host.out, 2 * host.i)'
    <3>1. SUFFICES ASSUME NEW k \in 1..N, k <= 2 * (host.i + 1)
                   PROVE  k \in DOMAIN host'.out /\ dev.cells[k] = host'.out[k]
      <4>1. N' = N /\ dev'.cells = dev.cells /\ 2 * host'.i = 2 * (host.i + 1)
        BY <1>2, <2>1
      <4>2. QED  BY <4>1 DEF HoldsUpTo
    <3>2. DOMAIN host'.out = 1..N  BY <2>4
    <3>3. CASE k <= 2 * host.i
      <4>1. dev.cells[k] = host.out[k]
        BY <1>1, <2>1, <3>1, <3>3 DEF DataInv, Inv2C, HoldsUpTo
      <4>2. QED  BY <2>4, <3>2, <4>1
    <3>4. CASE k = 2 * host.i + 1 \/ k = 2 * host.i + 2
      BY <2>4, <3>2, <3>4
    <3>5. QED  BY <1>9, <2>1, <3>1, <3>3, <3>4
  <2>6. Inv2C'  BY <1>1, <2>1, <2>5 DEF Inv2C
  <2>7. VerifiedCpld'  BY <2>1 DEF VerifiedCpld, Ended
  <2>8. QED  BY <1>1, <2>2, <2>6, <2>7 DEF Keeps2C
<1>20. QED
  BY <1>10, <1>11, <1>12, <1>13, <1>14, <1>15, <1>16, <1>17, <1>18, <1>19

(* A command that changes the cells at once.                               *)
LEMMA ChangeStep ==
  ASSUME TypeInv, Frame, Worsens, Open, Open',
         ~Astray => /\ job.does \in {"erase", "write"}
                    /\ \A a \in 1..N : dev'.cells[a] \in TowardsJob(a)
  PROVE  Contract!Next
<1>1. job' = job /\ (Astray => Astray')  BY FrameJob DEF Astray, Wrong, Worsens
<1>2. saved' = saved /\ (Open <=> Open')  BY DEF saved
<1>3. CASE Astray
  <2>1. trouble' = "lost"  BY <1>1, <1>3 DEF trouble
  <2>2. QED  BY <1>1, <1>2, <2>1 DEF Contract!Next, Contract!Lost, Open
<1>4. CASE ~Astray
  <2>1. DOMAIN dev.cells = 1..N  BY BlankIn DEF TypeInv
  <2>2. \A a \in DOMAIN dev.cells : dev'.cells[a] \in
          IF a - job.low \in 1..job.size THEN Contract!Towards(a) ELSE {dev.cells[a]}
    BY <1>4, <2>1 DEF TowardsJob
  <2>3. QED  BY <1>1, <1>2, <1>4, <2>2 DEF Contract!Next, Contract!Change, Open
<1>5. QED  BY <1>3, <1>4

LEMMA Change2C ==
  ASSUME TypeInv, TypeInv', DataInv, Worsens, Next2C, Erase2C \/ Program2C
  PROVE  Keeps2C' /\ Contract!Next
<1> USE DEF TypeInv
<1>1. /\ req.kind = "xc2c" /\ UNCHANGED req /\ DOMAIN host = HostFields /\ DOMAIN dev = DeviceFields
      /\ ~host.blind /\ ~dev'.busy /\ ~host'.blind
      /\ FirstIdle' /\ IdleInv' /\ TowardsInv'
  BY Idle2C
<1>2. /\ N \in Nat /\ DOMAIN dev.cells = 1..N /\ dev.cells \in Seq(Byte)
      /\ \A a \in 1..N : Blank[a] = Erased /\ dev.cells[a] \in Byte
  BY BlankIn DEF DeviceOK
<1>3. CASE Erase2C
  <2>1. /\ host.pc = "erase" /\ host'.pc = "blank" /\ UNCHANGED disk /\ host'.i = 0
        /\ host'.n = host.n /\ host'.fp = host.fp /\ host'.bytes = host.bytes
    BY <1>1, <1>3 DEF Erase2C, At2C, Running, Go, HostFields
  <2>2. \/ host.n = 0 /\ req.erase
        \/ host.n > 0 /\ Arg.action = "w"
    BY <1>1, <2>1 DEF CpldOK
  <2>3. Open /\ Open' /\ ~BeforeJobs
    BY <1>1, <2>1, <2>2 DEF Open, BetweenJobs, BeforeJobs
  <2>4. dev'.cells \in {Blank, dev.cells, LastBytesKept}
    BY <1>1, <1>3 DEF Erase2C, DeviceFields
  <2>5. \A a \in 1..N : dev'.cells[a] \in {dev.cells[a], Erased}
    BY <1>2, <2>4, LastBytesIn
  <2>6. Len(dev'.cells) = N
    <3>1. Len(Blank) = N /\ Len(LastBytesKept) = N  BY BlankIn, LastBytesIn
    <3>2. QED  BY <2>4, <3>1 DEF N
  <2>7. Frame  BY <1>1, <2>1, <2>3, <2>6 DEF Frame, N, BeforeJobs
  <2>8. host.n > 0 => Loaded /\ Loaded'
    BY <1>1, <2>1, <2>7, FrameArg DEF Loaded, Frame, DataInv, Inv2C
  <2>9. Inv2C'
    <3>1. \A a \in 1..N' : ~(a <= 2 * host'.i)  BY <1>2, <2>1, <2>7 DEF Frame
    <3>2. QED  BY <1>1, <2>1, <2>8, <3>1 DEF Inv2C
  <2>10. VerifiedCpld'  BY <2>1 DEF VerifiedCpld, Ended
  <2>11. ASSUME ~Astray
         PROVE  /\ job.does \in {"erase", "write"}
                /\ \A a \in 1..N : dev'.cells[a] \in TowardsJob(a)
    <3>1. /\ job.does \in {"erase", "write"} /\ job.low = 0 /\ job.size = N
      <4>1. CASE host.n = 0
        BY <2>2, <2>3, <4>1 DEF job, Job
      <4>2. CASE host.n > 0
        <5>1. UsesFile /\ ~Misread  BY <2>2, <2>11, <4>2 DEF UsesFile, Astray
        <5>2. ~Broken  BY <2>8, <4>2, <5>1 DEF Loaded
        <5>3. QED  BY <1>1, <2>2, <2>3, <4>2, <5>1, <5>2, CpldJob
      <4>3. QED  BY <2>2, <4>1, <4>2
    <3>2. QED  BY <1>2, <2>5, <3>1, ContractIs DEF TowardsJob, Contract!Towards
  <2>12. QED
    BY <1>1, <2>3, <2>7, <2>9, <2>10, <2>11, ChangeStep DEF Keeps2C
<1>4. CASE Program2C
  <2>1. /\ host.pc = "program" /\ host'.pc = "program" /\ UNCHANGED disk /\ host.i < Rows /\ ~Short
        /\ host'.n = host.n /\ host'.fp = host.fp /\ host'.bytes = host.bytes
        /\ dev'.cells = Burnt(dev.cells, Row(host.bytes, host.i), 2 * host.i)
    BY <1>1, <1>4 DEF Program2C, At2C, Running, HostFields, DeviceFields
  <2>2. host.n > 0 /\ IsWrite /\ host.i \in Nat
    BY <1>1, <2>1 DEF CpldOK, StageOK, Worked, HostOK
  <2>3. Open /\ Open' /\ ~BeforeJobs
    BY <2>1, <2>2 DEF Open, BetweenJobs, BeforeJobs
  <2>4. /\ host.bytes \in Seq(Byte) /\ Len(host.bytes) \in Nat /\ 2 * host.i + 2 <= Len(host.bytes)
        /\ 2 * host.i + 2 <= N
    <3>1. host.bytes \in Seq(Byte)  BY DEF HostOK
    <3>2. Len(host.bytes) \in Nat  BY <3>1
    <3>3. 2 * host.i + 2 <= N  BY <1>1, <2>1, <2>2, RowsAre
    <3>4. QED  BY <2>1, <2>2, <3>1, <3>2, <3>3 DEF Short
  <2>5. /\ DOMAIN Row(host.bytes, host.i) = 1..2
        /\ Row(host.bytes, host.i)[1] = host.bytes[2 * host.i + 1]
        /\ Row(host.bytes, host.i)[2] = host.bytes[2 * host.i + 2]
    <3>1. /\ Row(host.bytes, host.i) \in Seq(Byte) /\ Len(Row(host.bytes, host.i)) = 2
          /\ Row(host.bytes, host.i)[1] = host.bytes[2 * host.i + 1]
          /\ Row(host.bytes, host.i)[2] = host.bytes[2 * host.i + 2]
      BY <2>2, <2>4, RowIs
    <3>2. QED  BY <3>1
  <2>6. ASSUME NEW a \in 1..N
        PROVE  IF a \in {2 * host.i + 1, 2 * host.i + 2}
               THEN dev'.cells[a] = Burn(dev.cells[a], host.bytes[a])
               ELSE dev'.cells[a] = dev.cells[a]
    <3> DEFINE row == Row(host.bytes, host.i)
    <3>1. dev'.cells[a] = IF a - 2 * host.i \in DOMAIN row
                          THEN Burn(dev.cells[a], row[a - 2 * host.i]) ELSE dev.cells[a]
      BY <1>2, <2>1, <2>6 DEF Burnt
    <3>2. DOMAIN row = 1..2 /\ row[1] = host.bytes[2 * host.i + 1]
          /\ row[2] = host.bytes[2 * host.i + 2]
      BY <2>5
    <3> HIDE DEF row
    <3>3. CASE a = 2 * host.i + 1
      <4>1. a - 2 * host.i = 1  BY <2>2, <3>3
      <4>2. QED  BY <3>1, <3>2, <3>3, <4>1
    <3>4. CASE a = 2 * host.i + 2
      <4>1. a - 2 * host.i = 2  BY <2>2, <3>4
      <4>2. QED  BY <3>1, <3>2, <3>4, <4>1
    <3>5. CASE a \notin {2 * host.i + 1, 2 * host.i + 2}
      <4>1. a - 2 * host.i \notin 1..2  BY <2>2, <2>6, <3>5
      <4>2. QED  BY <3>1, <3>2, <3>5, <4>1
    <3>6. QED  BY <3>3, <3>4, <3>5
  <2>7. Len(dev'.cells) = N
    <3>1. dev'.cells \in Seq(Byte)  BY DEF DeviceOK
    <3>2. DOMAIN dev'.cells = 1..Len(dev'.cells) /\ Len(dev'.cells) \in Nat  BY <3>1
    <3>3. DOMAIN dev'.cells = 1..N  BY <1>2, <2>1 DEF Burnt
    <3>4. QED  BY <1>2, <3>2, <3>3
  <2>8. Frame  BY <1>1, <2>1, <2>3, <2>7 DEF Frame, N, BeforeJobs
  <2>9. Loaded /\ Loaded'
    BY <1>1, <2>1, <2>2, <2>8, FrameArg DEF Loaded, Frame, DataInv, Inv2C
  <2>10. Inv2C' /\ VerifiedCpld'
    BY <1>1, <2>1, <2>9 DEF Inv2C, VerifiedCpld, Ended
  <2>11. ASSUME ~Astray
         PROVE  /\ job.does \in {"erase", "write"}
                /\ \A a \in 1..N : dev'.cells[a] \in TowardsJob(a)
    <3>1. UsesFile /\ ~Misread  BY <2>2, <2>11 DEF UsesFile, IsWrite, Astray
    <3>2. ~Broken /\ host.bytes = Image  BY <2>9, <3>1 DEF Loaded
    <3>3. /\ job.does = "write" /\ job.low = 0 /\ job.size = N /\ job.from = 0
          /\ job.data = IF Mapped THEN host.bytes
                        ELSE SubSeq(host.bytes, 1, Min({N, Len(host.bytes)}))
      <4>1. Arg.action # "v"  BY <2>2 DEF IsWrite
      <4>2. QED  BY <1>1, <2>2, <2>3, <3>1, <3>2, <4>1, CpldJob
    <3>4. ASSUME NEW a \in 1..N  PROVE dev'.cells[a] \in TowardsJob(a)
      <4>1. a - job.low \in 1..job.size  BY <1>2, <3>3
      <4>2. CASE a \notin {2 * host.i + 1, 2 * host.i + 2}
        <5>1. dev'.cells[a] = dev.cells[a]  BY <2>6, <4>2
        <5>2. QED  BY <4>1, <5>1 DEF TowardsJob, Contract!Towards
      <4>3. CASE a \in {2 * host.i + 1, 2 * host.i + 2}
        <5>1. a \in 1..Len(host.bytes)  BY <2>2, <2>4, <3>4, <4>3
        <5>2. a \in DOMAIN job.data /\ job.data[a] = host.bytes[a]
          <6>1. CASE Mapped  BY <2>4, <3>3, <5>1, <6>1
          <6>2. CASE ~Mapped
            <7>1. Min({N, Len(host.bytes)}) \in 0..Len(host.bytes)
                  /\ a \in 1..Min({N, Len(host.bytes)})
              BY <1>2, <2>4, <3>4, <5>1, MinOfTwo
            <7>2. QED  BY <2>4, <3>3, <6>2, <7>1, Beginning
          <6>3. QED  BY <6>1, <6>2
        <5>3. a - job.from = a  BY <3>3, <3>4
        <5>4. dev'.cells[a] = Burn(dev.cells[a], job.data[a])
          BY <2>6, <3>4, <4>3, <5>2
        <5>5. QED
          BY <4>1, <5>2, <5>3, <5>4, ContractIs DEF TowardsJob, Contract!Towards, Contract!Wanted
      <4>4. QED  BY <4>2, <4>3
    <3>5. QED  BY <3>3, <3>4
  <2>12. QED
    BY <1>1, <2>3, <2>8, <2>10, <2>11, ChangeStep DEF Keeps2C
<1>5. QED  BY <1>3, <1>4

LEMMA Done2C ==
  ASSUME TypeInv, TypeInv', DataInv, Worsens, Next2C, DoneProgram \/ Save2C
  PROVE  Keeps2C' /\ Contract!Next
<1> USE DEF TypeInv
<1>1. /\ req.kind = "xc2c" /\ UNCHANGED req /\ DOMAIN host = HostFields /\ DOMAIN dev = DeviceFields
      /\ ~host.blind /\ ~dev'.busy /\ ~host'.blind /\ FirstIdle' /\ IdleInv' /\ TowardsInv'
      /\ host'.blind = host.blind
  <2>1. host'.blind = host.blind
    <3>1. CASE DoneProgram
      BY Idle2C, <3>1 DEF DoneProgram, EndOfArg, Exit, Go, HostFields
    <3>2. CASE Save2C  BY Idle2C, <3>2 DEF Save2C, Exit, Tell, Go, HostFields
    <3>3. QED  BY <3>1, <3>2
  <2>2. QED  BY <2>1, Idle2C
<1>2. UNCHANGED <<dev.cells, N>>
  BY <1>1 DEF DoneProgram, Save2C, CloseIsc, DeviceFields, N
<1>3. /\ host.pc \in {"finish", "reading"} /\ host.n > 0 /\ Open /\ ~BeforeJobs
  <2>1. host.pc \in {"finish", "reading"}
    BY DEF DoneProgram, Save2C, At2C, Running
  <2>2. host.n > 0  BY <2>1 DEF StageOK, Worked
  <2>3. QED  BY <2>1, <2>2 DEF Open, BetweenJobs, BeforeJobs
<1>4. CASE DoneProgram
  <2>1. /\ host.pc = "finish" /\ UNCHANGED disk
        /\ host'.n = host.n /\ host'.fp = host.fp /\ host.ret \in 0..1
        /\ IF host.ret # 0 THEN host'.pc = "done" /\ host'.exit = host.ret
           ELSE host'.pc = "args" /\ host'.exit = host.exit
    BY <1>1, <1>4 DEF DoneProgram, At2C, Running, EndOfArg, Exit, Go, HostFields, HostOK
  <2>2. UsesFile  BY <1>1, <2>1 DEF CpldOK, UsesFile
  <2>3. ASSUME host.ret = 0, ~Astray  PROVE ~Broken /\ Holds(Image)
    <3>1. ~Misread  BY <1>3, <2>3 DEF Astray
    <3>2. Loaded /\ Holds(host.bytes)
      BY <1>1, <1>3, <2>1, <2>3 DEF DataInv, Inv2C
    <3>3. QED  BY <2>2, <3>1, <3>2 DEF Loaded
  <2>4. VerifiedCpld' /\ Contract!Next
    BY <1>1, <1>2, <1>3, <2>1, <2>2, <2>3, VerifyEnds
  <2>5. Inv2C'  BY <1>1, <2>1 DEF Inv2C
  <2>6. QED  BY <1>1, <2>4, <2>5 DEF Keeps2C
<1>5. CASE Save2C
  <2>1. /\ host.pc = "reading" /\ host.i = Rows /\ host'.n = host.n /\ host'.fp = host.fp
        /\ IF host.fp \/ Mapped \/ NoStyle
           THEN host'.pc = "args" /\ (~Mapped /\ Arg.style \notin Savable => host'.told)
           ELSE host'.pc = "done" /\ host'.exit = 139
    BY <1>1, <1>5 DEF Save2C, At2C, Running, Exit, Tell, Go, NoStyle, Segfault, HostFields
  <2>2. ~Open' /\ ~BeforeJobs' /\ host'.pc \in {"args", "done"}
    BY <2>1 DEF Open, BetweenJobs, BeforeJobs
  <2>3. /\ Arg.action = "r" /\ Len(host.out) = N /\ host.out \in Seq(Byte)
    BY <1>1, <2>1 DEF CpldOK, HostOK
  <2>4. /\ Arg' = Arg /\ (Mapped <=> Mapped') /\ job' = job /\ job.does = "read"
        /\ job.low = 0 /\ job.size = N
    BY <1>1, <1>2, <1>3, <2>1, <2>2, <2>3, ReadJob
  <2>5. VerifiedCpld'  BY <2>3, <2>4 DEF VerifiedCpld, UsesFile
  <2>6. Inv2C'  BY <1>1, <2>2 DEF Inv2C
  <2>7. CASE trouble' # "none"
    <3>1. Contract!Finish
      BY <1>2, <1>3, <2>2, <2>4, <2>7 DEF Contract!Finish
    <3>2. QED  BY <1>1, <2>5, <2>6, <3>1 DEF Keeps2C, Contract!Next
  <2>8. CASE trouble' = "none"
    <3>1. ~host'.told  BY <2>8, TroubleIs DEF trouble
    <3>2. host.fp
      <4>1. ~host.told  BY <3>1 DEF Worsens
      <4>2. QED  BY <1>1, <1>3, <4>1 DEF DataInv, ToldInv
    <3>3. Holds(host.out)
      <4>1. /\ HoldsUpTo(host.out, 2 * host.i)  BY <1>1, <2>1 DEF DataInv, Inv2C
      <4>2. 2 * host.i = N /\ N \in Nat  BY <1>1, <2>1, RowsAre, BlankIn
      <4>3. QED  BY <4>1, <4>2 DEF HoldsUpTo, Holds
    <3>4. dev.cells \in Seq(Byte) /\ Len(dev.cells) = N /\ N \in Nat /\ N > 0
      BY BlankIn DEF DeviceOK, N
    <3>5. host.out = dev.cells /\ SubSeq(dev.cells, 0 + 1, 0 + N) = host.out
      BY <2>3, <3>3, <3>4, HoldsAll
    <3>6. Arg.name \in DOMAIN disk /\ Arg.style \in STRING  BY <1>3, ArgIs
    <3>7. saved' = SavedCells'
      BY <1>1, <2>2, <2>4 DEF saved, TooMany
    <3>8. saved' = host.out
      <4>1. CASE Mapped
        <5>1. disk' = [disk EXCEPT ![Arg.name] =
                [saveAsJed(bitfile2jedecfile(host.out), req.device) EXCEPT !.flushed = TRUE]]
          BY <1>5, <3>2, <4>1 DEF Save2C, Written
        <5> DEFINE fuses == bitfile2jedecfile(host.out)
        <5>2. disk'[Arg.name].of = fuses
          BY <3>6, <5>1 DEF saveAsJed, JedecFile
        <5>3. N = Len(FuseMap)  BY <1>1, <4>1 DEF RequestOK, Mapped
        <5>4. /\ fuses \in Seq(Byte)
              /\ \A k \in 1..N : FuseMap[k] > 0 => /\ FuseMap[k] \in DOMAIN fuses
                                                   /\ fuses[FuseMap[k]] = host.out[k]
          BY <2>3, <5>3, ToFuses
        <5>5. \A k \in 1..N : FuseMap[k] \in Int
          BY <3>4, <5>3, MapAssumption
        <5> HIDE DEF fuses
        <5>6. DOMAIN fuses = 1..Len(fuses) /\ Len(fuses) \in Nat  BY <5>4
        <5>7. SavedCells' = [k \in 1..N |-> IF FuseMap[k] \in DOMAIN fuses THEN fuses[FuseMap[k]]
                                            ELSE dev.cells[k]]
          BY <1>1, <1>2, <2>4, <4>1, <5>2 DEF SavedCells
        <5>8. \A k \in 1..N : (IF FuseMap[k] \in DOMAIN fuses THEN fuses[FuseMap[k]]
                               ELSE dev.cells[k]) = dev.cells[k]
          <6>1. SUFFICES ASSUME NEW k \in 1..N, FuseMap[k] \in DOMAIN fuses
                         PROVE  fuses[FuseMap[k]] = dev.cells[k]
            OBVIOUS
          <6>2. FuseMap[k] > 0  BY <5>5, <5>6, <6>1
          <6>3. QED  BY <3>5, <5>4, <6>1, <6>2
        <5>9. [k \in 1..N |-> IF FuseMap[k] \in DOMAIN fuses THEN fuses[FuseMap[k]]
                              ELSE dev.cells[k]] = [k \in 1..N |-> dev.cells[k]]
          BY <5>8
        <5>10. [k \in 1..N |-> dev.cells[k]] = dev.cells  BY <3>4
        <5>11. QED  BY <3>5, <3>7, <5>7, <5>9, <5>10
      <4>2. CASE ~Mapped
        <5>1. Arg.style \in Savable  BY <2>1, <3>1, <3>2, <4>2
        <5>2. host.out # <<>>  BY <2>3, <3>4
        <5>3. disk' = [disk EXCEPT ![Arg.name] =
                [[saveAs(Arg.style, host.out, 0) EXCEPT !.device = req.device]
                   EXCEPT !.flushed = TRUE]]
          BY <1>5, <3>2, <4>2 DEF Save2C, Written
        <5>4. disk'[Arg.name].of = Clipped(host.out, 0)
          BY <3>6, <5>1, <5>2, <5>3 DEF saveAs
        <5>5. FillUp(Clipped(host.out, 0), N) = host.out
          <6>1. 0 \in 0..Len(host.out)  BY <2>3, <3>4
          <6>2. QED  BY <2>3, <5>2, <6>1, ClippedIs
        <5>6. SavedCells' = FillUp(Clipped(host.out, 0), N)
          BY <1>1, <2>4, <4>2, <5>4 DEF SavedCells
        <5>7. QED  BY <3>7, <5>5, <5>6
      <4>3. QED  BY <4>1, <4>2
    <3>9. Contract!Achieved(saved')
      BY <2>4, <3>5, <3>8 DEF Contract!Achieved, Contract!Area, Contract!Part
    <3>10. Contract!Finish
      BY <1>2, <1>3, <2>2, <2>4, <3>9 DEF Contract!Finish
    <3>11. QED  BY <1>1, <2>5, <2>6, <3>10 DEF Keeps2C, Contract!Next
  <2>9. QED  BY <2>7, <2>8
<1>6. QED  BY <1>4, <1>5

LEMMA Step2C ==
  ASSUME TypeInv, TypeInv', DataInv, Worsens, Next2C
  PROVE  Keeps2C' /\ Contract!Next
<1>1. CASE Begin2C \/ Open2C \/ Return2C \/ TooMany2C \/ Ignore2C
  BY <1>1, Between2C
<1>2. CASE JedFile2C \/ BitFile2C  BY <1>2, File2C
<1>3. CASE \/ BlankRow \/ IsBlank \/ NotBlank \/ Programmed2C \/ StartVerify \/ StartRead
           \/ Verify2C \/ Verified2C \/ Mismatch2C \/ NoBit \/ Read2C
  BY <1>3, Rows2C
<1>4. CASE Erase2C \/ Program2C  BY <1>4, Change2C
<1>5. CASE DoneProgram \/ Save2C  BY <1>5, Done2C
<1>6. QED  BY <1>1, <1>2, <1>3, <1>4, <1>5 DEF Next2C

------------------------------------------------------------------------------
(***************************************************************************)
(* The XMega.                                                              *)
(***************************************************************************)
KeepsX == FirstIdle /\ IdleInv /\ TowardsInv /\ EraseInv /\ WriteInv /\ XInv /\ VerifiedX2

LEMMA IdleX ==
  ASSUME TypeInv, TypeInv', NextX
  PROVE  /\ req.kind = "xmega" /\ UNCHANGED <<req, N>> /\ DOMAIN host = HostFields
         /\ DOMAIN dev = DeviceFields /\ host.n \in Nat /\ N = Before[5]
<1>1. UNCHANGED req  BY KindIs
<1>2. req.kind = "xmega"  BY KindIs
<1>3. N = Before[5] /\ N' = Before[5]  BY <1>1, <1>2 DEF TypeInv, RequestOK
<1>4. DOMAIN host = HostFields /\ DOMAIN dev = DeviceFields /\ host.n \in Nat
  BY DEF TypeInv, HostOK, DeviceOK, RequestOK
<1>5. QED  BY <1>1, <1>2, <1>3, <1>4

LEMMA JobXIs ==
  ASSUME req.kind = "xmega", ~BeforeJobs, host.n > 0, Arg.section \in DOMAIN Sizes
  PROVE  /\ Arg.action = "r" =>
              /\ job.does = "read" /\ job.low = base(Arg.section) + Arg.offset
              /\ job.size = ReadLength /\ job.from = 0
         /\ Arg.action # "r" => job.low = base(Arg.section) /\ job.size = Sizes[Arg.section]
         /\ Arg.action = "e" => job.does = "erase"
         /\ UsesFile => job.from = base(Arg.section) + Skip /\ job.data = DataX
         /\ UsesFile /\ ~Broken => job.does = IF Arg.action = "v" THEN "verify" ELSE "write"
<1>1. job = JobX  BY DEF job, OfXMega
<1>2. UsesFile /\ ~Broken => Asked = IF Arg.action = "v" THEN "verify" ELSE "write"
  BY DEF Asked, UsesFile, IsWrite
<1>3. CASE Arg.action = "r"
  BY <1>1, <1>3 DEF JobX, Job, UsesFile
<1>4. CASE Arg.action = "e"
  BY <1>1, <1>4 DEF JobX, Job, UsesFile
<1>5. CASE Arg.action \notin {"r", "e"}
  BY <1>1, <1>2, <1>5 DEF JobX, Job, DataX
<1>6. QED  BY <1>3, <1>4, <1>5

(* The pages before the file's are skipped.                                *)
LEMMA DataIs ==
  ASSUME TypeInv, host.n > 0
  PROVE  /\ File.of \in Seq(Byte) /\ Len(File.of) \in Nat /\ DOMAIN File.of = 1..Len(File.of)
         /\ Skip \in Nat /\ Skip % Page = 0 /\ (~IsWrite => Skip = 0)
         /\ IsWrite => Skip = Page * (Arg.offset \div Page)
         /\ DataX \in Seq(Byte)
         /\ Len(DataX) = IF Skip <= Len(File.of) THEN Len(File.of) - Skip ELSE 0
         /\ \A m \in 1..Len(DataX) : DataX[m] = File.of[Skip + m]
<1>1. File.of \in Seq(Byte)
  <2>1. Missing.of \in Seq(Byte)  BY DEF Missing
  <2>2. File # Missing => File.of \in Seq(Byte)  BY FileIs DEF TypeInv
  <2>3. QED  BY <2>1, <2>2
<1>2. Len(File.of) \in Nat /\ DOMAIN File.of = 1..Len(File.of)  BY <1>1
<1>3. Arg.offset \in Nat  BY ArgIs DEF TypeInv
<1>4. Page \in Nat /\ Page > 0  BY XMegaAssumption
<1>5. Page * (Arg.offset \div Page) \in Nat /\ (Page * (Arg.offset \div Page)) % Page = 0
  <2> DEFINE q == Arg.offset \div Page
  <2>1. Arg.offset % Page \in 0..(Page - 1) /\ Arg.offset = Page * q + (Arg.offset % Page)
        /\ q \in Int
    <3>1. Arg.offset \in Int  BY <1>3
    <3>2. QED  BY ONLY <1>4, <3>1, Multiples
  <2> HIDE DEF q
  <2>2. (Page * q) % Page = 0  BY <1>4, <2>1, Multiples
  <2>3. q >= 0
    <3>1. Page * q \in Int /\ (q < 0 => Page * q + Page <= Page * 0)
      BY <1>4, <2>1, Order
    <3>2. Page * 0 = 0  BY <1>4
    <3>3. QED  BY <1>3, <1>4, <2>1, <3>1, <3>2
  <2>4. Page * q \in Nat
    <3>1. ASSUME NEW x \in Nat, NEW y \in Nat PROVE x * y \in Nat  OBVIOUS
    <3>2. q \in Nat  BY <2>1, <2>3
    <3>3. QED  BY <1>4, <3>1, <3>2
  <2>5. QED  BY <2>2, <2>4 DEF q
<1>6. Skip \in Nat /\ Skip % Page = 0 /\ (~IsWrite => Skip = 0)
      /\ (IsWrite => Skip = Page * (Arg.offset \div Page))
  <2>1. 0 % Page = 0  BY <1>4
  <2>2. QED  BY <1>5, <2>1 DEF Skip
<1>7. /\ DataX \in Seq(Byte)
      /\ Len(DataX) = IF Skip <= Len(File.of) THEN Len(File.of) - Skip ELSE 0
      /\ \A m \in 1..Len(DataX) : DataX[m] = File.of[Skip + m]
  <2> DEFINE of == File.of
             from == Skip
             d == SubSeq(of, from + 1, Len(of))
  <2>1. of \in Seq(Byte) /\ from \in Nat  BY <1>1, <1>6
  <2> HIDE DEF of, from
  <2>2. d \in Seq(Byte)  BY <2>1
  <2>3. Len(d) = IF from <= Len(of) THEN Len(of) - from ELSE 0  BY <2>1
  <2>4. \A m \in 1..Len(d) : d[m] = of[from + m]
    <3>1. ASSUME NEW m \in 1..Len(d) PROVE d[m] = of[from + m]
      <4>1. m \in 1..(Len(of) - from)  BY <2>1, <2>3, <3>1
      <4>2. d = [k \in 1..(Len(of) - from) |-> of[k + from]]
        <5>1. \A k \in 1..(Len(of) - from) : d[k] = of[from + 1 + k - 1]  BY <2>1
        <5>2. DOMAIN d = 1..(Len(of) - from)  BY <2>1, <2>3, <4>1
        <5>3. QED  BY <2>1, <2>2, <5>1, <5>2
      <4>3. QED  BY <2>1, <4>1, <4>2
    <3>2. QED  BY <3>1
  <2>5. QED  BY <2>2, <2>3, <2>4 DEF of, from, DataX
<1>8. QED  BY <1>1, <1>2, <1>6, <1>7

(* A part of the cells that holds the data, byte by byte.                  *)
LEMMA PartIs ==
  ASSUME TypeInv, NEW from \in Nat, NEW data \in Seq(Byte), from + Len(data) <= N,
         \A m \in 1..Len(data) : dev.cells[from + m] = data[m]
  PROVE  Contract!Part(dev.cells, from, Len(data)) = data
<1> DEFINE s == dev.cells
           n == Len(data)
           p == SubSeq(s, from + 1, from + n)
<1>1. s \in Seq(Byte) /\ N = Len(s) /\ N \in Nat /\ n \in Nat /\ from + n <= Len(s)
      /\ \A m \in 1..n : s[from + m] = data[m]
  BY BlankIn DEF TypeInv, DeviceOK, N
<1> HIDE DEF s
<1>2. p \in Seq(Byte) /\ Len(p) = n  BY <1>1
<1>3. \A m \in 1..n : p[m] = data[m]
  <2>1. ASSUME NEW m \in 1..n PROVE p[m] = s[from + m]
    <3>1. p[m] = s[from + 1 + m - 1]  BY <1>1, <2>1
    <3>2. from + 1 + m - 1 = from + m  BY <1>1, <2>1
    <3>3. QED  BY <3>1, <3>2
  <2>2. QED  BY <1>1, <2>1
<1> HIDE DEF p
<1>4. p = data  BY <1>2, <1>3, SameSequence DEF n
<1>5. QED  BY <1>4 DEF Contract!Part, p, s, n

(* What was written, or was read back and compared, is in the device.      *)
LEMMA FileInDevice ==
  ASSUME TypeInv, req.kind = "xmega", ~BeforeJobs, host.n > 0, Arg.section \in DOMAIN Sizes,
         UsesFile, base(Arg.section) + Skip + Len(DataX) <= N,
         \A k \in (Skip + 1)..Len(File.of) : dev.cells[base(Arg.section) + k] = File.of[k]
  PROVE  Contract!Part(dev.cells, job.from, Len(job.data)) = job.data
<1>1. job.from = base(Arg.section) + Skip /\ job.data = DataX  BY JobXIs
<1>2. /\ DataX \in Seq(Byte) /\ Len(DataX) \in Nat /\ Skip \in Nat /\ base(Arg.section) \in Nat
      /\ Len(File.of) \in Nat
  BY DataIs, SectionIs
<1>3. ASSUME NEW m \in 1..Len(DataX)
      PROVE  dev.cells[base(Arg.section) + Skip + m] = DataX[m]
  <2>1. DataX[m] = File.of[Skip + m]  BY DataIs
  <2>2. Skip + m \in (Skip + 1)..Len(File.of)
    BY <1>2, <1>3, DataIs
  <2>3. dev.cells[base(Arg.section) + (Skip + m)] = File.of[Skip + m]  BY <2>2
  <2>4. base(Arg.section) + (Skip + m) = base(Arg.section) + Skip + m  BY <1>2, <1>3
  <2>5. QED  BY <2>1, <2>3, <2>4
<1>4. base(Arg.section) + Skip \in Nat  BY <1>2
<1>5. QED  BY <1>1, <1>2, <1>3, <1>4, PartIs

(* A file that is no longer than the section ends with a page.             *)
LEMMA WriteFits ==
  ASSUME TypeInv, req.kind = "xmega", ~BeforeJobs, host.n > 0, Arg.section \in DOMAIN Sizes,
         IsWrite, Loaded, ~Astray
  PROVE  /\ ~Broken /\ host.bytes = File.of /\ Len(host.bytes) \in Nat
         /\ DOMAIN host.bytes = 1..Len(host.bytes) /\ job.does = "write"
         /\ base(Arg.section) + Skip + Len(DataX) <= base(Arg.section) + Sizes[Arg.section]
         /\ base(Arg.section) + Skip + Len(DataX) <= N
         /\ Skip < Len(host.bytes) =>
              Len(host.bytes) <= Sizes[Arg.section] /\ Len(host.bytes) % Page = 0
<1>1. UsesFile /\ ~Misread /\ ~Overlong /\ ~PartOfPage /\ ChangesX
  BY DEF UsesFile, IsWrite, Astray, ChangesX, OfXMega
<1>2. ~Broken /\ host.bytes = File.of  BY <1>1 DEF Loaded, Image
<1>3. /\ File.of \in Seq(Byte) /\ Len(File.of) \in Nat /\ DOMAIN File.of = 1..Len(File.of)
      /\ Skip \in Nat /\ Skip % Page = 0
      /\ Len(DataX) = IF Skip <= Len(File.of) THEN Len(File.of) - Skip ELSE 0
  BY DataIs
<1>4. /\ job.low = base(Arg.section) /\ job.size = Sizes[Arg.section]
      /\ job.from = base(Arg.section) + Skip /\ job.data = DataX /\ job.does = "write"
  <2>1. Arg.action # "v" /\ Arg.action # "r"  BY DEF IsWrite
  <2>2. QED  BY <1>1, <1>2, <2>1, JobXIs
<1>5. /\ base(Arg.section) \in Nat /\ Sizes[Arg.section] \in Nat
      /\ base(Arg.section) + Sizes[Arg.section] <= Before[5] /\ N = Before[5] /\ N \in Nat
  BY SectionIs, BlankIn DEF TypeInv, RequestOK
<1>6. /\ base(Arg.section) \in Nat /\ Sizes[Arg.section] \in Nat /\ Skip \in Nat
       /\ Len(DataX) \in Nat
  BY <1>3, <1>5
<1>7. base(Arg.section) + Skip + Len(DataX) <= base(Arg.section) + Sizes[Arg.section]
  <2>1. ~(base(Arg.section) + Skip + Len(DataX) > base(Arg.section) + Sizes[Arg.section])
    BY <1>1, <1>4 DEF Overlong
  <2>2. base(Arg.section) + Skip + Len(DataX) \in Nat
        /\ base(Arg.section) + Sizes[Arg.section] \in Nat
    BY <1>6
  <2>3. QED  BY ONLY <2>1, <2>2
<1>8. base(Arg.section) + Skip + Len(DataX) <= N
  <2>1. base(Arg.section) + Skip + Len(DataX) \in Nat
        /\ base(Arg.section) + Sizes[Arg.section] \in Nat
    BY <1>6
  <2>2. QED  BY ONLY <1>5, <1>7, <2>1
<1>9. ASSUME Skip < Len(File.of)
      PROVE  Len(File.of) <= Sizes[Arg.section] /\ Len(File.of) % Page = 0
  <2>1. Len(DataX) = Len(File.of) - Skip  BY <1>3, <1>9
  <2>2. Len(File.of) <= Sizes[Arg.section]
    <3>1. Len(File.of) \in Nat  BY <1>3
    <3>2. Len(DataX) <= Sizes[Arg.section] - Skip  BY ONLY <1>6, <1>7
    <3>3. QED  BY ONLY <1>6, <2>1, <3>1, <3>2
  <2>3. Len(DataX) % Page = 0  BY <1>1, <1>4 DEF PartOfPage
  <2>4. (Skip + Len(DataX)) % Page = 0
    <3>1. Page \in Nat /\ Page > 0  BY XMegaAssumption
    <3>2. Skip \in Int /\ Len(DataX) \in Int  BY <1>3, <2>1
    <3>3. QED  BY <1>3, <2>3, <3>1, <3>2, Blocks
  <2>5. Skip + Len(DataX) = Len(File.of)  BY <1>3, <2>1
  <2>6. QED  BY <2>2, <2>4, <2>5
<1>10. QED  BY <1>2, <1>3, <1>4, <1>7, <1>8, <1>9

(* So every page written is the file's.                                    *)
LEMMA PageFits ==
  ASSUME TypeInv, req.kind = "xmega", ~BeforeJobs, host.n > 0, Arg.section \in DOMAIN Sizes,
         IsWrite, Loaded, ~Astray, host.i % Page = 0, Skip <= host.i, host.i < Len(host.bytes)
  PROVE  /\ host.i + Page <= Len(host.bytes) /\ Len(host.bytes) <= Sizes[Arg.section]
         /\ Page \in Nat /\ Page > 0 /\ base(Arg.section) + Sizes[Arg.section] <= N
         /\ base(Arg.section) \in Nat /\ host.i \in Nat /\ N \in Nat /\ Sizes[Arg.section] \in Nat
         /\ host.bytes = File.of /\ Len(host.bytes) \in Nat /\ Skip \in Nat
         /\ DOMAIN host.bytes = 1..Len(host.bytes)
<1>1. host.i \in Nat /\ Skip \in Nat /\ Len(host.bytes) \in Nat /\ host.bytes = File.of
      /\ DOMAIN host.bytes = 1..Len(host.bytes)
  BY DataIs, WriteFits DEF TypeInv, HostOK
<1>2. Skip < Len(host.bytes)  BY <1>1
<1>3. Len(host.bytes) <= Sizes[Arg.section] /\ Len(host.bytes) % Page = 0  BY <1>2, WriteFits
<1>4. Page \in Nat /\ Page > 0  BY XMegaAssumption
<1>5. host.i + Page <= Len(host.bytes)
  <2>1. host.i \in Int /\ Len(host.bytes) \in Int  BY <1>1
  <2>2. QED  BY <1>3, <1>4, <2>1, Blocks
<1>6. /\ base(Arg.section) \in Nat /\ base(Arg.section) + Sizes[Arg.section] <= Before[5]
      /\ Sizes[Arg.section] \in Nat /\ N = Before[5] /\ N \in Nat
  BY SectionIs, BlankIn DEF TypeInv, RequestOK
<1>7. QED  BY <1>1, <1>3, <1>4, <1>5, <1>6

LEMMA FrameX ==
  ASSUME Frame, UNCHANGED <<dev.cells, dev.todo, dev.busy>>
  PROVE  /\ Coming' = Coming /\ Blank' = Blank /\ (\A k : At(k)' = At(k))
         /\ (Programmable <=> Programmable') /\ (Programs <=> Programs')
         /\ \A m : Untouched(m)' <=> Untouched(m)
<1> USE DEF Frame
<1>1. Coming' = Coming /\ Blank' = Blank  BY DEF Coming, Blank
<1>2. Arg' = Arg  BY FrameArg
<1>3. \A k : At(k)' = At(k)  BY <1>1, <1>2 DEF At
<1>4. (Programmable <=> Programmable') /\ (Programs <=> Programs')
  BY <1>2 DEF Programmable, Programs
<1>5. \A m : Untouched(m)' <=> Untouched(m)  BY DEF Untouched
<1>6. QED  BY <1>1, <1>3, <1>4, <1>5

(* The waits for the NVM controller.                                       *)
LEMMA WaitStepX ==
  ASSUME TypeInv, TypeInv', DataInv, Worsens, NextX, wait_nvmbusy \/ wait_for_nvmen
  PROVE  KeepsX' /\ Contract!Next
<1> USE DEF TypeInv
<1>1. /\ req.kind = "xmega" /\ UNCHANGED <<req, N>> /\ DOMAIN host = HostFields
      /\ host.n \in Nat
  BY IdleX
<1>2. Waiting /\ UNCHANGED <<disk, dev>>
  BY DEF wait_nvmbusy, wait_for_nvmen, AtX, Running, Waiting, Quiet
<1>3. /\ host'.n = host.n /\ host'.fp = host.fp /\ host'.bytes = host.bytes /\ host'.i = host.i
      /\ host'.then = host.then
      /\ \/ host'.pc = host.pc /\ host'.blind = host.blind
         \/ host'.pc = host.then
              /\ (~host'.blind => ~host.blind /\ (host'.wait # 0 \/ ~dev.busy))
              /\ (~dev.busy /\ ~host.blind => ~host'.blind)
  <2>1. CASE wait_nvmbusy
    <3>1. \/ host' = PollAgain \/ host' = [Returned(0) EXCEPT !.blind = @ \/ dev.busy]
      BY <2>1 DEF wait_nvmbusy
    <3>2. CASE host' = [host EXCEPT !.polls = @ + 1]
      BY <1>1, <3>2 DEF HostFields
    <3>3. CASE host' = Returned(1)
      BY <1>1, <3>3 DEF HostFields, Returned, Go
    <3>4. CASE host' = [Returned(0) EXCEPT !.blind = @ \/ dev.busy]
      <4>1. /\ host'.n = host.n /\ host'.fp = host.fp /\ host'.bytes = host.bytes /\ host'.i = host.i
            /\ host'.then = host.then /\ host'.pc = host.then
        BY <1>1, <3>4 DEF HostFields, Returned, Go
      <4>2. host'.blind = (host.blind \/ dev.busy)
        BY <1>1, <3>4 DEF HostFields, Returned, Go
      <4>3. QED  BY <4>1, <4>2
    <3>5. QED  BY <3>1, <3>2, <3>3, <3>4 DEF PollAgain
  <2>2. CASE wait_for_nvmen
    <3>1. \/ host' = Tell(Returned(1), TRUE) \/ host' = [host EXCEPT !.polls = @ + 1]
          \/ host' = Returned(1) \/ (~dev.busy /\ host' = Returned(0))
      BY <2>2 DEF wait_for_nvmen, PollAgain
    <3>2. CASE host' = Tell(Returned(1), TRUE)
      BY <1>1, <3>2 DEF HostFields, Returned, Go, Tell
    <3>3. CASE host' = [host EXCEPT !.polls = @ + 1]
      BY <1>1, <3>3 DEF HostFields
    <3>4. CASE host' = Returned(1)
      BY <1>1, <3>4 DEF HostFields, Returned, Go
    <3>5. CASE ~dev.busy /\ host' = Returned(0)
      BY <1>1, <3>5 DEF HostFields, Returned, Go
    <3>6. QED  BY <3>1, <3>2, <3>3, <3>4, <3>5
  <2>3. QED  BY <2>1, <2>2
<1>4. host.then \in {"inited", "erased", "load", "next"}  BY <1>1, <1>2 DEF XMegaOK
<1>5. StageX' = StageX /\ StageX = host.then /\ host'.pc \in {"nvmbusy", "nvmen", host.then}
  BY <1>2, <1>3, <1>4 DEF StageX, Waiting
<1>6. /\ host.pc \notin First /\ ~BetweenJobs /\ ~BetweenJobs' /\ ~BeforeJobs /\ ~BeforeJobs'
  BY <1>2, <1>4, <1>5 DEF First, BetweenJobs, BeforeJobs, Waiting
<1>7. Frame /\ (Open <=> Open')  BY <1>1, <1>2, <1>3, <1>6 DEF Frame, Open
<1>8. Contract!Next /\ TowardsInv'
  BY <1>2, <1>7, NoteStep, TowardsStays DEF Contract!Next, DataInv
<1>9. ~host'.blind => ~host.blind  BY DEF Worsens
<1>10. ~Astray' => ~Astray  BY <1>7, <1>9, FrameJob DEF Astray, Wrong
<1>11. StageX = "inited" => ~dev.busy /\ ~host.blind
  BY <1>1 DEF DataInv, XInv
<1>12. FirstIdle'
  BY <1>2, <1>3, <1>4, <1>5, <1>11 DEF FirstIdle, First
<1>13. IdleInv'
  <2>1. dev.busy /\ ~host.blind => StageX \in {"erased", "load", "next"}
    BY <1>1, <1>2 DEF DataInv, IdleInv, Waiting
  <2>2. QED  BY <1>1, <1>2, <1>5, <1>9, <2>1 DEF IdleInv
<1>14. EraseInv'
  BY <1>1, <1>2, <1>3, <1>4, <1>5, <1>7, <1>9, FrameX, FrameArg DEF DataInv, EraseInv, Frame
<1>15. WriteInv'
  <2>1. /\ Arg' = Arg /\ (IsWrite <=> IsWrite') /\ Skip' = Skip /\ (WritesOver <=> WritesOver')
        /\ (Programs <=> Programs') /\ (Programmable <=> Programmable') /\ \A k : At(k)' = At(k)
    BY <1>2, <1>7, FrameX, FrameArg DEF Frame
  <2>2. Behind' = Behind /\ PageAt' = PageAt  BY <1>3, <1>5, <2>1 DEF Behind, PageAt
  <2>3. StageX # "page"  BY <1>4, <1>5
  <2>4. Blank' = Blank  BY <1>2, <1>7, FrameX
  <2>5. QED  BY <1>1, <1>2, <1>3, <1>5, <1>10, <2>1, <2>2, <2>3, <2>4 DEF DataInv, WriteInv
<1>16. Loaded' <=> Loaded  BY <1>3, <1>7, FrameArg DEF Loaded, Frame
<1>17. XInv'
  <2>1. dev'.isc  BY <1>1, <1>2 DEF DataInv, XInv, Waiting
  <2>2. StageX' = "inited" => ~dev'.busy /\ ~host'.blind
    BY <1>2, <1>3, <1>5, <1>11
  <2>3. host'.pc \in {"erased", "load", "next"} /\ ~host'.blind /\ host'.wait = 0 => ~dev'.busy
    BY <1>2, <1>3 DEF Waiting
  <2>4. host'.n > 0 /\ StageX' \in {"erased", "load", "next"} => Loaded'
    BY <1>1, <1>3, <1>5, <1>16 DEF DataInv, XInv
  <2>5. QED  BY <1>4, <1>5, <2>1, <2>2, <2>3, <2>4 DEF XInv
<1>18. VerifiedX2'  BY <1>4, <1>5 DEF VerifiedX2
<1>19. QED  BY <1>8, <1>12, <1>13, <1>14, <1>15, <1>17, <1>18 DEF KeepsX

LEMMA StageIs ==
  /\ host.pc \notin {"nvmbusy", "nvmen"} => StageX = host.pc
  /\ host'.pc \notin {"nvmbusy", "nvmen"} => StageX' = host'.pc
  /\ host'.pc \in {"nvmbusy", "nvmen"} => StageX' = host'.then
BY DEF StageX, Waiting

(* The NVM controller is switched on, and the chip erased.                 *)
LEMMA SetupStepX ==
  ASSUME TypeInv, TypeInv', DataInv, Worsens, NextX, BeginX \/ InitX \/ chip_erase
  PROVE  KeepsX' /\ Contract!Next
<1> USE DEF TypeInv
<1>1. /\ req.kind = "xmega" /\ UNCHANGED <<req, N>> /\ DOMAIN host = HostFields
      /\ DOMAIN dev = DeviceFields
  BY IdleX
<1>2. UNCHANGED disk  BY DEF BeginX, InitX, chip_erase, Quiet
<1>3. host.pc \in {"begin", "inited", "chiperase"}
  BY DEF BeginX, InitX, chip_erase, AtX, Running
<1>4. host.n = 0 /\ ~dev.busy /\ ~host.blind /\ ~BeforeJobs
  BY <1>3 DEF StageOK, First, DataInv, FirstIdle, BeforeJobs
<1>5. Open <=> req.erase  BY <1>3, <1>4 DEF Open, BetweenJobs, BeforeJobs
<1>6. CASE BeginX
  <2>1. /\ host'.pc = "nvmbusy" /\ host'.then = "inited" /\ host'.n = host.n /\ host'.fp = host.fp
        /\ host'.blind = host.blind
        /\ dev'.cells = dev.cells /\ dev'.busy = dev.busy /\ dev'.isc = TRUE
    BY <1>1, <1>6 DEF BeginX, Call, Go, HostFields, DeviceFields
  <2>2. StageX' = "inited"  BY <2>1, StageIs
  <2>3. Frame /\ (Open <=> Open')
    BY <1>1, <1>2, <1>4, <1>5, <2>1 DEF Frame, Open, BetweenJobs, BeforeJobs
  <2>4. Contract!Next  BY <2>1, <2>3, NoteStep DEF Contract!Next
  <2>5. FirstIdle' /\ IdleInv' /\ TowardsInv' /\ EraseInv' /\ WriteInv' /\ VerifiedX2'
    BY <1>4, <2>1, <2>2
       DEF FirstIdle, First, IdleInv, TowardsInv, EraseInv, WriteInv, VerifiedX2
  <2>6. XInv'  BY <1>4, <2>1, <2>2 DEF XInv
  <2>7. QED  BY <2>4, <2>5, <2>6 DEF KeepsX
<1>7. CASE InitX
  <2>1. /\ UNCHANGED dev /\ host.pc = "inited" /\ host'.n = host.n /\ host'.fp = host.fp
        /\ host'.blind = host.blind
        /\ IF host.wait # 0 THEN host'.pc = "done" /\ host'.told = TRUE
           ELSE host'.pc = IF req.erase THEN "chiperase" ELSE "args"
    BY <1>1, <1>7 DEF InitX, AtX, Running, Quiet, Exit, Tell, Go, HostFields
  <2>2. StageX' = host'.pc /\ host'.pc \in {"done", "chiperase", "args"}  BY <2>1, StageIs
  <2>3. Frame  BY <1>1, <1>2, <1>4, <2>1, <2>2 DEF Frame, BeforeJobs
  <2>4. Contract!Next
    <3>1. CASE Open <=> Open'
      BY <2>1, <2>3, <3>1, NoteStep DEF Contract!Next
    <3>2. CASE ~(Open <=> Open')
      <4>1. Open /\ ~Open' /\ host'.told
        BY <1>1, <1>4, <1>5, <2>1, <3>2 DEF Open, BetweenJobs, BeforeJobs
      <4>2. trouble' # "none"  BY <4>1, TroubleIs DEF trouble
      <4>3. QED  BY <2>1, <2>3, <4>1, <4>2, TellStep
    <3>3. QED  BY <3>1, <3>2
  <2>5. FirstIdle' /\ IdleInv' /\ TowardsInv' /\ WriteInv' /\ VerifiedX2'
    BY <1>4, <2>1, <2>2 DEF FirstIdle, IdleInv, TowardsInv, WriteInv, VerifiedX2
  <2>6. EraseInv'
    <3>1. host'.pc = "args" => ~req'.erase  BY <1>1, <2>1
    <3>2. QED  BY <1>4, <2>1, <2>2, <3>1 DEF EraseInv
  <2>7. XInv'
    <3>1. dev'.isc  BY <1>1, <1>3, <2>1 DEF DataInv, XInv
    <3>2. QED  BY <1>4, <2>1, <2>2, <3>1 DEF XInv
  <2>8. QED  BY <2>4, <2>5, <2>6, <2>7 DEF KeepsX
<1>8. CASE chip_erase
  <2>1. /\ host.pc = "chiperase" /\ host'.pc = "nvmen" /\ host'.then = "erased"
        /\ host'.n = host.n /\ host'.fp = host.fp /\ host'.blind = host.blind
    BY <1>1, <1>8 DEF chip_erase, AtX, Running, Call, Go, HostFields
  <2>2. dev.isc  BY <1>1, <2>1 DEF DataInv, XInv
  <2>3. dev' = Working(Blank)  BY <1>4, <1>8, <2>2 DEF chip_erase, Command, Ready
  <2>4. dev'.todo = Blank /\ dev'.cells = dev.cells /\ dev'.busy = TRUE /\ dev'.isc = dev.isc
    BY <1>1, <2>3 DEF Working, DeviceFields
  <2>5. req.erase  BY <1>1, <2>1, StageIs DEF XMegaOK
  <2>6. StageX' = "erased"  BY <2>1, StageIs
  <2>7. Frame /\ (Open <=> Open')
    BY <1>1, <1>2, <1>4, <1>5, <2>1, <2>5 DEF Frame, Open, BetweenJobs, BeforeJobs
  <2>8. Contract!Next  BY <2>4, <2>7, NoteStep DEF Contract!Next
  <2>9. TowardsInv'
    <3>1. /\ job' = job /\ job.does = "erase" /\ job.low = 0 /\ job.size = N
      BY <1>4, <2>5, <2>7, FrameJob DEF job, Job
    <3>2. N' = N /\ N \in Nat /\ \A a \in 1..N : Blank[a] = Erased  BY <2>7, BlankIn DEF Frame
    <3>3. ASSUME NEW a \in 1..N' PROVE dev'.todo[a] \in TowardsJob(a)'
      <4>1. a - job'.low \in 1..job'.size  BY <3>1, <3>2
      <4>2. dev'.todo[a] = Erased  BY <2>4, <3>2
      <4>3. QED  BY <4>1, <4>2, ContractIs DEF TowardsJob, Contract!Towards
    <3>4. QED  BY <3>1, <3>3 DEF TowardsInv
  <2>10. FirstIdle' /\ IdleInv' /\ WriteInv' /\ VerifiedX2'
    BY <1>1, <2>1, <2>6 DEF FirstIdle, First, IdleInv, WriteInv, VerifiedX2
  <2>11. EraseInv'
    <3>1. Coming' = Blank'  BY <1>1, <2>4 DEF Coming, Blank
    <3>2. QED  BY <1>4, <2>1, <2>6, <3>1 DEF EraseInv
  <2>12. XInv'  BY <1>4, <2>1, <2>2, <2>4, <2>6 DEF XInv
  <2>13. QED  BY <2>8, <2>9, <2>10, <2>11, <2>12 DEF KeepsX
<1>9. QED  BY <1>6, <1>7, <1>8

(* After an erase.                                                         *)
LEMMA ErasedStepX ==
  ASSUME TypeInv, TypeInv', DataInv, Worsens, NextX, ErasedX
  PROVE  KeepsX' /\ Contract!Next
<1> USE DEF TypeInv
<1>1. /\ req.kind = "xmega" /\ UNCHANGED <<req, N>> /\ DOMAIN host = HostFields
      /\ host.n \in Nat
  BY IdleX
<1>2. /\ host.pc = "erased" /\ UNCHANGED <<disk, dev>> /\ StageX = "erased"
      /\ host'.n = host.n /\ host'.fp = host.fp /\ host'.blind = host.blind /\ host'.i = host.i
      /\ host'.bytes = host.bytes
      /\ IF host.wait # 0 THEN host'.pc = "release" /\ host'.told = TRUE /\ host'.ret = 1
         ELSE host'.pc = IF host.n = 0 \/ Arg.action = "e" THEN "args" ELSE "write"
  BY <1>1, StageIs DEF ErasedX, AtX, Running, Quiet, Release, Tell, Go, HostFields
<1>3. Open /\ ~BeforeJobs /\ host.pc \notin First
  BY <1>1, <1>2 DEF Open, BetweenJobs, BeforeJobs, First, XMegaOK
<1>4. host'.pc \in {"release", "args", "write"} /\ StageX' = host'.pc  BY <1>2, StageIs
<1>5. Frame /\ ~BeforeJobs'  BY <1>1, <1>2, <1>3, <1>4 DEF Frame, BeforeJobs
<1>6. TowardsInv' /\ FirstIdle'
  BY <1>2, <1>4, <1>5, TowardsStays DEF DataInv, FirstIdle, First
<1>7. dev.isc /\ (host.wait = 0 /\ ~host.blind => ~dev.busy)
  BY <1>1, <1>2 DEF DataInv, XInv
<1>8. IdleInv'
  BY <1>1, <1>2, <1>4, <1>7 DEF IdleInv
<1>9. ~host.blind => IF host.n = 0 THEN Coming = Blank
                     ELSE Programmable => \A k \in 1..Sizes[Arg.section] : At(k) = Erased
  BY <1>1, <1>2 DEF DataInv, EraseInv
<1>10. CASE host.wait # 0
  <2>1. trouble' # "none" /\ ~Open'
    BY <1>2, <1>10, TroubleIs DEF trouble, Open, BetweenJobs
  <2>2. Contract!Next  BY <1>2, <1>5, <2>1, TellStep
  <2>3. EraseInv' /\ WriteInv' /\ XInv' /\ VerifiedX2'
    BY <1>2, <1>4, <1>7, <1>10 DEF EraseInv, WriteInv, XInv, VerifiedX2
  <2>4. QED  BY <1>6, <1>8, <2>2, <2>3 DEF KeepsX
<1>11. CASE host.wait = 0 /\ host.n = 0
  <2>1. host'.pc = "args" /\ ~Open'  BY <1>2, <1>11 DEF Open, BetweenJobs
  <2>2. ~host.blind => dev.cells = Blank
    BY <1>7, <1>9, <1>11 DEF Coming
  <2>3. Contract!Next
    <3>1. CASE host.blind
      <4>1. trouble' # "none"  BY <1>2, <3>1, TroubleIs DEF trouble, Astray
      <4>2. QED  BY <1>2, <1>5, <2>1, <4>1, TellStep
    <3>2. CASE ~host.blind
      <4>1. job.does = "erase" /\ job.low = 0 /\ job.size = N
        BY <1>3, <1>11 DEF job, Job, Open
      <4>2. N \in Nat /\ N = Len(dev.cells) /\ dev.cells \in Seq(Byte)
        BY BlankIn DEF N, DeviceOK
      <4>3. SubSeq(dev.cells, 1, Len(dev.cells)) = dev.cells  BY <4>2, WholeIs
      <4>4. SubSeq(dev.cells, 0 + 1, 0 + N) = dev.cells  BY <4>2, <4>3
      <4>5. Contract!Area = Fill(N, Erased)
        BY <2>2, <3>2, <4>1, <4>4 DEF Contract!Area, Contract!Part, Blank
      <4>6. Contract!Achieved(saved')
        BY <4>1, <4>5, ContractIs DEF Contract!Achieved
      <4>7. Contract!Finish
        BY <1>2, <1>3, <1>5, <2>1, <4>6, FrameJob DEF Contract!Finish
      <4>8. QED  BY <4>7 DEF Contract!Next
    <3>3. QED  BY <3>1, <3>2
  <2>4. EraseInv'
    <3>1. ~host'.blind => dev'.cells = Blank'  BY <1>1, <1>2, <2>2 DEF Blank
    <3>2. QED  BY <1>2, <1>4, <1>11, <2>1, <3>1 DEF EraseInv
  <2>5. WriteInv' /\ XInv' /\ VerifiedX2'
    BY <1>2, <1>4, <1>7, <1>11, <2>1 DEF WriteInv, XInv, VerifiedX2
  <2>6. QED  BY <1>6, <1>8, <2>3, <2>4, <2>5 DEF KeepsX
<1>12. CASE host.wait = 0 /\ host.n > 0
  <2>1. /\ ErasesFirst /\ ~Skipped /\ ~req.erase /\ Arg.action \in {"w", "e"}
        /\ Arg.section \in DOMAIN Sizes
    BY <1>1, <1>2, <1>12 DEF XMegaOK, ErasesFirst, Skipped
  <2>2. Arg' = Arg /\ (IsWrite <=> IsWrite') /\ Skip' = Skip /\ (WritesOver <=> WritesOver')
    BY <1>5, FrameArg DEF Frame
  <2>3. EraseInv'
    <3>1. ~req'.erase  BY <1>1, <2>1
    <3>2. host'.pc # "release"  BY <1>2, <1>12
    <3>3. QED  BY <1>4, <3>1, <3>2 DEF EraseInv
  <2>4. VerifiedX2'  BY <2>1, <2>2 DEF VerifiedX2
  <2>5. CASE Arg.action = "e"
    <3>1. host'.pc = "args" /\ ~Open'  BY <1>2, <1>12, <2>5 DEF Open, BetweenJobs
    <3>2. WriteInv' /\ XInv'
      BY <1>2, <1>4, <1>7, <1>12, <3>1 DEF WriteInv, XInv
    <3>3. CASE trouble' # "none"
      <4>1. Contract!Next  BY <1>2, <1>5, <3>1, <3>3, TellStep
      <4>2. QED  BY <1>6, <1>8, <2>3, <2>4, <3>2, <4>1 DEF KeepsX
    <3>4. CASE trouble' = "none"
      <4>1. ~Astray' /\ ~Untold'  BY <3>4 DEF trouble
      <4>2. ~host.blind /\ ~dev.busy
        BY <1>2, <1>7, <1>12, <4>1 DEF Astray
      <4>3. ~OnlyShown'  BY <1>2, <1>5, <1>12, <4>1 DEF Untold
      <4>4. ~OnlyShown  BY <1>5, <4>3, FrameArg DEF Frame
      <4>5. Programmable
        <5>1. Arg.section \notin {"f", "l"}
          BY <1>1, <2>5, <4>4 DEF OnlyShown, ChangesX, OfXMega
        <5>2. QED  BY <2>1, <5>1, SectionIs DEF Programmable
      <4>6. \A k \in 1..Sizes[Arg.section] : dev.cells[base(Arg.section) + k] = Erased
        BY <1>9, <1>12, <4>2, <4>5 DEF At, Coming
      <4>7. job.does = "erase" /\ job.low = base(Arg.section) /\ job.size = Sizes[Arg.section]
        BY <1>1, <1>3, <1>12, <2>1, <2>5, JobXIs
      <4>8. /\ base(Arg.section) \in Nat /\ Sizes[Arg.section] \in Nat /\ N \in Nat
            /\ base(Arg.section) + Sizes[Arg.section] <= N
        BY <1>1, <2>1, SectionIs, BlankIn DEF RequestOK
      <4>9. Contract!Part(dev.cells, job.low, job.size) = Fill(job.size, Erased)
        <5> DEFINE size == Sizes[Arg.section]
                   data == Fill(size, Erased)
        <5>1. Erased \in Byte /\ size \in Int /\ size >= 0  BY <4>8 DEF Erased, Byte
        <5>2. data \in Seq(Byte) /\ Len(data) = size /\ \A k \in 1..size : data[k] = Erased
          <6>1. (IF size > 0 THEN size ELSE 0) = size  BY <5>1
          <6> HIDE DEF size
          <6>2. QED  BY <5>1, <6>1, FillIn
        <5>3. \A m \in 1..Len(data) : dev.cells[base(Arg.section) + m] = data[m]
          BY <4>6, <5>2
        <5>4. base(Arg.section) + Len(data) <= N  BY <4>8, <5>2
        <5> HIDE DEF data
        <5>5. Contract!Part(dev.cells, base(Arg.section), Len(data)) = data
          BY <4>8, <5>2, <5>3, <5>4, PartIs
        <5>6. QED  BY <4>7, <5>2, <5>5 DEF data
      <4>10. Contract!Achieved(saved')
        BY <4>7, <4>9, ContractIs DEF Contract!Achieved, Contract!Area
      <4>11. Contract!Finish
        BY <1>2, <1>3, <1>5, <3>1, <4>10, FrameJob DEF Contract!Finish
      <4>12. QED  BY <1>6, <1>8, <2>3, <2>4, <3>2, <4>11 DEF KeepsX, Contract!Next
    <3>5. QED  BY <3>3, <3>4
  <2>6. CASE Arg.action = "w"
    <3>1. host'.pc = "write" /\ Open' /\ IsWrite
      BY <1>1, <1>2, <1>12, <2>6 DEF Open, BetweenJobs, BeforeJobs, IsWrite
    <3>2. Contract!Next  BY <1>2, <1>3, <1>5, <3>1, NoteStep DEF Contract!Next
    <3>3. Loaded  BY <1>1, <1>2, <1>12 DEF DataInv, XInv
    <3>4. Loaded'  BY <1>2, <1>5, <3>3, FrameArg DEF Loaded, Frame
    <3>5. XInv'  BY <1>2, <1>4, <1>7, <1>12, <3>1, <3>4 DEF XInv
    <3>6. host.i = Skip  BY <1>1, <1>2, <1>12, <3>1 DEF DataInv, EraseInv
    <3>7. Skip \in Nat /\ Skip % Page = 0  BY <1>12, DataIs
    <3>8. ASSUME ~Astray', Programmable', NEW k \in (Skip' + 1)..Len(host'.bytes)
          PROVE  /\ k <= Behind' => At(k)' = host'.bytes[k]
                 /\ k > Behind' /\ Programs' => At(k)' = Erased
      <4>1. Behind' = Skip  BY <1>2, <1>4, <3>1, <3>6 DEF Behind
      <4>2. ~Astray  BY <1>2, <1>5, <3>8, FrameJob DEF Astray, Wrong
      <4>3. /\ Len(host.bytes) \in Nat
            /\ (Skip < Len(host.bytes) => Len(host.bytes) <= Sizes[Arg.section])
        BY <1>1, <1>3, <1>12, <2>1, <3>1, <3>3, <4>2, WriteFits
      <4>4. k \in (Skip + 1)..Len(host.bytes)  BY <1>2, <2>2
      <4>5. k \in 1..Sizes[Arg.section]
        <5>1. Sizes[Arg.section] \in Nat  BY <2>1, SectionIs
        <5>2. QED  BY <3>7, <4>3, <4>4, <5>1
      <4>6. Programmable /\ ~host.blind  BY <2>2, <3>8, <4>2 DEF Programmable, Astray
      <4>7. At(k) = Erased  BY <1>9, <1>12, <4>5, <4>6
      <4>8. At(k)' = At(k)  BY <1>2, <1>5, FrameX
      <4>9. ~(k <= Behind')  BY <3>7, <4>1, <4>4
      <4>10. QED  BY <4>7, <4>8, <4>9
    <3>9. WriteInv'
      <4>1. Arg'.action # "e"  BY <2>2, <2>6
      <4>2. host'.i % Page = 0 /\ Skip' <= host'.i
        BY <1>2, <2>2, <3>6, <3>7
      <4>3. QED  BY <1>4, <3>1, <3>8, <4>1, <4>2 DEF WriteInv
    <3>10. QED  BY <1>6, <1>8, <2>3, <2>4, <3>2, <3>5, <3>9 DEF KeepsX
  <2>7. QED  BY <2>1, <2>5, <2>6
<1>13. QED
  <2>1. host.wait = 0 \/ host.wait # 0  OBVIOUS
  <2>2. host.n = 0 \/ host.n > 0  BY <1>1
  <2>3. QED  BY <1>10, <1>11, <1>12, <2>1, <2>2

(* Outside of the waits the device is only at work when it was lost.       *)
LEMMA RestingX ==
  ASSUME DataInv, req.kind = "xmega",
         host.pc \in {"args", "file", "pdi", "erase", "write", "page"}
  PROVE  (dev.busy => host.blind) /\ dev.isc /\ StageX = host.pc
<1>1. StageX = host.pc  BY StageIs
<1>2. QED  BY <1>1 DEF DataInv, IdleInv, XInv

(* From one argument to the next.                                          *)
LEMMA ArgsStepX ==
  ASSUME TypeInv, TypeInv', DataInv, Worsens, NextX, OpenX \/ DoneX \/ ReleaseX
  PROVE  KeepsX' /\ Contract!Next
<1> USE DEF TypeInv
<1>1. /\ req.kind = "xmega" /\ UNCHANGED <<req, N>> /\ DOMAIN host = HostFields
      /\ DOMAIN dev = DeviceFields /\ host.n \in Nat
  BY IdleX
<1>2. CASE OpenX
  <2>1. host.pc = "args" /\ TakeArg("file")  BY <1>2 DEF OpenX, AtX, Running
  <2>2. /\ host'.pc = "file" /\ host'.n = host.n + 1 /\ host'.n > 0 /\ host'.blind = host.blind
        /\ UNCHANGED <<req, dev, N>>
        /\ IdleInv' /\ TowardsInv' /\ FirstIdle' /\ Contract!Next
    BY <2>1, TakeStep
  <2>3. StageX' = "file" /\ StageX = "args"  BY <2>1, <2>2, StageIs
  <2>4. EraseInv'
    <3>1. SUFFICES ASSUME req'.erase, ~host'.blind,
                          \A k \in 1..(host'.n - 1) : req'.args[k].action \notin {"e", "w", "W"}
                   PROVE  dev'.cells = Blank'
      BY <2>2, <2>3 DEF EraseInv, Untouched
    <3>2. host'.n - 1 = host.n  BY <1>1, <2>2
    <3>3. Untouched(host.n)  BY <1>1, <3>1, <3>2 DEF Untouched
    <3>4. dev.cells = Blank  BY <1>1, <2>1, <2>2, <3>1, <3>3 DEF DataInv, EraseInv
    <3>5. QED  BY <2>2, <3>4 DEF Blank
  <2>5. WriteInv' /\ VerifiedX2'  BY <2>2, <2>3 DEF WriteInv, VerifiedX2
  <2>6. XInv'
    <3>1. dev.isc  BY <1>1, <2>1, RestingX
    <3>2. QED  BY <2>2, <2>3, <3>1 DEF XInv
  <2>7. QED  BY <2>2, <2>4, <2>5, <2>6 DEF KeepsX
<1>3. CASE DoneX \/ ReleaseX
  <2>1. /\ UNCHANGED <<disk, dev.cells, dev.todo, dev.busy>>
        /\ host'.n = host.n /\ host'.fp = host.fp /\ host'.blind = host.blind
        /\ host'.told = host.told /\ host'.ret = host.ret
        /\ \/ host.pc = "args" /\ host'.pc = "release" /\ UNCHANGED dev /\ host'.exit = host.exit
           \/ host.pc = "release" /\ host'.pc = "done" /\ host'.exit = host.ret
    <3>1. CASE DoneX
      BY <1>1, <3>1 DEF DoneX, AtX, Running, Quiet, Go, HostFields
    <3>2. CASE ReleaseX
      BY <1>1, <3>2 DEF ReleaseX, AtX, Running, Exit, HostFields, DeviceFields
    <3>3. QED  BY <1>3, <3>1, <3>2
  <2>2. StageX' = host'.pc /\ StageX = host.pc  BY <2>1, StageIs
  <2>3. ~BeforeJobs /\ ~Open /\ ~BeforeJobs' /\ ~Open'
    BY <2>1 DEF BeforeJobs, Open, BetweenJobs
  <2>4. Frame /\ Contract!Next  BY <1>1, <2>1, <2>3, OutsideStep
  <2>5. TowardsInv'  BY <2>1, <2>4, TowardsStays DEF DataInv
  <2>6. FirstIdle' /\ EraseInv' /\ WriteInv'
    BY <2>1, <2>2 DEF FirstIdle, First, EraseInv, WriteInv
  <2>7. IdleInv'
    <3>1. dev.busy /\ ~host.blind => host.told /\ host.ret = 1
      BY <1>1, <2>1, <2>2 DEF DataInv, IdleInv
    <3>2. QED  BY <1>1, <2>1, <3>1 DEF IdleInv
  <2>8. XInv'
    <3>1. host.pc = "args" => dev.isc  BY <1>1, RestingX
    <3>2. QED  BY <2>1, <2>2, <3>1 DEF XInv
  <2>9. VerifiedX2'
    <3>1. SUFFICES ASSUME host'.ret = 0, host'.n > 0, Arg'.action = "v", host'.fp, ~Astray',
                          Arg'.section \in DOMAIN Sizes
                   PROVE  /\ ~Broken'
                          /\ \A k \in DOMAIN File'.of :
                               dev'.cells[base(Arg'.section) + k] = File'.of[k]
      BY DEF VerifiedX2
    <3>2. Arg' = Arg /\ File' = File /\ (Broken <=> Broken')  BY <2>4, FrameArg DEF Frame
    <3>3. ~Astray  BY <2>1, <2>4, <3>1, FrameJob DEF Astray, Wrong
    <3>4. host.exit = -1  BY <2>1 DEF HostOK, Finished
    <3>5. /\ ~Broken /\ \A k \in DOMAIN File.of :
               dev.cells[base(Arg.section) + k] = File.of[k]
      BY <1>1, <2>1, <3>1, <3>2, <3>3, <3>4 DEF DataInv, VerifiedX2
    <3>6. QED  BY <2>1, <3>2, <3>5
  <2>10. QED  BY <2>4, <2>5, <2>6, <2>7, <2>8, <2>9 DEF KeepsX
<1>4. QED  BY <1>2, <1>3

LEMMA UntouchedBefore ==
  ASSUME NEW m \in Nat, Untouched(m)
  PROVE  Untouched(m - 1)
<1>1. \A k \in 1..(m - 1) : k \in 1..m  OBVIOUS
<1>2. QED  BY <1>1 DEF Untouched

(* What the steps that only read, or do nothing, leave as it was.          *)
LEMMA ReadingX ==
  ASSUME TypeInv, DataInv, req.kind = "xmega", UNCHANGED <<req, dev, disk, N>>,
         host'.n = host.n, host'.fp = host.fp, host.pc \in {"file", "pdi"},
         host'.pc \in {"args", "pdi", "release"}, Worsens
  PROVE  /\ Frame /\ FirstIdle' /\ IdleInv' /\ TowardsInv' /\ EraseInv' /\ WriteInv'
         /\ host'.pc = "pdi" \/ trouble' # "none" => Contract!Next
         /\ StageX' = host'.pc /\ StageX = host.pc /\ dev'.isc /\ host.n > 0
         /\ ~BeforeJobs /\ Open
<1> USE DEF TypeInv
<1>1. host.n > 0  BY DEF StageOK, Worked
<1>2. Open /\ ~BeforeJobs  BY <1>1 DEF Open, BetweenJobs, BeforeJobs
<1>3. host'.pc = "pdi" \/ trouble' # "none" => Contract!Next
  <2>1. host'.pc = "pdi" => ~BetweenJobs'  BY DEF BetweenJobs, BeforeJobs
  <2>2. QED  BY <1>2, <2>1, InsideStep DEF First
<1>4. Frame /\ TowardsInv' /\ FirstIdle'
  <2>1. Frame  BY <1>2 DEF Frame, BeforeJobs
  <2>2. QED  BY <2>1, TowardsStays DEF DataInv, FirstIdle, First
<1>5. StageX' = host'.pc /\ StageX = host.pc  BY StageIs
<1>6. (dev.busy => host.blind) /\ dev.isc  BY RestingX
<1>7. IdleInv'  BY <1>6 DEF IdleInv, Worsens
<1>8. EraseInv'
  <2>1. SUFFICES ASSUME req'.erase, ~host'.blind, host'.pc \in {"args", "pdi"},
                        \A k \in 1..host'.n : req'.args[k].action \notin {"e", "w", "W"}
                 PROVE  dev'.cells = Blank'
    <3>1. host'.pc # "file" /\ StageX' # "erased" /\ StageX' # "erase"  BY <1>5
    <3>2. QED  BY <3>1 DEF EraseInv, Untouched
  <2>2. Untouched(host.n)  BY <2>1 DEF Untouched
  <2>3. host.n \in Nat  BY DEF HostOK, RequestOK
  <2>4. Untouched(host.n - 1)  BY <2>2, <2>3, UntouchedBefore
  <2>5. dev.cells = Blank  BY <2>1, <2>2, <2>4 DEF DataInv, EraseInv, Worsens
  <2>6. QED  BY <2>5 DEF Blank
<1>9. WriteInv'  BY <1>5 DEF WriteInv
<1>10. QED  BY <1>1, <1>2, <1>3, <1>4, <1>5, <1>6, <1>7, <1>8, <1>9

(* What was read and not as broken is what the file is made from.          *)
LEMMA ReadLoads ==
  ASSUME req.kind = "xmega", UsesFile, ~Misread, NEW r \in readFile(Arg.style, File)
  PROVE  ~Broken /\ r.bytes = Image
<1>1. ~FromFuses  BY DEF FromFuses, TakesFuses
<1>2. r.res = 0 /\ r.bytes = File.of  BY <1>1 DEF Misread
<1>3. ~Broken  BY <1>1, <1>2 DEF Broken
<1>4. QED  BY <1>2, <1>3 DEF Image

(* Arguments passed over, and bytes read.                                  *)
LEMMA ReadStepX ==
  ASSUME TypeInv, TypeInv', DataInv, Worsens, NextX,
         \/ SkipX \/ IgnoreX \/ StartReadX \/ StartVerifyX \/ PdiGood \/ PdiDelay \/ PdiFails
         \/ PdiWraps
  PROVE  KeepsX' /\ Contract!Next
<1> USE DEF TypeInv
<1>1. /\ req.kind = "xmega" /\ UNCHANGED <<req, N>> /\ DOMAIN host = HostFields
      /\ host.n \in Nat
  BY IdleX
<1>2. UNCHANGED <<dev, disk>>
  BY DEF SkipX, IgnoreX, StartReadX, StartVerifyX, PdiGood, PdiDelay, PdiFails, PdiWraps, Quiet
<1>3. CASE SkipX \/ IgnoreX
  <2>1. /\ host.pc = "file" /\ host'.pc = "args" /\ host'.n = host.n /\ host'.fp = host.fp
        /\ SkipX => host'.told = TRUE
    BY <1>1, <1>3 DEF SkipX, IgnoreX, AtX, Running, Tell, Go, HostFields
  <2>2. Arg' = Arg  BY <1>1, <2>1 DEF Arg
  <2>3. host.n > 0  BY <2>1 DEF StageOK, Worked
  <2>4. trouble' # "none"
    <3>1. CASE SkipX  BY <2>1, <3>1, TroubleIs DEF trouble
    <3>2. CASE IgnoreX
      <4>1. IgnoredAction'
        BY <1>1, <2>2, <3>2 DEF IgnoreX, IgnoredAction, OfXMega
      <4>2. Untold'  BY <2>1, <2>3, <4>1 DEF Untold, BeforeJobs
      <4>3. QED  BY <4>2 DEF trouble
    <3>3. QED  BY <1>3, <3>1, <3>2
  <2>5. /\ FirstIdle' /\ IdleInv' /\ TowardsInv' /\ EraseInv' /\ WriteInv' /\ Contract!Next
        /\ StageX' = host'.pc /\ dev'.isc
    BY <1>1, <1>2, <2>1, <2>4, ReadingX
  <2>6. XInv'  BY <2>1, <2>5 DEF XInv
  <2>7. VerifiedX2'
    <3>1. host.fp /\ Arg.section \in DOMAIN Sizes => Arg.action # "v"
      BY <1>3 DEF SkipX, IgnoreX, Skipped
    <3>2. QED  BY <2>1, <2>2, <3>1 DEF VerifiedX2
  <2>8. QED  BY <2>5, <2>6, <2>7 DEF KeepsX
<1>4. CASE StartReadX
  <2>1. /\ host.pc = "file" /\ host'.pc = "pdi" /\ host'.n = host.n /\ host'.fp = host.fp
        /\ host'.i = 0 /\ Arg.action = "r"
    BY <1>1, <1>4 DEF StartReadX, AtX, Running, ReadMemory, Call, Go, HostFields
  <2>2. /\ FirstIdle' /\ IdleInv' /\ TowardsInv' /\ EraseInv' /\ WriteInv' /\ Contract!Next
        /\ StageX' = host'.pc /\ dev'.isc /\ Frame
    BY <1>1, <1>2, <2>1, ReadingX
  <2>3. ~UsesFile'  BY <2>1, <2>2, FrameArg DEF UsesFile, Frame
  <2>4. XInv'
    <3>1. ~(\E k \in 1..host'.i : TRUE)  BY <2>1
    <3>2. Loaded'  BY <2>3 DEF Loaded
    <3>3. QED  BY <2>1, <2>2, <3>1, <3>2 DEF XInv
  <2>5. VerifiedX2'  BY <2>1 DEF VerifiedX2
  <2>6. QED  BY <2>2, <2>4, <2>5 DEF KeepsX
<1>5. CASE StartVerifyX
  <2>1. PICK r \in readFile(Arg.style, File) :
          host' = [Tell(ReadMemory(0, Len(r.bytes)), r.res # 0) EXCEPT !.bytes = r.bytes]
    BY <1>5 DEF StartVerifyX
  <2>2. /\ host.pc = "file" /\ host'.pc = "pdi" /\ host'.n = host.n /\ host'.fp = host.fp
        /\ host'.i = 0 /\ host'.bytes = r.bytes
    <3> DEFINE h == ReadMemory(0, Len(r.bytes))
               t == Tell(h, r.res # 0)
    <3>1. host.pc = "file"  BY <1>5 DEF StartVerifyX, AtX, Running
    <3>2. /\ h.pc = "pdi" /\ h.n = host.n /\ h.fp = host.fp /\ h.i = 0 /\ DOMAIN h = HostFields
      BY <1>1 DEF ReadMemory, Call, Go, HostFields
    <3> HIDE DEF h
    <3>3. t.pc = "pdi" /\ t.n = host.n /\ t.fp = host.fp /\ t.i = 0 /\ DOMAIN t = HostFields
      BY <3>2 DEF Tell, HostFields
    <3> HIDE DEF t
    <3>4. host' = [t EXCEPT !.bytes = r.bytes]  BY <2>1 DEF t, h
    <3>5. QED  BY <3>1, <3>3, <3>4 DEF HostFields
  <2>3. /\ FirstIdle' /\ IdleInv' /\ TowardsInv' /\ EraseInv' /\ WriteInv' /\ Contract!Next
        /\ StageX' = host'.pc /\ dev'.isc /\ Frame
    BY <1>1, <1>2, <2>2, ReadingX
  <2>4. Loaded'
    <3>1. UsesFile /\ ~Misread => ~Broken /\ r.bytes = Image  BY <1>1, <2>1, ReadLoads
    <3>2. QED  BY <2>2, <2>3, <3>1, FrameArg DEF Loaded, Frame
  <2>5. XInv'
    <3>1. ~(\E k \in 1..host'.i : TRUE)  BY <2>2
    <3>2. QED  BY <2>2, <2>3, <2>4, <3>1 DEF XInv
  <2>6. VerifiedX2'  BY <2>2 DEF VerifiedX2
  <2>7. QED  BY <2>3, <2>5, <2>6 DEF KeepsX
<1>6. CASE PdiGood \/ PdiDelay
  <2>1. /\ host.pc = "pdi" /\ host'.pc = "pdi" /\ host'.n = host.n /\ host'.fp = host.fp
        /\ host'.bytes = host.bytes /\ host'.res = host.res /\ ~PdiDone
    BY <1>1, <1>6 DEF PdiGood, PdiDelay, AtX, Running, HostFields
  <2>2. /\ FirstIdle' /\ IdleInv' /\ TowardsInv' /\ EraseInv' /\ WriteInv' /\ Contract!Next
        /\ StageX' = host'.pc /\ StageX = host.pc /\ dev'.isc /\ Frame
    BY <1>1, <1>2, <2>1, ReadingX
  <2>3. host.n > 0 /\ Loaded  BY <1>1, <2>1, <2>2 DEF StageOK, Worked, DataInv, XInv
  <2>4. Loaded'  BY <2>1, <2>2, <2>3, FrameArg DEF Loaded, Frame
  <2>5. ASSUME NEW k PROVE ReadX(k)' = ReadX(k)
    BY <1>1, <1>2, <2>1, <2>2, FrameArg DEF ReadX, Frame
  <2>6. ASSUME ~host'.blind, NEW k \in 1..host'.i PROVE host'.out[k] = ReadX(k)'
    <3>1. ~host.blind  BY <2>6 DEF Worsens
    <3>2. \A m \in 1..host.i : host.out[m] = ReadX(m)
      BY <1>1, <2>1, <3>1 DEF DataInv, XInv
    <3>3. CASE PdiDelay
      <4>1. host'.i = host.i /\ host'.out = host.out
        BY <1>1, <3>3 DEF PdiDelay, HostFields
      <4>2. QED  BY <2>5, <2>6, <3>2, <4>1
    <3>4. CASE PdiGood
      <4> DEFINE a == base(Arg.section) + host.res + host.i + 1
                 x == IF a <= N THEN dev.cells[a] ELSE Erased
      <4>1. /\ host'.i = host.i + 1
            /\ host'.out = [host.out EXCEPT ![host.i + 1] = x]
        BY <1>1, <3>4 DEF PdiGood, HostFields
      <4>2. /\ host.out \in Seq(Byte) /\ host.i \in Nat /\ host.i <= Len(host.out)
            /\ host.res \in Nat
        BY <1>1, <2>1, <2>2 DEF HostOK, XMegaOK
      <4>3. host.i + 1 \in DOMAIN host.out
        <5>1. Len(host.out) \in Nat /\ DOMAIN host.out = 1..Len(host.out)  BY <4>2
        <5>2. QED  BY <2>1, <4>2, <5>1 DEF PdiDone
      <4>4. x = ReadX(host.i + 1)
        <5>1. base(Arg.section) \in Nat
          <6>1. ~Skipped  BY <1>1, <2>1, <2>2 DEF XMegaOK
          <6>2. QED  BY <6>1, SectionIs DEF Skipped
        <5>2. a = base(Arg.section) + host.res + (host.i + 1)  BY <4>2, <5>1
        <5> HIDE DEF a
        <5>3. QED  BY <5>2 DEF ReadX
      <4> HIDE DEF x
      <4>5. CASE k = host.i + 1
        <5>1. host'.out[k] = x  BY <4>1, <4>3, <4>5
        <5>2. QED  BY <2>5, <4>4, <4>5, <5>1
      <4>6. CASE k # host.i + 1
        <5>1. k \in 1..host.i  BY <2>6, <4>1, <4>2, <4>6
        <5>2. host'.out[k] = host.out[k]  BY <4>1, <4>6
        <5>3. QED  BY <2>5, <3>2, <5>1, <5>2
      <4>7. QED  BY <4>5, <4>6
    <3>5. QED  BY <1>6, <3>3, <3>4
  <2>7. XInv'  BY <2>1, <2>2, <2>4, <2>6 DEF XInv
  <2>8. VerifiedX2'  BY <2>1 DEF VerifiedX2
  <2>9. QED  BY <2>2, <2>7, <2>8 DEF KeepsX
<1>7. CASE PdiFails \/ PdiWraps
  <2>1. /\ host.pc = "pdi" /\ host'.pc = "release" /\ host'.n = host.n /\ host'.fp = host.fp
        /\ host'.told = TRUE /\ host'.ret = IF Arg.action = "r" THEN host.ret ELSE 1
    BY <1>1, <1>7 DEF PdiFails, PdiWraps, ReadFailed, Release, Tell, Go, AtX, Running, HostFields
  <2>2. trouble' # "none"  BY <2>1 DEF trouble
  <2>3. /\ FirstIdle' /\ IdleInv' /\ TowardsInv' /\ EraseInv' /\ WriteInv' /\ Contract!Next
        /\ StageX' = host'.pc /\ dev'.isc /\ Frame
    BY <1>1, <1>2, <2>1, <2>2, ReadingX
  <2>4. XInv'  BY <2>1, <2>3 DEF XInv
  <2>5. VerifiedX2'
    <3>1. Arg' = Arg  BY <2>3, FrameArg DEF Frame
    <3>2. QED  BY <2>1, <3>1 DEF VerifiedX2
  <2>6. QED  BY <2>3, <2>4, <2>5 DEF KeepsX
<1>8. QED  BY <1>3, <1>4, <1>5, <1>6, <1>7

(* The end of a verify.                                                    *)
LEMMA VerifyStepX ==
  ASSUME TypeInv, TypeInv', DataInv, Worsens, NextX, VerifiedX
  PROVE  KeepsX' /\ Contract!Next
<1> USE DEF TypeInv
<1>1. /\ req.kind = "xmega" /\ UNCHANGED <<req, N>> /\ DOMAIN host = HostFields
      /\ host.n \in Nat
  BY IdleX
<1>2. /\ host.pc = "pdi" /\ UNCHANGED <<disk, dev>> /\ PdiDone /\ Arg.action = "v"
      /\ host'.n = host.n /\ host'.fp = host.fp /\ host'.blind = host.blind
      /\ IF host.out = host.bytes THEN host'.pc = "args" /\ host'.told = host.told
         ELSE host'.pc = "release" /\ host'.told = TRUE /\ host'.ret = 1
  BY <1>1 DEF VerifiedX, AtX, Running, Quiet, Release, Tell, Go, HostFields
<1>3. /\ FirstIdle' /\ IdleInv' /\ TowardsInv' /\ EraseInv' /\ WriteInv'
      /\ trouble' # "none" => Contract!Next
      /\ StageX' = host'.pc /\ StageX = host.pc /\ dev'.isc /\ Frame /\ host.n > 0 /\ Open
      /\ ~BeforeJobs
  BY <1>1, <1>2, ReadingX
<1>4. XInv'  BY <1>2, <1>3 DEF XInv
<1>5. Arg.section \in DOMAIN Sizes /\ host.res = 0 /\ UsesFile
  BY <1>1, <1>2, <1>3 DEF XMegaOK, Skipped, UsesFile
<1>6. ASSUME host.out = host.bytes, ~Astray
      PROVE  /\ ~Broken
             /\ \A k \in DOMAIN File.of : dev.cells[base(Arg.section) + k] = File.of[k]
             /\ Contract!Part(dev.cells, job.from, Len(job.data)) = job.data
             /\ job.does = "verify"
  <2>1. ~host.blind /\ ~Misread /\ ~BeyondMemory  BY <1>3, <1>6 DEF Astray
  <2>2. ~Broken /\ host.bytes = File.of
    BY <1>1, <1>2, <1>3, <1>5, <2>1 DEF DataInv, XInv, Loaded, Image
  <2>3. /\ File.of \in Seq(Byte) /\ Len(File.of) \in Nat /\ DOMAIN File.of = 1..Len(File.of)
        /\ Skip = 0 /\ Len(DataX) = Len(File.of)
    <3>1. ~IsWrite  BY <1>2 DEF IsWrite
    <3>2. QED  BY <1>3, <3>1, DataIs
  <2>4. /\ job.from = base(Arg.section) + Skip /\ job.data = DataX /\ job.does = "verify"
    BY <1>1, <1>2, <1>3, <1>5, <2>2, JobXIs
  <2>5. base(Arg.section) \in Nat /\ N \in Nat  BY <1>5, SectionIs, BlankIn
  <2>6. base(Arg.section) + Skip + Len(DataX) <= N
    <3>1. ~(base(Arg.section) + Skip + Len(DataX) > N)
      BY <1>1, <1>2, <1>5, <2>1, <2>4 DEF BeyondMemory, OfXMega
    <3>2. base(Arg.section) + Skip + Len(DataX) \in Nat  BY <2>3, <2>5
    <3>3. QED  BY ONLY <2>5, <3>1, <3>2
  <2>7. ASSUME NEW k \in DOMAIN File.of
        PROVE  dev.cells[base(Arg.section) + k] = File.of[k]
    <3>1. k \in 1..host.i  BY <1>2, <1>6, <2>2, <2>3, <2>7 DEF PdiDone
    <3>2. host.out[k] = ReadX(k)  BY <1>1, <1>2, <2>1, <3>1 DEF DataInv, XInv
    <3>3. base(Arg.section) + host.res + k = base(Arg.section) + k
          /\ base(Arg.section) + k <= N
      BY <1>5, <2>3, <2>5, <2>6, <2>7
    <3>4. ReadX(k) = dev.cells[base(Arg.section) + k]  BY <3>3 DEF ReadX
    <3>5. QED  BY <1>6, <2>2, <3>2, <3>4
  <2>8. Contract!Part(dev.cells, job.from, Len(job.data)) = job.data
    BY <1>1, <1>3, <1>5, <2>3, <2>6, <2>7, FileInDevice
  <2>9. QED  BY <2>2, <2>4, <2>7, <2>8
<1>7. /\ Arg' = Arg /\ File' = File /\ (Broken <=> Broken') /\ (Astray' <=> Astray)
  <2>1. (Wrong <=> Wrong') /\ host'.blind = host.blind  BY <1>2, <1>3, FrameJob
  <2>2. Astray' <=> Astray  BY <2>1 DEF Astray, Wrong
  <2>3. QED  BY <1>3, <2>2, FrameArg DEF Frame
<1>8. VerifiedX2'
  BY <1>2, <1>6, <1>7 DEF VerifiedX2
<1>9. CASE trouble' = "none"
  <2>1. ~Astray /\ ~host'.told  BY <1>7, <1>9 DEF trouble
  <2>2. host.out = host.bytes /\ ~Open'  BY <1>2, <2>1 DEF Open, BetweenJobs
  <2>3. Contract!Achieved(saved')
    BY <1>6, <2>1, <2>2 DEF Contract!Achieved
  <2>4. Contract!Finish
    BY <1>2, <1>3, <2>2, <2>3, FrameJob DEF Contract!Finish
  <2>5. QED  BY <1>3, <1>4, <1>8, <2>4 DEF KeepsX, Contract!Next
<1>10. CASE trouble' # "none"
  BY <1>3, <1>4, <1>8, <1>10 DEF KeepsX
<1>11. QED  BY <1>9, <1>10

(* The bytes read are saved.                                               *)
LEMMA SaveStepX ==
  ASSUME TypeInv, TypeInv', DataInv, Worsens, NextX, SaveX
  PROVE  KeepsX' /\ Contract!Next
<1> USE DEF TypeInv
<1>1. /\ req.kind = "xmega" /\ UNCHANGED <<req, N>> /\ DOMAIN host = HostFields
      /\ host.n \in Nat
  BY IdleX
<1>2. /\ host.pc = "pdi" /\ UNCHANGED dev /\ PdiDone /\ Arg.action = "r"
      /\ host'.pc = "args" /\ host'.n = host.n /\ host'.fp = host.fp /\ host'.blind = host.blind
      /\ (Arg.style \notin Savable => host'.told)
  BY <1>1 DEF SaveX, AtX, Running, Tell, Go, HostFields
<1>3. /\ host.n > 0 /\ Open /\ ~Open' /\ ~BeforeJobs /\ ~BeforeJobs'
  <2>1. host.n > 0  BY <1>2 DEF StageOK, Worked
  <2>2. QED  BY <1>2, <2>1 DEF Open, BetweenJobs, BeforeJobs
<1>4. (dev.busy => host.blind) /\ dev.isc /\ StageX = "pdi" /\ StageX' = "args"
  BY <1>1, <1>2, RestingX, StageIs
<1>5. Arg' = Arg /\ ~UsesFile /\ ~UsesFile'  BY <1>1, <1>2 DEF Arg, UsesFile
<1>6. FirstIdle' /\ IdleInv' /\ TowardsInv' /\ WriteInv' /\ VerifiedX2' /\ XInv'
  <2>1. FirstIdle' /\ IdleInv' /\ TowardsInv'
    BY <1>2, <1>4 DEF FirstIdle, First, IdleInv, TowardsInv, Astray
  <2>2. WriteInv' /\ VerifiedX2' /\ XInv'
    BY <1>2, <1>4, <1>5 DEF WriteInv, VerifiedX2, XInv
  <2>3. QED  BY <2>1, <2>2
<1>7. EraseInv'
  <2>1. SUFFICES ASSUME req'.erase, ~host'.blind,
                        \A k \in 1..host'.n : req'.args[k].action \notin {"e", "w", "W"}
                 PROVE  dev'.cells = Blank'
    <3>1. host'.pc # "file" /\ StageX' # "erased" /\ StageX' # "erase"  BY <1>2, <1>4
    <3>2. QED  BY <3>1 DEF EraseInv, Untouched
  <2>2. Untouched(host.n)  BY <1>1, <1>2, <2>1 DEF Untouched
  <2>3. dev.cells = Blank  BY <1>1, <1>2, <2>1, <2>2 DEF DataInv, EraseInv
  <2>4. QED  BY <1>1, <1>2, <2>3 DEF Blank
<1>8. Arg.section \in DOMAIN Sizes /\ host.res = Arg.offset /\ Len(host.out) = ReadLength
  BY <1>1, <1>2, <1>4 DEF XMegaOK, Skipped
<1>9. /\ job.does = "read" /\ job.low = base(Arg.section) + Arg.offset /\ job.size = ReadLength
      /\ job.from = 0
  BY <1>1, <1>2, <1>3, <1>8, JobXIs
<1>10. job' = job
  <2>1. job = JobX /\ job' = JobX'  BY <1>1, <1>2, <1>3, <1>5, <1>8 DEF job, OfXMega
  <2>2. JobX' = JobX  BY <1>2, <1>5 DEF JobX, ReadLength
  <2>3. QED  BY <2>1, <2>2
<1>11. CASE trouble' # "none"
  <2>1. Contract!Finish  BY <1>2, <1>3, <1>10, <1>11 DEF Contract!Finish
  <2>2. QED  BY <1>6, <1>7, <2>1 DEF KeepsX, Contract!Next
<1>12. CASE trouble' = "none"
  <2>1. ~host'.told /\ ~Astray'  BY <1>12 DEF trouble
  <2>2. ~host.blind /\ ~host.told /\ Arg.style \in Savable
    BY <1>2, <2>1 DEF Astray, Worsens
  <2>3. host.fp  BY <1>1, <1>3, <2>2 DEF DataInv, ToldInv
  <2>4. /\ base(Arg.section) \in Nat /\ Arg.offset \in Nat /\ ReadLength \in Nat /\ ReadLength > 0
        /\ N \in Nat /\ host.out \in Seq(Byte) /\ host.out # <<>>
    <3>1. base(Arg.section) \in Nat /\ Sizes[Arg.section] \in Nat /\ Sizes[Arg.section] > 0
      BY <1>8, SectionIs
    <3>2. Arg.offset \in Nat /\ Arg.length \in Nat  BY <1>3, ArgIs
    <3>3. ReadLength \in Nat /\ ReadLength > 0  BY <3>1, <3>2 DEF ReadLength
    <3>4. host.out \in Seq(Byte)  BY DEF HostOK
    <3>5. host.out # <<>>  BY <1>8, <3>3, <3>4
    <3>6. QED  BY <3>1, <3>2, <3>3, <3>4, <3>5, BlankIn
  <2>5. base(Arg.section) + Arg.offset + ReadLength <= N
    <3>1. ~BeyondMemory'  BY <1>2, <1>3, <2>1 DEF Astray
    <3>2. ~(job.low + job.size > N)
      BY <1>1, <1>2, <1>5, <1>8, <1>10, <3>1 DEF BeyondMemory, OfXMega
    <3>3. base(Arg.section) + Arg.offset + ReadLength \in Nat  BY <2>4
    <3>4. QED  BY ONLY <1>9, <2>4, <3>2, <3>3
  <2>6. Contract!Part(dev.cells, base(Arg.section) + Arg.offset, Len(host.out)) = host.out
    <3> DEFINE from == base(Arg.section) + Arg.offset
    <3>1. ASSUME NEW k \in 1..Len(host.out) PROVE dev.cells[from + k] = host.out[k]
      <4>1. k \in 1..host.i  BY <1>2, <3>1 DEF PdiDone
      <4>2. host.out[k] = ReadX(k)  BY <1>1, <1>2, <2>2, <4>1 DEF DataInv, XInv
      <4>3. from + k <= N  BY <1>8, <2>4, <2>5, <3>1
      <4>4. QED  BY <1>8, <4>2, <4>3 DEF ReadX
    <3>2. from \in Nat /\ from + Len(host.out) <= N  BY <1>8, <2>4, <2>5
    <3> HIDE DEF from
    <3>3. QED  BY <2>4, <3>1, <3>2, PartIs DEF from
  <2>7. Arg.name \in DOMAIN disk  BY <1>3, ArgIs
  <2>8. disk'[Arg.name].of = Clipped(host.out, Explicit)
    <3>1. disk' = [disk EXCEPT ![Arg.name] =
                     [saveAs(Arg.style, host.out, Explicit) EXCEPT !.flushed = FALSE]]
      BY DEF SaveX, Written
    <3>2. QED  BY <2>2, <2>4, <2>7, <3>1 DEF saveAs
  <2>9. FillUp(Clipped(host.out, Explicit), ReadLength) = host.out
    <3>1. CASE Explicit = 0
      <4>1. 0 \in 0..Len(host.out)  BY <1>8, <2>4
      <4>2. QED  BY <1>8, <2>4, <3>1, <4>1, ClippedIs
    <3>2. CASE Explicit = ReadLength
      <4>1. Len(host.out) \in 0..Len(host.out) /\ Len(host.out) > 0  BY <1>8, <2>4
      <4>2. Clipped(host.out, Len(host.out)) = SubSeq(host.out, 1, Len(host.out))
        BY <2>4, <4>1, ClippedIs
      <4>3. SubSeq(host.out, 1, Len(host.out)) = host.out  BY <2>4, WholeIs
      <4>4. FillUp(host.out, Len(host.out)) = host.out
        <5> DEFINE g == FillUp(host.out, Len(host.out))
        <5>1. g \in Seq(Byte) /\ Len(g) = Len(host.out)
              /\ \A k \in 1..Len(host.out) : g[k] = IF k <= Len(host.out) THEN host.out[k] ELSE Erased
          BY <1>8, <2>4, FilledUp
        <5> HIDE DEF g
        <5>2. \A k \in 1..Len(host.out) : g[k] = host.out[k]  BY <1>8, <2>4, <5>1
        <5>3. g = host.out  BY <2>4, <5>1, <5>2, SameSequence
        <5>4. QED  BY <5>3 DEF g
      <4>5. QED  BY <1>8, <3>2, <4>2, <4>3, <4>4
    <3>3. QED  BY <3>1, <3>2 DEF Explicit
  <2>10. saved' = host.out
    <3>1. ~TooMany'  BY <1>1 DEF TooMany
    <3>2. saved' = SavedCells'  BY <1>3, <1>9, <1>10, <3>1 DEF saved
    <3>3. SavedCells' = FillUp(disk'[Arg.name].of, ReadLength)
      BY <1>1, <1>5, <1>9, <1>10 DEF SavedCells
    <3>4. QED  BY <2>8, <2>9, <3>2, <3>3
  <2>11. Contract!Achieved(saved')
    BY <1>8, <1>9, <2>6, <2>10 DEF Contract!Achieved, Contract!Area
  <2>12. Contract!Finish
    BY <1>2, <1>3, <1>10, <2>11 DEF Contract!Finish
  <2>13. QED  BY <1>6, <1>7, <2>12 DEF KeepsX, Contract!Next
<1>13. QED  BY <1>11, <1>12

(* A file to be erased for, or to be written, is read.                     *)
LEMMA FileStepX ==
  ASSUME TypeInv, TypeInv', DataInv, Worsens, NextX, FileX
  PROVE  KeepsX' /\ Contract!Next
<1> USE DEF TypeInv
<1>1. /\ req.kind = "xmega" /\ UNCHANGED <<req, N>> /\ DOMAIN host = HostFields
      /\ host.n \in Nat
  BY IdleX
<1>2. /\ host.pc = "file" /\ UNCHANGED <<disk, dev>> /\ ~Skipped /\ Arg.action \in {"e", "w", "W"}
  BY DEF FileX, AtX, Running, Quiet
<1>3. PICK r \in readFile(Arg.style, File) :
        host' = [Tell(Go(IF ErasesFirst THEN "erase" ELSE "write"), r.res # 0)
                   EXCEPT !.bytes = r.bytes, !.i = Page * (Arg.offset \div Page)]
  <2>1. FileX  OBVIOUS
  <2>2. \E r \in readFile(Arg.style, File) :
          host' = [Tell(Go(IF ErasesFirst THEN "erase" ELSE "write"), r.res # 0)
                     EXCEPT !.bytes = r.bytes, !.i = Page * (Arg.offset \div Page)]
    BY ONLY <2>1, Zenon DEF FileX
  <2>3. QED  BY ONLY <2>2, Zenon
<1>4. /\ host'.pc = IF ErasesFirst THEN "erase" ELSE "write"
      /\ host'.n = host.n /\ host'.fp = host.fp /\ host'.blind = host.blind
      /\ host'.bytes = r.bytes /\ host'.i = Page * (Arg.offset \div Page)
  <2> DEFINE stage == IF ErasesFirst THEN "erase" ELSE "write"
             t == Tell(Go(stage), r.res # 0)
  <2> HIDE DEF stage
  <2>1. t.pc = stage /\ t.n = host.n /\ t.fp = host.fp /\ t.blind = host.blind
        /\ DOMAIN t = HostFields
    BY <1>1 DEF Tell, Go, HostFields
  <2>2. host' = [t EXCEPT !.bytes = r.bytes, !.i = Page * (Arg.offset \div Page)]
    BY <1>3 DEF stage
  <2> HIDE DEF t
  <2>3. QED  BY <2>1, <2>2 DEF HostFields, stage
<1>5. /\ host.n > 0 /\ Open /\ ~BeforeJobs /\ ~BetweenJobs' /\ host'.pc \in {"erase", "write"}
  <2>1. host.n > 0  BY <1>2 DEF StageOK, Worked
  <2>2. QED  BY <1>2, <1>4, <2>1 DEF Open, BetweenJobs, BeforeJobs
<1>6. (dev.busy => host.blind) /\ dev.isc /\ StageX' = host'.pc
  BY <1>1, <1>2, <1>5, RestingX, StageIs
<1>7. Frame /\ TowardsInv' /\ FirstIdle' /\ Contract!Next
  BY <1>1, <1>2, <1>4, <1>5, InsideStep DEF First
<1>8. /\ Arg' = Arg /\ (IsWrite <=> IsWrite') /\ Skip' = Skip /\ (WritesOver <=> WritesOver')
      /\ Image' = Image
  BY <1>7, FrameArg DEF Frame
<1>9. Loaded'
  <2>1. UsesFile /\ ~Misread => ~Broken /\ r.bytes = Image  BY <1>1, ReadLoads
  <2>2. QED  BY <1>4, <1>7, <2>1, FrameArg DEF Loaded, Frame
<1>10. Skip \in Nat /\ Skip % Page = 0 /\ (IsWrite => host'.i = Skip)
  BY <1>4, <1>5, DataIs
<1>11. IdleInv' /\ EraseInv' /\ VerifiedX2'
  <2>1. IdleInv'  BY <1>2, <1>4, <1>6 DEF IdleInv
  <2>2. EraseInv'  BY <1>5, <1>6, <1>8, <1>10 DEF EraseInv
  <2>3. VerifiedX2'  BY <1>5 DEF VerifiedX2
  <2>4. QED  BY <2>1, <2>2, <2>3
<1>12. XInv'  BY <1>2, <1>5, <1>6, <1>9 DEF XInv
<1>13. CASE host'.pc = "erase"
  <2>1. WriteInv'  BY <1>6, <1>13 DEF WriteInv
  <2>2. QED  BY <1>7, <1>11, <1>12, <2>1 DEF KeepsX
<1>14. CASE host'.pc = "write"
  <2>1. ~ErasesFirst  BY <1>4, <1>14
  <2>2. ASSUME Arg.action = "e" PROVE req.erase /\ (~host.fp => r.bytes = <<>>)
    <3>1. req.erase  BY <2>1, <2>2 DEF ErasesFirst
    <3>2. ~host.fp => readFile(Arg.style, File) = {Result(1, <<>>)}  BY DEF File, readFile
    <3>3. QED  BY <1>3, <3>1, <3>2 DEF Result
  <2>3. ASSUME IsWrite, ~Astray', ~WritesOver, Programmable',
               NEW k \in (Skip + 1)..Len(host'.bytes)
        PROVE  /\ k <= Behind' => At(k)' = host'.bytes[k]
               /\ k > Behind' /\ Programs' => At(k)' = Erased
    <3>1. Behind' = Skip  BY <1>6, <1>10, <1>14, <2>3 DEF Behind
    <3>2. ~(k <= Behind')  BY <1>10, <2>3, <3>1
    <3>3. ASSUME Programs' PROVE At(k)' = Erased
      <4>1. Arg.action = "w" /\ Arg.section # "e"  BY <1>8, <3>3 DEF Programs
      <4>2. req.erase  BY <2>1, <4>1 DEF ErasesFirst
      <4>3. Untouched(host.n - 1)
        BY <1>1, <1>2, <2>3, <4>1, <4>2 DEF WritesOver, ChangesX, OfXMega, Untouched
      <4>4. ~host.blind  BY <1>4, <2>3 DEF Astray
      <4>5. dev.cells = Blank /\ ~dev.busy
        BY <1>1, <1>2, <1>6, <4>2, <4>3, <4>4 DEF DataInv, EraseInv
      <4>6. At(k)' = Blank[base(Arg.section) + k]
        BY <1>2, <1>8, <4>5 DEF At, Coming
      <4>7. k \in 1..Sizes[Arg.section]
        <5>1. Arg'.section \in DOMAIN Sizes /\ ~BeforeJobs' /\ IsWrite' /\ host'.n > 0
          BY <1>2, <1>4, <1>5, <1>8, <2>3 DEF Skipped, BetweenJobs
        <5>2. UsesFile' /\ ~Misread' /\ ~Overlong' /\ ChangesX'
          BY <1>1, <2>3, <5>1 DEF UsesFile, IsWrite, Astray, ChangesX, OfXMega
        <5>3. UsesFile /\ ~Misread  BY <1>7, <5>2, FrameArg DEF Frame
        <5>4. ~Broken /\ r.bytes = Image  BY <1>1, <5>3, ReadLoads
        <5>5. host'.bytes = File.of  BY <1>1, <1>4, <5>4 DEF Image
        <5>6. /\ job.low = base(Arg.section) /\ job.size = Sizes[Arg.section]
              /\ job.from = base(Arg.section) + Skip /\ job.data = DataX /\ job' = job
          <6>1. Arg.action # "r"  BY <1>2
          <6>2. Arg.section \in DOMAIN Sizes  BY <1>2 DEF Skipped
          <6>3. QED  BY <1>1, <1>5, <1>7, <5>3, <6>1, <6>2, JobXIs, FrameJob
        <5>7. ~(base(Arg.section) + Skip + Len(DataX) > base(Arg.section) + Sizes[Arg.section])
          BY <5>2, <5>6 DEF Overlong
        <5>8. /\ Len(File.of) \in Nat
              /\ Len(DataX) = IF Skip <= Len(File.of) THEN Len(File.of) - Skip ELSE 0
          BY <1>5, DataIs
        <5>9. base(Arg.section) \in Nat /\ Sizes[Arg.section] \in Nat
          BY <1>2, SectionIs DEF Skipped
        <5>10. k \in (Skip + 1)..Len(File.of)  BY <2>3, <5>5
        <5>11. Len(DataX) = Len(File.of) - Skip  BY <1>10, <5>8, <5>10
        <5>12. Skip \in Nat /\ Len(File.of) \in Nat  BY <1>10, <5>8
        <5>13. k \in Nat /\ 1 <= k /\ k <= Len(File.of)  BY ONLY <5>10, <5>12
        <5>14. Len(File.of) <= Sizes[Arg.section]  BY ONLY <5>7, <5>9, <5>11, <5>12
        <5>15. QED  BY ONLY <5>9, <5>12, <5>13, <5>14
      <4>8. base(Arg.section) + k \in 1..N
        <5>1. /\ base(Arg.section) \in Nat /\ Sizes[Arg.section] \in Nat
              /\ base(Arg.section) + Sizes[Arg.section] <= N /\ N \in Nat
          BY <1>1, <1>2, SectionIs, BlankIn DEF Skipped, RequestOK
        <5>2. QED  BY ONLY <4>7, <5>1
      <4>9. QED  BY <4>6, <4>8, BlankIn
    <3>4. QED  BY <3>2, <3>3
  <2>4. WriteInv'
    <3>1. Arg'.action = "e" => req'.erase /\ (~host'.fp => host'.bytes = <<>>)
      BY <1>1, <1>4, <1>8, <2>2
    <3>2. IsWrite' => host'.i % Page = 0 /\ Skip' <= host'.i
      BY <1>8, <1>10
    <3>3. QED  BY <1>6, <1>8, <1>14, <2>3, <3>1, <3>2 DEF WriteInv
  <2>5. QED  BY <1>7, <1>11, <1>12, <2>4 DEF KeepsX
<1>15. QED  BY <1>5, <1>13, <1>14

(* A section is erased.                                                    *)
LEMMA EraseStepX ==
  ASSUME TypeInv, TypeInv', DataInv, Worsens, NextX, EraseX
  PROVE  KeepsX' /\ Contract!Next
<1> USE DEF TypeInv
<1>1. /\ req.kind = "xmega" /\ UNCHANGED <<req, N>> /\ DOMAIN host = HostFields
      /\ DOMAIN dev = DeviceFields /\ host.n \in Nat
  BY IdleX
<1>2. /\ host.pc = "erase" /\ UNCHANGED disk
      /\ host'.n = host.n /\ host'.fp = host.fp /\ host'.blind = host.blind
      /\ host'.bytes = host.bytes /\ host'.i = host.i
      /\ host'.pc \in {"erased", "nvmen", "nvmbusy"}
      /\ (host'.pc # "erased" => host'.then = "erased")
      /\ (host'.pc = "erased" => UNCHANGED dev)
      /\ (Arg.section \in {"f", "l"} => host'.pc = "erased")
  <2>1. host.pc = "erase" /\ UNCHANGED disk
    <3>1. EraseX  OBVIOUS
    <3>2. host.pc = "erase"  BY ONLY <3>1, Zenon DEF EraseX, AtX, Running
    <3>3. QED  BY ONLY <3>1, <3>2, Zenon DEF EraseX
  <2>2. CASE Arg.section \in {"f", "l"}
    BY <1>1, <2>1, <2>2 DEF EraseX, Call, Go, HostFields
  <2>3. CASE Arg.section \notin {"f", "l"}
    <3>1. host' = Call(IF Arg.section = "a" THEN "nvmen" ELSE "nvmbusy", "erased")
      BY <2>3 DEF EraseX
    <3>2. QED  BY <1>1, <2>1, <2>3, <3>1 DEF Call, Go, HostFields
  <2>4. QED  BY <2>2, <2>3
<1>3. (dev.busy => host.blind) /\ dev.isc /\ StageX = "erase" /\ StageX' = "erased"
  BY <1>1, <1>2, RestingX, StageIs
<1>4. /\ host.n > 0 /\ ~Skipped /\ ErasesFirst  BY <1>1, <1>2, <1>3 DEF XMegaOK
<1>5. /\ Open /\ Open' /\ ~BeforeJobs /\ ~BeforeJobs'
  BY <1>2, <1>4 DEF Open, BetweenJobs, BeforeJobs
<1>6. ~req.erase /\ Arg.action \in {"w", "e"} /\ Arg.section \in DOMAIN Sizes
  BY <1>4 DEF ErasesFirst, Skipped
<1> DEFINE erased == [a \in 1..N |-> IF a \in Within(Arg.section) THEN Erased ELSE dev.cells[a]]
<1>7. \/ UNCHANGED dev
      \/ Arg.section \notin {"f", "l"} /\ dev'.cells = dev.cells /\ dev'.todo = erased
           /\ dev'.busy = TRUE /\ dev'.isc = dev.isc
  <2>1. CASE Arg.section \in {"f", "l"}
    <3>1. EraseX  OBVIOUS
    <3>2. QED  BY ONLY <2>1, <3>1, Zenon DEF EraseX
  <2>2. CASE Arg.section \notin {"f", "l"}
    <3>1. dev' = dev \/ dev' = Working(erased)  BY <2>2 DEF EraseX, Command
    <3>2. QED  BY <1>1, <2>2, <3>1 DEF Working, DeviceFields
  <2>3. QED  BY <2>1, <2>2
<1>8. ~host.blind /\ Arg.section \notin {"f", "l"} => dev'.todo = erased /\ dev'.busy = TRUE
  <2>1. SUFFICES ASSUME ~host.blind, Arg.section \notin {"f", "l"}
                 PROVE  dev'.todo = erased /\ dev'.busy = TRUE
    OBVIOUS
  <2>2. dev' = Working(erased)  BY <1>3, <2>1 DEF EraseX, Command, Ready
  <2>3. QED  BY <1>1, <2>2 DEF Working, DeviceFields
<1>9. dev'.cells = dev.cells /\ dev'.isc = dev.isc  BY <1>7
<1>10. Frame  BY <1>1, <1>2, <1>5 DEF Frame
<1>11. Contract!Next  BY <1>5, <1>9, <1>10, NoteStep DEF Contract!Next
<1>12. /\ Arg' = Arg /\ (IsWrite <=> IsWrite') /\ Skip' = Skip
  BY <1>10, FrameArg DEF Frame
<1>13. Loaded  BY <1>1, <1>3, <1>4 DEF DataInv, XInv
<1>14. Loaded'  BY <1>2, <1>10, <1>13, FrameArg DEF Loaded, Frame
<1>15. /\ base(Arg.section) \in Nat /\ Sizes[Arg.section] \in Nat /\ N \in Nat
       /\ base(Arg.section) + Sizes[Arg.section] <= N
  BY <1>1, <1>6, SectionIs, BlankIn DEF RequestOK
<1>16. TowardsInv'
  <2>1. SUFFICES ASSUME dev'.busy, ~Astray'
                 PROVE  /\ job'.does \in {"erase", "write"}
                        /\ \A a \in 1..N' : dev'.todo[a] \in TowardsJob(a)'
    BY DEF TowardsInv
  <2>2. ~Astray /\ ~host.blind
    BY <1>2, <1>10, <2>1, FrameJob DEF Astray, Wrong
  <2>3. Arg.section \notin {"f", "l"} /\ dev'.todo = erased
    BY <1>3, <1>7, <1>8, <2>1, <2>2
  <2>4. /\ job.does \in {"erase", "write"} /\ job.low = base(Arg.section)
        /\ job.size = Sizes[Arg.section] /\ job' = job
    <3>1. Arg.action = "w" => UsesFile /\ ~Misread
      BY <1>4, <2>2 DEF UsesFile, Astray
    <3>2. Arg.action = "w" => ~Broken  BY <1>13, <3>1 DEF Loaded
    <3>3. QED  BY <1>1, <1>4, <1>5, <1>6, <1>10, <3>1, <3>2, JobXIs, FrameJob
  <2>5. ASSUME NEW a \in 1..N' PROVE dev'.todo[a] \in TowardsJob(a)'
    <3>1. a \in 1..N  BY <1>1, <2>5
    <3>2. CASE a \in Within(Arg.section)
      <4>1. a - job'.low \in 1..job'.size
        BY <1>15, <2>4, <3>1, <3>2 DEF Within
      <4>2. dev'.todo[a] = Erased  BY <2>3, <3>1, <3>2
      <4>3. QED  BY <4>1, <4>2, ContractIs DEF TowardsJob, Contract!Towards
    <3>3. CASE a \notin Within(Arg.section)
      <4>1. dev'.todo[a] = dev'.cells[a]  BY <1>9, <2>3, <3>1, <3>3
      <4>2. QED  BY <4>1 DEF TowardsJob, Contract!Towards
    <3>4. QED  BY <3>2, <3>3
  <2>6. QED  BY <2>4, <2>5
<1>17. FirstIdle' /\ IdleInv' /\ WriteInv' /\ VerifiedX2'
  BY <1>1, <1>2, <1>3 DEF FirstIdle, First, IdleInv, WriteInv, VerifiedX2
<1>18. EraseInv'
  <2>1. ASSUME ~host'.blind, Programmable', NEW k \in 1..Sizes[Arg.section]
        PROVE  At(k)' = Erased
    <3>1. Arg.section \in {"a", "b", "e"} /\ ~host.blind  BY <1>2, <1>12, <2>1 DEF Programmable
    <3>2. dev'.todo = erased /\ dev'.busy = TRUE  BY <1>8, <3>1
    <3>3. base(Arg.section) + k \in 1..N /\ base(Arg.section) + k \in Within(Arg.section)
      BY <1>15, <2>1 DEF Within
    <3>4. At(k)' = erased[base(Arg.section) + k]  BY <1>12, <3>2 DEF At, Coming
    <3>5. QED  BY <3>3, <3>4
  <2>2. IsWrite' => host'.i = Skip'
    BY <1>1, <1>2, <1>3, <1>4, <1>12 DEF DataInv, EraseInv
  <2>3. host'.pc \notin {"args", "file", "pdi"} /\ host'.n > 0  BY <1>2, <1>4
  <2>4. QED  BY <1>3, <1>12, <2>1, <2>2, <2>3 DEF EraseInv
<1>19. XInv'
  <2>1. host'.pc = "erased" /\ ~host'.blind => ~dev'.busy  BY <1>2, <1>3
  <2>2. QED  BY <1>2, <1>3, <1>9, <1>14, <2>1 DEF XInv
<1>20. QED  BY <1>11, <1>16, <1>17, <1>18, <1>19 DEF KeepsX

(* The argument to be erased or written is left.                           *)
LEMMA LeavesX ==
  ASSUME TypeInv, DataInv, Worsens, req.kind = "xmega", UNCHANGED <<req, dev, disk, N>>,
         host'.n = host.n, host'.fp = host.fp, host.pc \in {"write", "next"},
         host'.pc \in {"args", "release"},
         dev.busy /\ ~host.blind => host'.pc = "release" /\ host'.told /\ host'.ret = 1
  PROVE  /\ KeepsX' /\ Frame /\ host.n > 0 /\ Open /\ ~Open' /\ ~BeforeJobs /\ Loaded
         /\ Arg.action \in {"e", "w", "W"} /\ Arg.section \in DOMAIN Sizes
         /\ StageX = host.pc
         /\ trouble' # "none" => Contract!Next
<1> USE DEF TypeInv
<1>1. host.n > 0 /\ StageX = host.pc /\ StageX' = host'.pc  BY StageIs DEF StageOK, Worked
<1>2. Open /\ ~Open' /\ ~BeforeJobs /\ ~BeforeJobs'
  BY <1>1 DEF Open, BetweenJobs, BeforeJobs
<1>3. Frame  BY <1>2 DEF Frame
<1>4. Arg.action \in {"e", "w", "W"} /\ Arg.section \in DOMAIN Sizes
  BY <1>1 DEF XMegaOK, Skipped
<1>5. Loaded /\ dev.isc  BY <1>1 DEF DataInv, XInv
<1>6. Arg' = Arg  BY <1>3, FrameArg DEF Frame
<1>7. FirstIdle' /\ IdleInv' /\ TowardsInv'
  <2>1. TowardsInv'  BY <1>3, TowardsStays DEF DataInv
  <2>2. FirstIdle'  BY DEF FirstIdle, First
  <2>3. IdleInv'  BY DEF IdleInv, Worsens
  <2>4. QED  BY <2>1, <2>2, <2>3
<1>8. EraseInv' /\ WriteInv' /\ XInv' /\ VerifiedX2'
  <2>1. ~Untouched(host.n)
    <3>1. req.args[host.n].action \in {"e", "w", "W"}  BY <1>1, <1>4, ArgIs DEF Arg, Arguments
    <3>2. host.n \in 1..host.n  BY <1>1 DEF HostOK, RequestOK
    <3>3. QED  BY <3>1, <3>2 DEF Untouched
  <2>2. EraseInv'
    <3>1. ~(\A k \in 1..host'.n : req'.args[k].action \notin {"e", "w", "W"})
      BY <2>1 DEF Untouched
    <3>2. StageX' \notin {"erase", "erased"} /\ host'.pc # "file"  BY <1>1
    <3>3. QED  BY <3>1, <3>2 DEF EraseInv, Untouched
  <2>3. WriteInv' /\ XInv'  BY <1>1, <1>5 DEF WriteInv, XInv
  <2>4. VerifiedX2'  BY <1>4, <1>6 DEF VerifiedX2
  <2>5. QED  BY <2>2, <2>3, <2>4
<1>9. trouble' # "none" => Contract!Next  BY <1>2, <1>3, TellStep
<1>10. QED  BY <1>1, <1>2, <1>3, <1>4, <1>5, <1>7, <1>8, <1>9 DEF KeepsX

(* It is left with all of the file written, or the user was told.          *)
LEMMA FinishesX ==
  ASSUME TypeInv, DataInv, Worsens, req.kind = "xmega", UNCHANGED <<req, dev, disk, N>>,
         host'.n = host.n, host'.fp = host.fp, host.pc \in {"write", "next"},
         host'.pc = "args", dev.busy => host.blind,
         IsWrite /\ Programmable /\ ~Astray /\ ~BeyondFirstPage => Len(host.bytes) <= Behind
  PROVE  KeepsX' /\ Contract!Next
<1> USE DEF TypeInv
<1>1. /\ KeepsX' /\ Frame /\ host.n > 0 /\ Open /\ ~Open' /\ ~BeforeJobs /\ Loaded
      /\ Arg.action \in {"e", "w", "W"} /\ Arg.section \in DOMAIN Sizes
      /\ StageX = host.pc
      /\ trouble' # "none" => Contract!Next
  BY LeavesX
<1>2. CASE trouble' = "none"
  <2>1. ~Astray' /\ ~Untold' /\ ~host'.told  BY <1>2 DEF trouble
  <2>2. ~Astray /\ ~host.told /\ ~host.blind
    BY <1>1, <2>1, FrameJob DEF Astray, Wrong, Worsens
  <2>3. ~OnlyShown /\ ~WritesOver /\ ~BeyondFirstPage
    <3>1. host'.n # 0 /\ ~BeforeJobs'  BY <1>1 DEF HostOK, RequestOK, Frame
    <3>2. ~OnlyShown' /\ ~WritesOver' /\ ~BeyondFirstPage'  BY <2>1, <3>1 DEF Untold
    <3>3. QED  BY <1>1, <3>2, FrameArg, FrameJob DEF Frame
  <2>4. host.fp  BY <1>1, <2>2 DEF DataInv, ToldInv
  <2>5. Arg.action # "e"
    <3>1. Arg.action = "e" => req.erase  BY <1>1 DEF DataInv, WriteInv
    <3>2. ~ErasesTwice  BY <1>1, <2>2 DEF Astray
    <3>3. QED  BY <2>4, <3>1, <3>2 DEF ErasesTwice, ChangesX, OfXMega
  <2>6. IsWrite  BY <1>1, <2>5 DEF IsWrite
  <2>7. Programmable
    BY <1>1, <2>3, SectionIs DEF OnlyShown, ChangesX, OfXMega, Programmable
  <2>8. /\ ~Broken /\ host.bytes = File.of /\ Len(host.bytes) \in Nat /\ job.does = "write"
        /\ base(Arg.section) + Skip + Len(DataX) <= N
    BY <1>1, <2>2, <2>6, WriteFits
  <2>9. ASSUME NEW k \in (Skip + 1)..Len(File.of)
        PROVE  dev.cells[base(Arg.section) + k] = File.of[k]
    <3>1. k <= Behind
      <4>1. Len(host.bytes) <= Behind  BY <2>2, <2>3, <2>6, <2>7
      <4>2. Behind \in Nat
        <5>1. host.i \in Nat /\ Page \in Nat  BY XMegaAssumption DEF HostOK
        <5>2. QED  BY <5>1 DEF Behind
      <4>3. Skip \in Nat  BY <1>1, DataIs
      <4>4. QED  BY <2>8, <2>9, <4>1, <4>2, <4>3
    <3>2. k \in (Skip + 1)..Len(host.bytes)  BY <2>8, <2>9
    <3>3. At(k) = host.bytes[k]
      BY <1>1, <2>2, <2>3, <2>6, <2>7, <3>1, <3>2 DEF DataInv, WriteInv
    <3>4. QED  BY <2>2, <2>8, <3>3 DEF At, Coming
  <2>10. UsesFile  BY <2>6 DEF UsesFile, IsWrite
  <2>11. Contract!Part(dev.cells, job.from, Len(job.data)) = job.data
    BY <1>1, <2>8, <2>9, <2>10, FileInDevice
  <2>12. Contract!Achieved(saved')  BY <2>8, <2>11 DEF Contract!Achieved
  <2>13. Contract!Finish  BY <1>1, <2>12, FrameJob DEF Contract!Finish
  <2>14. QED  BY <1>1, <2>13 DEF Contract!Next
<1>3. QED  BY <1>1, <1>2

LEMMA WrittenStepX ==
  ASSUME TypeInv, TypeInv', DataInv, Worsens, NextX, WrittenX
  PROVE  KeepsX' /\ Contract!Next
<1>1. /\ req.kind = "xmega" /\ UNCHANGED <<req, N>> /\ DOMAIN host = HostFields
  BY IdleX
<1>2. /\ host.pc = "write" /\ UNCHANGED <<disk, dev>> /\ ~Writes
      /\ host'.pc = "args" /\ host'.n = host.n /\ host'.fp = host.fp
  BY <1>1 DEF WrittenX, AtX, Running, Quiet, Go, HostFields
<1>3. (dev.busy => host.blind) /\ StageX = "write"  BY <1>1, <1>2, RestingX
<1>4. Programmable => Len(host.bytes) <= Behind
  <2>1. Programmable => ~(host.i < Len(host.bytes))  BY <1>2 DEF Writes, Programmable
  <2>2. host.i \in Nat /\ host.bytes \in Seq(Byte)  BY DEF TypeInv, HostOK
  <2>3. Behind = host.i  BY <1>3 DEF Behind
  <2>4. QED  BY <2>1, <2>2, <2>3
<1>5. QED  BY <1>1, <1>2, <1>3, <1>4, FinishesX

(* What holds while pages are written.                                     *)
LEMMA WritingX ==
  ASSUME TypeInv, DataInv, Worsens, req.kind = "xmega",
         UNCHANGED <<req, disk, N, dev.cells, dev.isc>>,
         host'.n = host.n, host'.fp = host.fp, host'.bytes = host.bytes,
         host.pc \in {"write", "load", "page", "next"}, host'.pc \in {"write", "page", "nvmbusy"},
         host'.pc = "nvmbusy" => host'.then \in {"load", "next"}
  PROVE  /\ Frame /\ FirstIdle' /\ EraseInv' /\ XInv' /\ VerifiedX2' /\ Contract!Next
         /\ host.n > 0 /\ Open /\ ~BeforeJobs /\ Loaded /\ StageX = host.pc
         /\ StageX' = (IF host'.pc = "nvmbusy" THEN host'.then ELSE host'.pc)
         /\ Arg.action \in {"e", "w", "W"} /\ Arg.section \in DOMAIN Sizes
         /\ Arg' = Arg /\ Skip' = Skip /\ (IsWrite' <=> IsWrite) /\ (WritesOver' <=> WritesOver)
         /\ (Programmable' <=> Programmable) /\ (Programs' <=> Programs)
         /\ ~Astray' => ~Astray
         /\ Arg'.action = "e" => req'.erase /\ (~host'.fp => host'.bytes = <<>>)
         /\ IsWrite => host.i % Page = 0 /\ Skip <= host.i
<1> USE DEF TypeInv
<1>1. StageX = host.pc /\ host.n > 0
  <2>1. StageX = host.pc  BY StageIs
  <2>2. host.n > 0  BY <2>1 DEF StageOK, Worked, XMegaOK
  <2>3. QED  BY <2>1, <2>2
<1>2. StageX' = (IF host'.pc = "nvmbusy" THEN host'.then ELSE host'.pc)  BY DEF StageX, Waiting
<1>3. Open /\ Open' /\ ~BeforeJobs /\ ~BeforeJobs'
  BY <1>1 DEF Open, BetweenJobs, BeforeJobs
<1>4. Frame  BY <1>3 DEF Frame
<1>5. Arg.action \in {"e", "w", "W"} /\ Arg.section \in DOMAIN Sizes
  BY <1>1 DEF XMegaOK, Skipped
<1>6. Loaded /\ dev.isc  BY <1>1 DEF DataInv, XInv
<1>7. /\ Arg' = Arg /\ Skip' = Skip /\ (IsWrite' <=> IsWrite) /\ (WritesOver' <=> WritesOver)
      /\ (Programmable' <=> Programmable) /\ (Programs' <=> Programs)
  <2>1. Arg' = Arg /\ Skip' = Skip /\ (IsWrite' <=> IsWrite) /\ (WritesOver' <=> WritesOver)
    BY <1>4, FrameArg DEF Frame
  <2>2. QED  BY <2>1 DEF Programmable, Programs
<1>8. Loaded'  BY <1>4, <1>6, FrameArg DEF Loaded, Frame
<1>9. FirstIdle' /\ EraseInv' /\ VerifiedX2'
  BY <1>2, <1>5, <1>7 DEF FirstIdle, First, EraseInv, VerifiedX2
<1>10. XInv'  BY <1>2, <1>6, <1>8 DEF XInv
<1>11. Contract!Next  BY <1>3, <1>4, NoteStep DEF Contract!Next
<1>12. ~Astray' => ~Astray  BY <1>4, FrameJob DEF Astray, Wrong, Worsens
<1>13. /\ Arg'.action = "e" => req'.erase /\ (~host'.fp => host'.bytes = <<>>)
       /\ IsWrite => host.i % Page = 0 /\ Skip <= host.i
  BY <1>1, <1>7 DEF DataInv, WriteInv
<1>14. QED
  BY <1>1, <1>2, <1>3, <1>4, <1>5, <1>6, <1>7, <1>9, <1>10, <1>11, <1>12, <1>13

(* From one page to the next.                                              *)
LEMMA NextPageStepX ==
  ASSUME TypeInv, TypeInv', DataInv, Worsens, NextX, NextPage
  PROVE  KeepsX' /\ Contract!Next
<1> USE DEF TypeInv
<1>1. /\ req.kind = "xmega" /\ UNCHANGED <<req, N>> /\ DOMAIN host = HostFields
  BY IdleX
<1>2. /\ host.pc = "next" /\ UNCHANGED <<disk, dev>>
      /\ host'.n = host.n /\ host'.fp = host.fp /\ host'.bytes = host.bytes
      /\ host'.blind = host.blind
      /\ IF host.wait # 0 THEN host'.pc = "release" /\ host'.told = TRUE /\ host'.ret = 1
         ELSE IF Arg.section = "e" THEN host'.pc = "args"
              ELSE host'.pc = "write" /\ host'.i = host.i + Page
  <2>1. host.pc = "next" /\ UNCHANGED <<disk, dev>>
    BY DEF NextPage, AtX, Running, Quiet
  <2>2. CASE host.wait # 0
    BY <1>1, <2>1, <2>2 DEF NextPage, Release, Tell, Go, HostFields
  <2>3. CASE host.wait = 0 /\ Arg.section = "e"
    BY <1>1, <2>1, <2>3 DEF NextPage, Go, HostFields
  <2>4. CASE host.wait = 0 /\ Arg.section # "e"
    BY <1>1, <2>1, <2>4 DEF NextPage, Following, Go, HostFields
  <2>5. QED  BY <2>2, <2>3, <2>4
<1>3. host.wait = 0 => (dev.busy => host.blind)
  BY <1>1, <1>2 DEF DataInv, XInv
<1>4. CASE host.wait # 0
  <2>1. trouble' # "none"  BY <1>2, <1>4 DEF trouble
  <2>2. QED  BY <1>1, <1>2, <1>4, <2>1, LeavesX
<1>5. CASE host.wait = 0 /\ Arg.section = "e"
  <2>1. /\ host.n > 0 /\ ~BeforeJobs /\ Loaded /\ Arg.section \in DOMAIN Sizes
        /\ Arg.action \in {"e", "w", "W"} /\ StageX = "next"
    BY <1>1, <1>2, <1>3, <1>5, LeavesX
  <2>2. ASSUME IsWrite, ~Astray, ~BeyondFirstPage PROVE Len(host.bytes) <= Behind
    <3>1. host.i % Page = 0 /\ Skip <= host.i  BY <1>1, <2>1, <2>2 DEF DataInv, WriteInv
    <3>2. host.i < Len(host.bytes)  BY <1>1, <2>1 DEF XMegaOK, Writes
    <3>3. /\ Page \in Nat /\ host.i \in Nat /\ host.bytes = File.of /\ Len(host.bytes) \in Nat
          /\ Skip \in Nat
      BY <1>1, <2>1, <2>2, <3>1, <3>2, PageFits
    <3>4. Len(DataX) = IF Skip <= Len(host.bytes) THEN Len(host.bytes) - Skip ELSE 0
      BY <2>1, <3>3, DataIs
    <3>5. ~(Len(DataX) > Page)
      <4>1. UsesFile /\ ChangesX  BY <1>1, <2>1, <2>2 DEF UsesFile, IsWrite, ChangesX, OfXMega
      <4>2. job.data = DataX  BY <1>1, <2>1, <4>1, JobXIs
      <4>3. QED  BY <1>5, <2>2, <4>1, <4>2 DEF BeyondFirstPage
    <3>6. Behind = host.i + Page  BY <2>1 DEF Behind
    <3>7. QED  BY ONLY <3>1, <3>2, <3>3, <3>4, <3>5, <3>6
  <2>3. QED  BY <1>1, <1>2, <1>3, <1>5, <2>2, FinishesX
<1>6. CASE host.wait = 0 /\ Arg.section # "e"
  <2>1. /\ Frame /\ FirstIdle' /\ EraseInv' /\ XInv' /\ VerifiedX2' /\ Contract!Next
        /\ host.n > 0 /\ StageX = "next" /\ StageX' = "write"
        /\ Arg' = Arg /\ Skip' = Skip /\ (IsWrite' <=> IsWrite) /\ (WritesOver' <=> WritesOver)
        /\ (Programmable' <=> Programmable) /\ (Programs' <=> Programs)
        /\ (~Astray' => ~Astray)
        /\ (Arg'.action = "e" => req'.erase /\ (~host'.fp => host'.bytes = <<>>))
        /\ (IsWrite => host.i % Page = 0 /\ Skip <= host.i)
    BY <1>1, <1>2, <1>6, WritingX
  <2>2. TowardsInv'  BY <1>2, <2>1, TowardsStays DEF DataInv
  <2>3. IdleInv'  BY <1>2, <1>3, <1>6 DEF IdleInv
  <2>4. /\ Page \in Nat /\ Page > 0 /\ host.i \in Nat /\ Skip \in Nat
    BY <2>1, XMegaAssumption, DataIs DEF HostOK
  <2>5. Behind' = Behind  BY <1>2, <1>6, <2>1 DEF Behind
  <2>6. \A k : At(k)' = At(k)  BY <1>2, <2>1, FrameX
  <2>7. IsWrite => host'.i % Page = 0 /\ Skip' <= host'.i
    <3>1. host.i % Page = 0 => (host.i + Page) % Page = 0
      <4>1. host.i \in Int  BY <2>4
      <4>2. QED  BY <2>4, <4>1, Blocks
    <3>2. Skip <= host.i => Skip <= host.i + Page  BY ONLY <2>4
    <3>3. QED  BY <1>2, <1>6, <2>1, <3>1, <3>2
  <2>8. IsWrite /\ ~Astray /\ ~WritesOver /\ Programmable =>
          \A k \in (Skip + 1)..Len(host.bytes) :
            /\ k <= Behind => At(k) = host.bytes[k]
            /\ k > Behind /\ Programs => At(k) = Erased
    BY <1>1, <2>1 DEF DataInv, WriteInv
  <2>9. WriteInv'
    BY <1>2, <2>1, <2>5, <2>6, <2>7, <2>8 DEF WriteInv
  <2>10. QED  BY <2>1, <2>2, <2>3, <2>9 DEF KeepsX
<1>7. QED  BY <1>4, <1>5, <1>6

(* Only for a write there is something to be written.                      *)
LEMMA WritesIs ==
  ASSUME TypeInv, DataInv, req.kind = "xmega", StageX \in {"write", "load", "page", "next"},
         Writes, ~Astray, host.n > 0, ~BeforeJobs, Loaded, Arg.section \in DOMAIN Sizes,
         Arg.action \in {"e", "w", "W"}
  PROVE  IsWrite /\ job.does = "write" /\ Programmable
<1>1. Arg.action # "e"
  <2>1. SUFFICES ASSUME Arg.action = "e" PROVE FALSE  OBVIOUS
  <2>2. req.erase /\ (~host.fp => host.bytes = <<>>)  BY <2>1 DEF DataInv, WriteInv
  <2>3. ~ErasesTwice  BY DEF Astray
  <2>4. host.bytes = <<>>  BY <2>1, <2>2, <2>3 DEF ErasesTwice, ChangesX, OfXMega
  <2>5. host.i < 0 /\ host.i \in Nat  BY <2>4 DEF Writes, TypeInv, HostOK
  <2>6. QED  BY <2>5
<1>2. IsWrite  BY <1>1 DEF IsWrite
<1>3. QED  BY <1>2, WriteFits DEF Writes, Programmable

(* The page buffer is erased.                                              *)
LEMMA BufferStepX ==
  ASSUME TypeInv, TypeInv', DataInv, Worsens, NextX, erase_buffer
  PROVE  KeepsX' /\ Contract!Next
<1> USE DEF TypeInv
<1>1. /\ req.kind = "xmega" /\ UNCHANGED <<req, N>> /\ DOMAIN host = HostFields
      /\ DOMAIN dev = DeviceFields
  BY IdleX
<1>2. /\ host.pc = "write" /\ UNCHANGED disk /\ Writes
      /\ host'.n = host.n /\ host'.fp = host.fp /\ host'.bytes = host.bytes
      /\ host'.blind = host.blind /\ host'.pc = "nvmbusy" /\ host'.then = "load"
      /\ host'.i = host.i
  BY <1>1 DEF erase_buffer, AtX, Running, Call, Go, HostFields
<1>3. (dev.busy => host.blind) /\ dev.isc  BY <1>1, <1>2, RestingX
<1>4. /\ UNCHANGED <<dev.cells, dev.isc>>
      /\ ~host.blind => dev'.busy = TRUE /\ dev'.todo = dev.cells /\ dev'.latch = Blank
  <2> DEFINE d == [Working(dev.cells) EXCEPT !.latch = Blank]
  <2>1. d.cells = dev.cells /\ d.isc = dev.isc /\ d.busy = TRUE /\ d.todo = dev.cells
        /\ d.latch = Blank
    BY <1>1 DEF Working, DeviceFields
  <2> HIDE DEF d
  <2>2. dev' = IF Ready THEN d ELSE dev  BY DEF erase_buffer, Command, d
  <2>3. ~host.blind => Ready  BY <1>3 DEF Ready
  <2>4. QED  BY <2>1, <2>2, <2>3
<1>5. /\ Frame /\ FirstIdle' /\ EraseInv' /\ XInv' /\ VerifiedX2' /\ Contract!Next
      /\ host.n > 0 /\ ~BeforeJobs /\ Loaded /\ StageX = "write" /\ StageX' = "load"
      /\ Arg.action \in {"e", "w", "W"} /\ Arg.section \in DOMAIN Sizes
      /\ Arg' = Arg /\ Skip' = Skip /\ (IsWrite' <=> IsWrite) /\ (WritesOver' <=> WritesOver)
      /\ (Programmable' <=> Programmable) /\ (Programs' <=> Programs)
      /\ (~Astray' => ~Astray)
      /\ (Arg'.action = "e" => req'.erase /\ (~host'.fp => host'.bytes = <<>>))
      /\ (IsWrite => host.i % Page = 0 /\ Skip <= host.i)
  BY <1>1, <1>2, <1>4, WritingX
<1>6. ~Astray => ~host.blind  BY DEF Astray
<1>7. TowardsInv'
  <2>1. SUFFICES ASSUME ~Astray'
                 PROVE  /\ job'.does \in {"erase", "write"}
                        /\ \A a \in 1..N' : dev'.todo[a] \in TowardsJob(a)'
    BY DEF TowardsInv
  <2>2. job'.does = "write"  BY <1>1, <1>2, <1>5, <2>1, WritesIs, FrameJob
  <2>3. dev'.todo = dev'.cells  BY <1>4, <1>5, <1>6, <2>1
  <2>4. QED  BY <2>2, <2>3 DEF TowardsJob, Contract!Towards
<1>8. IdleInv'  BY <1>1, <1>5 DEF IdleInv
<1>9. ~host.blind => \A k : At(k)' = At(k)
  BY <1>3, <1>4, <1>5 DEF At, Coming
<1>10. Behind' = Behind  BY <1>2, <1>5 DEF Behind
<1>11. WriteInv'
  <2>1. IsWrite /\ ~Astray /\ ~WritesOver /\ Programmable =>
          \A k \in (Skip + 1)..Len(host.bytes) :
            /\ k <= Behind => At(k) = host.bytes[k]
            /\ k > Behind /\ Programs => At(k) = Erased
    BY <1>1, <1>5 DEF DataInv, WriteInv
  <2>2. ~Astray' => dev'.latch = Blank'  BY <1>1, <1>4, <1>5, <1>6 DEF Blank
  <2>3. IsWrite' => host'.i % Page = 0 /\ Skip' <= host'.i  BY <1>2, <1>5
  <2>4. IsWrite' /\ ~Astray' /\ ~WritesOver' /\ Programmable' =>
          \A k \in (Skip' + 1)..Len(host'.bytes) :
            /\ k <= Behind' => At(k)' = host'.bytes[k]
            /\ k > Behind' /\ Programs' => At(k)' = Erased
    BY <1>2, <1>5, <1>6, <1>9, <1>10, <2>1
  <2>5. StageX' # "page"  BY <1>5
  <2>6. QED  BY <1>5, <2>2, <2>3, <2>4, <2>5 DEF WriteInv
<1>12. QED  BY <1>5, <1>7, <1>8, <1>11 DEF KeepsX

(* A page of the file is put into the buffer.                              *)
LEMMA LoadStepX ==
  ASSUME TypeInv, TypeInv', DataInv, Worsens, NextX, load_buffer
  PROVE  KeepsX' /\ Contract!Next
<1> USE DEF TypeInv
<1>1. /\ req.kind = "xmega" /\ UNCHANGED <<req, N>> /\ DOMAIN host = HostFields
      /\ DOMAIN dev = DeviceFields
  BY IdleX
<1>2. /\ host.pc = "load" /\ UNCHANGED disk
      /\ host'.n = host.n /\ host'.fp = host.fp /\ host'.bytes = host.bytes
      /\ host'.pc = "page" /\ host'.i = host.i
      /\ (~host'.blind => ~host.blind /\ host.wait = 0)
  <2>1. host.pc = "load" /\ UNCHANGED disk /\ host' = [Go("page") EXCEPT !.blind = @ \/ host.wait # 0]
    BY DEF load_buffer, AtX, Running
  <2>2. /\ host'.n = host.n /\ host'.fp = host.fp /\ host'.bytes = host.bytes
        /\ host'.pc = "page" /\ host'.i = host.i
    BY <1>1, <2>1 DEF Go, HostFields
  <2>3. host'.blind = (host.blind \/ host.wait # 0)  BY <1>1, <2>1 DEF Go, HostFields
  <2>4. QED  BY <2>1, <2>2, <2>3
<1> DEFINE filled(rest) == [a \in DOMAIN dev.latch |->
             IF ~OfPage(a) THEN dev.latch[a]
             ELSE LET k == a - base(Arg.section)
                  IN  Burn(dev.latch[a], IF k \in DOMAIN host.bytes THEN host.bytes[k] ELSE rest)]
<1>3. PICK rest \in {0, Erased} :
        dev' = IF Ready THEN [dev EXCEPT !.latch = filled(rest)] ELSE dev
  BY DEF load_buffer, Command
<1> HIDE DEF filled
<1>4. /\ UNCHANGED <<dev.cells, dev.isc, dev.todo, dev.busy>>
      /\ Ready => dev'.latch = filled(rest)
  BY <1>1, <1>3 DEF DeviceFields
<1>5. /\ Frame /\ FirstIdle' /\ EraseInv' /\ XInv' /\ VerifiedX2' /\ Contract!Next
      /\ host.n > 0 /\ ~BeforeJobs /\ Loaded /\ StageX = "load" /\ StageX' = "page"
      /\ Arg.action \in {"e", "w", "W"} /\ Arg.section \in DOMAIN Sizes
      /\ Arg' = Arg /\ Skip' = Skip /\ (IsWrite' <=> IsWrite) /\ (WritesOver' <=> WritesOver)
      /\ (Programmable' <=> Programmable) /\ (Programs' <=> Programs)
      /\ (~Astray' => ~Astray)
      /\ (Arg'.action = "e" => req'.erase /\ (~host'.fp => host'.bytes = <<>>))
      /\ (IsWrite => host.i % Page = 0 /\ Skip <= host.i)
  BY <1>1, <1>2, <1>4, WritingX
<1>6. ~host'.blind => ~dev.busy /\ dev.isc
  BY <1>1, <1>2, <1>5 DEF DataInv, XInv
<1>7. TowardsInv'  BY <1>4, <1>5, TowardsStays DEF DataInv
<1>8. IdleInv'  BY <1>4, <1>6 DEF IdleInv
<1>9. \A k : At(k)' = At(k)  BY <1>4, <1>5, FrameX
<1>10. Behind' = Behind  BY <1>2, <1>5 DEF Behind
<1>11. ASSUME IsWrite, ~Astray', NEW k \in 1..Page
       PROVE  host.i + k <= Len(host.bytes) /\ dev'.latch[PageAt + k] = host.bytes[host.i + k]
  <2>1. ~Astray /\ Ready /\ dev.latch = Blank
    <3>1. ~Astray /\ ~host'.blind  BY <1>5, <1>11 DEF Astray
    <3>2. Ready  BY <1>6, <3>1 DEF Ready
    <3>3. dev.latch = Blank  BY <1>1, <1>5, <1>11, <3>1 DEF DataInv, WriteInv
    <3>4. QED  BY <3>1, <3>2, <3>3
  <2>2. host.i < Len(host.bytes)  BY <1>1, <1>5 DEF XMegaOK, Writes
  <2>3. /\ host.i + Page <= Len(host.bytes) /\ Len(host.bytes) <= Sizes[Arg.section]
        /\ Page \in Nat /\ Page > 0 /\ base(Arg.section) + Sizes[Arg.section] <= N
        /\ base(Arg.section) \in Nat /\ host.i \in Nat /\ N \in Nat /\ Sizes[Arg.section] \in Nat
        /\ Len(host.bytes) \in Nat /\ DOMAIN host.bytes = 1..Len(host.bytes)
    BY <1>1, <1>5, <1>11, <2>1, <2>2, PageFits
  <2>4. k \in Nat /\ 1 <= k /\ host.i + k <= Len(host.bytes)  BY ONLY <1>11, <2>3
  <2>5. base(Arg.section) + host.i + k \in 1..N
    <3>1. /\ base(Arg.section) \in Nat /\ host.i \in Nat /\ N \in Nat
          /\ Sizes[Arg.section] \in Nat /\ Len(host.bytes) \in Nat
      BY <2>3
    <3>2. Len(host.bytes) <= Sizes[Arg.section] /\ base(Arg.section) + Sizes[Arg.section] <= N
      BY <2>3
    <3>3. host.i + k \in Nat /\ 1 <= host.i + k /\ host.i + k <= Sizes[Arg.section]
      BY ONLY <2>4, <3>1, <3>2
    <3>4. base(Arg.section) + (host.i + k) \in 1..N  BY ONLY <3>1, <3>2, <3>3
    <3>5. base(Arg.section) + host.i + k = base(Arg.section) + (host.i + k)
      BY ONLY <2>4, <3>1
    <3>6. QED  BY ONLY <3>4, <3>5
  <2> DEFINE a == base(Arg.section) + host.i + k
  <2>6. a \in DOMAIN dev.latch /\ dev.latch[a] = Erased  BY <2>1, <2>5, BlankIn
  <2>7. a - (base(Arg.section) + host.i) = k /\ a - base(Arg.section) = host.i + k
    BY ONLY <2>3, <2>4
  <2>8. OfPage(a) /\ a - base(Arg.section) \in DOMAIN host.bytes
    <3>1. OfPage(a)  BY <1>11, <2>7 DEF OfPage, PageAt
    <3>2. host.i + k \in 1..Len(host.bytes)
      <4>1. host.i \in Nat /\ Len(host.bytes) \in Nat  BY <2>3
      <4>2. QED  BY ONLY <2>4, <4>1
    <3>3. QED  BY <2>3, <2>7, <3>1, <3>2
  <2> HIDE DEF a
  <2>9. filled(rest)[a] = Burn(Erased, host.bytes[host.i + k])
    BY <2>6, <2>7, <2>8 DEF filled
  <2>10. host.bytes[host.i + k] \in Byte /\ Erased \in Byte
    <3>1. host.bytes \in Seq(Byte)  BY DEF HostOK
    <3>2. QED  BY <2>7, <2>8, <3>1 DEF Erased, Byte
  <2>11. filled(rest)[a] = host.bytes[host.i + k]  BY <2>9, <2>10, BurnIs
  <2>12. QED  BY <1>4, <2>1, <2>4, <2>11 DEF a, PageAt
<1>12. WriteInv'
  <2>1. IsWrite /\ ~Astray /\ ~WritesOver /\ Programmable =>
          \A k \in (Skip + 1)..Len(host.bytes) :
            /\ k <= Behind => At(k) = host.bytes[k]
            /\ k > Behind /\ Programs => At(k) = Erased
    BY <1>1, <1>5 DEF DataInv, WriteInv
  <2>2. PageAt' = PageAt  BY <1>2, <1>5 DEF PageAt
  <2>3. IsWrite' => host'.i % Page = 0 /\ Skip' <= host'.i  BY <1>2, <1>5
  <2>4. IsWrite' /\ ~Astray' /\ ~WritesOver' /\ Programmable' =>
          \A k \in (Skip' + 1)..Len(host'.bytes) :
            /\ k <= Behind' => At(k)' = host'.bytes[k]
            /\ k > Behind' /\ Programs' => At(k)' = Erased
    BY <1>2, <1>5, <1>9, <1>10, <2>1
  <2>5. IsWrite' /\ ~Astray' =>
          \A k \in 1..Page : /\ host'.i + k <= Len(host'.bytes)
                             /\ dev'.latch[PageAt' + k] = host'.bytes[host'.i + k]
    BY <1>2, <1>5, <1>11, <2>2
  <2>6. StageX' # "load"  BY <1>5
  <2>7. QED  BY <1>5, <2>3, <2>4, <2>5, <2>6 DEF WriteInv
<1>13. QED  BY <1>5, <1>7, <1>8, <1>12 DEF KeepsX

(* The page is written.                                                    *)
LEMMA PageStepX ==
  ASSUME TypeInv, TypeInv', DataInv, Worsens, NextX, write_page
  PROVE  KeepsX' /\ Contract!Next
<1> USE DEF TypeInv
<1>1. /\ req.kind = "xmega" /\ UNCHANGED <<req, N>> /\ DOMAIN host = HostFields
      /\ DOMAIN dev = DeviceFields
  BY IdleX
<1>2. /\ host.pc = "page" /\ UNCHANGED disk
      /\ host'.n = host.n /\ host'.fp = host.fp /\ host'.bytes = host.bytes
      /\ host'.blind = host.blind /\ host'.pc = "nvmbusy" /\ host'.then = "next"
      /\ host'.i = host.i
  BY <1>1 DEF write_page, AtX, Running, Call, Go, HostFields
<1> DEFINE written == [a \in 1..N |->
             IF ~Reaches(a) THEN dev.cells[a]
             ELSE IF Programs THEN Burn(dev.cells[a], dev.latch[a]) ELSE dev.latch[a]]
<1>3. dev' = IF Ready THEN Working(written) ELSE dev  BY DEF write_page, Command
<1>4. \A a \in 1..N : written[a] =
             IF ~Reaches(a) THEN dev.cells[a]
             ELSE IF Programs THEN Burn(dev.cells[a], dev.latch[a]) ELSE dev.latch[a]
  OBVIOUS
<1> HIDE DEF written
<1>5. (dev.busy => host.blind) /\ dev.isc  BY <1>1, <1>2, RestingX
<1>6. /\ UNCHANGED <<dev.cells, dev.isc>>
      /\ ~host.blind => dev'.busy = TRUE /\ dev'.todo = written
  <2>1. ~host.blind => Ready  BY <1>5 DEF Ready
  <2>2. QED  BY <1>1, <1>3, <2>1 DEF Working, DeviceFields
<1>7. /\ Frame /\ FirstIdle' /\ EraseInv' /\ XInv' /\ VerifiedX2' /\ Contract!Next
      /\ host.n > 0 /\ ~BeforeJobs /\ Loaded /\ StageX = "page" /\ StageX' = "next"
      /\ Arg.action \in {"e", "w", "W"} /\ Arg.section \in DOMAIN Sizes
      /\ Arg' = Arg /\ Skip' = Skip /\ (IsWrite' <=> IsWrite) /\ (WritesOver' <=> WritesOver)
      /\ (Programmable' <=> Programmable) /\ (Programs' <=> Programs)
      /\ (~Astray' => ~Astray)
      /\ (Arg'.action = "e" => req'.erase /\ (~host'.fp => host'.bytes = <<>>))
      /\ (IsWrite => host.i % Page = 0 /\ Skip <= host.i)
  BY <1>1, <1>2, <1>6, WritingX
<1>8. Writes  BY <1>1, <1>7 DEF XMegaOK
<1>9. ASSUME ~Astray
      PROVE  /\ ~host.blind /\ IsWrite /\ job.does = "write" /\ Programmable
             /\ Page \in Nat /\ base(Arg.section) \in Nat /\ host.i \in Nat /\ N \in Nat
             /\ Sizes[Arg.section] \in Nat /\ Skip \in Nat /\ Len(host.bytes) \in Nat
             /\ Skip <= host.i /\ host.i + Page <= Len(host.bytes)
             /\ Len(host.bytes) <= Sizes[Arg.section]
             /\ base(Arg.section) + Sizes[Arg.section] <= N
             /\ host.bytes = File.of /\ DOMAIN host.bytes = 1..Len(host.bytes)
             /\ \A m \in 1..Page : dev.latch[base(Arg.section) + host.i + m] = host.bytes[host.i + m]
  <2>1. ~host.blind  BY <1>9 DEF Astray
  <2>2. IsWrite /\ job.does = "write" /\ Programmable  BY <1>1, <1>7, <1>8, <1>9, WritesIs
  <2>3. host.i < Len(host.bytes)  BY <1>8 DEF Writes
  <2>4. /\ host.i + Page <= Len(host.bytes) /\ Len(host.bytes) <= Sizes[Arg.section]
        /\ Page \in Nat /\ base(Arg.section) + Sizes[Arg.section] <= N
        /\ base(Arg.section) \in Nat /\ host.i \in Nat /\ N \in Nat /\ Sizes[Arg.section] \in Nat
        /\ host.bytes = File.of /\ Len(host.bytes) \in Nat /\ Skip \in Nat
        /\ DOMAIN host.bytes = 1..Len(host.bytes)
    BY <1>1, <1>7, <1>9, <2>2, <2>3, PageFits
  <2>5. \A m \in 1..Page : dev.latch[base(Arg.section) + host.i + m] = host.bytes[host.i + m]
    BY <1>1, <1>7, <1>9, <2>2 DEF DataInv, WriteInv, PageAt
  <2>6. QED  BY <1>7, <2>1, <2>2, <2>4, <2>5
<1>10. ASSUME ~Astray, NEW k \in 1..Len(host.bytes)
       PROVE  /\ base(Arg.section) + k \in 1..N
              /\ OfPage(base(Arg.section) + k) <=> k > host.i /\ k <= host.i + Page
              /\ OfPage(base(Arg.section) + k) =>
                   /\ Reaches(base(Arg.section) + k)
                   /\ dev.latch[base(Arg.section) + k] = host.bytes[k]
  <2> DEFINE low == base(Arg.section)
             size == Sizes[Arg.section]
             len == Len(host.bytes)
             i == host.i
             n == N
  <2>1. /\ low \in Nat /\ size \in Nat /\ len \in Nat /\ i \in Nat /\ n \in Nat /\ Page \in Nat
        /\ len <= size /\ low + size <= n /\ k \in 1..len
    BY <1>9, <1>10
  <2>2. /\ \A m \in 1..Page : dev.latch[low + i + m] = host.bytes[i + m]
        /\ Arg.section \in {"a", "b", "e"}
    BY <1>9, <1>10 DEF Programmable
  <2>3. OfPage(low + k) <=> (low + k) - (low + i) \in 1..Page  BY DEF OfPage, PageAt
  <2>4. low + k \in Within(Arg.section) <=> low + k \in (low + 1)..(low + size)  BY DEF Within
  <2> HIDE DEF low, size, len, i, n
  <2>5. /\ low + k \in 1..n /\ low + k \in (low + 1)..(low + size)
        /\ (low + k) - (low + i) = k - i /\ low + k = low + i + (k - i) /\ i + (k - i) = k
        /\ k - i \in 1..Page <=> k > i /\ k <= i + Page
    BY ONLY <2>1
  <2>6. OfPage(low + k) <=> k > i /\ k <= i + Page  BY ONLY <2>3, <2>5
  <2>7. OfPage(low + k) => Reaches(low + k)
    BY <2>2, <2>4, <2>5 DEF Reaches, Flash
  <2>8. OfPage(low + k) => dev.latch[low + k] = host.bytes[k]
    <3>1. SUFFICES ASSUME OfPage(low + k) PROVE dev.latch[low + k] = host.bytes[k]  OBVIOUS
    <3>2. k - i \in 1..Page  BY <2>3, <2>5, <3>1
    <3>3. dev.latch[low + i + (k - i)] = host.bytes[i + (k - i)]  BY <2>2, <3>2
    <3>4. QED  BY <2>5, <3>3
  <2>9. QED  BY <2>5, <2>6, <2>7, <2>8 DEF low, i, n
<1>11. TowardsInv'
  <2>1. SUFFICES ASSUME ~Astray'
                 PROVE  /\ job'.does \in {"erase", "write"}
                        /\ \A a \in 1..N' : dev'.todo[a] \in TowardsJob(a)'
    BY DEF TowardsInv
  <2>2. ~Astray  BY <1>7, <2>1
  <2>3. dev'.todo = written /\ job.does = "write" /\ job' = job
    BY <1>6, <1>7, <1>9, <2>2, FrameJob
  <2>4. ~Broken /\ UsesFile /\ job.low = base(Arg.section) /\ job.size = Sizes[Arg.section]
        /\ job.from = base(Arg.section) + Skip /\ job.data = DataX
    <3>1. UsesFile /\ Arg.action # "r"  BY <1>7, <1>9, <2>2 DEF UsesFile, IsWrite
    <3>2. ~Broken  BY <1>1, <1>7, <1>9, <2>2, WriteFits
    <3>3. QED  BY <1>1, <1>7, <3>1, <3>2, JobXIs
  <2>5. ASSUME NEW a \in 1..N' PROVE dev'.todo[a] \in TowardsJob(a)'
    <3>1. a \in 1..N  BY <1>1, <2>5
    <3>2. CASE ~Reaches(a)
      <4>1. dev'.todo[a] = dev'.cells[a]  BY <1>4, <1>6, <2>3, <3>1, <3>2
      <4>2. QED  BY <4>1 DEF TowardsJob, Contract!Towards
    <3>3. CASE Reaches(a)
      <4> DEFINE k == a - base(Arg.section)
                 low == base(Arg.section)
                 len == Len(host.bytes)
      <4>1. a - (low + host.i) \in 1..Page  BY <3>3 DEF Reaches, OfPage, PageAt
      <4>2. /\ low \in Nat /\ host.i \in Nat /\ Page \in Nat /\ len \in Nat /\ Skip \in Nat
            /\ host.i + Page <= len /\ Skip <= host.i /\ a \in Nat
            /\ len <= Sizes[Arg.section] /\ Sizes[Arg.section] \in Nat
        <5>1. a \in Nat  BY <1>9, <2>2, <3>1
        <5>2. QED  BY <1>9, <2>2, <5>1
      <4>3. k = a - low /\ k \in Int  BY <4>2
      <4> HIDE DEF k, low, len
      <4>4. /\ k \in 1..len /\ a = low + k /\ k \in 1..Sizes[Arg.section]
            /\ a - (low + Skip) = k - Skip /\ k - Skip \in 1..(len - Skip) /\ Skip <= len
            /\ Skip + (k - Skip) = k
        BY ONLY <4>1, <4>2, <4>3
      <4>5. OfPage(low + k) /\ dev.latch[low + k] = host.bytes[k]
        <5>1. OfPage(low + k)  BY <3>3, <4>4 DEF Reaches
        <5>2. QED  BY <1>10, <2>2, <4>4, <5>1 DEF low, len
      <4>6. dev.latch[a] = host.bytes[k]  BY <4>4, <4>5
      <4>7. Len(DataX) = len - Skip /\ DOMAIN DataX = 1..Len(DataX)
        <5>1. host.bytes = File.of  BY <1>9, <2>2
        <5>2. Len(DataX) = IF Skip <= len THEN len - Skip ELSE 0
          BY <1>7, <5>1, DataIs DEF len
        <5>3. DataX \in Seq(Byte)  BY <1>7, DataIs
        <5>4. QED  BY <4>4, <5>2, <5>3
      <4>8. DataX[k - Skip] = host.bytes[k]
        <5>1. DataX[k - Skip] = File.of[Skip + (k - Skip)]  BY <1>7, <4>4, <4>7, DataIs
        <5>2. QED  BY <1>9, <2>2, <4>4, <5>1
      <4>9. Contract!Wanted(a)' = host.bytes[k]
        <5>1. a - job'.from = k - Skip  BY <2>3, <2>4, <4>4 DEF low
        <5>2. k - Skip \in DOMAIN job'.data  BY <2>3, <2>4, <4>4, <4>7
        <5>3. QED  BY <2>3, <2>4, <4>8, <5>1, <5>2 DEF Contract!Wanted
      <4>10. dev'.todo[a] \in {host.bytes[k], Burn(dev'.cells[a], host.bytes[k])}
        BY <1>4, <1>6, <2>3, <3>1, <3>3, <4>6
      <4>11. a - job'.low \in 1..job'.size
        BY <2>3, <2>4, <4>3, <4>4 DEF low
      <4>12. QED  BY <4>9, <4>10, <4>11, ContractIs DEF TowardsJob, Contract!Towards
    <3>4. QED  BY <3>2, <3>3
  <2>6. QED  BY <2>3, <2>5
<1>12. IdleInv'  BY <1>1, <1>7 DEF IdleInv
<1>13. ASSUME ~Astray, ~WritesOver, NEW k \in (Skip + 1)..Len(host.bytes)
       PROVE  /\ k <= Behind' => At(k)' = host.bytes[k]
              /\ k > Behind' /\ Programs => At(k)' = Erased
  <2>1. Behind = host.i /\ Behind' = host.i + Page  BY <1>2, <1>7 DEF Behind
  <2>2. At(k)' = written[base(Arg.section) + k] /\ At(k) = dev.cells[base(Arg.section) + k]
    <3>1. ~dev.busy /\ dev'.busy /\ dev'.todo = written  BY <1>5, <1>6, <1>9, <1>13
    <3>2. QED  BY <1>7, <3>1 DEF At, Coming
  <2>3. k \in 1..Len(host.bytes)
    <3>1. Skip \in Nat /\ Len(host.bytes) \in Nat  BY <1>9, <1>13
    <3>2. QED  BY ONLY <1>13, <3>1
  <2>4. /\ base(Arg.section) + k \in 1..N
        /\ OfPage(base(Arg.section) + k) <=> k > host.i /\ k <= host.i + Page
        /\ OfPage(base(Arg.section) + k) =>
             /\ Reaches(base(Arg.section) + k)
             /\ dev.latch[base(Arg.section) + k] = host.bytes[k]
    BY <1>10, <1>13, <2>3
  <2>5. /\ k <= host.i => At(k) = host.bytes[k]
        /\ k > host.i /\ Programs => At(k) = Erased
    BY <1>1, <1>7, <1>9, <1>13, <2>1 DEF DataInv, WriteInv
  <2>6. k \in Nat /\ host.i \in Nat /\ Page \in Nat  BY <1>9, <1>13, <2>3
  <2>7. CASE OfPage(base(Arg.section) + k)
    <3>1. At(k)' = IF Programs THEN Burn(At(k), host.bytes[k]) ELSE host.bytes[k]
      BY <1>4, <2>2, <2>4, <2>7
    <3>2. host.bytes[k] \in Byte /\ Erased \in Byte
      <4>1. host.bytes \in Seq(Byte)  BY DEF HostOK
      <4>2. QED  BY <2>3, <4>1 DEF Erased, Byte
    <3>3. Burn(Erased, host.bytes[k]) = host.bytes[k]  BY <3>2, BurnIs
    <3>4. At(k)' = host.bytes[k]  BY <2>4, <2>5, <2>7, <3>1, <3>3
    <3>5. ~(k > Behind')  BY <2>1, <2>4, <2>6, <2>7
    <3>6. QED  BY <3>4, <3>5
  <2>8. CASE ~OfPage(base(Arg.section) + k)
    <3>1. At(k)' = At(k)  BY <1>4, <2>2, <2>4, <2>8 DEF Reaches
    <3>2. (k <= host.i + Page => k <= host.i) /\ (k > host.i + Page => k > host.i)
      BY <2>4, <2>6, <2>8
    <3>3. QED  BY <2>1, <2>5, <3>1, <3>2
  <2>9. QED  BY <2>7, <2>8
<1>14. WriteInv'
  <2>1. IsWrite' => host'.i % Page = 0 /\ Skip' <= host'.i  BY <1>2, <1>7
  <2>2. ~Astray' /\ ~WritesOver' =>
          \A k \in (Skip' + 1)..Len(host'.bytes) :
            /\ k <= Behind' => At(k)' = host'.bytes[k]
            /\ k > Behind' /\ Programs' => At(k)' = Erased
    BY <1>2, <1>7, <1>13
  <2>3. QED  BY <1>7, <2>1, <2>2 DEF WriteInv
<1>15. QED  BY <1>7, <1>11, <1>12, <1>14 DEF KeepsX

LEMMA StepX ==
  ASSUME TypeInv, TypeInv', DataInv, Worsens, NextX
  PROVE  KeepsX' /\ Contract!Next
<1>1. CASE wait_nvmbusy \/ wait_for_nvmen \/ BeginX \/ InitX \/ chip_erase \/ ErasedX
  BY <1>1, WaitStepX, SetupStepX, ErasedStepX
<1>2. CASE \/ OpenX \/ DoneX \/ ReleaseX \/ SkipX \/ IgnoreX \/ StartReadX \/ StartVerifyX
           \/ PdiGood \/ PdiDelay \/ PdiFails \/ PdiWraps \/ SaveX \/ VerifiedX
  BY <1>2, ArgsStepX, ReadStepX, SaveStepX, VerifyStepX
<1>3. CASE \/ FileX \/ EraseX \/ WrittenX \/ erase_buffer \/ load_buffer \/ write_page \/ NextPage
  BY <1>3, FileStepX, EraseStepX, WrittenStepX, BufferStepX, LoadStepX, PageStepX, NextPageStepX
<1>4. QED  BY <1>1, <1>2, <1>3 DEF NextX

------------------------------------------------------------------------------
(***************************************************************************)
(* Every step of a run is a step of the contract.                          *)
(***************************************************************************)
(* A step that changes nothing.                                            *)
LEMMA StayStep ==
  ASSUME DataInv, UNCHANGED vars
  PROVE  DataInv' /\ Contract!Next
<1>1. UNCHANGED <<req, host, dev, disk>> /\ N' = N  BY DEF vars, N
<1>2. Frame /\ (Open <=> Open') /\ Worsens /\ (BeforeJobs <=> BeforeJobs')
  BY <1>1 DEF Frame, Open, BetweenJobs, BeforeJobs, Worsens
<1>3. /\ Arg' = Arg /\ File' = File /\ (Mapped <=> Mapped') /\ (IsWrite <=> IsWrite')
      /\ (UsesFile <=> UsesFile') /\ Skip' = Skip /\ Image' = Image /\ (Broken <=> Broken')
      /\ (Misread <=> Misread') /\ (WritesOver <=> WritesOver') /\ (Unsupported <=> Unsupported')
      /\ ReadLength' = ReadLength
  BY <1>2, FrameArg DEF Frame
<1>4. job' = job /\ (Wrong <=> Wrong')  BY <1>2, FrameJob
<1>5. (Astray <=> Astray')  BY <1>1, <1>4 DEF Astray, Wrong
<1>6. /\ Coming' = Coming /\ Blank' = Blank /\ (\A k : At(k)' = At(k))
      /\ (Programmable <=> Programmable') /\ (Programs <=> Programs')
      /\ \A m : Untouched(m)' <=> Untouched(m)
  BY <1>1, <1>2, FrameX
<1>7. StageX' = StageX /\ Behind' = Behind /\ PageAt' = PageAt /\ \A k : ReadX(k)' = ReadX(k)
  BY <1>1, <1>3 DEF StageX, Waiting, Behind, PageAt, ReadX
<1>8. Contract!Next  BY <1>1, <1>2, NoteStep DEF Contract!Next
<1>9. ToldInv' /\ FirstIdle' /\ IdleInv'
  BY <1>1, <1>7 DEF DataInv, ToldInv, FirstIdle, IdleInv
<1>10. TowardsInv'  BY <1>1, <1>2, TowardsStays DEF DataInv
<1>11. Loaded <=> Loaded'  BY <1>1, <1>3 DEF Loaded
<1>12. FpgaInv'  BY <1>1, <1>3, <1>6, <1>11 DEF DataInv, FpgaInv
<1>13. VerifiedCpld'
  BY <1>1, <1>3, <1>5 DEF DataInv, VerifiedCpld, Ended, Holds
<1>14. Inv95' /\ Inv2C'
  BY <1>1, <1>6, <1>11 DEF DataInv, Inv95, Inv2C, Piped, HoldsUpTo, Holds
<1>15. EraseInv'  BY <1>1, <1>3, <1>6, <1>7 DEF DataInv, EraseInv
<1>16. WriteInv'  BY <1>1, <1>3, <1>5, <1>6, <1>7 DEF DataInv, WriteInv
<1>17. XInv'  BY <1>1, <1>7, <1>11 DEF DataInv, XInv
<1>18. VerifiedX2'  BY <1>1, <1>3, <1>5 DEF DataInv, VerifiedX2
<1>19. QED
  BY <1>8, <1>9, <1>10, <1>12, <1>13, <1>14, <1>15, <1>16, <1>17, <1>18 DEF DataInv

LEMMA DataStep ==
  ASSUME TypeInv, TypeInv', SavedInv, DataInv, [Next]_vars
  PROVE  DataInv' /\ Contract!Next
<1>1. Worsens /\ ToldInv'  BY TroubleStays, ToldStep DEF DataInv
<1>2. CASE FpgaNext
  <2>1. req'.kind = "fpga"  BY <1>2, KindIs
  <2>2. FpgaKeeps' /\ Contract!Next  BY <1>1, <1>2, FpgaStep
  <2>3. VerifiedCpld' /\ Inv95' /\ Inv2C' /\ EraseInv' /\ WriteInv' /\ XInv' /\ VerifiedX2'
    BY <2>1 DEF VerifiedCpld, Inv95, Inv2C, EraseInv, WriteInv, XInv, VerifiedX2
  <2>4. QED  BY <1>1, <2>2, <2>3 DEF FpgaKeeps, DataInv
<1>3. CASE Next95
  <2>1. req'.kind = "xc95x"  BY <1>3, KindIs
  <2>2. Keeps95' /\ Contract!Next  BY <1>1, <1>3, Step95
  <2>3. FpgaInv' /\ Inv2C' /\ EraseInv' /\ WriteInv' /\ XInv' /\ VerifiedX2'
    BY <2>1 DEF FpgaInv, Inv2C, EraseInv, WriteInv, XInv, VerifiedX2
  <2>4. QED  BY <1>1, <2>2, <2>3 DEF Keeps95, DataInv
<1>4. CASE Next2C
  <2>1. req'.kind = "xc2c"  BY <1>4, KindIs
  <2>2. Keeps2C' /\ Contract!Next  BY <1>1, <1>4, Step2C
  <2>3. FpgaInv' /\ Inv95' /\ EraseInv' /\ WriteInv' /\ XInv' /\ VerifiedX2'
    BY <2>1 DEF FpgaInv, Inv95, EraseInv, WriteInv, XInv, VerifiedX2
  <2>4. QED  BY <1>1, <2>2, <2>3 DEF Keeps2C, DataInv
<1>5. CASE NextX
  <2>1. req'.kind = "xmega"  BY <1>5, KindIs
  <2>2. KeepsX' /\ Contract!Next  BY <1>1, <1>5, StepX
  <2>3. FpgaInv' /\ VerifiedCpld' /\ Inv95' /\ Inv2C'
    BY <2>1 DEF FpgaInv, VerifiedCpld, Inv95, Inv2C
  <2>4. QED  BY <1>1, <2>2, <2>3 DEF KeepsX, DataInv
<1>6. CASE AvrNext
  <2>1. (FirstIdle /\ IdleInv /\ TowardsInv)' /\ req'.kind = "avr" /\ Contract!Next
    BY <1>6, AvrStep
  <2>2. /\ FpgaInv' /\ VerifiedCpld' /\ Inv95' /\ Inv2C' /\ EraseInv' /\ WriteInv' /\ XInv'
        /\ VerifiedX2'
    BY <2>1 DEF FpgaInv, VerifiedCpld, Inv95, Inv2C, EraseInv, WriteInv, XInv, VerifiedX2
  <2>3. QED  BY <1>1, <2>1, <2>2 DEF DataInv
<1>7. QED
  BY <1>2, <1>3, <1>4, <1>5, <1>6, MainStep, DoneStep, StayStep DEF Next, Stay

LEMMA DataInit ==
  ASSUME RunInit
  PROVE  DataInv /\ Contract!Init
<1>1. host = Started /\ \E c : dev = Fresh(c)  BY DEF RunInit
<1>2. /\ host.pc = "main" /\ host.n = 0 /\ host.fp = FALSE /\ host.blind = FALSE
      /\ host.told = FALSE /\ host.ret = 0 /\ host.exit = -1
  BY <1>1 DEF Started
<1>3. dev.busy = FALSE /\ dev.latch = Blank  BY <1>1 DEF Fresh, Blank, N
<1>4. StageX = "main" /\ BeforeJobs /\ ~Astray
  BY <1>2 DEF StageX, Waiting, BeforeJobs, Astray
<1>5. /\ ToldInv /\ FirstIdle /\ IdleInv /\ TowardsInv /\ FpgaInv /\ VerifiedCpld /\ VerifiedX2
  BY <1>2, <1>3 DEF ToldInv, FirstIdle, IdleInv, TowardsInv, FpgaInv, VerifiedCpld, Ended, VerifiedX2
<1>6. Inv95 /\ Inv2C  BY <1>2, <1>3 DEF Inv95, Inv2C
<1>7. EraseInv /\ WriteInv /\ XInv  BY <1>2, <1>4 DEF EraseInv, WriteInv, XInv
<1>8. Contract!Init
  <2>1. ~Open /\ job = NoJob /\ saved = <<>>
    BY <1>4 DEF Open, BetweenJobs, job, saved, NoJob, Job
  <2>2. trouble = "none"  BY <1>2, <1>4 DEF trouble, Untold
  <2>3. QED  BY <2>1, <2>2 DEF Contract!Init, Contract!NoJob, Contract!Job, NoJob, Job
<1>9. QED  BY <1>5, <1>6, <1>7, <1>8 DEF DataInv

LEMMA DataInvariant == Spec => [](TypeInv /\ SavedInv /\ DataInv)
<1>1. RunInit => DataInv  BY DataInit
<1>2. TypeInv /\ TypeInv' /\ SavedInv /\ DataInv /\ [Next]_vars => DataInv'  BY DataStep
<1>3. QED  BY <1>1, <1>2, SavedInvariant, PTL DEF Spec

(* Every algorithm keeps its promise about the memory of the device, for   *)
(* every file, option, device and delay: programDevice and the algorithms  *)
(* (src/progalgxc95x.cpp, src/progalgxc2c.cpp, src/progalgxc3s.cpp,        *)
(* programXMega and src/xmega_pdi_nvm.cpp) implement DeviceContract.       *)
THEOREM DeviceImplemented == Spec => ImplementsDevice
<1>1. RunInit => Contract!Init  BY DataInit
<1>2. TypeInv /\ TypeInv' /\ SavedInv /\ DataInv /\ [Next]_vars
        => [Contract!Next]_(Contract!contract)
  BY DataStep
<1>3. QED  BY <1>1, <1>2, DataInvariant, PTL DEF Spec, ImplementsDevice, Contract!Spec

------------------------------------------------------------------------------
(***************************************************************************)
(* What the exit code says.                                                *)
(***************************************************************************)
EndInv == /\ req.kind \in {"avr", "other"} => ~host.fp
          /\ req.kind = "xmega" /\ Finished /\ host.n > 0 => host.exit = host.ret

LEMMA EndStep ==
  ASSUME TypeInv, EndInv, [Next]_vars
  PROVE  EndInv'
<1> USE DEF TypeInv
<1>1. DOMAIN host = HostFields /\ host.n \in Nat  BY DEF HostOK, RequestOK
<1>2. CASE MainNext
  <2>1. /\ UNCHANGED req /\ host'.n = host.n /\ host'.fp = host.fp
        /\ host.pc \in {"main", "get_id", "no_id", "dispatch"}
    BY <1>2, MainIs DEF Quiet
  <2>2. host'.n = 0  BY <2>1 DEF StageOK, First
  <2>3. QED  BY <2>1, <2>2 DEF EndInv
<1>3. CASE FpgaNext \/ Next95 \/ Next2C
  <2>1. req'.kind \in {"fpga", "xc95x", "xc2c"}  BY <1>3, KindIs
  <2>2. QED  BY <2>1 DEF EndInv
<1>4. CASE AvrNext
  <2>1. UNCHANGED req /\ req.kind = "avr"  BY <1>4, KindIs
  <2>2. host'.fp = host.fp
    BY <1>1, <1>4 DEF AvrNext, UnknownAvr, EnterAvr, ShownAvr, OpenAvr, SrecFile, LeaveAvr, Exit, Tell,
                      Go, HostFields
  <2>3. QED  BY <2>1, <2>2 DEF EndInv
<1>5. CASE NextX
  <2> USE DEF Go, Tell, Exit, Call, Release, HostFields
  <2>1. req'.kind = "xmega"  BY <1>5, KindIs
  <2>2. CASE wait_nvmbusy \/ wait_for_nvmen
    <3>1. host'.pc \in {host.pc, host.then} /\ host.pc \in {"nvmbusy", "nvmen"}
      BY <1>1, <2>2 DEF wait_nvmbusy, wait_for_nvmen, PollAgain, Returned, AtX, Running
    <3>2. host.then # "done"  BY <2>2, <3>1 DEF XMegaOK, Waiting, wait_nvmbusy, wait_for_nvmen, AtX, Running
    <3>3. ~Finished'  BY <3>1, <3>2 DEF Finished
    <3>4. QED  BY <2>1, <3>3 DEF EndInv
  <2>3. CASE PdiGood \/ PdiDelay \/ PdiFails \/ PdiWraps \/ BeginX \/ chip_erase \/ ErasedX \/ OpenX
    <3>1. host'.pc # "done"
      BY <1>1, <2>3 DEF PdiGood, PdiDelay, PdiFails, PdiWraps, BeginX, chip_erase, ErasedX, OpenX,
                        ReadFailed, AtX, Running, TakeArg
    <3>2. QED  BY <2>1, <3>1 DEF EndInv, Finished
  <2>4. CASE DoneX \/ SkipX \/ IgnoreX \/ StartReadX \/ StartVerifyX \/ SaveX \/ VerifiedX
    <3>1. host'.pc # "done"
      BY <1>1, <2>4 DEF DoneX, SkipX, IgnoreX, StartReadX, StartVerifyX, SaveX, VerifiedX, ReadMemory
    <3>2. QED  BY <2>1, <3>1 DEF EndInv, Finished
  <2>5. CASE FileX \/ EraseX \/ WrittenX \/ erase_buffer \/ load_buffer \/ write_page \/ NextPage
    <3>1. host'.pc # "done"
      BY <1>1, <2>5 DEF FileX, EraseX, WrittenX, erase_buffer, load_buffer, write_page, NextPage
    <3>2. QED  BY <2>1, <3>1 DEF EndInv, Finished
  <2>6. CASE InitX
    <3>1. host.pc = "inited" /\ host'.n = host.n  BY <1>1, <2>6 DEF InitX, AtX, Running
    <3>2. host'.n = 0  BY <3>1 DEF StageOK, First
    <3>3. QED  BY <2>1, <3>2 DEF EndInv
  <2>7. CASE ReleaseX
    <3>1. host'.exit = host.ret /\ host'.ret = host.ret  BY <1>1, <2>7 DEF ReleaseX
    <3>2. QED  BY <2>1, <3>1 DEF EndInv
  <2>8. QED  BY <1>5, <2>2, <2>3, <2>4, <2>5, <2>6, <2>7 DEF NextX
<1>6. CASE DeviceDone \/ UNCHANGED vars
  BY <1>6 DEF DeviceDone, vars, EndInv, Finished
<1>7. QED  BY <1>2, <1>3, <1>4, <1>5, <1>6 DEF Next, Stay

LEMMA EndInvariant == Spec => []EndInv
<1>1. RunInit => EndInv
  <2> SUFFICES ASSUME RunInit  PROVE EndInv
    OBVIOUS
  <2>1. host = Started  BY DEF RunInit
  <2>2. host.fp = FALSE /\ host.pc = "main"  BY <2>1 DEF Started
  <2>3. QED  BY <2>2 DEF EndInv, Finished
<1>2. TypeInv /\ EndInv /\ [Next]_vars => EndInv'  BY EndStep
<1>3. QED  BY <1>1, <1>2, TypeInvariant, PTL DEF Spec

(* Exit code 0 after a verify, or after a write to a CPLD, means that the  *)
(* device holds the file, whatever the file, the device and its delays: the*)
(* array_verify of the CPLDs, and the comparison in programXMega           *)
(* (src/xc3sprog.cpp).                                                     *)
THEOREM ZeroVerified == Spec => []ZeroMeansVerified
<1>1. TypeInv /\ DataInv /\ EndInv => ZeroMeansVerified
  <2> SUFFICES ASSUME TypeInv, DataInv, EndInv, Finished, host.exit = 0, host.n > 0, Verifies,
                      WorkedOn, ~Astray
               PROVE  Contract!Part(dev.cells, job.from, Len(job.data)) = job.data
    BY DEF ZeroMeansVerified
  <2>1. /\ req.kind \in {"xc95x", "xc2c", "xmega"} /\ host.pc = "done" /\ ~BeforeJobs /\ host.fp
        /\ host.n \in Nat
    BY DEF EndInv, Verifies, WorkedOn, Finished, BeforeJobs, TypeInv, RequestOK, HostOK, Kinds
  <2>2. CASE req.kind \in {"xc95x", "xc2c"}
    <3>1. job = JobOther  BY <2>1, <2>2 DEF job, OfXMega
    <3>2. job.does = Asked  BY <3>1 DEF JobOther, Job
    <3>3. UsesFile /\ ~Broken
      BY <2>2, <3>2 DEF Verifies, Asked, UsesFile, IsWrite
    <3>4. host.n \in 1..2  BY <2>1, <2>2 DEF WorkedOn
    <3>5. Holds(Image)  BY <2>1, <2>2, <3>3, <3>4 DEF DataInv, VerifiedCpld, Ended
    <3>6. QED  BY <2>1, <2>2, <3>3, <3>5, CpldVerified
  <2>3. CASE req.kind = "xmega"
    <3>1. job.does = "verify"  BY <2>3 DEF Verifies
    <3>2. Arg.section \in DOMAIN Sizes
      BY <2>1, <2>3, <3>1 DEF job, OfXMega, NoJob, Job
    <3>3. Arg.action = "v" /\ UsesFile
      BY <2>1, <2>3, <3>1, <3>2 DEF job, OfXMega, JobX, Job, Asked, UsesFile, IsWrite
    <3>4. host.ret = 0  BY <2>1, <2>3 DEF EndInv
    <3>5. \A k \in DOMAIN File.of : dev.cells[base(Arg.section) + k] = File.of[k]
      BY <2>1, <2>3, <3>2, <3>3, <3>4 DEF DataInv, VerifiedX2
    <3>6. /\ Skip = 0 /\ Len(File.of) \in Nat /\ DOMAIN File.of = 1..Len(File.of)
          /\ Len(DataX) = Len(File.of)
      <4>1. ~IsWrite  BY <3>3 DEF IsWrite
      <4>2. QED  BY <4>1, DataIs
    <3>7. base(Arg.section) + Skip + Len(DataX) <= N
      <4>1. job.from = base(Arg.section) + Skip /\ job.data = DataX
        BY <2>1, <2>3, <3>2, <3>3, JobXIs
      <4>2. ~(base(Arg.section) + Skip + Len(DataX) > N)
        BY <2>3, <3>2, <3>3, <4>1 DEF Astray, BeyondMemory, OfXMega
      <4>3. base(Arg.section) \in Nat /\ N \in Nat  BY <3>2, SectionIs, BlankIn DEF TypeInv
      <4>4. base(Arg.section) + Skip + Len(DataX) \in Nat  BY <3>6, <4>3
      <4>5. QED  BY ONLY <4>2, <4>3, <4>4
    <3>8. \A k \in (Skip + 1)..Len(File.of) : dev.cells[base(Arg.section) + k] = File.of[k]
      BY <3>5, <3>6
    <3>9. QED  BY <2>1, <2>3, <3>2, <3>3, <3>7, <3>8, FileInDevice
  <2>4. QED  BY <2>1, <2>2, <2>3
<1>2. QED  BY <1>1, DataInvariant, EndInvariant, PTL
==============================================================================
