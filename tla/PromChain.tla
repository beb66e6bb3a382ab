------------------------------ MODULE PromChain ------------------------------
(***************************************************************************)
(* Configuration PROMs: programXCF (src/xc3sprog.cpp) over the classes     *)
(* ProgAlgXCF (src/progalgxcf.cpp) and ProgAlgXCFP (src/progalgxcfp.cpp).  *)
(*                                                                         *)
(* programXCF takes several PROMs for one space of bytes.  A file argument *)
(* names a range of it; for each PROM the range meets, the host makes one  *)
(* call of erase, program, verify or read with the piece inside that PROM. *)
(*                                                                         *)
(* The host runs beside the PROMs, which finish an erase or a program      *)
(* whenever they like, or fail at it.  One unit of length here is a byte.  *)
(***************************************************************************)
EXTENDS Integers, Sequences

CONSTANTS
  BlockSize,    \* block_size of an XCF, or the 32 bytes an XCFP takes at once
  ArraySize,    \* block_size of an XCFP: one of its arrays
  Chains,       \* chains of PROMs: sequences of [kind, size]
  Contents,     \* what the space holds at the start
  Polls,        \* bound: reads of the status before giving up, 28 to 280
  MaxFiles,     \* bound: file arguments
  Actions, Offsets, RLengths, Files   \* the arguments

Kinds == {"xc18v", "xcf", "xcfp"}

ASSUME SizeAssumption ==
  /\ {BlockSize, ArraySize, Polls} \subseteq Nat \ {0} /\ MaxFiles \in Nat
  /\ ArraySize % BlockSize = 0
ASSUME ChainAssumption ==
  \A c \in Chains : /\ c \in Seq([kind : Kinds, size : Nat \ {0}]) /\ Len(c) > 0
                    /\ \A n \in DOMAIN c :
                         /\ c[n].size % BlockSize = 0
                         /\ c[n].kind = "xcfp" => /\ c[n].size % ArraySize = 0
                                                  /\ c[n].size <= 4 * ArraySize
ASSUME ContentAssumption ==
  \A content \in Contents : \A a \in DOMAIN content : content[a] \in {0, 1}
ASSUME ArgumentAssumption ==
  /\ Actions \subseteq {"w", "W", "v", "r"}
  /\ Offsets \subseteq Nat /\ RLengths \subseteq Nat
  /\ \A f \in Files : f \in Seq({0, 1})

(* A byte is 1 when erased (0xff); programming can only clear it.          *)
Ones(n) == [b \in 1..n |-> 1]

RegisterOrder == <<"BTC", "CCB", "SUCR", "DONE">>
Registers == {"BTC", "CCB", "SUCR", "DONE"}
Unwritten == [r \in Registers |-> 15]
Value == 1     \* what program writes to CCB, SUCR and DONE

VARIABLES
  chain, prom,      \* the PROMs' kinds and sizes; the PROMs themselves
  pc,
  all,              \* the erase asked for with -e, before any file
  files, job, out,  \* the file argument; the bytes read for it
  k, pos,           \* the PROM, and prom_pos where it begins
  cur,              \* cur_bitfile: offset, rlength and bytes of the piece
  i, j,             \* bytes of the piece done; polls, or registers written
  ret,              \* the result of the call
  dropped,          \* history: a result other than 0 nobody looked at
  late,             \* history: a call gave up on a PROM still at work
  exit              \* how programXCF ended, or failed

args == <<chain, files, job>>
piece == <<k, pos>>
hist == <<dropped, late>>
vars == <<args, prom, pc, all, out, piece, cur, i, j, ret, hist, exit>>

Kind == chain[k].kind
Size == chain[k].size
IsP == Kind = "xcfp"
PromNr == 1..Len(chain)

Base[n \in Nat] == IF n <= 1 THEN 0 ELSE Base[n - 1] + chain[n - 1].size
Total == Base[Len(chain) + 1]

------------------------------------------------------------------------------
(***************************************************************************)
(* The PROMs.  While busy a PROM works towards `todo` and takes no other   *)
(* command; erase and program need ISC_ENABLE before.  A PROM that is      *)
(* write protected takes a program command and keeps its bytes.  The host  *)
(* waits the longest time an XC18V can take, so that one never is busy.    *)
(***************************************************************************)
Enabled(c) == [c EXCEPT !.isc = TRUE]
Disabled(c) == [c EXCEPT !.isc = FALSE]

Start(c, cells) ==
  IF Kind = "xc18v" THEN [c EXCEPT !.cells = cells, !.todo = cells]
  ELSE [c EXCEPT !.todo = cells, !.busy = TRUE, !.fault = FALSE]

IscErase(c) ==
  IF c.busy \/ ~c.isc THEN c
  ELSE [Start(c, [a \in DOMAIN c.cells |-> 1]) EXCEPT !.regs = Unwritten]

IscProgram(c, data) ==
  LET burnt == [a \in DOMAIN c.cells |->
                  IF /\ ~c.protect /\ a \in c.addr..(c.addr + BlockSize - 1)
                     /\ data[a - c.addr + 1] = 0
                  THEN 0 ELSE c.cells[a]]
  IN  IF c.busy \/ ~c.isc THEN c
      ELSE [Start(c, burnt) EXCEPT !.addr = c.addr + BlockSize]

IscAddress(c, a) == [c EXCEPT !.addr = a]

(* What ISC_READ shifts out: the block at the address.                     *)
IscRead(c) ==
  [b \in 1..BlockSize |->
    IF c.busy \/ ~c.isc \/ c.addr + b - 1 \notin DOMAIN c.cells THEN 1
    ELSE c.cells[c.addr + b - 1]]

PromDone(p) ==
  /\ prom[p].busy
  /\ \E fault \in BOOLEAN :
       LET cells == IF fault THEN prom[p].cells ELSE prom[p].todo IN
       prom' = [prom EXCEPT ![p].cells = cells, ![p].todo = cells,
                            ![p].busy = FALSE, ![p].fault = fault]
  /\ UNCHANGED <<args, pc, all, out, piece, cur, i, j, ret, hist, exit>>

------------------------------------------------------------------------------
(***************************************************************************)
(* erase.  ProgAlgXCF::erase leaves the PROM in ISC mode; ProgAlgXCFP's    *)
(* does not.  The ID code an XCFP is asked for may be misread.             *)
(***************************************************************************)
SetProm(c) == prom' = [prom EXCEPT ![k] = c]

Result(stage, r) == pc' = stage /\ ret' = r

EraseRefused ==
  /\ pc = "erase" /\ Result("erased", 1)
  /\ IF IsP THEN UNCHANGED prom
     ELSE prom[k].protect /\ SetProm(Disabled(prom[k]))
  /\ UNCHANGED <<args, all, out, piece, cur, i, j, hist, exit>>

Erase ==
  /\ pc = "erase" /\ (IsP \/ ~prom[k].protect)
  /\ SetProm(IscErase(Enabled(prom[k]))) /\ pc' = "erasing" /\ j' = 0
  /\ UNCHANGED <<args, all, out, piece, cur, i, ret, hist, exit>>

(* Operators named *_wrong are mutants: the next definition with a bug a   *)
(* maintainer could make.  The README tells which property finds each.     *)
StillBusy_wrong == prom[k].busy /\ j < Polls

(* A poll that sees the PROM at work, though not for the last time.        *)
StillBusy == prom[k].busy /\ j + 1 < Polls

GivesUp == late' = (late \/ prom[k].busy) /\ UNCHANGED dropped

ErasePoll ==
  /\ pc = "erasing"
  /\ IF StillBusy THEN j' = j + 1 /\ UNCHANGED <<prom, pc, ret, hist>>
     ELSE /\ Result("erased", IF prom[k].busy \/ (IsP /\ prom[k].fault) THEN 1 ELSE 0)
          /\ IF IsP THEN SetProm(Disabled(prom[k])) ELSE UNCHANGED prom
          /\ GivesUp /\ UNCHANGED j
  /\ UNCHANGED <<args, all, out, piece, cur, i, exit>>

Fail(stage) == pc' = "exit" /\ exit' = stage

(* The result counts for a file, and does not for -e.                      *)
Erased ==
  /\ pc = "erased"
  /\ IF all THEN pc' = "eraseAll" /\ k' = k + 1 /\ UNCHANGED exit
     ELSE /\ UNCHANGED k
          /\ IF ret = 0 THEN pc' = "program" /\ UNCHANGED exit ELSE Fail("erase")
  /\ UNCHANGED <<args, prom, all, out, pos, cur, i, j, ret, hist>>

EraseAll ==
  /\ pc = "eraseAll"
  /\ IF k \in PromNr THEN pc' = "erase" /\ UNCHANGED all
     ELSE pc' = "arg" /\ all' = FALSE
  /\ UNCHANGED <<args, prom, out, piece, cur, i, j, ret, hist, exit>>

------------------------------------------------------------------------------
(***************************************************************************)
(* program.  Program, verify and read of an XCF refuse an offset inside a  *)
(* block (with 1 or -1), and those of an XCFP throw for less than all.     *)
(***************************************************************************)
Refuses == ~IsP /\ (cur.offset % BlockSize # 0 \/ cur.offset > Size)

Throws(whole) == IsP /\ (cur.offset # 0 \/ cur.rlength \notin {0, whole})

Least(a, b) == IF a < b THEN a ELSE b

(* How many bytes to program or verify: rlength or all, clipped.           *)
Span == Least(IF cur.rlength # 0 THEN cur.rlength ELSE Len(cur.data), Size - cur.offset)

Throw == Fail("abort") /\ UNCHANGED <<prom, i, ret>>

(* Both classes begin alike: refuse, throw, or enable the PROM.            *)
Begin(whole, stage, next) ==
  \/ Throws(whole) /\ Throw
  \/ Refuses /\ Result(next, -1) /\ UNCHANGED <<prom, i, exit>>
  \/ IsP /\ ~Throws(whole) /\ Result(next, 1) /\ UNCHANGED <<prom, i, exit>>
  \/ /\ ~Throws(whole) /\ ~Refuses
     /\ Result(stage, 0) /\ i' = 0
     /\ SetProm(Enabled(prom[k])) /\ UNCHANGED exit

Program ==
  /\ pc = "program" /\ Begin(Len(cur.data), "block", "programmed")
  /\ UNCHANGED <<args, all, out, piece, cur, j, hist>>

Addressed_wrong(c, first) ==
  IF ~IsP THEN IscAddress(c, i)
  ELSE IF i % ArraySize = 0 THEN IscAddress(c, first + i) ELSE c

(* An XCF gets an address with each block, an XCFP with each array.        *)
Addressed(c, first) ==
  IF ~IsP THEN IscAddress(c, cur.offset + i)
  ELSE IF i % ArraySize = 0 THEN IscAddress(c, first + i) ELSE c

(* Padded with 0xff after the last byte wanted.                            *)
BlockData == [b \in 1..BlockSize |-> IF i + b <= Span THEN cur.data[i + b] ELSE 1]

SendBlock ==
  /\ pc = "block" /\ i < Span
  /\ SetProm(IscProgram(Addressed(prom[k], 0), BlockData))
  /\ pc' = "programming" /\ j' = 0
  /\ UNCHANGED <<args, all, out, piece, cur, i, ret, hist, exit>>

ProgramPoll_wrong ==
  LET failed == prom[k].busy \/ (IsP /\ prom[k].fault) IN
  /\ pc = "programming"
  /\ IF StillBusy THEN j' = j + 1 /\ UNCHANGED <<pc, i, ret, hist>>
     ELSE /\ Result(IF failed /\ ~IsP THEN "programmed" ELSE "block",
                    IF failed THEN 1 ELSE ret)
          /\ i' = IF failed THEN (i \div ArraySize) * ArraySize ELSE i + BlockSize
          /\ GivesUp /\ UNCHANGED j
  /\ UNCHANGED <<args, prom, all, out, piece, cur, exit>>

(* A failure ends an XCF's program, but only the array of an XCFP.         *)
ProgramPoll ==
  LET failed == prom[k].busy \/ (IsP /\ prom[k].fault) IN
  /\ pc = "programming"
  /\ IF StillBusy THEN j' = j + 1 /\ UNCHANGED <<pc, i, ret, hist>>
     ELSE /\ Result(IF failed /\ ~IsP THEN "programmed" ELSE "block",
                    IF failed THEN 1 ELSE ret)
          /\ i' = IF failed THEN (i \div ArraySize + 1) * ArraySize ELSE i + BlockSize
          /\ GivesUp /\ UNCHANGED j
  /\ UNCHANGED <<args, prom, all, out, piece, cur, exit>>

BlocksDone ==
  /\ pc = "block" /\ i >= Span
  /\ pc' = IF IsP /\ ret = 0 THEN "registers" ELSE "programmed"
  /\ IF IsP /\ ret # 0 THEN SetProm(Disabled(prom[k])) ELSE UNCHANGED prom
  /\ j' = 1 /\ UNCHANGED <<args, all, out, piece, cur, i, ret, hist, exit>>

UsedArrays ==
  Least(IF Len(cur.data) = 0 THEN 1 ELSE (Len(cur.data) + ArraySize - 1) \div ArraySize,
        Size \div ArraySize)

(* BTC names the first and the last array in use: the first is always 0.   *)
Wanted(r) == IF r = "BTC" THEN 4 * (UsedArrays - 1) ELSE Value

(* A register is written and read back; the first that fails is the last.  *)
WriteRegister ==
  LET r == RegisterOrder[j] IN
  /\ pc = "registers"
  /\ \E works \in BOOLEAN :
       LET new == IF works THEN Wanted(r) ELSE prom[k].regs[r]
           c == [prom[k] EXCEPT !.regs[r] = new]
       IN  IF new = Wanted(r) /\ j < Len(RegisterOrder)
           THEN SetProm(c) /\ j' = j + 1 /\ UNCHANGED <<pc, ret>>
           ELSE /\ SetProm(Disabled(c)) /\ UNCHANGED j
                /\ Result("programmed", IF new = Wanted(r) THEN 0 ELSE 1)
  /\ UNCHANGED <<args, all, out, piece, cur, i, hist, exit>>

Programmed_wrong ==
  /\ pc = "programmed"
  /\ IF ret = 0 THEN pc' = "verify" /\ UNCHANGED <<prom, exit>>
     ELSE UNCHANGED prom /\ Fail("program")
  /\ UNCHANGED <<args, all, out, piece, cur, i, j, ret, hist>>

Programmed ==
  /\ pc = "programmed"
  /\ IF ret = 0 THEN pc' = "verify" /\ UNCHANGED <<prom, exit>>
     ELSE SetProm(Disabled(prom[k])) /\ Fail("program")
  /\ UNCHANGED <<args, all, out, piece, cur, i, j, ret, hist>>

------------------------------------------------------------------------------
(***************************************************************************)
(* verify, and what programXCF does after it whatever it found.            *)
(***************************************************************************)
Verify ==
  /\ pc = "verify" /\ Begin(Len(cur.data), "compare", "verified")
  /\ UNCHANGED <<args, all, out, piece, cur, j, hist>>

(* The address moves on as an XCFP is read.                                *)
Passed(c) == [c EXCEPT !.addr = @ + BlockSize]

CompareBlock_wrong ==
  LET c == Addressed(prom[k], 0)
      same == \A b \in 1..BlockSize : i + b < Span => IscRead(c)[b] = cur.data[i + b]
  IN
  /\ pc = "compare" /\ i < Span
  /\ SetProm(Passed(c)) /\ i' = i + BlockSize
  /\ IF same THEN UNCHANGED <<pc, ret>>
     ELSE Result(IF IsP THEN "registers?" ELSE "verified", 1)
  /\ UNCHANGED <<args, all, out, piece, cur, j, hist, exit>>

CompareBlock ==
  LET c == Addressed(prom[k], 0)
      same == \A b \in 1..BlockSize : i + b <= Span => IscRead(c)[b] = cur.data[i + b]
  IN
  /\ pc = "compare" /\ i < Span
  /\ SetProm(Passed(c)) /\ i' = i + BlockSize
  /\ IF same THEN UNCHANGED <<pc, ret>>
     ELSE Result(IF IsP THEN "registers?" ELSE "verified", 1)
  /\ UNCHANGED <<args, all, out, piece, cur, j, hist, exit>>

CompareEnd ==
  /\ pc = "compare" /\ i >= Span
  /\ pc' = IF IsP THEN "registers?" ELSE "verified"
  /\ UNCHANGED <<args, prom, all, out, piece, cur, i, j, ret, hist, exit>>

CompareRegisters ==
  /\ pc = "registers?"
  /\ Result("verified",
            IF \A r \in Registers : prom[k].regs[r] = Wanted(r) THEN ret ELSE 1)
  /\ SetProm(Disabled(prom[k]))
  /\ UNCHANGED <<args, all, out, piece, cur, i, j, hist, exit>>

Drop == dropped' = (dropped \/ ret # 0) /\ UNCHANGED late

Verified ==
  /\ pc = "verified" /\ pc' = "advance"
  /\ Drop /\ SetProm(Disabled(prom[k]))
  /\ UNCHANGED <<args, all, out, piece, cur, i, j, ret, exit>>

------------------------------------------------------------------------------
(***************************************************************************)
(* read.  An XCFP says itself, in BTC, which of its arrays to read.        *)
(***************************************************************************)
FirstArray == prom[k].regs["BTC"] % 4
LastArray == prom[k].regs["BTC"] \div 4

BadBtc == FirstArray > LastArray \/ LastArray >= Size \div ArraySize

Room == IF IsP THEN (LastArray + 1 - FirstArray) * ArraySize
        ELSE Least(IF cur.rlength # 0 THEN cur.rlength ELSE Size, Size - cur.offset)

(* A bad BTC is seen after the PROM was enabled.                           *)
Read ==
  /\ pc = "read"
  /\ \/ Begin(Size, "fetch", "fetched") /\ (pc' = "fetch" => ~(IsP /\ BadBtc))
     \/ /\ ~Throws(Size) /\ IsP /\ BadBtc
        /\ Result("fetched", 1) /\ SetProm(Enabled(prom[k])) /\ UNCHANGED <<i, exit>>
  /\ cur' = IF pc' = "fetch" THEN [cur EXCEPT !.data = Ones(Room)] ELSE cur
  /\ UNCHANGED <<args, all, out, piece, j, hist>>

Fetch ==
  LET c == Addressed(prom[k], FirstArray * ArraySize) IN
  /\ pc = "fetch" /\ i < Len(cur.data)
  /\ SetProm(Passed(c)) /\ i' = i + BlockSize
  /\ cur' = [cur EXCEPT !.data = [b \in DOMAIN @ |->
               IF b \in (i + 1)..(i + BlockSize) THEN IscRead(c)[b - i] ELSE @[b]]]
  /\ UNCHANGED <<args, pc, all, out, piece, j, ret, hist, exit>>

FetchEnd ==
  /\ pc = "fetch" /\ i >= Len(cur.data) /\ Result("fetched", 0)
  /\ IF IsP THEN SetProm(Disabled(prom[k])) ELSE UNCHANGED prom
  /\ UNCHANGED <<args, all, out, piece, cur, i, j, hist, exit>>

------------------------------------------------------------------------------
(***************************************************************************)
(* programXCF: the range of a file argument, piece by piece.               *)
(***************************************************************************)
Length == IF job.action = "r" THEN job.rlength ELSE Len(job.data)

(* The whole file, or what is left of the space, unless a length is given. *)
Argument(action, offset, rlength, data) ==
  [action |-> action, offset |-> offset, data |-> data,
   rlength |-> IF rlength # 0 THEN rlength
               ELSE IF action = "r" THEN Total - offset ELSE Len(data)]

(* The length left of an offset past the end wraps, and is then refused.   *)
Fits(a) ==
  /\ a.action # "r" => a.rlength <= Len(a.data)
  /\ a.offset <= Total /\ a.rlength <= Total - a.offset

OpenFile(action, offset, rlength, data) ==
  LET a == Argument(action, offset, rlength, data) IN
  /\ pc = "arg" /\ files < MaxFiles /\ files' = files + 1
  /\ IF Fits(a)
     THEN /\ pc' = "prom" /\ job' = a /\ k' = 1 /\ pos' = 0 /\ dropped' = FALSE
          /\ out' = IF action = "r" THEN Ones(a.rlength) ELSE <<>>
     ELSE UNCHANGED <<pc, job, piece, dropped, out>>
  /\ UNCHANGED <<chain, prom, all, cur, i, j, ret, late, exit>>

RangeEnd == job.offset + job.rlength

Before == pos + Size <= job.offset

Advance ==
  /\ pc = "advance" \/ (pc = "prom" /\ k \in PromNr /\ Before)
  /\ pc' = "prom" /\ k' = k + 1 /\ pos' = pos + Size
  /\ UNCHANGED <<args, prom, all, out, cur, i, j, ret, hist, exit>>

EndOfRange ==
  /\ pc = "prom" /\ ~(k \in PromNr /\ (Before \/ pos < RangeEnd))
  /\ pc' = "saved"
  /\ UNCHANGED <<args, prom, all, out, piece, cur, i, j, ret, hist, exit>>

CurrentOffset == IF pos < job.offset THEN job.offset - pos ELSE 0

CurrentLength_wrong == IF pos + Size > RangeEnd THEN job.rlength ELSE 0

(* 0 stands for all that is left of the PROM.                              *)
CurrentLength == IF pos + Size > RangeEnd THEN RangeEnd - pos - CurrentOffset ELSE 0

Single == Len(chain) = 1

(* A single PROM works on promfile itself, others on a copy of a piece.    *)
FileLength == IF Single THEN Length ELSE 0

Piece(data) ==
  [offset |-> CurrentOffset, data |-> data,
   rlength |-> IF CurrentLength = FileLength THEN 0 ELSE CurrentLength]

Take == IF CurrentLength # 0 THEN CurrentLength ELSE Size - CurrentOffset

Source_wrong == pos

(* prom_pos - promfile_offset; where it is negative the bytes before the   *)
(* buffer are meant.  The assertions compare unsigned numbers.             *)
Source == pos - job.offset

OutOfBounds_wrong(n) == Source + n \notin 0..(Length - 1)

OutOfBounds(n) == Source + n \notin 0..Length

Copied(garbage) == [b \in 1..Take |-> IF Source + b >= 1 THEN job.data[Source + b]
                                      ELSE garbage]

Called == CASE job.action = "w" -> "erase" [] job.action = "W" -> "program"
            [] job.action = "v" -> "verify" [] OTHER -> "read"

ServeProm ==
  /\ pc = "prom" /\ k \in PromNr /\ ~Before /\ pos < RangeEnd
  /\ IF Single THEN /\ pc' = Called /\ UNCHANGED exit
                    /\ cur' = Piece(IF job.action = "r" THEN out ELSE job.data)
     ELSE IF job.action = "r" THEN pc' = Called /\ cur' = Piece(<<>>) /\ UNCHANGED exit
     ELSE IF OutOfBounds(Take) THEN Fail("abort") /\ UNCHANGED cur
     ELSE /\ pc' = Called /\ UNCHANGED exit
          /\ \E garbage \in {0, 1} : cur' = Piece(Copied(garbage))
  /\ UNCHANGED <<args, prom, all, out, piece, i, j, ret, hist>>

(* The bytes read go to the file.  Where they go before its buffer, the    *)
(* process dies or lives on without them.                                  *)
Fetched ==
  LET n == Len(cur.data) IN
  /\ pc = "fetched" /\ Drop
  /\ IF Single THEN pc' = "advance" /\ out' = cur.data /\ UNCHANGED exit
     ELSE \/ /\ OutOfBounds(n) \/ (Source < 0 /\ n > 0)
             /\ Fail("abort") /\ UNCHANGED out
          \/ /\ ~OutOfBounds(n) /\ pc' = "advance" /\ UNCHANGED exit
             /\ out' = [b \in DOMAIN out |->
                  IF b - Source \in 1..n THEN cur.data[b - Source] ELSE out[b]]
  /\ UNCHANGED <<args, prom, all, piece, cur, i, j, ret>>

CloseFile ==
  /\ pc = "saved" /\ pc' = "arg"
  /\ UNCHANGED <<args, prom, all, out, piece, cur, i, j, ret, hist, exit>>

Return ==
  /\ pc = "arg" /\ Fail("ok")
  /\ UNCHANGED <<args, prom, all, out, piece, cur, i, j, ret, hist>>

------------------------------------------------------------------------------
Fresh(kind, size, base, content, protect, used) ==
  LET cells == [a \in 0..(size - 1) |-> content[base + a]] IN
  [cells |-> cells, todo |-> cells, busy |-> FALSE, fault |-> FALSE, isc |-> FALSE,
   addr |-> 0, protect |-> protect /\ kind # "xcfp",
   regs |-> IF used /\ kind = "xcfp"
            THEN [r \in Registers |-> IF r = "BTC" THEN 4 * (size \div ArraySize - 1)
                                      ELSE Value]
            ELSE Unwritten]

Init ==
  /\ chain \in Chains
  /\ \E content \in Contents, protect, used \in BOOLEAN :
       /\ 0..(Total - 1) \subseteq DOMAIN content
       /\ prom = [p \in PromNr |-> Fresh(chain[p].kind, chain[p].size, Base[p], content,
                                         protect, used)]
  /\ all \in BOOLEAN /\ pc = IF all THEN "eraseAll" ELSE "arg"
  /\ files = 0 /\ out = <<>> /\ k = 1 /\ pos = 0 /\ i = 0 /\ j = 0 /\ ret = 0
  /\ job = [action |-> "v", offset |-> 0, data |-> <<>>, rlength |-> 0]
  /\ cur = [offset |-> 0, data |-> <<>>, rlength |-> 0]
  /\ dropped = FALSE /\ late = FALSE /\ exit = "none"

EraseStep == EraseAll \/ EraseRefused \/ Erase \/ ErasePoll \/ Erased

ProgramStep == \/ Program \/ SendBlock \/ ProgramPoll \/ BlocksDone
               \/ WriteRegister \/ Programmed

VerifyStep == Verify \/ CompareBlock \/ CompareEnd \/ CompareRegisters \/ Verified

ReadStep == Read \/ Fetch \/ FetchEnd \/ Fetched

RangeStep == Advance \/ EndOfRange \/ ServeProm \/ CloseFile \/ Return

Open == \E a \in Actions, o \in Offsets, n \in RLengths :
          \E f \in IF a = "r" THEN {<<>>} ELSE Files : OpenFile(a, o, n, f)

Host == EraseStep \/ ProgramStep \/ VerifyStep \/ ReadStep \/ RangeStep \/ Open

Next == Host \/ \E p \in PromNr : PromDone(p)

(* The program goes on as long as it is not done; a PROM owes nothing.     *)
Spec == Init /\ [][Next]_vars /\ WF_vars(Host)

------------------------------------------------------------------------------
Stages == {"eraseAll", "erase", "erasing", "erased", "arg", "prom", "program", "block",
           "programming", "registers", "programmed", "verify", "compare", "registers?",
           "verified", "read", "fetch", "fetched", "advance", "saved", "exit"}

PromTypeOK(p) ==
  LET c == prom[p] IN
  /\ {c.cells, c.todo} \subseteq [0..(chain[p].size - 1) -> {0, 1}]
  /\ {c.busy, c.fault, c.isc, c.protect} \subseteq BOOLEAN
  /\ c.addr \in 0..chain[p].size /\ c.regs \in [Registers -> 0..15]

(* Every variable keeps its type; no PROM is asked for its status more     *)
(* than Polls times, and no address leaves it.                             *)
TypeOK ==
  /\ chain \in Chains /\ \A p \in PromNr : PromTypeOK(p)
  /\ pc \in Stages /\ {all, dropped, late} \subseteq BOOLEAN
  /\ files \in 0..MaxFiles /\ out \in Seq({0, 1})
  /\ job.action \in Actions \cup {"v"} /\ {job.offset, job.rlength} \subseteq Nat
  /\ k \in 1..(Len(chain) + 1) /\ pos \in 0..Total
  /\ cur.data \in Seq({0, 1}) /\ {cur.offset, cur.rlength} \subseteq Nat
  /\ {i, j} \subseteq Nat /\ ret \in {-1, 0, 1}
  /\ pc \in {"erasing", "programming"} => j < Polls
  /\ exit \in {"none", "ok", "erase", "program", "abort"}

(* The byte at a place of the whole space.                                 *)
HomeOf(x) == CHOOSE p \in PromNr : x \in Base[p]..(Base[p + 1] - 1)
At(x) == prom[HomeOf(x)].cells[x - Base[HomeOf(x)]]

(* The range starts behind the beginning of one of several PROMs.          *)
StartsInside == ~Single /\ job.offset \notin {Base[p] : p \in 1..(Len(chain) + 1)}

Holds == \A x \in 0..(job.rlength - 1) : At(job.offset + x) = job.data[x + 1]

(* A file argument written or verified: each byte of the range is in its   *)
(* place in the right PROM, unless verify said otherwise; nobody but the   *)
(* user looks at what verify says.  (For ranges that start inside a PROM   *)
(* see OffsetDocumented.)                                                  *)
JobHolds ==
  pc = "saved" /\ job.action # "r" /\ ~dropped /\ ~late /\ ~StartsInside => Holds

(* One call of verify: no false alarm from an XCF, and never a false pass. *)
VerifyExact ==
  pc = "verified" /\ ~late
    => LET same == \A b \in 1..Span : prom[k].cells[cur.offset + b - 1] = cur.data[b]
       IN  /\ ret = 0 => same
           /\ ~IsP /\ same /\ ~Refuses => ret = 0

(* The bytes saved are those of the range.  An XCFP gives only the arrays  *)
(* its BTC register names, from the first.                                 *)
Given(p) == \/ chain[p].kind # "xcfp"
            \/ prom[p].regs["BTC"] = 4 * (chain[p].size \div ArraySize - 1)
ReadExact ==
  pc = "saved" /\ job.action = "r" /\ ~dropped /\ ~late /\ ~StartsInside
    => \A x \in 0..(job.rlength - 1) :
         Given(HomeOf(job.offset + x)) => out[x + 1] = At(job.offset + x)

(* A PROM that was verified, or that program failed on, is out of ISC      *)
(* mode, so that the FPGA can be configured from it.                       *)
IscClosed ==
  /\ pc = "advance" /\ job.action # "r" => ~prom[k].isc
  /\ exit = "program" => ~prom[k].isc

(* The process dies of an exception or an assertion only for a range that  *)
(* starts inside one of several PROMs, or that an XCFP does not fill.      *)
AbortExplained ==
  exit = "abort" => \/ StartsInside
                    \/ IsP /\ (pos < job.offset \/ RangeEnd < pos + Size)

(* Where a step may start changing bytes: -e the whole PROM it works on;   *)
(* w every PROM the range meets; W the blocks the range meets.  An empty   *)
(* file, too, reaches the PROM its offset lies in the middle of.           *)
Meets(from, to) == job.offset < to /\ from < RangeEnd
InScope(p, a) ==
  \/ all /\ p = k
  \/ /\ job.action = "w" \/ (job.action = "W" /\ job.rlength = 0)
     /\ Meets(Base[p], Base[p + 1])
  \/ /\ job.action = "W"
     /\ LET b == Base[p] + (a \div BlockSize) * BlockSize IN Meets(b, b + BlockSize)

(* No command changes a byte outside the scope of the argument at work.    *)
StaysInScope ==
  [][\A p \in PromNr : \A a \in DOMAIN prom[p].cells :
       prom'[p].todo[a] # prom[p].todo[a]
         => (prom[p].busy /\ ~prom'[p].busy) \/ InScope(p, a)]_vars

(* The program comes to its end, even if no PROM ever finishes.            *)
Terminates == <>(pc = "exit")

(* What the manual says of an offset: programming starts at that byte.     *)
OffsetDocumented ==
  pc = "saved" /\ job.action = "w" /\ ~dropped /\ ~late => Holds

(* What the manual says of a length: the number of bytes to read.          *)
LengthDocumented ==
  pc = "saved" /\ job.action = "r" /\ ~dropped => Len(out) = job.rlength
==============================================================================
