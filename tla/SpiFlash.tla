------------------------------ MODULE SpiFlash -------------------------------
(***************************************************************************)
(* Serial flash behind the FPGA: programSPI (src/xc3sprog.cpp) over class  *)
(* ProgAlgSPIFlash (src/progalgspiflash.cpp).                              *)
(*                                                                         *)
(* A bridge in the FPGA passes each transfer on to the flash and keeps the *)
(* answer; the host gets it with the NEXT transfer.  So every status and   *)
(* every page the host looks at is one transfer old, and a busy flash      *)
(* ignores everything but a status request.                                *)
(*                                                                         *)
(* Two processes run: the host, one transfer per step, and the flash,      *)
(* which finishes an erase or a program whenever it likes.                 *)
(***************************************************************************)
EXTENDS Integers, Sequences

CONSTANTS
  PageSize,     \* pgsize, 256 or more in the code
  Pages,        \* pages
  SectorPages,  \* sector_size / pgsize, or pages_per_sector of an AT45
  BlockPages,   \* pages_per_block: the first sector of an AT45 is split here
  AddrPages,    \* pages the two page address bytes tell apart
  Families,     \* kinds of flash: "generic", "at45", "sst"
  Polls,        \* bound: wait's limit, 10 to 80000 in the code
  MaxBadPages,  \* verify gives up after this many, 5 in the code
  MaxFiles,     \* bound: file arguments of one run of the program
  Contents,     \* what the flash holds at the start
  Files, Offsets, RLengths   \* arguments: data, byte offset, length or 0

ASSUME SizeAssumption ==
  /\ {PageSize, Pages, SectorPages, BlockPages, AddrPages, Polls} \subseteq Nat \ {0}
  /\ MaxBadPages \in Nat /\ MaxFiles \in Nat
ASSUME ArgumentAssumption ==
  /\ Families \subseteq {"generic", "at45", "sst"}
  /\ Offsets \subseteq Nat /\ RLengths \subseteq Nat
  /\ "sst" \in Families => PageSize % 2 = 0

PageNr == 0..(Pages - 1)
ByteNr == 0..(PageSize - 1)

(* A byte is 1 when erased; programming can only clear it.                 *)
Page  == [ByteNr -> {0, 1}]
Blank == [b \in ByteNr |-> 1]
Cells == [PageNr -> Page]
File  == [len : Nat, data : Cells]   \* the data is padded to the flash

ASSUME ContentAssumption == Contents \subseteq Cells /\ Files \subseteq File

NotRun == 1     \* erase's result before it was called

VARIABLES
  family,           \* manf_id: which kind of flash it is
  chip,             \* the flash itself
  latch,            \* the bridge: the answer to the last transfer
  pc, back,         \* the stage of the running call; where wait returns to
  until, j,         \* what wait waits for, and its polls
  call, calls,      \* the call, and how many files have been worked on
  file, rlength, first, size,  \* the argument: data, length or 0, first page
                    \* (offset / pgsize) and data_end - offset
  page, left, rlen, \* i / pgsize, data_end - i, the length sent last
  k, sector_nr, word,  \* bad pages; sectors begun; SST: the byte in the page
  out,              \* the pages read
  ret,              \* the result of the call
  ignored, erased   \* history: a command met a busy flash; erase's result

args == <<call, calls, file, rlength, first, size>>
loop == <<page, left, rlen, k, sector_nr, word>>
poll == <<back, until, j>>
vars == <<family, chip, latch, pc, poll, args, loop, out, ret, ignored, erased>>

------------------------------------------------------------------------------
(***************************************************************************)
(* The flash and the bridge.  While busy the flash works towards `todo`.   *)
(***************************************************************************)
Start(cells) ==
  IF chip.protect THEN [chip EXCEPT !.wel = FALSE]
  ELSE [chip EXCEPT !.wel = FALSE, !.busy = TRUE, !.todo = cells]

IfEnabled(new) == IF chip.wel THEN new ELSE chip

Burn(old, data, n) ==
  [b \in ByteNr |-> IF b < n THEN IF old[b] < data[b] THEN old[b] ELSE data[b]
                    ELSE old[b]]

(* The page a page number reaches: two address bytes, and the flash wraps. *)
PageAddress(p) == (p % AddrPages) % Pages

SectorOf(p) == p \div SectorPages

WriteEnable == [chip EXCEPT !.wel = TRUE]

SectorErase(p) ==
  IfEnabled(Start([q \in PageNr |->
    IF SectorOf(q) = SectorOf(PageAddress(p)) THEN Blank ELSE chip.cells[q]]))

BulkErase == IfEnabled(Start([q \in PageNr |-> Blank]))

PageProgram(p, data, n) ==
  IfEnabled(Start([chip.cells EXCEPT ![PageAddress(p)] = Burn(@, data, n)]))

(* AT45: through a buffer that keeps what an earlier page left in it.      *)
BufferProgram(p, data, n) ==
  LET sram == [b \in ByteNr |-> IF b < n THEN data[b] ELSE chip.sram[b]] IN
  [Start([chip.cells EXCEPT ![PageAddress(p)] = sram]) EXCEPT !.sram = sram]

At45Sector(p) == IF p < BlockPages THEN -1 ELSE SectorOf(p)

At45Erase(p) ==
  Start([q \in PageNr |->
    IF At45Sector(q) = At45Sector(PageAddress(p)) THEN Blank ELSE chip.cells[q]])

(* A word of an SST's auto address increment is done before the next       *)
(* transfer can end.                                                       *)
AaiWord(p, b, data) ==
  LET word2 == [c \in ByteNr |-> IF c \in {b, b + 1} THEN data[c] ELSE 1]
      cells == [chip.cells EXCEPT ![p] = Burn(@, word2, PageSize)]
  IN  IF chip.wel /\ ~chip.protect
      THEN [chip EXCEPT !.cells = cells, !.todo = cells]
      ELSE chip

StatusRegister == [kind |-> "status", busy |-> chip.busy, wel |-> chip.wel,
                   protect |-> chip.protect, data |-> Blank]

Other == [kind |-> "other", busy |-> FALSE, wel |-> TRUE, protect |-> FALSE,
          data |-> Blank]

(* A transfer that changes the flash, or would if it were not busy.        *)
Command(new) ==
  /\ IF chip.busy THEN ignored' = TRUE /\ UNCHANGED chip
     ELSE chip' = new /\ UNCHANGED ignored
  /\ latch' = Other

(* Transfers that only ask.                                                *)
ReadStatus == latch' = StatusRegister /\ UNCHANGED <<chip, ignored>>

ReadPage(p) ==
  /\ latch' = IF chip.busy THEN Other
              ELSE [Other EXCEPT !.data = chip.cells[PageAddress(p)]]
  /\ UNCHANGED <<chip, ignored>>

NoTransfer == UNCHANGED <<chip, latch, ignored>>

FlashDone ==
  /\ chip.busy
  /\ chip' = [chip EXCEPT !.cells = chip.todo, !.busy = FALSE]
  /\ UNCHANGED <<family, latch, pc, poll, args, loop, out, ret, ignored, erased>>

------------------------------------------------------------------------------
(***************************************************************************)
(* wait(command, ...): a status request, then one poll a millisecond.  The *)
(* first poll sees the status asked for before the loop.                   *)
(***************************************************************************)
Await(what, next) == pc' = "wait" /\ until' = what /\ back' = next /\ j' = 0

Return(result) == pc' = "end" /\ ret' = result /\ UNCHANGED poll

Goto(stage) == pc' = stage /\ UNCHANGED <<poll, ret>>

(* Operators named *_wrong are mutants: the next definition with a bug a   *)
(* maintainer could make.  The README tells which property finds each.     *)
WaitAsk_wrong ==
  /\ pc = "wait" /\ NoTransfer /\ Goto("poll")
  /\ UNCHANGED <<family, args, loop, out, erased>>

WaitAsk ==
  /\ pc = "wait" /\ ReadStatus /\ Goto("poll")
  /\ UNCHANGED <<family, args, loop, out, erased>>

(* The last wait of program_sst asks for a bit that is never set and does  *)
(* not look at the result.                                                 *)
Sees == \/ until = "ready" /\ ~latch.busy
        \/ until = "wel" /\ latch.wel

WaitPoll_wrong ==
  /\ pc = "poll" /\ ReadStatus /\ j' = IF j + 1 < Polls THEN j + 1 ELSE j
  /\ IF ~Sees THEN UNCHANGED <<pc, ret>>
     ELSE IF j + 1 < Polls \/ until = "nothing" THEN pc' = back /\ UNCHANGED ret
     ELSE pc' = "end" /\ ret' = -1
  /\ UNCHANGED <<family, back, until, args, loop, out, erased>>

WaitPoll ==
  /\ pc = "poll" /\ ReadStatus /\ j' = j + 1
  /\ IF ~Sees /\ j + 1 < Polls THEN UNCHANGED <<pc, ret>>
     ELSE IF j + 1 < Polls \/ until = "nothing" THEN pc' = back /\ UNCHANGED ret
     ELSE pc' = "end" /\ ret' = -1
  /\ UNCHANGED <<family, back, until, args, loop, out, erased>>

------------------------------------------------------------------------------
(***************************************************************************)
(* program: sectorerase_and_program, program_at45 and program_sst share    *)
(* the walk over the pages.                                                *)
(***************************************************************************)
FirstPage(offset) == offset \div PageSize

Clip(start, n) == IF start * PageSize + n > Pages * PageSize
                  THEN (Pages - start) * PageSize ELSE n

BeginLoop(start, n) ==
  /\ first' = start /\ size' = n /\ left' = n /\ page' = start
  /\ k' = 0 /\ sector_nr' = 0 /\ word' = 0 /\ UNCHANGED rlen

Refuse(result) == Return(result) /\ size' = 0 /\ UNCHANGED <<first, loop>>

Program(f, offset, length) ==
  LET start == FirstPage(offset) IN
  /\ pc = "idle" /\ calls < MaxFiles
  /\ call' = "write" /\ calls' = calls + 1 /\ file' = f /\ rlength' = length
  /\ IF f.len > PageSize * Pages \/ (family = "generic" /\ f.len = 0) \/ start > Pages
     THEN Refuse(-1)
     ELSE /\ BeginLoop(start, Clip(start, IF length # 0 THEN length ELSE f.len))
          /\ j' = 0 /\ pc' = IF family = "sst" THEN "setup" ELSE "page"
          /\ UNCHANGED <<back, until, ret>>
  /\ NoTransfer /\ UNCHANGED <<family, out, erased>>

(* program_sst first takes the write protection away.                      *)
SetupScript == <<"WREN", "DBSY", "EWSR", "WRSR", "WREN">>

Setup(command) ==
  CASE command = "WREN" -> WriteEnable
    [] command = "EWSR" -> [chip EXCEPT !.ewsr = TRUE]
    [] command = "WRSR" -> IF chip.ewsr THEN [chip EXCEPT !.ewsr = FALSE, !.protect = FALSE]
                           ELSE chip
    [] OTHER -> chip

SstSetup ==
  /\ pc = "setup" /\ Command(Setup(SetupScript[j + 1]))
  /\ IF j + 1 < Len(SetupScript) THEN j' = j + 1 /\ UNCHANGED <<pc, back, until>>
     ELSE Await("wel", "page")
  /\ UNCHANGED <<family, args, loop, out, ret, erased>>

NextSector_wrong ==
  /\ pc = "page" /\ left >= 0 /\ family # "at45" /\ sector_nr <= SectorOf(page)
  /\ Command(WriteEnable) /\ sector_nr' = SectorOf(page) + 1 /\ Goto("erase")
  /\ UNCHANGED <<family, args, page, left, rlen, k, word, out, erased>>

NextSector_again ==
  /\ pc = "page" /\ left > 0 /\ family # "at45" /\ sector_nr <= SectorOf(page)
  /\ Command(WriteEnable) /\ sector_nr' = SectorOf(page) /\ Goto("erase")
  /\ UNCHANGED <<family, args, page, left, rlen, k, word, out, erased>>

(* The head of the loop: the next sector is erased when first reached.     *)
NextSector ==
  /\ pc = "page" /\ left > 0 /\ family # "at45" /\ sector_nr <= SectorOf(page)
  /\ Command(WriteEnable) /\ sector_nr' = SectorOf(page) + 1 /\ Goto("erase")
  /\ UNCHANGED <<family, args, page, left, rlen, k, word, out, erased>>

EraseSector ==
  /\ pc = "erase" /\ Command(SectorErase(page))
  /\ Await("ready", IF family = "sst" THEN "advance" ELSE "enable")
  /\ UNCHANGED <<family, args, loop, out, ret, erased>>

NextPage ==
  /\ pc = "page" /\ left > 0 /\ (family = "at45" \/ sector_nr > SectorOf(page))
  /\ NoTransfer
  /\ Goto(IF family = "at45" THEN "program"
          ELSE IF family = "sst" THEN "advance" ELSE "enable")
  /\ UNCHANGED <<family, args, loop, out, erased>>

EnableProgram ==
  /\ pc = "enable" /\ Command(WriteEnable) /\ Goto("program")
  /\ UNCHANGED <<family, args, loop, out, erased>>

PageLength == IF left > PageSize THEN PageSize ELSE left

ProgramPage ==
  LET data == file.data[page - first] IN
  /\ pc = "program"
  /\ Command(IF family = "at45" THEN BufferProgram(page, data, PageLength)
             ELSE PageProgram(page, data, PageLength))
  /\ Await("ready", "advance")
  /\ UNCHANGED <<family, args, loop, out, ret, erased>>

Advance ==
  LET stride == IF family = "sst" THEN SectorPages ELSE 1 IN
  /\ pc = "advance" /\ Goto("page")
  /\ page' = page + stride /\ left' = left - stride * PageSize
  /\ NoTransfer /\ UNCHANGED <<family, args, rlen, k, sector_nr, word, out, erased>>

ProgramDone ==
  /\ pc = "page" /\ left <= 0 /\ family # "sst"
  /\ Return(0) /\ NoTransfer
  /\ UNCHANGED <<family, args, loop, out, erased>>

(* program_sst erases first and then starts again, two bytes a transfer.   *)
SstArm ==
  /\ pc = "page" /\ left <= 0 /\ family = "sst"
  /\ Command(WriteEnable) /\ Await("wel", "words")
  /\ page' = first /\ left' = size
  /\ UNCHANGED <<family, args, rlen, k, sector_nr, word, out, ret, erased>>

SstWord ==
  /\ pc = "words" /\ left > 0
  /\ Command(AaiWord(page, word, file.data[page - first]))
  /\ left' = left - 2
  /\ IF word + 2 < PageSize THEN word' = word + 2 /\ UNCHANGED page
     ELSE word' = 0 /\ page' = page + 1
  /\ UNCHANGED <<family, pc, poll, args, rlen, k, sector_nr, out, ret, erased>>

SstDisarm ==
  /\ pc = "words" /\ left <= 0
  /\ Command([chip EXCEPT !.wel = FALSE]) /\ Await("nothing", "end") /\ ret' = 0
  /\ UNCHANGED <<family, args, loop, out, erased>>

------------------------------------------------------------------------------
(***************************************************************************)
(* verify and read: each transfer asks for a page and fetches the one      *)
(* before it; one transfer more fetches the last.                          *)
(***************************************************************************)
BeginVerify(f, start, length) ==
  IF f.len = 0 THEN Refuse(-1)
  ELSE IF start > Pages THEN Refuse(1)
  ELSE /\ BeginLoop(start, Clip(start, IF length # 0 /\ length < f.len
                                       THEN length ELSE f.len))
       /\ Goto("compare")

Verify(f, offset, length) ==
  /\ pc = "idle" /\ calls < MaxFiles
  /\ call' = "verify" /\ calls' = calls + 1 /\ file' = f /\ rlength' = length
  /\ BeginVerify(f, FirstPage(offset), length)
  /\ NoTransfer /\ UNCHANGED <<family, out, erased>>

(* rlen keeps its value in the turn that only fetches.                     *)
SetLength == rlen' = IF left > 0 THEN PageLength ELSE rlen

Compare_wrong ==
  LET bad == /\ page > first
             /\ \E b \in ByteNr : b < rlen' /\ latch'.data[b] # file.data[page - 1 - first][b]
  IN
  /\ pc = "compare" /\ left + PageSize > 0
  /\ SetLength /\ ReadPage(page)
  /\ k' = IF bad THEN k + 1 ELSE k
  /\ IF k' > MaxBadPages THEN Return(k') ELSE UNCHANGED <<pc, poll, ret>>
  /\ page' = page + 1 /\ left' = left - PageSize
  /\ UNCHANGED <<family, args, sector_nr, word, out, erased>>

Compare_onemore ==
  LET bad == /\ page > first
             /\ \E b \in ByteNr : b < rlen' /\ latch.data[b] # file.data[page - 1 - first][b]
  IN
  /\ pc = "compare" /\ left + PageSize > 0
  /\ SetLength /\ ReadPage(page)
  /\ k' = IF bad THEN k + 1 ELSE k
  /\ IF k' > MaxBadPages + 1 THEN Return(k') ELSE UNCHANGED <<pc, poll, ret>>
  /\ page' = page + 1 /\ left' = left - PageSize
  /\ UNCHANGED <<family, args, sector_nr, word, out, erased>>

Compare ==
  LET bad == /\ page > first
             /\ \E b \in ByteNr : b < rlen' /\ latch.data[b] # file.data[page - 1 - first][b]
  IN
  /\ pc = "compare" /\ left + PageSize > 0
  /\ SetLength /\ ReadPage(page)
  /\ k' = IF bad THEN k + 1 ELSE k
  /\ IF k' > MaxBadPages THEN Return(k') ELSE UNCHANGED <<pc, poll, ret>>
  /\ page' = page + 1 /\ left' = left - PageSize
  /\ UNCHANGED <<family, args, sector_nr, word, out, erased>>

CompareDone ==
  /\ pc = "compare" /\ left + PageSize <= 0
  /\ Return(k) /\ NoTransfer
  /\ UNCHANGED <<family, args, loop, out, erased>>

Read(offset, length) ==
  LET start == FirstPage(offset)
      rest  == (Pages - start) * PageSize
  IN
  /\ pc = "idle" /\ calls < MaxFiles
  /\ call' = "read" /\ calls' = calls + 1 /\ out' = <<>>
  /\ IF start > Pages THEN Refuse(-1)
     ELSE /\ BeginLoop(start, IF length = 0 \/ length > Pages * PageSize
                              THEN rest ELSE length)
          /\ Goto("fetch")
  /\ NoTransfer /\ UNCHANGED <<family, file, rlength, erased>>

Fetch_wrong ==
  LET n == IF left > 0 THEN PageSize ELSE rlen IN
  /\ pc = "fetch" /\ left + PageSize > 0
  /\ SetLength /\ ReadPage(page)
  /\ out' = Append(out, [b \in 0..(n - 1) |-> latch.data[b]])
  /\ page' = page + 1 /\ left' = left - PageSize
  /\ UNCHANGED <<family, pc, poll, ret, args, k, sector_nr, word, erased>>

Fetch ==
  LET n == IF left > 0 THEN PageSize ELSE rlen IN
  /\ pc = "fetch" /\ left + PageSize > 0
  /\ SetLength /\ ReadPage(page)
  /\ out' = IF page = first THEN out
            ELSE Append(out, [b \in 0..(n - 1) |-> latch.data[b]])
  /\ page' = page + 1 /\ left' = left - PageSize
  /\ UNCHANGED <<family, pc, poll, ret, args, k, sector_nr, word, erased>>

FetchDone ==
  /\ pc = "fetch" /\ left + PageSize <= 0
  /\ Return(0) /\ NoTransfer
  /\ UNCHANGED <<family, args, loop, out, erased>>

------------------------------------------------------------------------------
(***************************************************************************)
(* erase: erase_bulk, erase_sst and erase_at45.                            *)
(***************************************************************************)
Erase ==
  /\ pc = "idle" /\ calls = 0 /\ erased = NotRun
  /\ call' = "erase"
  /\ Goto(CASE family = "at45" -> "locked" [] family = "sst" -> "ewsr"
            [] OTHER -> "check")
  /\ NoTransfer
  /\ UNCHANGED <<family, calls, file, rlength, first, size, loop, out, erased>>

(* sst_disable_write_protect                                               *)
Ewsr ==
  /\ pc = "ewsr" /\ Command(Setup("EWSR")) /\ Goto("wrsr")
  /\ UNCHANGED <<family, args, loop, out, erased>>

Wrsr ==
  /\ pc = "wrsr" /\ Command(Setup("WRSR")) /\ Goto("check")
  /\ UNCHANGED <<family, args, loop, out, erased>>

(* The transfer that is to fetch the status asks for nothing: what arrives *)
(* is the answer to whatever was sent last.                                *)
EraseCheck ==
  /\ pc = "check"
  /\ \E protected \in IF latch.kind = "status" THEN {latch.protect} ELSE BOOLEAN :
       IF protected THEN Return(-1) ELSE Goto("bulkEnable")
  /\ NoTransfer /\ UNCHANGED <<family, args, loop, out, erased>>

BulkEnable ==
  /\ pc = "bulkEnable" /\ Command(WriteEnable) /\ Goto("bulk")
  /\ UNCHANGED <<family, args, loop, out, erased>>

EraseBulk ==
  /\ pc = "bulk" /\ Command(BulkErase) /\ Await("ready", "end") /\ ret' = 0
  /\ UNCHANGED <<family, args, loop, out, erased>>

(* Four bytes of lock state are read into rbuf and up to 32 looked at, so  *)
(* chance decides for the rest.                                            *)
EraseLocked ==
  /\ pc = "locked"
  /\ \/ Return(-1) /\ UNCHANGED page
     \/ Goto("sectors") /\ page' = 0
  /\ latch' = Other /\ UNCHANGED <<chip, ignored>>
  /\ UNCHANGED <<family, args, left, rlen, k, sector_nr, word, out, erased>>

EraseSectors_wrong ==
  /\ pc = "sectors" /\ page < Pages
  /\ Command(At45Erase(page)) /\ Await("ready", "sectors")
  /\ page' = page + SectorPages
  /\ UNCHANGED <<family, args, left, rlen, k, sector_nr, word, out, ret, erased>>

EraseSectors ==
  /\ pc = "sectors" /\ page < Pages
  /\ Command(At45Erase(page)) /\ Await("ready", "sectors")
  /\ page' = IF page = 0 THEN BlockPages
             ELSE IF page = BlockPages THEN SectorPages ELSE page + SectorPages
  /\ UNCHANGED <<family, args, left, rlen, k, sector_nr, word, out, ret, erased>>

EraseSectorsDone ==
  /\ pc = "sectors" /\ page >= Pages /\ Return(0)
  /\ NoTransfer /\ UNCHANGED <<family, args, loop, out, erased>>

------------------------------------------------------------------------------
(***************************************************************************)
(* programSPI: erase's result is dropped, a program that succeeded is      *)
(* verified, and a failure ends the run.                                   *)
(***************************************************************************)
EndErase ==
  /\ pc = "end" /\ call = "erase"
  /\ erased' = ret /\ Goto("idle")
  /\ NoTransfer /\ UNCHANGED <<family, args, loop, out>>

EndProgram ==
  /\ pc = "end" /\ call = "write" /\ ret = 0
  /\ call' = "check" /\ BeginVerify(file, first, rlength)
  /\ NoTransfer /\ UNCHANGED <<family, calls, file, rlength, out, erased>>

EndCall ==
  /\ pc = "end"
  /\ call \in {"read", "verify", "check"} \/ (call = "write" /\ ret # 0)
  /\ Goto(IF ret # 0 /\ call # "read" THEN "exit" ELSE "idle")
  /\ NoTransfer /\ UNCHANGED <<family, args, loop, out, erased>>

Exit ==
  /\ pc = "idle" /\ pc' = "exit"
  /\ NoTransfer /\ UNCHANGED <<family, poll, ret, args, loop, out, erased>>

------------------------------------------------------------------------------
Host ==
  \/ WaitAsk \/ WaitPoll
  \/ SstSetup \/ NextSector \/ EraseSector \/ NextPage \/ EnableProgram
  \/ ProgramPage \/ Advance \/ ProgramDone \/ SstArm \/ SstWord \/ SstDisarm
  \/ Compare \/ CompareDone \/ Fetch \/ FetchDone
  \/ Ewsr \/ Wrsr \/ EraseCheck \/ BulkEnable \/ EraseBulk
  \/ EraseLocked \/ EraseSectors \/ EraseSectorsDone
  \/ EndErase \/ EndProgram \/ EndCall

Session ==
  \/ Erase \/ Exit
  \/ \E offset \in Offsets, length \in RLengths :
       \/ Read(offset, length)
       \/ \E f \in Files : Program(f, offset, length) \/ Verify(f, offset, length)

Next == Session \/ Host \/ FlashDone

Init ==
  /\ family \in Families
  /\ chip \in {[cells |-> c, todo |-> c, busy |-> FALSE, wel |-> FALSE,
                protect |-> p, ewsr |-> FALSE, sram |-> Blank] :
               c \in Contents, p \in BOOLEAN}
  /\ latch = Other
  /\ pc = "idle" /\ back = "idle" /\ until = "ready" /\ j = 0
  /\ call = "none" /\ calls = 0 /\ rlength = 0 /\ first = 0 /\ size = 0
  /\ file = [len |-> 0, data |-> [n \in PageNr |-> Blank]]
  /\ page = 0 /\ left = 0 /\ rlen = 0 /\ k = 0 /\ sector_nr = 0 /\ word = 0
  /\ out = <<>> /\ ret = 0 /\ ignored = FALSE /\ erased = NotRun

(* The host is one thread; the flash need never finish.                    *)
Spec == Init /\ [][Next]_vars /\ WF_vars(Host)

------------------------------------------------------------------------------
(***************************************************************************)
(* Properties.                                                             *)
(***************************************************************************)
Stages == {"idle", "wait", "poll", "setup", "page", "erase", "enable", "program",
           "advance", "words", "compare", "fetch", "ewsr", "wrsr", "check",
           "bulkEnable", "bulk", "locked", "sectors", "end", "exit"}
Chip  == [cells : Cells, todo : Cells, busy : BOOLEAN, wel : BOOLEAN,
          protect : BOOLEAN, ewsr : BOOLEAN, sram : Page]
Latch == [kind : {"status", "other"}, busy : BOOLEAN, wel : BOOLEAN,
          protect : BOOLEAN, data : Page]

(* Type correctness of the flash, the bridge and the running call.         *)
TypeOK ==
  /\ family \in Families /\ chip \in Chip /\ latch \in Latch
  /\ pc \in Stages /\ back \in Stages
  /\ until \in {"ready", "wel", "nothing"} /\ j \in 0..Polls \cup 0..4
  /\ call \in {"none", "erase", "write", "check", "verify", "read"}
  /\ calls \in 0..MaxFiles /\ file \in File /\ rlength \in Nat
  /\ first \in 0..Pages /\ size \in Nat
  /\ page \in Nat /\ left \in Int /\ rlen \in 0..PageSize
  /\ k \in 0..(MaxBadPages + 1) /\ sector_nr \in Nat /\ word \in ByteNr
  /\ ret \in Int /\ ignored \in BOOLEAN /\ erased \in {NotRun, 0, -1}

(* Byte b of the n-th page from the start belongs to the running call.     *)
InRange(n, b) == n * PageSize + b < size

Holds == \A n \in PageNr, b \in ByteNr :
           InRange(n, b) => chip.cells[first + n][b] = file.data[n][b]

(* program_sst erases at offset, offset + sector_size, ...: if the offset  *)
(* is not at a sector boundary, the last sector may not be reached.        *)
SstErasesAll ==
  \A n \in PageNr : InRange(n, 0) =>
    \E m \in PageNr : /\ InRange(m * SectorPages, 0)
                      /\ SectorOf(first + m * SectorPages) = SectorOf(first + n)

(* A program that returns 0 has put the data into an unprotected flash,    *)
(* whatever it held before: the sectors were erased before their first and *)
(* not after any other page.  It holds after an erase that timed out, too, *)
(* but for an AT45, whose single command per page the busy flash ignores.  *)
ProgramWrites ==
  /\ pc = "end" /\ call = "write" /\ ret = 0 /\ ~chip.protect
  /\ family = "at45" => ~ignored
  /\ family = "sst" => SstErasesAll
  => Holds

(* For whole pages verify returns 0 exactly if the flash holds the data;   *)
(* for a last page that is cut short it still raises no false alarm.       *)
VerifyExact ==
  /\ pc = "end" /\ (call = "check" \/ (call = "verify" /\ erased # -1))
  /\ size > 0
  => /\ Holds => ret = 0
     /\ ret = 0 /\ size % PageSize = 0 => Holds

(* read fetches the bytes of the flash, in order, none of them one page    *)
(* too early or too late.                                                  *)
ReadExact ==
  /\ pc = "end" /\ call = "read" /\ ret = 0 /\ erased # -1
  /\ first * PageSize + size <= Pages * PageSize
  => \A n \in PageNr, b \in ByteNr :
       InRange(n, b) => out[n + 1][b] = chip.cells[first + n][b]

(* An erase that returns 0 has erased all of an unprotected flash.         *)
EraseErases ==
  pc = "end" /\ call = "erase" /\ ret = 0 /\ ~chip.protect
    => \A p \in PageNr : chip.cells[p] = Blank

(* Nothing is sent to a busy flash, unless erase gave up on it: wait sees  *)
(* the end of the work although every status it looks at is old.           *)
BusyIsWaitedFor == ignored => erased = -1

(* The pages a call may change: those its range touches and, where sectors *)
(* are erased, the rest of their sectors.                                  *)
Touched == {first + n : n \in {m \in PageNr : InRange(m, 0)}}

Scope ==
  CASE call = "erase" -> PageNr
    [] call = "write" /\ family = "at45" -> Touched
    [] call = "write" -> {p \in PageNr : \E q \in Touched : SectorOf(p) = SectorOf(q)}
    [] OTHER -> {}

(* No command changes a page outside the scope of the call.                *)
StaysInScope ==
  [][\A p \in PageNr : chip'.todo[p] # chip.todo[p] => p \in Scope]_vars

(* Every call returns, even if the flash never finishes.                   *)
CallsReturn == pc \notin {"idle", "exit"} ~> pc \in {"idle", "exit"}

(* What verify promises in its comment: 0 on success, else a failure.      *)
VerifyDocumented ==
  /\ pc = "end" /\ (call = "check" \/ (call = "verify" /\ erased # -1))
  /\ ret = 0
  => Holds

(* What erase_bulk says: it refuses a flash with block protection.         *)
ProtectedIsRefused == pc = "bulkEnable" => ~chip.protect
==============================================================================
