--------------------------- MODULE SpiFlashProofs ----------------------------
(***************************************************************************)
(* Proofs about SpiFlash for every flash, limit and set of arguments.      *)
(*                                                                         *)
(* Stage is where the host is or will be after the wait it is in, so that  *)
(* the two steps of wait leave nearly everything alone.  The invariants    *)
(* follow one another: TypeInv (where a call is in its range), BusyInv     *)
(* (what the host knows about a flash that works by itself), and one for   *)
(* each promise of a call.                                                 *)
(***************************************************************************)
EXTENDS SpiFlash, SequenceTheorems, TLAPS

Waiting == pc \in {"wait", "poll"}
Stage == IF Waiting THEN back ELSE pc

Walking   == {"page", "erase", "enable", "program", "advance", "compare", "fetch"}
Writing   == {"setup", "page", "erase", "enable", "program", "advance", "words"}
Erasing   == {"ewsr", "wrsr", "check", "bulkEnable", "bulk", "locked", "sectors"}
Comparing == {"check", "verify"}

(***************************************************************************)
(* The type invariant: which call and which kind of flash each stage is    *)
(* part of, and how far in its range the call has come.                    *)
(***************************************************************************)
StageOK ==
  /\ Waiting => /\ back \in {"page", "enable", "advance", "words", "sectors", "end"}
                /\ call \in {"write", "erase"} /\ j < Polls
  /\ Stage \in Writing => call = "write"
  /\ Stage = "compare" => call \in Comparing /\ k <= MaxBadPages
  /\ Stage = "fetch" => call = "read"
  /\ Stage \in Erasing => call = "erase" /\ erased = NotRun
  /\ Stage = "end" => call # "none"
  /\ Stage = "end" /\ call = "erase" => ret \in {0, -1} /\ erased = NotRun
  /\ Stage = "setup" => j <= 4

FamilyOK ==
  /\ Stage \in {"setup", "words", "ewsr", "wrsr"} => family = "sst"
  /\ Stage = "program" => family # "sst"
  /\ Stage = "enable" => family = "generic"
  /\ Stage \in {"erase", "check", "bulkEnable", "bulk"} => family # "at45"
  /\ Stage \in {"locked", "sectors"} => family = "at45"

(* The bytes of page `first' up to byte `word' of `page' have been done.   *)
PlaceOK ==
  /\ call \in {"write"} \cup Comparing => size <= (Pages - first) * PageSize
  /\ Stage \in Walking => page >= first /\ left = size - (page - first) * PageSize
  /\ Stage \in {"erase", "enable", "program", "advance"} => left > 0
  /\ Stage = "words" => /\ page >= first /\ word % 2 = 0
                        /\ left = size - (page - first) * PageSize - word
  /\ Stage \in Walking \ {"compare", "fetch"} => word = 0
  /\ Stage = "setup" => page = first /\ left = size /\ word = 0

TypeInv == TypeOK /\ StageOK /\ FamilyOK /\ PlaceOK

(***************************************************************************)
(* What the host knows about a flash that works by itself.                 *)
(***************************************************************************)
(* A busy flash that erase gave up on, before the next wait.               *)
LeftBehind ==
  /\ erased = -1
  /\ \/ pc = "idle" \/ call \in {"read", "verify"}
     \/ call \in {"write", "check"} /\ size = 0
     \/ /\ call = "write" /\ page = first
        /\ \/ Stage \in {"setup", "page", "erase"}
           \/ Stage = "program" /\ family = "at45"

BusyOnlyIf ==
  chip.busy => \/ Waiting /\ until = "ready"
               \/ pc = "end" /\ ret = -1 /\ call \in {"erase", "write"}
               \/ pc = "exit"
               \/ LeftBehind

(* A write of nothing has a reason that holds for its verify, too.         *)
EmptyWrite ==
  call = "write" /\ size = 0
    => file.len = 0 \/ first = Pages \/ (pc \in {"end", "exit"} /\ ret = -1)

BusyInv ==
  /\ ~chip.busy => chip.todo = chip.cells
  /\ pc = "poll" /\ ~latch.busy => ~chip.busy
  /\ Stage \in {"setup", "page"} /\ page = first => sector_nr = 0
  /\ EmptyWrite
  /\ BusyOnlyIf
  /\ BusyIsWaitedFor

------------------------------------------------------------------------------
(***************************************************************************)
(* Sizes and places.                                                       *)
(***************************************************************************)
LEMMA Sizes ==
  /\ PageSize \in Nat /\ PageSize > 0 /\ Pages \in Nat /\ Pages > 0
  /\ SectorPages \in Nat /\ SectorPages > 0 /\ BlockPages \in Nat /\ BlockPages > 0
  /\ AddrPages \in Nat /\ AddrPages > 0 /\ Polls \in Nat /\ Polls > 0
  /\ MaxBadPages \in Nat /\ MaxFiles \in Nat
BY SizeAssumption

(* Products with the size of a page.                                       *)
LEMMA Products ==
  ASSUME NEW m \in Int, NEW n \in Int
  PROVE  /\ m * PageSize \in Int
         /\ (m + n) * PageSize = m * PageSize + n * PageSize
         /\ (m - n) * PageSize = m * PageSize - n * PageSize
         /\ m <= n <=> m * PageSize <= n * PageSize
         /\ m < n <=> m * PageSize < n * PageSize
         /\ 0 * PageSize = 0 /\ 1 * PageSize = PageSize
<1>1. PageSize \in Nat /\ PageSize > 0  BY Sizes
<1>2. /\ m * PageSize \in Int
      /\ (m + n) * PageSize = m * PageSize + n * PageSize
      /\ (m - n) * PageSize = m * PageSize - n * PageSize
      /\ 0 * PageSize = 0 /\ 1 * PageSize = PageSize
  BY <1>1
<1>3. ASSUME NEW a \in Int, NEW b \in Int, a < b
      PROVE  a * PageSize < b * PageSize
  BY <1>1, <1>3
<1>4. m < n <=> m * PageSize < n * PageSize
  BY <1>1, <1>3
<1>5. m <= n <=> m * PageSize <= n * PageSize
  BY <1>1, <1>3
<1>6. QED  BY <1>2, <1>4, <1>5

(* A place within a page determines the page.                              *)
LEMMA Sectors ==
  ASSUME NEW p \in Nat, NEW q \in Nat
  PROVE  /\ SectorOf(p) \in Nat
         /\ p <= q => SectorOf(p) <= SectorOf(q)
         /\ SectorOf(p + SectorPages) = SectorOf(p) + 1
<1>1. SectorPages \in Nat /\ SectorPages > 0  BY Sizes
<1>2. QED  BY <1>1 DEF SectorOf

LEMMA Addresses ==
  ASSUME NEW p \in Nat
  PROVE  /\ PageAddress(p) \in PageNr
         /\ Pages <= AddrPages /\ p < Pages => PageAddress(p) = p
<1>1. p % AddrPages \in Nat /\ (Pages <= AddrPages /\ p < Pages => p % AddrPages = p)
  BY Sizes
<1>2. QED  BY <1>1, Sizes DEF PageAddress, PageNr

------------------------------------------------------------------------------
(***************************************************************************)
(* The flash keeps its type under every command.                           *)
(***************************************************************************)
LEMMA BlankType == Blank \in Page
BY DEF Blank, Page

LEMMA StartType ==
  ASSUME chip \in Chip, NEW cells \in Cells
  PROVE  Start(cells) \in Chip
BY DEF Start, Chip

LEMMA EraseTypes ==
  ASSUME chip \in Chip, NEW p \in Nat
  PROVE  SectorErase(p) \in Chip /\ BulkErase \in Chip /\ At45Erase(p) \in Chip
<1>1. \A q \in PageNr : chip.cells[q] \in Page  BY DEF Chip, Cells
<1> DEFINE sector == [q \in PageNr |->
             IF SectorOf(q) = SectorOf(PageAddress(p)) THEN Blank ELSE chip.cells[q]]
           all == [q \in PageNr |-> Blank]
           at45 == [q \in PageNr |->
             IF At45Sector(q) = At45Sector(PageAddress(p)) THEN Blank ELSE chip.cells[q]]
<1>2. sector \in Cells /\ all \in Cells /\ at45 \in Cells
  BY <1>1, BlankType DEF Cells
<1> HIDE DEF sector, all, at45
<1>3. Start(sector) \in Chip /\ Start(all) \in Chip /\ Start(at45) \in Chip
  BY <1>2, StartType
<1>4. QED
  BY <1>3 DEF SectorErase, BulkErase, At45Erase, IfEnabled, sector, all, at45

LEMMA BurnType ==
  ASSUME NEW old \in Page, NEW data \in Page, NEW n
  PROVE  Burn(old, data, n) \in Page
BY DEF Burn, Page

LEMMA PageProgramType ==
  ASSUME chip \in Chip, NEW p \in Nat, NEW data \in Page, NEW n
  PROVE  PageProgram(p, data, n) \in Chip
<1> DEFINE cells == [chip.cells EXCEPT ![PageAddress(p)] = Burn(@, data, n)]
<1>1. PageAddress(p) \in PageNr  BY Addresses
<1>2. chip.cells \in Cells  BY DEF Chip
<1>3. Burn(chip.cells[PageAddress(p)], data, n) \in Page
  BY <1>1, <1>2, BurnType DEF Cells
<1>4. cells \in Cells  BY <1>1, <1>2, <1>3 DEF Cells
<1> HIDE DEF cells
<1>5. Start(cells) \in Chip  BY <1>4, StartType
<1>6. QED  BY <1>5 DEF PageProgram, IfEnabled, cells

LEMMA BufferProgramType ==
  ASSUME chip \in Chip, NEW p \in Nat, NEW data \in Page, NEW n
  PROVE  BufferProgram(p, data, n) \in Chip
<1> DEFINE sram == [b \in ByteNr |-> IF b < n THEN data[b] ELSE chip.sram[b]]
           cells == [chip.cells EXCEPT ![PageAddress(p)] = sram]
<1>1. sram \in Page  BY DEF Chip, Page
<1> HIDE DEF sram
<1>2. cells \in Cells  BY <1>1, Addresses DEF Cells, Chip
<1> HIDE DEF cells
<1>3. Start(cells) \in Chip  BY <1>2, StartType
<1>4. [Start(cells) EXCEPT !.sram = sram] \in Chip  BY <1>1, <1>3 DEF Chip
<1>5. QED  BY <1>4 DEF BufferProgram, cells, sram

LEMMA AaiWordType ==
  ASSUME chip \in Chip, NEW p \in PageNr, NEW b \in ByteNr, NEW data \in Page
  PROVE  AaiWord(p, b, data) \in Chip
<1> DEFINE word2 == [c \in ByteNr |-> IF c \in {b, b + 1} THEN data[c] ELSE 1]
           cells == [chip.cells EXCEPT ![p] = Burn(@, word2, PageSize)]
<1>1. word2 \in Page  BY DEF Page
<1> HIDE DEF word2
<1>2. chip.cells \in Cells  BY DEF Chip
<1>3. Burn(chip.cells[p], word2, PageSize) \in Page
  BY <1>1, <1>2, BurnType DEF Cells
<1>4. cells \in Cells  BY <1>2, <1>3 DEF Cells
<1> HIDE DEF cells
<1>5. [chip EXCEPT !.cells = cells, !.todo = cells] \in Chip  BY <1>4 DEF Chip
<1>6. QED  BY <1>5 DEF AaiWord, cells, word2

LEMMA SetupType ==
  ASSUME chip \in Chip, NEW command
  PROVE  Setup(command) \in Chip /\ WriteEnable \in Chip
BY DEF Setup, WriteEnable, Chip

(* The wires of the bridge: what a transfer leaves in it.                  *)
Wires == chip \in Chip /\ latch \in Latch /\ ignored \in BOOLEAN

LEMMA CommandType ==
  ASSUME Wires, NEW new \in Chip, Command(new)
  PROVE  Wires'
BY BlankType DEF Wires, Command, Other, Latch

LEMMA AskType ==
  ASSUME Wires, NEW p \in Nat, ReadStatus \/ ReadPage(p) \/ NoTransfer
  PROVE  Wires'
<1>1. CASE ReadStatus
  BY <1>1, BlankType DEF Wires, ReadStatus, StatusRegister, Latch, Chip
<1>2. CASE ReadPage(p)
  <2>1. chip.cells[PageAddress(p)] \in Page  BY Addresses DEF Wires, Chip, Cells
  <2>2. Other \in Latch  BY BlankType DEF Other, Latch
  <2>3. [Other EXCEPT !.data = chip.cells[PageAddress(p)]] \in Latch
    BY <2>1, <2>2 DEF Latch
  <2>4. QED  BY <1>2, <2>2, <2>3 DEF Wires, ReadPage
<1>3. CASE NoTransfer  BY <1>3 DEF Wires, NoTransfer
<1>4. QED  BY <1>1, <1>2, <1>3

------------------------------------------------------------------------------
(***************************************************************************)
(* TypeInv.                                                                *)
(***************************************************************************)
(* TypeOK without the wires.                                               *)
HostOK ==
  /\ family \in Families
  /\ pc \in Stages /\ back \in Stages
  /\ until \in {"ready", "wel", "nothing"} /\ j \in 0..Polls \cup 0..4
  /\ call \in {"none", "erase", "write", "check", "verify", "read"}
  /\ calls \in 0..MaxFiles /\ file \in File /\ rlength \in Nat
  /\ first \in 0..Pages /\ size \in Nat
  /\ page \in Nat /\ left \in Int /\ rlen \in 0..PageSize
  /\ k \in 0..(MaxBadPages + 1) /\ sector_nr \in Nat /\ word \in ByteNr
  /\ ret \in Int /\ erased \in {NotRun, 0, -1}

Shape == HostOK /\ StageOK /\ FamilyOK /\ PlaceOK

LEMMA TypeParts == TypeInv <=> Wires /\ Shape
BY DEF TypeInv, TypeOK, Wires, Shape, HostOK

LEMMA WaitShape ==
  ASSUME Shape, WaitAsk \/ WaitPoll
  PROVE  Shape'
<1> USE Sizes DEF Shape, HostOK, StageOK, FamilyOK, PlaceOK, Stages, Stage, Waiting
<1>1. CASE WaitAsk
  BY <1>1 DEF WaitAsk, Goto, poll, args, loop, Walking, Writing, Erasing, Comparing
<1>2. CASE WaitPoll
  <2>1. /\ pc = "poll" /\ j' = j + 1 /\ j < Polls
        /\ \/ pc' = pc /\ ret' = ret /\ j + 1 < Polls
           \/ pc' = back /\ ret' = ret
           \/ pc' = "end" /\ ret' = -1
        /\ UNCHANGED <<family, back, until, args, loop, out, erased>>
    BY <1>2 DEF WaitPoll
  <2>2. Stage' = Stage \/ Stage' = "end"
    BY <2>1
  <2>3. QED  BY <2>1, <2>2 DEF args, loop, Walking, Writing, Erasing, Comparing
<1>3. QED  BY <1>1, <1>2

LEMMA ClipFits ==
  ASSUME NEW start \in 0..Pages, NEW n \in Nat
  PROVE  /\ Clip(start, n) \in Nat
         /\ Clip(start, n) <= (Pages - start) * PageSize
         /\ Clip(start, n) = 0 <=> n = 0 \/ start = Pages
<1>1. start \in Int /\ Pages \in Int /\ PageSize \in Nat /\ PageSize > 0  BY Sizes
<1>2. /\ (Pages - start) * PageSize = Pages * PageSize - start * PageSize
      /\ start * PageSize \in Int /\ Pages * PageSize \in Int
      /\ start * PageSize <= Pages * PageSize
      /\ start < Pages <=> start * PageSize < Pages * PageSize
  BY <1>1, Products
<1>3. QED  BY <1>1, <1>2 DEF Clip

LEMMA FirstPageType ==
  ASSUME NEW offset \in Nat
  PROVE  FirstPage(offset) \in Nat
BY Sizes DEF FirstPage

(* Room between a place in the flash and its end.                          *)
LEMMA Room ==
  ASSUME NEW start \in 0..Pages
  PROVE  (Pages - start) * PageSize \in Nat
<1>1. (Pages - start) * PageSize >= 0 * PageSize  BY Products, Sizes
<1>2. QED  BY <1>1, Products, Sizes

LEMMA ProgramShape ==
  ASSUME Shape,
         NEW offset \in Offsets, NEW length \in RLengths, NEW f \in Files,
         Program(f, offset, length)
  PROVE  Shape'
<1> USE DEF Shape, HostOK, StageOK, FamilyOK, PlaceOK, Stages, Stage, Waiting,
            Walking, Writing, Erasing, Comparing
<1> DEFINE start == FirstPage(offset)
           n == IF length # 0 THEN length ELSE f.len
<1>1. /\ start \in Nat /\ length \in Nat /\ f \in File /\ f.len \in Nat /\ n \in Nat
      /\ 0 \in ByteNr /\ (Pages - first) * PageSize >= 0
  BY ArgumentAssumption, ContentAssumption, FirstPageType, Sizes, Room DEF File, ByteNr
<1> HIDE DEF start, n
<1>2. /\ pc = "idle" /\ calls < MaxFiles /\ call' = "write" /\ calls' = calls + 1
      /\ file' = f /\ rlength' = length /\ UNCHANGED <<family, out, erased>>
  BY DEF Program
<1>3. CASE Refuse(-1)
  BY <1>1, <1>2, <1>3, Sizes DEF Refuse, Return, poll, loop
<1>4. CASE /\ start <= Pages /\ BeginLoop(start, Clip(start, n)) /\ j' = 0
           /\ pc' = (IF family = "sst" THEN "setup" ELSE "page")
           /\ UNCHANGED <<back, until, ret>>
  <2>1. start \in 0..Pages  BY <1>1, <1>4, Sizes
  <2>2. Clip(start, n) \in Nat /\ Clip(start, n) <= (Pages - start) * PageSize
    BY <1>1, <2>1, ClipFits
  <2>3. (start - start) * PageSize = 0  BY <1>1, Products
  <2>4. QED
    BY <1>1, <1>2, <1>4, <2>1, <2>2, <2>3, Sizes DEF BeginLoop
<1>5. QED  BY <1>1, <1>3, <1>4, Sizes DEF Program, start, n

LEMMA VerifyShape ==
  ASSUME Shape, NEW f \in File, NEW start \in Nat, NEW length \in Nat,
         pc \in {"idle", "end"}, call' \in Comparing,
         calls' = calls \/ (calls' = calls + 1 /\ calls < MaxFiles),
         file' = f, rlength' = length, UNCHANGED <<family, out, erased>>,
         BeginVerify(f, start, length)
  PROVE  Shape'
<1> USE DEF Shape, HostOK, StageOK, FamilyOK, PlaceOK, Stages, Stage, Waiting,
            Walking, Writing, Erasing, Comparing
<1> DEFINE n == IF length # 0 /\ length < f.len THEN length ELSE f.len
<1>1. /\ f.len \in Nat /\ n \in Nat /\ 0 \in ByteNr /\ (Pages - first) * PageSize >= 0
  BY Sizes, Room DEF File, ByteNr
<1> HIDE DEF n
<1>3. CASE Refuse(-1) \/ Refuse(1)
  BY <1>1, <1>3, Sizes DEF Refuse, Return, poll, loop
<1>4. CASE start <= Pages /\ BeginLoop(start, Clip(start, n)) /\ Goto("compare")
  <2>1. start \in 0..Pages  BY <1>1, <1>4, Sizes
  <2>2. Clip(start, n) \in Nat /\ Clip(start, n) <= (Pages - start) * PageSize
    BY <1>1, <2>1, ClipFits
  <2>3. (start - start) * PageSize = 0  BY <1>1, Products
  <2>4. QED
    BY <1>1, <1>4, <2>1, <2>2, <2>3, Sizes DEF BeginLoop, Goto, poll
<1>5. QED  BY <1>1, <1>3, <1>4, Sizes DEF BeginVerify, n

LEMMA ReadShape ==
  ASSUME Shape, NEW offset \in Offsets, NEW length \in RLengths, Read(offset, length)
  PROVE  Shape'
<1> USE DEF Shape, HostOK, StageOK, FamilyOK, PlaceOK, Stages, Stage, Waiting,
            Walking, Writing, Erasing, Comparing
<1> DEFINE start == FirstPage(offset)
           n == IF length = 0 \/ length > Pages * PageSize
                THEN (Pages - start) * PageSize ELSE length
<1>1. /\ start \in Nat /\ length \in Nat /\ 0 \in ByteNr
  BY ArgumentAssumption, FirstPageType, Sizes DEF ByteNr
<1>2. start <= Pages => n \in Nat  BY <1>1, Room, Sizes
<1> HIDE DEF start, n
<1>3. CASE Refuse(-1)
  BY <1>1, <1>3, Sizes DEF Refuse, Return, poll, loop, Read
<1>4. CASE start <= Pages /\ BeginLoop(start, n) /\ Goto("fetch")
  <2>1. start \in 0..Pages  BY <1>1, <1>4, Sizes
  <2>2. (start - start) * PageSize = 0  BY <1>1, Products
  <2>3. QED
    BY <1>1, <1>2, <1>4, <2>1, <2>2, Sizes DEF BeginLoop, Goto, poll, Read
<1>5. QED  BY <1>1, <1>3, <1>4, Sizes DEF Read, start, n

LEMMA WriteShape ==
  ASSUME Shape,
         \/ SstSetup \/ NextSector \/ EraseSector \/ NextPage \/ EnableProgram
         \/ ProgramPage \/ Advance \/ ProgramDone \/ SstArm \/ SstWord \/ SstDisarm
  PROVE  Shape'
<1> USE DEF Shape, HostOK, StageOK, FamilyOK, PlaceOK, Stages, Stage, Waiting,
            Walking, Writing, Erasing, Comparing
<1>1. CASE SstSetup
  BY <1>1, Sizes DEF SstSetup, SetupScript, Await, args, loop
<1>2. CASE NextSector
  BY <1>2, Sectors, Sizes DEF NextSector, Goto, args, poll
<1>3. CASE EraseSector
  BY <1>3, ArgumentAssumption, Sizes DEF EraseSector, Await, args, loop
<1>4. CASE NextPage
  <2>1. /\ pc' \in {"program", "advance", "enable"} /\ left > 0 /\ pc = "page"
        /\ pc' = "program" => family = "at45"
        /\ pc' = "enable" => family = "generic"
        /\ UNCHANGED <<family, args, loop, poll, ret, out, erased>>
    BY <1>4, ArgumentAssumption DEF NextPage, Goto
  <2>2. QED BY <2>1, Sizes DEF args, poll, loop
<1>5. CASE EnableProgram
  BY <1>5, Sizes DEF EnableProgram, Goto, args, loop, poll
<1>6. CASE ProgramPage
  BY <1>6, Sizes DEF ProgramPage, Await, args, loop
<1>7. CASE Advance
  <2> DEFINE stride == IF family = "sst" THEN SectorPages ELSE 1
  <2>1. stride \in Nat  BY Sizes
  <2>2. page' = page + stride /\ left' = left - stride * PageSize  BY <1>7 DEF Advance
  <2> HIDE DEF stride
  <2>3. ((page + stride) - first) * PageSize = (page - first) * PageSize + stride * PageSize
        /\ stride * PageSize \in Int
    <3>1. /\ (page + stride) - first = (page - first) + stride
          /\ page - first \in Int /\ stride \in Int
      BY <2>1
    <3>2. ((page - first) + stride) * PageSize
             = (page - first) * PageSize + stride * PageSize
      BY ONLY <3>1, Products
    <3>3. stride * PageSize \in Int  BY ONLY <3>1, Products
    <3>4. QED  BY <3>1, <3>2, <3>3
  <2>4. QED
    BY <1>7, <2>1, <2>2, <2>3, Sizes DEF Advance, Goto, args, poll
<1>8. CASE ProgramDone
  BY <1>8, Sizes DEF ProgramDone, Return, args, loop, poll
<1>9. CASE SstArm
  <2>1. (first - first) * PageSize = 0  BY Products
  <2>2. QED  BY <1>9, <2>1, Sizes DEF SstArm, Await, args
<1>10. CASE SstWord
  <2>1. PageSize % 2 = 0  BY <1>10, ArgumentAssumption DEF SstWord
  <2>2. ((page + 1) - first) * PageSize = (page - first) * PageSize + PageSize
    <3>1. (page + 1) - first = (page - first) + 1  OBVIOUS
    <3>2. QED  BY <3>1, Products
  <2>3. word + 2 >= PageSize => word + 2 = PageSize
    BY <1>10, <2>1, Sizes DEF SstWord, ByteNr
  <2>4. (word + 2) % 2 = 0  BY <1>10 DEF SstWord, ByteNr
  <2>5. word' \in ByteNr /\ word' % 2 = 0  BY <1>10, <2>4, Sizes DEF SstWord, ByteNr
  <2>6. left' = size - (page' - first) * PageSize - word' /\ page' \in Nat /\ page' >= first
    BY <1>10, <2>2, <2>3, Sizes, Products DEF SstWord, ByteNr
  <2>7. QED
    BY <1>10, <2>5, <2>6, Sizes DEF SstWord, args, poll
<1>11. CASE SstDisarm
  BY <1>11, Sizes DEF SstDisarm, Await, args, loop
<1>12. QED
  BY <1>1, <1>2, <1>3, <1>4, <1>5, <1>6, <1>7, <1>8, <1>9, <1>10, <1>11

LEMMA LookShape ==
  ASSUME Shape, Compare \/ CompareDone \/ Fetch \/ FetchDone
  PROVE  Shape'
<1> USE DEF Shape, HostOK, StageOK, FamilyOK, PlaceOK, Stages, Stage, Waiting,
            Walking, Writing, Erasing, Comparing
<1>1. ((page + 1) - first) * PageSize = (page - first) * PageSize + PageSize
  <2>1. (page + 1) - first = (page - first) + 1  OBVIOUS
  <2>2. QED  BY <2>1, Products
<1>2. SetLength => rlen' \in 0..PageSize
  BY Sizes DEF SetLength, PageLength
<1>3. CASE Compare
  <2>1. /\ k' \in 0..(MaxBadPages + 1)
        /\ \/ pc' = pc /\ UNCHANGED <<poll, ret>> /\ k' <= MaxBadPages
           \/ pc' = "end" /\ ret' = k' /\ UNCHANGED poll
    BY <1>3, Sizes DEF Compare, Return
  <2>2. /\ pc = "compare" /\ rlen' \in 0..PageSize
        /\ page' = page + 1 /\ left' = left - PageSize
        /\ UNCHANGED <<family, args, sector_nr, word, out, erased>>
    BY <1>2, <1>3 DEF Compare
  <2>3. QED  BY <1>1, <2>1, <2>2, Products, Sizes DEF args, poll
<1>4. CASE CompareDone
  BY <1>4, Sizes DEF CompareDone, Return, args, loop, poll
<1>5. CASE Fetch
  <2>1. /\ pc = "fetch" /\ rlen' \in 0..PageSize
        /\ page' = page + 1 /\ left' = left - PageSize
        /\ UNCHANGED <<family, pc, poll, ret, args, k, sector_nr, word, erased>>
    BY <1>2, <1>5 DEF Fetch
  <2>2. QED  BY <1>1, <2>1, Products, Sizes DEF args, poll
<1>6. CASE FetchDone
  BY <1>6, Sizes DEF FetchDone, Return, args, loop, poll
<1>7. QED  BY <1>3, <1>4, <1>5, <1>6

LEMMA EraseShape ==
  ASSUME Shape,
         \/ Erase \/ Ewsr \/ Wrsr \/ EraseCheck \/ BulkEnable \/ EraseBulk
         \/ EraseLocked \/ EraseSectors \/ EraseSectorsDone \/ EndErase
  PROVE  Shape'
<1> USE Sizes, ArgumentAssumption
        DEF Shape, HostOK, StageOK, FamilyOK, PlaceOK, Stages, Stage, Waiting,
            Walking, Writing, Erasing, Comparing, args, loop, poll
<1>1. CASE Erase
  BY <1>1 DEF Erase, Goto
<1>2. CASE Ewsr \/ Wrsr \/ BulkEnable
  BY <1>2 DEF Ewsr, Wrsr, BulkEnable, Goto
<1>3. CASE EraseCheck
  BY <1>3 DEF EraseCheck, Goto, Return
<1>4. CASE EraseBulk \/ EraseSectors
  BY <1>4 DEF EraseBulk, EraseSectors, Await
<1>5. CASE EraseLocked \/ EraseSectorsDone
  BY <1>5 DEF EraseLocked, EraseSectorsDone, Goto, Return
<1>6. CASE EndErase
  BY <1>6 DEF EndErase, Goto
<1>7. QED  BY <1>1, <1>2, <1>3, <1>4, <1>5, <1>6

LEMMA FrameShape ==
  ASSUME Shape, EndCall \/ Exit \/ FlashDone \/ UNCHANGED vars
  PROVE  Shape'
<1> USE DEF Shape, HostOK, StageOK, FamilyOK, PlaceOK, Stages, Stage, Waiting,
            Walking, Writing, Erasing, Comparing, args, loop, poll
<1>1. CASE EndCall \/ Exit
  <2>1. pc \in {"end", "idle"} /\ pc' \in {"idle", "exit"}
        /\ UNCHANGED <<family, poll, ret, args, loop, out, erased>>
    BY <1>1 DEF EndCall, Exit, Goto
  <2>2. QED  BY <2>1
<1>2. CASE FlashDone
  BY <1>2 DEF FlashDone
<1>3. CASE UNCHANGED vars
  BY <1>3 DEF vars
<1>4. QED  BY <1>1, <1>2, <1>3

LEMMA ShapeStep ==
  ASSUME Shape, [Next]_vars
  PROVE  Shape'
<1>1. CASE Session
  <2>1. ASSUME NEW offset \in Offsets, NEW length \in RLengths, NEW f \in Files,
               Verify(f, offset, length)
        PROVE  Shape'
    <3>1. /\ FirstPage(offset) \in Nat /\ length \in Nat /\ f \in File
      BY ArgumentAssumption, ContentAssumption, FirstPageType
    <3>2. QED  BY <2>1, <3>1, VerifyShape DEF Verify, Comparing
  <2>2. QED
    BY <1>1, <2>1, ReadShape, ProgramShape, EraseShape, FrameShape DEF Session
<1>2. CASE Host
  <2>1. CASE EndProgram
    <3>1. first \in Nat /\ rlength \in Nat /\ file \in File
      BY Sizes DEF Shape, HostOK
    <3>2. QED  BY <2>1, <3>1, VerifyShape DEF EndProgram, Comparing
  <2>2. QED
    BY <1>2, <2>1, WaitShape, WriteShape, LookShape, EraseShape, FrameShape DEF Host
<1>3. CASE FlashDone \/ UNCHANGED vars
  BY <1>3, FrameShape
<1>4. QED  BY <1>1, <1>2, <1>3 DEF Next

(* A page with bytes to do is one of the flash's.                          *)
LEMMA PageInRange ==
  ASSUME Shape, call \in {"write"} \cup Comparing,
         NEW n \in Nat, n * PageSize < size
  PROVE  n \in PageNr /\ first + n \in PageNr
<1>1. size <= (Pages - first) * PageSize /\ first \in Nat /\ Pages \in Nat /\ size \in Nat
  BY Sizes DEF Shape, HostOK, PlaceOK
<1>2. n * PageSize < (Pages - first) * PageSize /\ Pages - first \in Int
  BY <1>1, Products, Sizes
<1>3. n < Pages - first  BY <1>2, Products
<1>4. QED  BY <1>1, <1>3 DEF PageNr

LEMMA AtPage ==
  ASSUME Shape,
         Stage \in {"page", "erase", "enable", "program", "advance", "words"}, left > 0
  PROVE  /\ page - first \in PageNr /\ page \in PageNr
         /\ (page - first) * PageSize + word + left = size
         /\ (page - first) * PageSize < size
<1>1. /\ call = "write" /\ page - first \in Nat /\ word \in Nat
      /\ page \in Nat /\ first \in Nat /\ left \in Int /\ size \in Nat
      /\ left = size - (page - first) * PageSize - word
  BY Sizes, Products DEF Shape, HostOK, StageOK, PlaceOK, Writing, Walking, ByteNr
<1>2. (page - first) * PageSize \in Int  BY <1>1, Products
<1>3. (page - first) * PageSize < size
      /\ (page - first) * PageSize + word + left = size
  BY <1>1, <1>2
<1>4. page - first \in PageNr /\ first + (page - first) \in PageNr
  BY <1>1, <1>3, PageInRange
<1>5. QED  BY <1>1, <1>3, <1>4

LEMMA WiresStep ==
  ASSUME TypeInv, [Next]_vars
  PROVE  Wires'
<1> USE DEF Wires
<1>0. Wires /\ Shape /\ chip \in Chip  BY TypeParts
<1>1. /\ page \in Nat /\ word \in ByteNr /\ file \in File
      /\ \A p \in PageNr : file.data[p] \in Page
  BY <1>0 DEF Shape, HostOK, File, Cells
<1>2. CASE NoTransfer  BY <1>0, <1>2, AskType, <1>1
<1>3. CASE ReadStatus \/ ReadPage(page)  BY <1>0, <1>1, <1>3, AskType
<1>4. CASE SstSetup \/ NextSector \/ EnableProgram \/ SstArm \/ Ewsr \/ Wrsr \/ BulkEnable
  <2>1. PICK new \in Chip : Command(new)
    BY <1>0, <1>4, SetupType
    DEF SstSetup, NextSector, EnableProgram, SstArm, Ewsr, Wrsr, BulkEnable
  <2>2. QED  BY <1>0, <2>1, CommandType
<1>5. CASE EraseSector \/ EraseBulk \/ EraseSectors
  <2>1. PICK new \in Chip : Command(new)
    BY <1>0, <1>1, <1>5, EraseTypes DEF EraseSector, EraseBulk, EraseSectors
  <2>2. QED  BY <1>0, <2>1, CommandType
<1>6. CASE ProgramPage
  <2>1. pc = "program" /\ left > 0 /\ Stage = "program"
    BY <1>0, <1>6 DEF ProgramPage, Shape, PlaceOK, Stage, Waiting
  <2>2. file.data[page - first] \in Page  BY <1>0, <1>1, <2>1, AtPage
  <2>3. PICK new \in Chip : Command(new)
    BY <1>0, <1>1, <1>6, <2>2, PageProgramType, BufferProgramType DEF ProgramPage
  <2>4. QED  BY <1>0, <2>3, CommandType
<1>7. CASE SstWord
  <2>1. Stage = "words" /\ left > 0  BY <1>7 DEF SstWord, Stage, Waiting
  <2>2. file.data[page - first] \in Page /\ page \in PageNr
    BY <1>0, <1>1, <2>1, AtPage
  <2>3. PICK new \in Chip : Command(new)
    BY <1>0, <1>1, <1>7, <2>2, AaiWordType DEF SstWord
  <2>4. QED  BY <1>0, <2>3, CommandType
<1>8. CASE SstDisarm
  <2>1. [chip EXCEPT !.wel = FALSE] \in Chip  BY <1>0 DEF Chip
  <2>2. QED  BY <1>0, <1>8, <2>1, CommandType DEF SstDisarm
<1>9. CASE EraseLocked
  BY <1>0, <1>9, BlankType DEF EraseLocked, Other, Latch
<1>10. CASE FlashDone
  BY <1>0, <1>10 DEF FlashDone, Chip
<1>11. CASE UNCHANGED vars
  BY <1>0, <1>11 DEF vars
<1>12. QED
  BY <1>2, <1>3, <1>4, <1>5, <1>6, <1>7, <1>8, <1>9, <1>10, <1>11
  DEF Next, Session, Host, WaitAsk, WaitPoll, NextPage, Advance, ProgramDone, Compare,
      CompareDone, Fetch, FetchDone, EraseCheck, EraseSectorsDone, EndErase,
      EndProgram, EndCall, Erase, Exit, Read, Program, Verify

LEMMA TypeInit == Init => TypeInv
<1> SUFFICES ASSUME Init PROVE TypeInv
  OBVIOUS
<1>1. Wires
  <2>1. PICK c \in Contents, p \in BOOLEAN :
          chip = [cells |-> c, todo |-> c, busy |-> FALSE, wel |-> FALSE,
                  protect |-> p, ewsr |-> FALSE, sram |-> Blank]
    BY DEF Init
  <2>2. c \in Cells  BY ContentAssumption
  <2>3. chip \in Chip  BY <2>1, <2>2, BlankType DEF Chip
  <2>4. QED  BY <2>3, BlankType DEF Init, Wires, Other, Latch
<1>2. file \in File
  <2>1. [n \in PageNr |-> Blank] \in Cells  BY BlankType DEF Cells
  <2>2. QED  BY <2>1 DEF Init, File
<1>3. Shape
  BY <1>2, Sizes
  DEF Init, Shape, HostOK, StageOK, FamilyOK, PlaceOK, Stages, Stage, Waiting, Walking,
      Writing, Erasing, Comparing, NotRun, ByteNr
<1>4. QED  BY <1>1, <1>3, TypeParts

LEMMA TypeStep == TypeInv /\ [Next]_vars => TypeInv'
<1> SUFFICES ASSUME TypeInv, [Next]_vars PROVE TypeInv'
  OBVIOUS
<1>1. Wires'  BY WiresStep
<1>2. Shape'  BY ShapeStep, TypeParts
<1>3. QED  BY <1>1, <1>2 DEF TypeInv, TypeOK, Wires, Shape, HostOK

(* The flash, the bridge and the running call keep their types, whatever   *)
(* the sizes of the flash and the arguments.                               *)
THEOREM TypeCorrect == Spec => []TypeOK
<1>1. TypeInv => TypeOK  BY DEF TypeInv
<1>2. QED  BY <1>1, TypeInit, TypeStep, PTL DEF Spec

------------------------------------------------------------------------------
(***************************************************************************)
(* BusyInv.                                                                *)
(***************************************************************************)
Settled(c) == ~c.busy => c.todo = c.cells

(* What a command does to a flash that is not busy: erases and programs    *)
(* may start work, the others leave it idle.                               *)
LEMMA CommandsSettle ==
  ASSUME chip \in Chip, Settled(chip)
  PROVE  /\ \A cells : Settled(Start(cells))
         /\ \A p : Settled(SectorErase(p)) /\ Settled(At45Erase(p))
         /\ Settled(BulkErase)
         /\ \A p, data, n : Settled(PageProgram(p, data, n))
                            /\ Settled(BufferProgram(p, data, n))
<1>1. ASSUME NEW cells PROVE Settled(Start(cells))
  BY DEF Start, Settled, Chip
<1>2. ASSUME NEW p, NEW data, NEW n PROVE Settled(BufferProgram(p, data, n))
  <2> DEFINE sram == [b \in ByteNr |-> IF b < n THEN data[b] ELSE chip.sram[b]]
             cells == [chip.cells EXCEPT ![PageAddress(p)] = sram]
  <2>1. BufferProgram(p, data, n) = [Start(cells) EXCEPT !.sram = sram]
    BY DEF BufferProgram
  <2> HIDE DEF sram, cells
  <2>2. QED  BY <2>1 DEF Start, Settled, Chip
<1>3. QED
  BY <1>1, <1>2 DEF SectorErase, At45Erase, BulkErase, PageProgram, IfEnabled

LEMMA IdleCommands ==
  ASSUME chip \in Chip, Settled(chip)
  PROVE  /\ WriteEnable.busy = chip.busy /\ Settled(WriteEnable)
         /\ \A c : Setup(c).busy = chip.busy /\ Settled(Setup(c))
         /\ \A p, b, data : AaiWord(p, b, data).busy = chip.busy
                            /\ Settled(AaiWord(p, b, data))
<1>1. WriteEnable.busy = chip.busy /\ Settled(WriteEnable)
  BY DEF Settled, Chip, WriteEnable
<1>2. ASSUME NEW c PROVE Setup(c).busy = chip.busy /\ Settled(Setup(c))
  BY DEF Settled, Chip, WriteEnable, Setup
<1>3. ASSUME NEW p, NEW b, NEW data
      PROVE  AaiWord(p, b, data).busy = chip.busy /\ Settled(AaiWord(p, b, data))
  <2> DEFINE word2 == [c \in ByteNr |-> IF c \in {b, b + 1} THEN data[c] ELSE 1]
             cells == [chip.cells EXCEPT ![p] = Burn(@, word2, PageSize)]
  <2>1. AaiWord(p, b, data) = IF chip.wel /\ ~chip.protect
                              THEN [chip EXCEPT !.cells = cells, !.todo = cells] ELSE chip
    BY DEF AaiWord
  <2> HIDE DEF cells
  <2>2. QED  BY <2>1 DEF Settled, Chip
<1>4. QED  BY <1>1, <1>2, <1>3

(* The parts of BusyInv about the host, for a step that sends a command.   *)
LEMMA BusyCommand ==
  ASSUME chip \in Chip, BusyInv, pc \notin {"wait", "poll", "end", "exit"},
         NEW new, Command(new), erased' = erased
  PROVE  /\ chip.busy => LeftBehind
         /\ chip'.busy => chip.busy \/ new.busy
         /\ Settled(new) => Settled(chip')
         /\ BusyIsWaitedFor'
BY DEF BusyInv, BusyOnlyIf, BusyIsWaitedFor, LeftBehind, Command, Settled, Waiting

(* A step of wait.                                                         *)
LEMMA WaitBusy ==
  ASSUME TypeInv, BusyInv, WaitAsk \/ WaitPoll
  PROVE  BusyInv'
<1> USE DEF BusyInv, BusyOnlyIf, EmptyWrite, BusyIsWaitedFor, LeftBehind, Waiting, Stage
<1>1. Wires /\ Shape  BY TypeParts
<1>2. UNCHANGED <<chip, ignored, family, back, until, args, loop, erased>>
      /\ latch' = StatusRegister
  BY DEF WaitAsk, WaitPoll, ReadStatus, Goto, poll
<1>3. latch'.busy = chip.busy  BY <1>2 DEF StatusRegister
<1>4. pc \in {"wait", "poll"}  BY DEF WaitAsk, WaitPoll
<1>5. CASE WaitAsk
  BY <1>2, <1>3, <1>4, <1>5 DEF WaitAsk, Goto, args, loop
<1>6. CASE WaitPoll
  <2>1. \/ pc' = "poll"
        \/ pc' = back /\ (until = "nothing" \/ Sees)
        \/ pc' = "end" /\ ret' = -1
    BY <1>6, <1>1 DEF WaitPoll, Shape, HostOK
  <2>2. call \in {"write", "erase"}
    BY <1>1, <1>4 DEF Shape, StageOK
  <2>3. CASE pc' = "poll" \/ (pc' = "end" /\ ret' = -1)
    BY <1>1, <1>2, <1>3, <1>4, <1>6, <2>2, <2>3 DEF WaitPoll, args, loop
  <2>4. CASE pc' = back /\ (until = "nothing" \/ Sees)
    <3>1. chip.busy => LeftBehind
      BY <1>1, <1>6, <2>4 DEF Sees, WaitPoll, Shape, HostOK
    <3>2. back # "wait" /\ back # "poll"
      BY <1>1, <1>4 DEF Shape, StageOK
    <3>3. QED  BY <1>1, <1>2, <1>3, <1>4, <1>6, <2>2, <2>4, <3>1, <3>2
           DEF WaitPoll, args, loop
  <2>5. QED  BY <2>1, <2>3, <2>4
<1>7. QED  BY <1>5, <1>6

(* A step that starts work and waits for it.                               *)
LEMMA WorkBusy ==
  ASSUME TypeInv, BusyInv,
         EraseSector \/ ProgramPage \/ EraseBulk \/ EraseSectors
  PROVE  BusyInv'
<1>1. Wires /\ Shape /\ Settled(chip) /\ chip \in Chip
  BY TypeParts DEF BusyInv, Settled, Wires
<1>2. PICK new : Command(new) /\ Settled(new)
  BY <1>1, CommandsSettle DEF EraseSector, ProgramPage, EraseBulk, EraseSectors
<1>3. pc \in {"erase", "program", "bulk", "sectors"} /\ erased' = erased
  BY DEF EraseSector, ProgramPage, EraseBulk, EraseSectors
<1>4. Settled(chip') /\ BusyIsWaitedFor'
  BY <1>1, <1>2, <1>3, BusyCommand
<1>5. /\ pc' = "wait" /\ until' = "ready"
      /\ back' \in {"advance", "enable", "sectors", "end"}
  BY DEF EraseSector, ProgramPage, EraseBulk, EraseSectors, Await
<1>6. EmptyWrite'
  BY <1>3
  DEF BusyInv, EmptyWrite, EraseSector, ProgramPage, EraseBulk, EraseSectors, args
<1>7. QED
  BY <1>4, <1>5, <1>6 DEF BusyInv, BusyOnlyIf, Waiting, Stage, Settled

(* A step that prepares or ends work.                                      *)
LEMMA PrepareBusy ==
  ASSUME TypeInv, BusyInv,
         \/ SstSetup \/ NextSector \/ EnableProgram \/ SstArm \/ SstWord
         \/ SstDisarm \/ Ewsr \/ Wrsr \/ BulkEnable
  PROVE  BusyInv'
<1>1. Wires /\ Shape /\ Settled(chip) /\ chip \in Chip
  BY TypeParts DEF BusyInv, Settled, Wires
<1>2. [chip EXCEPT !.wel = FALSE].busy = chip.busy /\ Settled([chip EXCEPT !.wel = FALSE])
  BY <1>1 DEF Chip, Settled
<1> DEFINE Prepares(new) == Command(new) /\ Settled(new) /\ new.busy = chip.busy
<1>3. \E new : Prepares(new)
  <2>1. ASSUME NEW c, Command(Setup(c)) PROVE Prepares(Setup(c))
    BY <1>1, <2>1, IdleCommands
  <2>2. ASSUME NEW q, NEW b, NEW data, Command(AaiWord(q, b, data))
        PROVE  Prepares(AaiWord(q, b, data))
    BY <1>1, <2>2, IdleCommands
  <2>3. CASE Command(WriteEnable) \/ Command([chip EXCEPT !.wel = FALSE])
    BY <1>1, <1>2, <2>3, IdleCommands
  <2>4. \/ Command(Setup(SetupScript[j + 1])) \/ Command(Setup("EWSR"))
        \/ Command(Setup("WRSR")) \/ Command(AaiWord(page, word, file.data[page - first]))
        \/ Command(WriteEnable) \/ Command([chip EXCEPT !.wel = FALSE])
    BY DEF SstSetup, NextSector, EnableProgram, SstArm, SstWord, SstDisarm, Ewsr, Wrsr,
           BulkEnable
  <2> HIDE DEF Prepares
  <2>5. QED  BY <2>1, <2>2, <2>3, <2>4
<1>4. /\ pc \in Writing \cup Erasing
      /\ UNCHANGED <<erased, family, size, call, first, file>>
  BY DEF SstSetup, NextSector, EnableProgram, SstArm, SstWord, SstDisarm, Ewsr, Wrsr,
         BulkEnable, args, loop, Writing, Erasing
<1>5. Settled(chip') /\ BusyIsWaitedFor' /\ (chip'.busy => LeftBehind)
  BY <1>1, <1>3, <1>4, BusyCommand DEF Writing, Erasing
<1>6. LeftBehind => LeftBehind'
  <2> SUFFICES ASSUME LeftBehind PROVE LeftBehind'
    OBVIOUS
  <2>1. ~Waiting /\ Stage = pc  BY <1>4 DEF Waiting, Stage, Writing, Erasing
  <2>2. call = "write" /\ erased = -1 /\ (size = 0 \/ page = first)
    BY <1>1, <1>4, <2>1
    DEF LeftBehind, Shape, StageOK, Writing, Erasing, HostOK, NotRun
  <2>3. CASE size = 0
    BY <1>4, <2>2, <2>3 DEF LeftBehind
  <2>4. CASE size # 0
    <3>1. pc \in {"setup", "page", "erase"}
      BY <1>1, <1>4, <2>1, <2>2, <2>4
      DEF LeftBehind, Shape, StageOK, FamilyOK, Writing, Erasing,
          SstSetup, NextSector, EnableProgram, SstArm, SstWord, SstDisarm, Ewsr, Wrsr,
          BulkEnable
    <3>2. (first - first) * PageSize = 0  BY <1>1, Sizes, Products DEF Shape, HostOK
    <3>3. pc = "page" => left > 0
      BY <1>1, <2>1, <2>2, <2>4, <3>2 DEF Shape, PlaceOK, HostOK, Walking
    <3>4. (SstSetup \/ NextSector) /\ page' = page
      BY <1>1, <3>1, <3>3
      DEF Shape, HostOK,
       SstSetup, NextSector, EnableProgram, SstArm, SstWord, SstDisarm, Ewsr, Wrsr,
          BulkEnable, loop
    <3>5. Stage' \in {"setup", "page", "erase"}
      BY <3>4 DEF SstSetup, NextSector, Await, Goto, Stage, Waiting
    <3>6. QED  BY <1>4, <2>2, <2>4, <3>1, <3>4, <3>5, <2>1 DEF LeftBehind
  <2>5. QED  BY <2>3, <2>4
<1>7. Stage' \in {"setup", "page"} /\ page' = first' => sector_nr' = 0
  BY <1>1
  DEF BusyInv, SstSetup, NextSector, EnableProgram, SstArm, SstWord, SstDisarm, Ewsr,
      Wrsr, BulkEnable, Await, Goto, Stage, Waiting, loop, args
<1>8. EmptyWrite'
  BY <1>1, <1>4 DEF BusyInv, EmptyWrite, Writing, Erasing
<1>9. pc' # "poll"
  BY DEF SstSetup, NextSector, EnableProgram, SstArm, SstWord, SstDisarm, Ewsr,
         Wrsr, BulkEnable, Await, Goto
<1>10. QED
  BY <1>5, <1>6, <1>7, <1>8, <1>9 DEF BusyInv, BusyOnlyIf, Settled

(* Steps inside a call that send nothing, or only ask for a page.          *)
LEMMA InsideBusy ==
  ASSUME TypeInv, BusyInv, UNCHANGED <<chip, ignored>>,
         \/ NextPage \/ Advance \/ ProgramDone \/ Compare \/ CompareDone \/ Fetch
         \/ FetchDone \/ EraseCheck \/ EraseLocked \/ EraseSectorsDone
  PROVE  BusyInv'
<1> USE DEF Waiting, Stage
<1>1. Wires /\ Shape  BY TypeParts
<1>2. /\ pc \in {"page", "advance", "compare", "fetch", "check", "locked", "sectors"}
      /\ UNCHANGED <<erased, family, size, call, first, file>>
      /\ pc' \notin {"wait", "poll", "setup"}
  BY <1>1
  DEF NextPage, Advance, ProgramDone, Compare, CompareDone, Fetch, FetchDone, EraseCheck,
      EraseLocked, EraseSectorsDone, Return, Goto, args, loop, Writing, Erasing
<1>3. chip.busy => LeftBehind
  BY <1>2 DEF BusyInv, BusyOnlyIf, Writing, Erasing
<1>4. chip.busy => LeftBehind'
  <2> SUFFICES ASSUME LeftBehind PROVE LeftBehind'
    BY <1>3
  <2>1. /\ erased = -1
        /\ call \in {"read", "verify"} \/ size = 0 \/ (pc = "page" /\ page = first)
    BY <1>2 DEF LeftBehind
  <2>2. CASE Compare \/ CompareDone \/ Fetch \/ FetchDone
    <3>1. call \in {"read", "verify"} \/ (call = "check" /\ size = 0)
      BY <1>1, <2>1, <2>2
      DEF Compare, CompareDone, Fetch, FetchDone, LeftBehind, Shape, StageOK, Comparing
    <3>2. QED  BY <1>2, <2>1, <3>1 DEF LeftBehind
  <2>3. CASE NextPage
    <3>1. CASE size = 0
      BY <1>1, <1>2, <2>1, <2>3, <3>1 DEF NextPage, LeftBehind, Shape, StageOK, Writing
    <3>2. CASE size # 0
      <4>1. page = first /\ pc = "page" /\ call = "write"
        BY <1>1, <2>1, <2>3, <3>2 DEF NextPage, Shape, StageOK, Writing
      <4>2. sector_nr = 0  BY <4>1 DEF BusyInv
      <4>3. SectorOf(page) \in Nat  BY <1>1, Sectors DEF Shape, HostOK
      <4>4. family = "at45" /\ pc' = "program" /\ page' = page
        BY <2>3, <4>2, <4>3 DEF NextPage, Goto, loop
      <4>5. QED  BY <1>2, <2>1, <4>1, <4>4 DEF LeftBehind
    <3>3. QED  BY <3>1, <3>2
  <2>4. CASE Advance
    <3>1. pc = "advance" /\ left > 0  BY <1>1, <2>4 DEF Advance, Shape, PlaceOK
    <3>2. size = 0
      BY <1>1, <2>1, <3>1 DEF LeftBehind, Shape, StageOK, Writing
    <3>3. (page - first) * PageSize < size  BY <1>1, <3>1, AtPage
    <3>4. (page - first) * PageSize \in Nat
      <4>1. page - first \in Nat
        BY <1>1, <3>1, Sizes DEF Shape, HostOK, PlaceOK, Walking
      <4>2. QED  BY <4>1, Sizes
    <3>5. QED  BY <3>2, <3>3, <3>4
  <2>5. CASE ProgramDone
    <3>1. pc = "page" /\ left <= 0 /\ call = "write"
      BY <1>1, <2>5 DEF ProgramDone, Shape, StageOK, Writing
    <3>2. size = 0
      <4>1. size \in Nat /\ first \in Int /\ (page = first \/ size = 0)
        BY <1>1, <2>1, <3>1, Sizes DEF Shape, HostOK
      <4>2. (first - first) * PageSize = 0  BY <4>1, Products
      <4>3. left = size - (page - first) * PageSize
        BY <1>1, <3>1 DEF Shape, PlaceOK, Walking
      <4>4. QED  BY <3>1, <4>1, <4>2, <4>3
    <3>3. QED  BY <1>2, <2>1, <3>1, <3>2 DEF LeftBehind
  <2>6. CASE EraseCheck \/ EraseLocked \/ EraseSectorsDone
    BY <1>1, <2>1, <2>6
    DEF EraseCheck, EraseLocked, EraseSectorsDone, Shape, StageOK, Erasing, NotRun
  <2>7. QED  BY <2>2, <2>3, <2>4, <2>5, <2>6
<1>5. pc' = "page" /\ page' = first' => sector_nr' = 0
  <2> SUFFICES ASSUME pc' = "page" PROVE page' # first'
    OBVIOUS
  <2>1. Advance /\ pc = "advance"
    BY <1>1
    DEF NextPage, Advance, ProgramDone, Compare, CompareDone, Fetch, FetchDone,
        EraseCheck, EraseLocked, EraseSectorsDone, Return, Goto, Shape, FamilyOK
  <2>2. page' > page /\ first' = first /\ page >= first
    BY <1>1, <1>2, <2>1, Sizes DEF Advance, Shape, HostOK, PlaceOK, Walking
  <2>3. QED  BY <1>1, <2>2, Sizes DEF Shape, HostOK
<1>6. EmptyWrite'
  BY <1>2 DEF BusyInv, EmptyWrite, Writing, Erasing
<1>7. QED
  BY <1>2, <1>4, <1>5, <1>6 DEF BusyInv, BusyOnlyIf, BusyIsWaitedFor

(* The steps between calls.                                                *)
LEMMA BetweenBusy ==
  ASSUME TypeInv, BusyInv,
         \/ EndErase \/ EndProgram \/ EndCall \/ Erase \/ Exit
         \/ \E offset \in Offsets, length \in RLengths :
              \/ Read(offset, length)
              \/ \E f \in Files : Program(f, offset, length) \/ Verify(f, offset, length)
  PROVE  BusyInv'
<1> USE Sizes
        DEF BusyInv, BusyOnlyIf, BusyIsWaitedFor, EmptyWrite, LeftBehind, Waiting, Stage,
            NoTransfer, args, loop, poll
<1>1. Wires /\ Shape  BY TypeParts
<1>2. CASE EndErase
  BY <1>1, <1>2 DEF EndErase, Goto, Shape, StageOK, NotRun
<1>3. CASE EndCall \/ Exit \/ Erase
  BY <1>1, <1>3 DEF EndCall, Exit, Erase, Goto, Shape, StageOK, NotRun
<1>4. CASE EndProgram
  <2>1. /\ pc = "end" /\ call = "write" /\ ret = 0 /\ call' = "check"
        /\ UNCHANGED <<chip, ignored, erased, family, file>>
        /\ BeginVerify(file, first, rlength)
    BY <1>4 DEF EndProgram
  <2>2. pc' \in {"end", "compare"} 
    BY <2>1 DEF BeginVerify, Refuse, Return, Goto
  <2>3. size = 0 => size' = 0
    <3>1. CASE file.len = 0
      BY <2>1, <3>1 DEF BeginVerify, Refuse
    <3>2. CASE first = Pages /\ file.len # 0
      <4> DEFINE n == IF rlength # 0 /\ rlength < file.len THEN rlength ELSE file.len
      <4>1. n \in Nat  BY <1>1 DEF Shape, HostOK, File
      <4> HIDE DEF n
      <4>2. Clip(first, n) = 0  BY <3>2, <4>1, ClipFits
      <4>3. size' = 0 \/ size' = Clip(first, n)
        BY <2>1 DEF BeginVerify, Refuse, BeginLoop, n
      <4>4. QED  BY <4>2, <4>3
    <3>3. QED  BY <2>1, <3>1, <3>2
  <2>4. QED  BY <1>1, <2>1, <2>2, <2>3
<1>5. ASSUME NEW offset \in Offsets, NEW length \in RLengths,
             Read(offset, length) \/ \E f \in Files : Verify(f, offset, length)
      PROVE  BusyInv'
  BY <1>1, <1>5 DEF Read, Verify, BeginVerify, Refuse, Return, Goto
<1>6. ASSUME NEW offset \in Offsets, NEW length \in RLengths, NEW f \in Files,
             Program(f, offset, length)
      PROVE  BusyInv'
  <2> DEFINE start == FirstPage(offset)
             n == IF length # 0 THEN length ELSE f.len
  <2>1. /\ start \in Nat /\ n \in Nat
    BY ArgumentAssumption, ContentAssumption, FirstPageType DEF File
  <2>2. /\ pc = "idle" /\ call' = "write" /\ file' = f
        /\ UNCHANGED <<chip, latch, ignored, family, erased>>
    BY <1>6 DEF Program
  <2>3. CASE Refuse(-1)
    BY <1>1, <2>2, <2>3 DEF Refuse, Return
  <2>4. CASE /\ start <= Pages /\ BeginLoop(start, Clip(start, n))
             /\ pc' = (IF family = "sst" THEN "setup" ELSE "page")
    <3>1. Clip(start, n) = 0 => n = 0 \/ start = Pages
      BY <2>1, <2>4, ClipFits
    <3>2. n = 0 => f.len = 0  BY DEF n
    <3> HIDE DEF n, start
    <3>3. QED  BY <1>1, <2>2, <2>4, <3>1, <3>2 DEF BeginLoop
  <2>5. QED  BY <1>6, <2>1, <2>3, <2>4 DEF Program
<1>7. QED  BY <1>2, <1>3, <1>4, <1>5, <1>6

LEMMA BusyInit == Init => BusyInv
BY DEF Init, BusyInv, BusyOnlyIf, BusyIsWaitedFor, EmptyWrite, Stage, Waiting

LEMMA BusyStep == TypeInv /\ BusyInv /\ [Next]_vars => BusyInv'
<1> SUFFICES ASSUME TypeInv, BusyInv, [Next]_vars PROVE BusyInv'
  OBVIOUS
<1>1. CASE Host
  <2>1. NextPage \/ Advance \/ ProgramDone \/ Compare \/ CompareDone \/ Fetch
        \/ FetchDone \/ EraseCheck \/ EraseLocked \/ EraseSectorsDone
          => UNCHANGED <<chip, ignored>>
    BY DEF NextPage, Advance, ProgramDone, Compare, CompareDone, Fetch, FetchDone,
           EraseCheck, EraseLocked, EraseSectorsDone, NoTransfer, ReadPage
  <2>2. QED
    BY <1>1, <2>1, WaitBusy, WorkBusy, PrepareBusy, InsideBusy, BetweenBusy DEF Host
<1>2. CASE Session
  BY <1>2, BetweenBusy DEF Session
<1>3. CASE FlashDone \/ UNCHANGED vars
  <2>1. chip' = chip \/ (~chip'.busy /\ chip'.todo = chip'.cells)
    <3>1. chip \in Chip  BY DEF TypeInv, TypeOK
    <3>2. QED  BY <1>3, <3>1 DEF FlashDone, vars, Chip
  <2>2. QED
    BY <1>3, <2>1
    DEF FlashDone, vars, BusyInv, BusyOnlyIf, BusyIsWaitedFor, EmptyWrite, LeftBehind,
        Stage, Waiting, args, loop, poll
<1>4. QED  BY <1>1, <1>2, <1>3 DEF Next

(* Nothing is sent to a busy flash unless erase gave up on it: however     *)
(* late the statuses are and however long the flash takes, wait sees the   *)
(* end of the work.                                                        *)
THEOREM BusyFlashIsWaitedFor == Spec => []BusyIsWaitedFor
<1>1. BusyInv => BusyIsWaitedFor  BY DEF BusyInv
<1>2. QED  BY <1>1, TypeInit, TypeStep, BusyInit, BusyStep, PTL DEF Spec

------------------------------------------------------------------------------
(***************************************************************************)
(* What the commands that start work do to a flash that waits for them.    *)
(***************************************************************************)
LEMMA StartEffect ==
  ASSUME chip \in Chip, ~chip.busy, Settled(chip), NEW cells
  PROVE  /\ Start(cells).todo = IF chip.protect THEN chip.todo ELSE cells
         /\ Start(cells).protect = chip.protect /\ ~Start(cells).wel
         /\ Start(cells).busy = ~chip.protect
         /\ chip.todo = chip.cells
BY DEF Start, Settled, Chip

LEMMA EraseEffect ==
  ASSUME chip \in Chip, ~chip.busy, Settled(chip), NEW p \in Nat
  PROVE  /\ \A q \in PageNr : SectorErase(p).todo[q] =
              IF chip.wel /\ ~chip.protect /\ SectorOf(q) = SectorOf(PageAddress(p))
              THEN Blank ELSE chip.todo[q]
         /\ \A q \in PageNr : At45Erase(p).todo[q] =
              IF ~chip.protect /\ At45Sector(q) = At45Sector(PageAddress(p))
              THEN Blank ELSE chip.todo[q]
         /\ \A q \in PageNr : BulkErase.todo[q] =
              IF chip.wel /\ ~chip.protect THEN Blank ELSE chip.todo[q]
         /\ SectorErase(p).protect = chip.protect /\ At45Erase(p).protect = chip.protect
         /\ BulkErase.protect = chip.protect
<1>1. chip.todo = chip.cells  BY StartEffect
<1>2. \A c : /\ Start(c).todo = IF chip.protect THEN chip.todo ELSE c
             /\ Start(c).protect = chip.protect
  BY StartEffect
<1> DEFINE sector == [q \in PageNr |->
             IF SectorOf(q) = SectorOf(PageAddress(p)) THEN Blank ELSE chip.cells[q]]
           all == [q \in PageNr |-> Blank]
           at45 == [q \in PageNr |->
             IF At45Sector(q) = At45Sector(PageAddress(p)) THEN Blank ELSE chip.cells[q]]
<1>3. /\ SectorErase(p) = IF chip.wel THEN Start(sector) ELSE chip
      /\ BulkErase = IF chip.wel THEN Start(all) ELSE chip
      /\ At45Erase(p) = Start(at45)
  BY DEF SectorErase, BulkErase, At45Erase, IfEnabled
<1>4. /\ \A q \in PageNr : sector[q] = IF SectorOf(q) = SectorOf(PageAddress(p))
                                       THEN Blank ELSE chip.todo[q]
      /\ \A q \in PageNr : at45[q] = IF At45Sector(q) = At45Sector(PageAddress(p))
                                     THEN Blank ELSE chip.todo[q]
      /\ \A q \in PageNr : all[q] = Blank
  BY <1>1
<1> HIDE DEF sector, all, at45
<1>5. QED  BY <1>2, <1>3, <1>4

LEMMA PageProgramEffect ==
  ASSUME chip \in Chip, ~chip.busy, Settled(chip), NEW p \in Nat, NEW data \in Page, NEW n
  PROVE  /\ \A q \in PageNr : PageProgram(p, data, n).todo[q] =
              IF chip.wel /\ ~chip.protect /\ q = PageAddress(p)
              THEN Burn(chip.todo[q], data, n) ELSE chip.todo[q]
         /\ PageProgram(p, data, n).protect = chip.protect
<1>1. chip.todo = chip.cells /\ chip.cells \in Cells /\ PageAddress(p) \in PageNr
  BY StartEffect, Addresses DEF Chip
<1>2. \A c : /\ Start(c).todo = IF chip.protect THEN chip.todo ELSE c
             /\ Start(c).protect = chip.protect
  BY StartEffect
<1> DEFINE burnt == [chip.cells EXCEPT ![PageAddress(p)] = Burn(@, data, n)]
<1>3. PageProgram(p, data, n) = IF chip.wel THEN Start(burnt) ELSE chip
  BY DEF PageProgram, IfEnabled
<1>4. \A q \in PageNr : burnt[q] = IF q = PageAddress(p) THEN Burn(chip.todo[q], data, n)
                                   ELSE chip.todo[q]
  BY <1>1 DEF Cells
<1> HIDE DEF burnt
<1>5. QED  BY <1>2, <1>3, <1>4

(* The buffer of an AT45 is copied into the page.                          *)
LEMMA BufferProgramEffect ==
  ASSUME chip \in Chip, ~chip.busy, Settled(chip), NEW p \in Nat, NEW data \in Page, NEW n
  PROVE  /\ \A q \in PageNr : q # PageAddress(p) \/ chip.protect
              => BufferProgram(p, data, n).todo[q] = chip.todo[q]
         /\ ~chip.protect => \A b \in ByteNr :
              BufferProgram(p, data, n).todo[PageAddress(p)][b] =
                IF b < n THEN data[b] ELSE chip.sram[b]
         /\ BufferProgram(p, data, n).protect = chip.protect
<1>1. chip.todo = chip.cells /\ chip.cells \in Cells /\ PageAddress(p) \in PageNr
  BY StartEffect, Addresses DEF Chip
<1>2. \A c : /\ Start(c).todo = IF chip.protect THEN chip.todo ELSE c
             /\ Start(c).protect = chip.protect
  BY StartEffect
<1> DEFINE sram == [b \in ByteNr |-> IF b < n THEN data[b] ELSE chip.sram[b]]
           copied == [chip.cells EXCEPT ![PageAddress(p)] = sram]
<1>3. BufferProgram(p, data, n) = [Start(copied) EXCEPT !.sram = sram]
  BY DEF BufferProgram
<1>4. \A b \in ByteNr : sram[b] = IF b < n THEN data[b] ELSE chip.sram[b]
  OBVIOUS
<1> HIDE DEF sram
<1>5. /\ \A q \in PageNr : q # PageAddress(p) => copied[q] = chip.todo[q]
      /\ copied[PageAddress(p)] = sram
  BY <1>1 DEF Cells
<1> HIDE DEF copied
<1>6. /\ BufferProgram(p, data, n).todo = Start(copied).todo
      /\ BufferProgram(p, data, n).protect = Start(copied).protect
  BY <1>3 DEF Start, Chip
<1>7. QED  BY <1>1, <1>2, <1>4, <1>5, <1>6

LEMMA AaiEffect ==
  ASSUME chip \in Chip, ~chip.busy, Settled(chip),
         NEW p \in PageNr, NEW b \in ByteNr, NEW data \in Page
  PROVE  /\ \A q \in PageNr, c \in ByteNr : AaiWord(p, b, data).todo[q][c] =
              IF chip.wel /\ ~chip.protect /\ q = p /\ c \in {b, b + 1}
                 /\ data[c] < chip.todo[q][c]
              THEN data[c] ELSE chip.todo[q][c]
         /\ \A q \in PageNr : q # p => AaiWord(p, b, data).todo[q] = chip.todo[q]
         /\ AaiWord(p, b, data).protect = chip.protect
         /\ AaiWord(p, b, data).wel = chip.wel
         /\ AaiWord(p, b, data).busy = chip.busy
<1> DEFINE word2 == [c \in ByteNr |-> IF c \in {b, b + 1} THEN data[c] ELSE 1]
           cells == [chip.cells EXCEPT ![p] = Burn(@, word2, PageSize)]
<1>1. AaiWord(p, b, data) = IF chip.wel /\ ~chip.protect
                            THEN [chip EXCEPT !.cells = cells, !.todo = cells] ELSE chip
  BY DEF AaiWord
<1>2. chip.todo = chip.cells /\ chip.cells \in Cells
  BY StartEffect DEF Chip
<1>3. /\ \A q \in PageNr : q # p => cells[q] = chip.todo[q]
      /\ cells[p] = Burn(chip.todo[p], word2, PageSize)
  BY <1>2 DEF Cells
<1>4. \A c \in ByteNr : cells[p][c] =
        IF c \in {b, b + 1} /\ data[c] < chip.todo[p][c] THEN data[c] ELSE chip.todo[p][c]
  <2> SUFFICES ASSUME NEW c \in ByteNr
               PROVE  cells[p][c] = IF c \in {b, b + 1} /\ data[c] < chip.todo[p][c]
                                    THEN data[c] ELSE chip.todo[p][c]
    OBVIOUS
  <2>1. chip.todo[p][c] \in {0, 1} /\ data[c] \in {0, 1} /\ c < PageSize
    BY <1>2, Sizes DEF Cells, Page, ByteNr
  <2>2. cells[p][c] = IF chip.todo[p][c] < word2[c] THEN chip.todo[p][c] ELSE word2[c]
    BY <1>3, <2>1 DEF Burn
  <2>3. QED  BY <2>1, <2>2
<1> HIDE DEF cells
<1>5. QED  BY <1>1, <1>3, <1>4 DEF Chip

(* Commands that start no work.                                            *)
LEMMA PrepareEffect ==
  ASSUME chip \in Chip
  PROVE  /\ WriteEnable.todo = chip.todo /\ WriteEnable.protect = chip.protect
         /\ WriteEnable.wel /\ WriteEnable.busy = chip.busy
         /\ \A c : Setup(c).todo = chip.todo
         /\ [chip EXCEPT !.wel = FALSE].todo = chip.todo
         /\ [chip EXCEPT !.wel = FALSE].protect = chip.protect
BY DEF WriteEnable, Setup, Chip

------------------------------------------------------------------------------
(***************************************************************************)
(* StaysInScope.                                                           *)
(***************************************************************************)
(* A page with bytes to do belongs to the call.                            *)
LEMMA TouchedPage ==
  ASSUME Shape, Stage \in {"page", "erase", "enable", "program", "advance", "words"},
         left > 0
  PROVE  page \in Touched /\ call = "write"
<1>1. /\ page - first \in PageNr /\ page = first + (page - first) /\ call = "write"
      /\ (page - first) * PageSize < size
  BY AtPage, Sizes DEF Shape, HostOK, StageOK, Writing
<1>2. InRange(page - first, 0)  BY <1>1, Sizes, Products DEF InRange, PageNr
<1>3. QED  BY <1>1, <1>2 DEF Touched

LEMMA ScopeStep ==
  ASSUME TypeInv, BusyInv, Pages <= AddrPages, [Next]_vars,
         NEW p \in PageNr, chip'.todo[p] # chip.todo[p]
  PROVE  p \in Scope
<1>1. Wires /\ Shape /\ chip \in Chip /\ Settled(chip)
  BY TypeParts DEF Wires, BusyInv, Settled
<1>2. \A new : Command(new) => ~chip.busy /\ chip' = new /\ new.todo[p] # chip.todo[p]
  BY DEF Command
<1>3. \/ EraseSector \/ ProgramPage \/ SstWord \/ EraseBulk \/ EraseSectors
  <2>1. chip' # chip  OBVIOUS
  <2>2. CASE FlashDone
    BY <1>1, <2>2 DEF FlashDone, Chip
  <2>3. CASE \/ SstSetup \/ NextSector \/ EnableProgram \/ SstArm \/ Ewsr \/ Wrsr
             \/ BulkEnable \/ SstDisarm
    BY <1>1, <1>2, <2>3, PrepareEffect
    DEF SstSetup, NextSector, EnableProgram, SstArm, Ewsr, Wrsr, BulkEnable, SstDisarm
  <2>4. QED
    BY <2>1, <2>2, <2>3
    DEF Next, Session, Host, NoTransfer, ReadStatus, ReadPage, vars, WaitAsk, WaitPoll,
        NextPage, Advance, ProgramDone, Compare, CompareDone, Fetch, FetchDone,
        EraseCheck, EraseLocked, EraseSectorsDone, EndErase, EndProgram, EndCall,
        Erase, Exit, Read, Program, Verify
<1>4. CASE EraseBulk \/ EraseSectors
  BY <1>1, <1>4 DEF EraseBulk, EraseSectors, Shape, StageOK, Erasing, Stage, Waiting, Scope
<1>5. CASE EraseSector
  <2>1. Stage = "erase" /\ left > 0 /\ family # "at45" /\ page \in Nat
    BY <1>1, <1>5 DEF EraseSector, Shape, HostOK, PlaceOK, FamilyOK, Stage, Waiting
  <2>2. page \in Touched /\ call = "write" /\ PageAddress(page) = page
    BY <1>1, <2>1, TouchedPage, AtPage, Addresses, Sizes DEF PageNr
  <2>3. SectorOf(p) = SectorOf(page)
    BY <1>1, <1>2, <1>5, <2>1, <2>2, EraseEffect DEF EraseSector
  <2>4. QED  BY <2>1, <2>2, <2>3 DEF Scope
<1>6. CASE ProgramPage
  <2>1. Stage = "program" /\ left > 0 /\ page \in Nat
    BY <1>1, <1>6 DEF ProgramPage, Shape, HostOK, PlaceOK, Stage, Waiting
  <2>2. /\ page \in Touched /\ call = "write" /\ PageAddress(page) = page
        /\ page - first \in PageNr
    BY <1>1, <2>1, TouchedPage, AtPage, Addresses, Sizes DEF PageNr
  <2>3. file.data[page - first] \in Page
    BY <1>1, <2>2 DEF Shape, HostOK, File, Cells
  <2> DEFINE D == file.data[page - first]
  <2>4. \/ Command(BufferProgram(page, D, PageLength))
        \/ Command(PageProgram(page, D, PageLength))
    BY <1>6 DEF ProgramPage
  <2> HIDE DEF D
  <2>5. ASSUME ~chip.busy
        PROVE  /\ BufferProgram(page, D, PageLength).todo[p] # chip.todo[p] => p = page
               /\ PageProgram(page, D, PageLength).todo[p] # chip.todo[p] => p = page
    <3>1. D \in Page  BY <2>3 DEF D
    <3> DEFINE n == PageLength
    <3> HIDE DEF n
    <3>2. PageProgram(page, D, n).todo[p] =
            IF chip.wel /\ ~chip.protect /\ p = PageAddress(page)
            THEN Burn(chip.todo[p], D, n) ELSE chip.todo[p]
      BY <1>1, <2>1, <2>5, <3>1, PageProgramEffect
    <3>3. p # PageAddress(page) => BufferProgram(page, D, n).todo[p] = chip.todo[p]
      BY <1>1, <2>1, <2>5, <3>1, BufferProgramEffect
    <3>4. QED  BY <2>2, <3>2, <3>3 DEF n
  <2>6. p = page
    BY <1>2, <2>4, <2>5
  <2>7. QED  BY <2>2, <2>6 DEF Scope
<1>7. CASE SstWord
  <2>1. Stage = "words" /\ left > 0 /\ word \in ByteNr
    BY <1>1, <1>7 DEF SstWord, Shape, HostOK, Stage, Waiting
  <2>2. /\ page \in Touched /\ call = "write" /\ page \in PageNr /\ page - first \in PageNr
        /\ family = "sst"
    BY <1>1, <2>1, TouchedPage, AtPage DEF Shape, FamilyOK
  <2>3. file.data[page - first] \in Page
    BY <1>1, <2>2 DEF Shape, HostOK, File, Cells
  <2>4. p = page
    BY <1>1, <1>2, <1>7, <2>1, <2>2, <2>3, AaiEffect DEF SstWord
  <2>5. QED  BY <2>2, <2>4 DEF Scope
<1>8. QED  BY <1>3, <1>4, <1>5, <1>6, <1>7

(* No command changes a page outside the range of the call and the sectors *)
(* it touches, on a flash whose pages the two address bytes tell apart.    *)
THEOREM CallStaysInScope ==
  ASSUME Pages <= AddrPages
  PROVE  Spec => StaysInScope
<1>1. TypeInv /\ BusyInv /\ [Next]_vars
        => [\A p \in PageNr : chip'.todo[p] # chip.todo[p] => p \in Scope]_vars
  BY ScopeStep
<1>2. QED
  BY <1>1, TypeInit, TypeStep, BusyInit, BusyStep, PTL DEF Spec, StaysInScope

------------------------------------------------------------------------------
(***************************************************************************)
(* EraseErases.                                                            *)
(***************************************************************************)
(* The erase of an AT45 visits the pages 0, BlockPages and the starts of   *)
(* the sectors, in this order.                                             *)
EraseInv ==
  /\ Stage = "bulk" => chip.wel
  /\ Stage = "sectors" =>
       /\ page = 0 \/ page = BlockPages \/ \E m \in 0..page : page = m * SectorPages
       /\ ~chip.protect => \A q \in PageNr : q < page => chip.todo[q] = Blank
  /\ Stage = "end" /\ call = "erase" /\ ret = 0 /\ ~chip.protect
       => \A q \in PageNr : chip.todo[q] = Blank


(* The pages of a sector.                                                  *)
LEMMA SectorBlock ==
  ASSUME NEW m \in Nat, NEW q \in Nat
  PROVE  /\ SectorOf(q) = m <=> m * SectorPages <= q /\ q < (m + 1) * SectorPages
         /\ (m + 1) * SectorPages = m * SectorPages + SectorPages
         /\ m * SectorPages \in Nat
<1>1. SectorPages \in Nat /\ SectorPages > 0  BY Sizes
<1>2. QED  BY <1>1 DEF SectorOf

(* A flash that is being erased is not busy between two commands.          *)
LEMMA IdleErase ==
  ASSUME TypeInv, BusyInv, pc \in Erasing
  PROVE  ~chip.busy /\ Stage = pc /\ call = "erase" /\ Settled(chip) /\ chip \in Chip
BY TypeParts
DEF BusyInv, BusyOnlyIf, LeftBehind, Stage, Waiting, Erasing, Settled, Shape, StageOK,
    NotRun, Wires

(* One step of erase_at45 gets to the next place with all before it blank. *)
LEMMA EraseSectorsStep ==
  ASSUME TypeInv, BusyInv, EraseInv, EraseSectors,
         Pages <= AddrPages, BlockPages <= SectorPages
  PROVE  EraseInv'
<1>1. /\ pc = "sectors" /\ page < Pages /\ Command(At45Erase(page))
      /\ pc' = "wait" /\ back' = "sectors"
      /\ page' = IF page = 0 THEN BlockPages
                 ELSE IF page = BlockPages THEN SectorPages ELSE page + SectorPages
  BY DEF EraseSectors, Await
<1>2. ~chip.busy /\ Stage = "sectors" /\ Settled(chip) /\ chip \in Chip
  BY <1>1, IdleErase DEF Erasing
<1>3. page \in PageNr /\ PageAddress(page) = page /\ page \in Nat
  BY <1>1, Addresses, Sizes, TypeParts DEF Shape, HostOK, PageNr
<1>4. /\ \A q \in PageNr : chip'.todo[q] =
           IF ~chip.protect /\ At45Sector(q) = At45Sector(page) THEN Blank ELSE chip.todo[q]
      /\ chip'.protect = chip.protect
  BY <1>1, <1>2, <1>3, EraseEffect DEF Command
<1>5. /\ page = 0 \/ page = BlockPages \/ \E m \in 0..page : page = m * SectorPages
      /\ ~chip.protect => \A q \in PageNr : q < page => chip.todo[q] = Blank
  BY <1>2 DEF EraseInv
<1>6. /\ page' = 0 \/ page' = BlockPages \/ \E m \in 0..page' : page' = m * SectorPages
      /\ \A q \in PageNr : q >= page /\ q < page' => At45Sector(q) = At45Sector(page)
  <2>1. CASE page = 0
    BY <1>1, <2>1, Sizes DEF At45Sector, PageNr
  <2>2. CASE page = BlockPages /\ page # 0
    <3>1. page' = SectorPages /\ 1 * SectorPages = SectorPages /\ 1 \in 0..SectorPages
      BY <1>1, <2>2, Sizes
    <3>2. ASSUME NEW q \in PageNr, q >= page, q < page'
          PROVE  SectorOf(q) = 0
      BY <3>1, <3>2, SectorBlock, Sizes DEF PageNr
    <3>3. ASSUME NEW q \in PageNr, q >= page, q < page'
          PROVE  At45Sector(q) = 0 /\ At45Sector(page) = 0
      <4>1. SectorOf(q) = 0 /\ SectorOf(page) = 0
        <5>1. page < page' /\ page >= page
          BY <1>3, <3>1, <3>3, Sizes DEF PageNr
        <5>2. QED  BY <1>3, <3>2, <3>3, <5>1
      <4>2. ~(q < BlockPages) /\ ~(page < BlockPages)
        BY <2>2, <3>3, Sizes DEF PageNr
      <4>3. QED  BY <4>1, <4>2 DEF At45Sector
    <3>4. QED  BY <3>1, <3>3
  <2>3. CASE page # BlockPages /\ page # 0
    <3>1. PICK m \in 0..page : page = m * SectorPages
      BY <1>5, <2>3
    <3>2. m \in Nat /\ m >= 1 /\ page >= SectorPages
      <4>1. m \in Nat  BY <1>3, <3>1
      <4>2. m # 0  BY <2>3, <3>1, Sizes
      <4>3. m * SectorPages = (m - 1) * SectorPages + SectorPages /\ (m - 1) * SectorPages \in Nat
        BY <4>1, <4>2, SectorBlock
      <4>4. QED  BY <3>1, <4>1, <4>2, <4>3, Sizes
    <3>3. page' = (m + 1) * SectorPages /\ page' \in Nat /\ m + 1 \in 0..page'
      <4>1. page' = page + SectorPages  BY <1>1, <2>3
      <4>2. QED  BY <1>3, <3>1, <3>2, <4>1, SectorBlock, Sizes
    <3>4. ASSUME NEW q \in PageNr, q >= page, q < page'
          PROVE  At45Sector(q) = m
      <4>1. SectorOf(q) = m  BY <3>1, <3>2, <3>3, <3>4, SectorBlock DEF PageNr
      <4>2. ~(q < BlockPages)  BY <1>3, <3>2, <3>4, Sizes DEF PageNr
      <4>3. QED  BY <4>1, <4>2 DEF At45Sector
    <3>5. At45Sector(page) = m
      <4>1. page < page'  BY <1>1, <1>3, <2>3, Sizes
      <4>2. QED  BY <1>3, <3>4, <4>1
    <3>6. QED  BY <3>3, <3>4, <3>5
  <2>4. QED  BY <2>1, <2>2, <2>3
<1>7. ASSUME ~chip.protect, NEW q \in PageNr, q < page'
      PROVE  chip'.todo[q] = Blank
  <2>1. q < page \/ q >= page  BY <1>3 DEF PageNr
  <2>2. QED  BY <1>4, <1>5, <1>6, <1>7, <2>1
<1>8. Stage' = "sectors"  BY <1>1 DEF Stage, Waiting
<1>9. QED  BY <1>4, <1>6, <1>7, <1>8 DEF EraseInv

LEMMA EraseStep ==
  ASSUME TypeInv, BusyInv, EraseInv, [Next]_vars,
         Pages <= AddrPages, BlockPages <= SectorPages
  PROVE  EraseInv'
<1>1. Shape /\ Shape'  BY TypeStep, TypeParts, ShapeStep
<1>2. CASE call' # "erase"
  BY <1>1, <1>2 DEF EraseInv, Shape, StageOK, Erasing
<1>3. call' = "erase" =>
        \/ Erase \/ Exit \/ EndErase \/ FlashDone \/ UNCHANGED vars \/ WaitAsk \/ WaitPoll
        \/ Ewsr \/ Wrsr \/ EraseCheck \/ BulkEnable \/ EraseBulk
        \/ EraseLocked \/ EraseSectors \/ EraseSectorsDone
  BY <1>1
  DEF Next, Session, Host, SstSetup, NextSector, EraseSector, NextPage, EnableProgram,
      ProgramPage, Advance, ProgramDone, SstArm, SstWord, SstDisarm, Compare, CompareDone,
      Fetch, FetchDone, EndProgram, EndCall, Read, Program, Verify, args, Shape, StageOK,
      Writing, Comparing, Stage, Waiting
<1>4. CASE Erase \/ Exit \/ EndErase \/ Ewsr \/ Wrsr \/ EraseCheck
  BY <1>4 DEF Erase, Exit, EndErase, Ewsr, Wrsr, EraseCheck, EraseInv, Goto, Return,
              Stage, Waiting
<1>5. CASE BulkEnable
  <2>1. ~chip.busy /\ chip \in Chip  BY <1>5, IdleErase DEF BulkEnable, Erasing
  <2>2. chip'.wel  BY <1>5, <2>1, PrepareEffect DEF BulkEnable, Command
  <2>3. QED  BY <1>5, <2>2 DEF BulkEnable, EraseInv, Goto, Stage, Waiting
<1>6. CASE EraseBulk
  <2>1. ~chip.busy /\ chip \in Chip /\ Settled(chip) /\ Stage = "bulk"
    BY <1>6, IdleErase DEF EraseBulk, Erasing
  <2>2. chip.wel  BY <2>1 DEF EraseInv
  <2>3. chip' = BulkErase  BY <1>6, <2>1 DEF EraseBulk, Command
  <2>4. 0 \in Nat  OBVIOUS
  <2>5. /\ chip'.protect = chip.protect
        /\ ~chip.protect => \A q \in PageNr : chip'.todo[q] = Blank
    BY <2>1, <2>2, <2>3, <2>4, EraseEffect
  <2>6. QED  BY <1>6, <2>5 DEF EraseBulk, EraseInv, Await, Stage, Waiting
<1>7. CASE EraseLocked
  BY <1>7 DEF EraseLocked, EraseInv, Goto, Return, Stage, Waiting, PageNr
<1>8. CASE EraseSectors  BY <1>8, EraseSectorsStep
<1>9. CASE EraseSectorsDone
  <2>1. Stage = "sectors" /\ page >= Pages /\ page \in Nat
    BY <1>1, <1>9 DEF EraseSectorsDone, Stage, Waiting, Shape, HostOK
  <2>2. ~chip.protect => \A q \in PageNr : chip.todo[q] = Blank
    BY <2>1, Sizes DEF EraseInv, PageNr
  <2>3. QED
    BY <1>9, <2>2 DEF EraseSectorsDone, NoTransfer, EraseInv, Return, Stage, Waiting
<1>10. CASE FlashDone \/ UNCHANGED vars
  <2>1. /\ chip'.todo = chip.todo /\ chip'.protect = chip.protect /\ chip'.wel = chip.wel
        /\ UNCHANGED <<pc, back, page, call, ret>>
    BY <1>10 DEF FlashDone, vars, poll, args, loop, TypeInv, TypeOK, Chip
  <2>2. QED  BY <2>1 DEF EraseInv, Stage, Waiting
<1>11. CASE WaitAsk \/ WaitPoll
  <2>1. /\ UNCHANGED <<chip, page, call>>
        /\ \/ Stage' = Stage /\ ret' = ret
           \/ Stage' = "end" /\ ret' = -1
    BY <1>1, <1>11
    DEF WaitAsk, WaitPoll, ReadStatus, Goto, Stage, Waiting, args, loop, poll, Shape, StageOK
  <2>2. QED  BY <2>1 DEF EraseInv
<1>12. QED
  BY <1>2, <1>3, <1>4, <1>5, <1>6, <1>7, <1>8, <1>9, <1>10, <1>11

LEMMA EraseInit == Init => EraseInv
BY DEF Init, EraseInv, Stage, Waiting

(* An erase that returns 0 has erased all of an unprotected flash.         *)
THEOREM EraseErasesAll ==
  ASSUME Pages <= AddrPages, BlockPages <= SectorPages
  PROVE  Spec => []EraseErases
<1>1. TypeInv /\ BusyInv /\ EraseInv => EraseErases
  <2> SUFFICES ASSUME TypeInv, BusyInv, EraseInv, NEW p \in PageNr,
                      pc = "end", call = "erase", ret = 0, ~chip.protect
               PROVE  chip.cells[p] = Blank
    BY DEF EraseErases
  <2>1. ~chip.busy
    BY TypeParts
    DEF BusyInv, BusyOnlyIf, LeftBehind, Waiting, Stage, Shape, StageOK, NotRun
  <2>2. QED  BY <2>1 DEF BusyInv, EraseInv, Stage, Waiting
<1>2. TypeInv /\ BusyInv /\ EraseInv /\ [Next]_vars => EraseInv'
  BY EraseStep
<1>3. QED
  BY <1>1, <1>2, EraseInit, TypeInit, TypeStep, BusyInit, BusyStep, PTL DEF Spec


------------------------------------------------------------------------------
(***************************************************************************)
(* ReadExact.                                                              *)
(***************************************************************************)
Least(m, n) == IF m < n THEN m ELSE n
Rows == UNION {[0..(m - 1) -> {0, 1}] : m \in 0..PageSize}

(* The bridge holds the page before this one, and rlen its length.         *)
Lookback ==
  (page > first /\ left + PageSize > 0) =>
    /\ rlen = Least(PageSize, left + PageSize)
    /\ page - 1 \in PageNr => latch.data = chip.cells[page - 1]

(* All pages but the last one asked for have been copied.                  *)
Fetched ==
  /\ out \in Seq(Rows)
  /\ Len(out) = IF page = first THEN 0 ELSE page - first - 1
  /\ Lookback
  /\ \A n \in PageNr, b \in ByteNr :
       n < page - first - 1 /\ InRange(n, b) /\ first + n \in PageNr
         => out[n + 1][b] = chip.cells[first + n][b]

FetchInv == (Stage = "fetch" /\ erased # -1 => Fetched) /\ ReadExact

(* While pages are looked at the flash rests.                              *)
LEMMA IdleLook ==
  ASSUME TypeInv, BusyInv, erased # -1,
         pc \in {"compare", "fetch"} \/ (pc = "end" /\ ret # -1)
  PROVE  ~chip.busy /\ Stage = pc
BY DEF BusyInv, BusyOnlyIf, LeftBehind, Waiting, Stage

(* What asking for a page brings, with the length of its data.             *)
LEMMA LookbackStep ==
  ASSUME TypeInv, ~chip.busy, Pages <= AddrPages,
         Stage \in {"compare", "fetch"}, SetLength, ReadPage(page),
         page' = page + 1, left' = left - PageSize, first' = first
  PROVE  Lookback'
<1>1. /\ page \in Nat /\ first \in Nat /\ left \in Int /\ rlen \in 0..PageSize
      /\ chip' = chip
  BY Sizes, TypeParts DEF Shape, HostOK, ReadPage
<1>2. left' + PageSize = left /\ page' - 1 = page
  BY <1>1, Sizes
<1>3. left > 0 => rlen' = Least(PageSize, left)
  BY <1>1, Sizes DEF SetLength, PageLength, Least
<1>4. page \in PageNr => latch'.data = chip.cells[page]
  <2> SUFFICES ASSUME page \in PageNr PROVE latch'.data = chip.cells[page]
    OBVIOUS
  <2>1. PageAddress(page) = page  BY Addresses, Sizes DEF PageNr
  <2>2. latch' = [Other EXCEPT !.data = chip.cells[page]]  BY <2>1 DEF ReadPage
  <2>3. QED  BY <2>2 DEF Other
<1>5. QED  BY <1>1, <1>2, <1>3, <1>4 DEF Lookback

(* A byte of the page before this one is in the range and in the row.      *)
LEMMA ByteInRow ==
  ASSUME TypeInv, Stage \in {"compare", "fetch"}, NEW b \in ByteNr, page > first
  PROVE  /\ page - first - 1 \in Nat
         /\ InRange(page - first - 1, b) <=> b < left + PageSize
<1>1. /\ page \in Nat /\ first \in Nat /\ left \in Int /\ size \in Nat
      /\ left = size - (page - first) * PageSize
  BY Sizes, TypeParts DEF Shape, HostOK, PlaceOK, Walking
<1>2. /\ (page - first - 1) * PageSize = (page - first) * PageSize - PageSize
      /\ (page - first) * PageSize \in Int
  BY <1>1, Products
<1>3. QED  BY <1>1, <1>2, Sizes DEF InRange, ByteNr

LEMMA FetchPage ==
  ASSUME TypeInv, BusyInv, FetchInv, Fetch, erased # -1, Pages <= AddrPages
  PROVE  Fetched'
<1>1. /\ pc = "fetch" /\ left + PageSize > 0 /\ SetLength /\ ReadPage(page)
      /\ page' = page + 1 /\ left' = left - PageSize
      /\ UNCHANGED <<first, size, chip>>
  BY DEF Fetch, args, ReadPage
<1>2. ~chip.busy /\ Stage = "fetch" /\ Fetched
  BY <1>1, IdleLook DEF FetchInv
<1>3. /\ page \in Nat /\ first \in Nat /\ left \in Int /\ rlen \in 0..PageSize
      /\ size \in Nat /\ page >= first /\ latch.data \in Page
  BY <1>2, Sizes, TypeParts DEF Shape, HostOK, PlaceOK, Walking, Wires, Latch
<1>4. Lookback'  BY <1>1, <1>2, LookbackStep
<1>5. CASE page = first
  <2>1. out' = out /\ out \in Seq(Rows) /\ Len(out) = 0
    BY <1>2, <1>5 DEF Fetch, Fetched
  <2>2. page' - first' - 1 = 0 /\ page' # first'  BY <1>1, <1>3, <1>5
  <2>3. QED  BY <1>4, <2>1, <2>2 DEF Fetched, PageNr
<1>6. CASE page # first
  <2> DEFINE n == IF left > 0 THEN PageSize ELSE rlen
             row == [b \in 0..(n - 1) |-> latch.data[b]]
             d == page - first
  <2>1. out' = Append(out, row) /\ page > first  BY <1>3, <1>6 DEF Fetch
  <2>2. /\ rlen = Least(PageSize, left + PageSize)
        /\ page - 1 \in PageNr => latch.data = chip.cells[page - 1]
    BY <1>1, <1>2, <2>1 DEF Fetched, Lookback
  <2>3. row \in Rows
    <3>1. n \in 0..PageSize  BY <1>3, Sizes
    <3> HIDE DEF n
    <3>2. row \in [0..(n - 1) -> {0, 1}]
      BY <1>3, <3>1, Sizes DEF Page, ByteNr
    <3>3. QED  BY <3>1, <3>2 DEF Rows
  <2>4. ASSUME NEW b \in ByteNr, InRange(d - 1, b), first + (d - 1) \in PageNr
        PROVE  row[b] = chip.cells[first + (d - 1)][b]
    <3>1. b < left + PageSize  BY <1>2, <2>1, <2>4, ByteInRow
    <3>2. b \in 0..(n - 1)  BY <1>3, <2>2, <3>1, Sizes DEF ByteNr, Least
    <3>3. first + (d - 1) = page - 1  BY <1>3
    <3>4. QED  BY <2>2, <2>4, <3>2, <3>3
  <2> HIDE DEF row, n
  <2>5. out \in Seq(Rows) /\ Len(out) = d - 1 /\ d \in Nat /\ d > 0
    BY <1>2, <1>3, <1>6, <2>1 DEF Fetched
  <2>6. /\ out' \in Seq(Rows) /\ Len(out') = d
        /\ \A i \in 1..(d - 1) : out'[i] = out[i]
        /\ out'[d] = row
    BY <2>1, <2>3, <2>5
  <2>7. page' - first' - 1 = d /\ page' # first'  BY <1>1, <1>3, <2>5
  <2>8. ASSUME NEW i \in PageNr, NEW b \in ByteNr,
               i < d, InRange(i, b), first + i \in PageNr
        PROVE  out'[i + 1][b] = chip.cells[first + i][b]
    <3>0. i \in Nat  BY Sizes DEF PageNr
    <3>1. CASE i = d - 1
      <4>1. i + 1 = d  BY <2>5, <3>1
      <4>2. QED  BY <2>4, <2>6, <2>8, <3>1, <4>1
    <3>2. CASE i < d - 1
      <4>1. i + 1 \in 1..(d - 1)  BY <2>5, <3>0, <3>2
      <4>2. out[i + 1][b] = chip.cells[first + i][b]
        BY <1>2, <2>8, <3>2 DEF Fetched
      <4>3. QED  BY <2>6, <4>1, <4>2
    <3>3. QED  BY <2>5, <2>8, <3>0, <3>1, <3>2
  <2> HIDE DEF d
  <2>9. \A i \in PageNr, b \in ByteNr : InRange(i, b)' <=> InRange(i, b)
    BY <1>1 DEF InRange
  <2>10. QED  BY <1>1, <1>4, <2>6, <2>7, <2>8, <2>9 DEF Fetched
<1>7. QED  BY <1>5, <1>6

LEMMA FetchAll ==
  ASSUME TypeInv, BusyInv, FetchInv, FetchDone
  PROVE  ReadExact'
<1> SUFFICES ASSUME erased # -1, first * PageSize + size <= Pages * PageSize,
                    NEW n \in PageNr, NEW b \in ByteNr, InRange(n, b)
             PROVE  out[n + 1][b] = chip.cells[first + n][b]
  BY DEF FetchDone, ReadExact, NoTransfer, args, loop, InRange
<1>1. pc = "fetch" /\ left + PageSize <= 0  BY DEF FetchDone
<1>2. Stage = "fetch" /\ Fetched  BY <1>1, IdleLook DEF FetchInv
<1>3. /\ page \in Nat /\ first \in Nat /\ left \in Int /\ size \in Nat /\ page >= first
      /\ left = size - (page - first) * PageSize
  BY <1>2, Sizes, TypeParts DEF Shape, HostOK, PlaceOK, Walking
<1>4. n \in Nat /\ n * PageSize \in Int /\ n * PageSize < size
  <2>1. n \in Nat  BY Sizes DEF PageNr
  <2>2. QED  BY <1>3, <2>1, Products, Sizes DEF InRange, ByteNr
<1>5. n < page - first - 1
  <2>1. (page - first - 1) * PageSize = (page - first) * PageSize - PageSize
        /\ (page - first) * PageSize \in Int
    BY <1>3, Products
  <2>2. n * PageSize < (page - first - 1) * PageSize
    BY <1>1, <1>3, <1>4, <2>1, Sizes
  <2>3. page - first - 1 \in Int  BY <1>3
  <2>4. QED  BY <1>4, <2>2, <2>3, Products
<1>6. first + n \in PageNr
  <2>1. (first + n) * PageSize = first * PageSize + n * PageSize
        /\ first * PageSize \in Int
    BY <1>3, <1>4, Products
  <2>2. (first + n) * PageSize < Pages * PageSize
    BY <1>3, <1>4, <2>1, Products, Sizes
  <2>3. first + n < Pages  BY <1>3, <1>4, <2>2, Products, Sizes
  <2>4. QED  BY <1>3, <1>4, <2>3, Sizes DEF PageNr
<1>7. QED  BY <1>2, <1>5, <1>6 DEF Fetched

LEMMA FetchStep ==
  ASSUME TypeInv, BusyInv, FetchInv, [Next]_vars, Pages <= AddrPages
  PROVE  FetchInv'
<1>1. Shape /\ Shape'  BY TypeParts, ShapeStep
<1>2. CASE Stage' = "fetch" /\ erased' # -1
  <2>1. \/ Fetch \/ \E offset \in Offsets, length \in RLengths : Read(offset, length)
        \/ FlashDone \/ UNCHANGED vars
    <3>1. call' = "read"  BY <1>1, <1>2 DEF Shape, StageOK
    <3>2. QED
      BY <1>1, <1>2, <3>1
      DEF Next, Session, Host, SstSetup, NextSector, EraseSector, NextPage, EnableProgram,
          ProgramPage, Advance, ProgramDone, SstArm, SstWord, SstDisarm, Compare,
          CompareDone, FetchDone, EndProgram, EndCall, EndErase, Program, Verify,
          WaitAsk, WaitPoll, Erase, Exit, Ewsr, Wrsr, EraseCheck, BulkEnable, EraseBulk,
          EraseLocked, EraseSectors, EraseSectorsDone, args, Shape, StageOK,
          Writing, Comparing, Erasing, Stage, Waiting, Goto, Return
  <2>2. ReadExact'  BY <1>2 DEF ReadExact, Stage, Waiting
  <2>3. CASE Fetch
    <3>1. erased = erased'  BY <2>3 DEF Fetch
    <3>2. QED  BY <1>2, <2>2, <2>3, <3>1, FetchPage DEF FetchInv
  <2>4. CASE \E offset \in Offsets, length \in RLengths : Read(offset, length)
    <3>1. out' = <<>> /\ page' = first' /\ first' \in Nat
      BY <1>1, <1>2, <2>4, Sizes
      DEF Read, BeginLoop, Refuse, Return, Stage, Waiting, Shape, HostOK
    <3>2. page' - first' - 1 < 0 /\ ~(page' > first')
      <4>1. \A m \in Nat : m - m - 1 < 0 /\ ~(m > m)  OBVIOUS
      <4>2. QED  BY <3>1, <4>1
    <3>3. Fetched'
      BY <3>1, <3>2, Sizes DEF Fetched, Lookback, PageNr
    <3>4. QED  BY <2>2, <3>3 DEF FetchInv
  <2>5. CASE FlashDone \/ UNCHANGED vars
    <3>1. UNCHANGED vars
      <4>1. (erased # -1 /\ pc = "fetch" /\ ~FlashDone) \/ UNCHANGED vars
        <5>1. CASE FlashDone
          <6>1. erased # -1 /\ pc = "fetch"
            BY <1>1, <1>2, <5>1 DEF FlashDone, poll, Stage, Waiting, Shape, StageOK
          <6>2. QED  BY <5>1, <6>1, IdleLook DEF FlashDone
        <5>2. QED  BY <2>5, <5>1
      <4>2. QED  BY <2>5, <4>1
    <3>2. QED
      BY <3>1 DEF vars, args, loop, poll, FetchInv, Fetched, Lookback, ReadExact, InRange,
                  Stage, Waiting
  <2>6. QED  BY <2>1, <2>3, <2>4, <2>5
<1>3. CASE ~(Stage' = "fetch" /\ erased' # -1)
  <2> SUFFICES ASSUME pc' = "end", call' = "read", ret' = 0, erased' # -1
               PROVE  ReadExact'
    BY <1>3 DEF FetchInv, ReadExact
  <2>1. FetchDone \/ FlashDone \/ UNCHANGED vars
    BY <1>1
    DEF Next, Session, Host, SstSetup, NextSector, EraseSector, NextPage, EnableProgram,
        ProgramPage, Advance, ProgramDone, SstArm, SstWord, SstDisarm, Compare,
        CompareDone, Fetch, EndProgram, EndCall, EndErase, Program, Verify,
        WaitAsk, WaitPoll, Erase, Exit, Ewsr, Wrsr, EraseCheck, BulkEnable, EraseBulk,
        EraseLocked, EraseSectors, EraseSectorsDone, Read, args, Shape, StageOK,
        Writing, Comparing, Erasing, Stage, Waiting, Goto, Return, Refuse, Await
  <2>2. CASE FetchDone  BY <2>2, FetchAll
  <2>3. CASE FlashDone
    <3>1. pc = "end" /\ ret = 0 /\ erased # -1  BY <2>3 DEF FlashDone
    <3>2. QED  BY <2>3, <3>1, IdleLook DEF FlashDone
  <2>4. CASE UNCHANGED vars
    BY <2>4 DEF vars, args, loop, FetchInv, ReadExact, InRange
  <2>5. QED  BY <2>1, <2>2, <2>3, <2>4
<1>4. QED  BY <1>2, <1>3

LEMMA FetchInit == Init => FetchInv
BY DEF Init, FetchInv, ReadExact, Stage, Waiting

(* A read of a range of the flash returns its bytes: what the host keeps   *)
(* of a transfer is the page the transfer before it asked for.             *)
THEOREM ReadIsExact ==
  ASSUME Pages <= AddrPages
  PROVE  Spec => []ReadExact
<1>1. FetchInv => ReadExact  BY DEF FetchInv
<1>2. TypeInv /\ BusyInv /\ FetchInv /\ [Next]_vars => FetchInv'
  BY FetchStep
<1>3. QED
  BY <1>1, <1>2, FetchInit, TypeInit, TypeStep, BusyInit, BusyStep, PTL DEF Spec


------------------------------------------------------------------------------
(***************************************************************************)
(* VerifyExact.                                                            *)
(***************************************************************************)
(* All pages but the last one asked for have been compared.                *)
Compared ==
  /\ Lookback
  /\ Holds => k = 0
  /\ k = 0 /\ size % PageSize = 0 =>
       \A n \in PageNr, b \in ByteNr :
         n < page - first - 1 /\ InRange(n, b)
           => chip.cells[first + n][b] = file.data[n][b]

Judging == (call = "check" \/ (call = "verify" /\ erased # -1)) /\ size > 0

CompareInv == (Stage = "compare" /\ Judging => Compared) /\ VerifyExact

LEMMA IdleJudge ==
  ASSUME TypeInv, BusyInv, Judging, pc \in {"compare", "end"}
  PROVE  ~chip.busy /\ Stage = pc
BY DEF BusyInv, BusyOnlyIf, LeftBehind, Waiting, Stage, Judging

(* Bytes of the page before this one are compared if they are in range; if *)
(* the range ends with a page, all of them are.                            *)
LEMMA ByteCompared ==
  ASSUME TypeInv, Stage = "compare", Lookback, SetLength, page > first,
         left + PageSize > 0, NEW b \in ByteNr
  PROVE  /\ b < rlen' => InRange(page - first - 1, b)
         /\ size % PageSize = 0 => b < rlen'
         /\ page - first - 1 \in PageNr /\ page - 1 \in PageNr
         /\ first + (page - first - 1) = page - 1
<1>1. /\ page \in Nat /\ first \in Nat /\ left \in Int /\ size \in Nat
      /\ left = size - (page - first) * PageSize
      /\ call \in {"write"} \cup Comparing
  BY Sizes, TypeParts DEF Shape, HostOK, PlaceOK, StageOK, Walking
<1>2. PageSize \in Nat /\ PageSize > 0 /\ b \in 0..(PageSize - 1)
  BY Sizes DEF ByteNr
<1>3. rlen' = IF left > 0 THEN Least(PageSize, left) ELSE Least(PageSize, left + PageSize)
  BY <1>1, <1>2 DEF SetLength, PageLength, Lookback, Least
<1>4. InRange(page - first - 1, b) <=> b < left + PageSize
  BY ByteInRow
<1>5. b < rlen' => InRange(page - first - 1, b)
  BY <1>1, <1>2, <1>3, <1>4 DEF Least
<1>6. ASSUME size % PageSize = 0 PROVE b < rlen'
  <2> DEFINE m == size \div PageSize
             r == m - (page - first)
  <2>1. m \in Nat /\ size = m * PageSize  BY <1>1, <1>2, <1>6
  <2>2. r \in Int /\ left = r * PageSize
    <3>1. page - first \in Int /\ m \in Int  BY <1>1, <2>1
    <3> HIDE DEF m
    <3>2. (m - (page - first)) * PageSize = m * PageSize - (page - first) * PageSize
      BY <3>1, Products
    <3>3. QED  BY <1>1, <2>1, <3>1, <3>2
  <2> HIDE DEF r
  <2>3. (r + 1) * PageSize = left + PageSize /\ 0 * PageSize = 0
    BY <2>2, Products
  <2>4. r >= 0
    <3>1. 0 * PageSize < (r + 1) * PageSize  BY <2>3
    <3>2. 0 < r + 1  BY <2>2, <3>1, Products
    <3>3. QED  BY <2>2, <3>2
  <2>5. left > 0 => left >= PageSize
    <3>1. left > 0 => 0 * PageSize < r * PageSize  BY <2>2, <2>3
    <3>2. left > 0 => 1 <= r  BY <2>2, <3>1, Products
    <3>3. 1 <= r => 1 * PageSize <= r * PageSize  BY <2>2, Products
    <3>4. QED  BY <2>2, <3>2, <3>3, Products
  <2>6. left >= 0
    <3>1. 0 * PageSize <= r * PageSize  BY <2>2, <2>4, Products
    <3>2. QED  BY <2>2, <2>3, <3>1
  <2>7. QED  BY <1>1, <1>2, <1>3, <2>5, <2>6 DEF Least
<1>7. page - first - 1 \in PageNr /\ first + (page - first - 1) \in PageNr
  <2>1. page - first - 1 \in Nat /\ size = left + (page - first) * PageSize
    <3>1. (page - first) * PageSize \in Int  BY <1>1, Products
    <3>2. QED  BY <1>1, <3>1
  <2>2. (page - first - 1) * PageSize = (page - first) * PageSize - PageSize
        /\ (page - first) * PageSize \in Int
    BY <1>1, Products
  <2>3. (page - first - 1) * PageSize < size
    BY <1>1, <1>2, <2>1, <2>2
  <2>4. QED  BY <1>1, <2>1, <2>3, PageInRange, TypeParts
<1>8. first + (page - first - 1) = page - 1  BY <1>1
<1>9. QED  BY <1>5, <1>6, <1>7, <1>8

LEMMA ComparePage ==
  ASSUME TypeInv, BusyInv, CompareInv, Compare, Judging, Pages <= AddrPages
  PROVE  Compared' /\ (k' = 0 \/ ~Holds')
<1> DEFINE d == page - first
           bad == /\ page > first
                  /\ \E b \in ByteNr : b < rlen' /\ latch.data[b] # file.data[page - 1 - first][b]
<1>1. /\ pc = "compare" /\ left + PageSize > 0 /\ SetLength /\ ReadPage(page)
      /\ page' = page + 1 /\ left' = left - PageSize
      /\ UNCHANGED <<first, size, chip, file>>
      /\ k' = IF bad THEN k + 1 ELSE k
  BY DEF Compare, args, ReadPage
<1> HIDE DEF bad
<1>2. ~chip.busy /\ Stage = "compare" /\ Compared
  BY <1>1, IdleJudge DEF CompareInv
<1>3. /\ page \in Nat /\ first \in Nat /\ page >= first /\ k \in Nat
  BY <1>2, Sizes, TypeParts DEF Shape, HostOK, PlaceOK, Walking
<1>4. Lookback'  BY <1>1, <1>2, LookbackStep
<1>5. page > first =>
        /\ latch.data = chip.cells[page - 1]
        /\ d - 1 \in PageNr /\ first + (d - 1) = page - 1 /\ page - 1 - first = d - 1
        /\ \A b \in ByteNr : b < rlen' => InRange(d - 1, b)
        /\ size % PageSize = 0 => \A b \in ByteNr : b < rlen'
  <2> SUFFICES ASSUME page > first
               PROVE  /\ latch.data = chip.cells[page - 1]
                      /\ d - 1 \in PageNr /\ first + (d - 1) = page - 1
                      /\ page - 1 - first = d - 1
                      /\ \A b \in ByteNr : b < rlen' => InRange(d - 1, b)
                      /\ size % PageSize = 0 => \A b \in ByteNr : b < rlen'
    OBVIOUS
  <2>1. 0 \in ByteNr  BY Sizes DEF ByteNr
  <2>2. Lookback  BY <1>2 DEF Compared
  <2>3. d - 1 \in PageNr /\ page - 1 \in PageNr
    BY <1>1, <1>2, <2>1, <2>2, ByteCompared
  <2>4. latch.data = chip.cells[page - 1]
    BY <1>1, <2>2, <2>3 DEF Lookback
  <2>5. first + (d - 1) = page - 1 /\ page - 1 - first = d - 1  BY <1>3
  <2>6. QED  BY <1>1, <1>2, <2>2, <2>3, <2>4, <2>5, ByteCompared
<1>6. Holds => ~bad
  <2> SUFFICES ASSUME Holds, page > first, NEW b \in ByteNr, b < rlen'
               PROVE  latch.data[b] = file.data[page - 1 - first][b]
    BY DEF bad
  <2>1. InRange(d - 1, b)  BY <1>5
  <2>2. chip.cells[first + (d - 1)][b] = file.data[d - 1][b]
    BY <1>5, <2>1 DEF Holds
  <2>3. QED  BY <1>5, <2>2
<1>7. Holds => k' = 0
  BY <1>1, <1>2, <1>6 DEF Compared
<1>8. Holds' <=> Holds
  BY <1>1 DEF Holds, InRange
<1>9. ASSUME k' = 0, size % PageSize = 0, NEW n \in PageNr, NEW b \in ByteNr,
             n < d, InRange(n, b)
      PROVE  chip.cells[first + n][b] = file.data[n][b]
  <2>1. k = 0 /\ ~bad  BY <1>1, <1>3, <1>9
  <2>2. n \in Nat /\ d \in Int  BY <1>3, Sizes DEF PageNr
  <2>3. CASE n < d - 1
    BY <1>2, <1>9, <2>1, <2>3 DEF Compared
  <2>4. CASE n = d - 1
    <3>1. page > first  BY <1>3, <2>2, <2>4
    <3>2. b < rlen'  BY <1>5, <1>9, <3>1
    <3>3. latch.data[b] = file.data[page - 1 - first][b]
      BY <2>1, <3>1, <3>2 DEF bad
    <3>4. QED  BY <1>5, <2>4, <3>1, <3>3
  <2>5. QED  BY <1>9, <2>2, <2>3, <2>4
<1>10. page' - first' - 1 = d  BY <1>1, <1>3
<1>11. \A n \in PageNr, b \in ByteNr : InRange(n, b)' <=> InRange(n, b)
  BY <1>1 DEF InRange
<1> HIDE DEF d
<1>12. QED
  BY <1>1, <1>4, <1>7, <1>8, <1>9, <1>10, <1>11 DEF Compared

LEMMA CompareAll ==
  ASSUME TypeInv, BusyInv, CompareInv, CompareDone, Judging
  PROVE  VerifyExact'
<1>1. pc = "compare" /\ left + PageSize <= 0 /\ ret' = k /\ UNCHANGED <<args, chip>>
  BY DEF CompareDone, Return, NoTransfer
<1>2. Stage = "compare" /\ Compared  BY <1>1, IdleJudge DEF CompareInv
<1>3. /\ page \in Nat /\ first \in Nat /\ left \in Int /\ size \in Nat /\ page >= first
      /\ left = size - (page - first) * PageSize
  BY <1>2, Sizes, TypeParts DEF Shape, HostOK, PlaceOK, Walking
<1>4. ASSUME NEW n \in PageNr, NEW b \in ByteNr, InRange(n, b)
      PROVE  n < page - first - 1
  <2>0. n \in Nat /\ b \in Nat  BY Sizes DEF PageNr, ByteNr
  <2>1. n * PageSize \in Int /\ n * PageSize < size
    <3>1. n * PageSize \in Int /\ n * PageSize + b < size
      BY <1>4, <2>0, Products DEF InRange
    <3>2. QED  BY <1>3, <2>0, <3>1
  <2>2. (page - first - 1) * PageSize = (page - first) * PageSize - PageSize
        /\ (page - first) * PageSize \in Int
    BY <1>3, Products
  <2>3. n * PageSize < (page - first - 1) * PageSize
    BY <1>1, <1>3, <2>1, <2>2, Sizes
  <2>4. page - first - 1 \in Int  BY <1>3
  <2>5. QED  BY <2>0, <2>3, <2>4, Products
<1>5. /\ Holds => k = 0
      /\ k = 0 /\ size % PageSize = 0 => Holds
  BY <1>2, <1>4 DEF Compared, Holds
<1>6. (Holds' <=> Holds) /\ size' = size  BY <1>1 DEF Holds, InRange, args
<1>7. QED  BY <1>1, <1>5, <1>6 DEF VerifyExact

LEMMA CompareStep ==
  ASSUME TypeInv, BusyInv, CompareInv, [Next]_vars, Pages <= AddrPages
  PROVE  CompareInv'
<1>1. Shape /\ Shape'  BY TypeParts, ShapeStep
<1> SUFFICES ASSUME Judging', Stage' = "compare" \/ pc' = "end"
             PROVE  CompareInv'
  BY DEF CompareInv, VerifyExact, Judging
<1>2. \/ Compare \/ CompareDone \/ FlashDone \/ UNCHANGED vars
      \/ EndProgram
      \/ \E offset \in Offsets, length \in RLengths, f \in Files : Verify(f, offset, length)
  <2>1. call' \in Comparing  BY DEF Judging, Comparing
  <2>2. QED
    BY <1>1, <2>1
    DEF Next, Session, Host, SstSetup, NextSector, EraseSector, NextPage, EnableProgram,
        ProgramPage, Advance, ProgramDone, SstArm, SstWord, SstDisarm, Fetch, FetchDone,
        EndCall, EndErase, Program, WaitAsk, WaitPoll, Erase, Exit, Ewsr, Wrsr,
        EraseCheck, BulkEnable, EraseBulk, EraseLocked, EraseSectors, EraseSectorsDone,
        Read, args, Shape, StageOK, Writing, Comparing, Erasing, Stage, Waiting, Goto,
        Return, Refuse, Await
<1>3. CASE Compare
  <2>1. Judging  BY <1>3 DEF Compare, Judging, args
  <2>2. Compared' /\ (k' = 0 \/ ~Holds')  BY <1>3, <2>1, ComparePage
  <2>3. k' \in Nat  BY <1>1, Sizes DEF Shape, HostOK
  <2>4. pc' = "end" => ret' = k' /\ k' > MaxBadPages
    BY <1>3 DEF Compare, Return
  <2>5. pc' = "end" => k' # 0  BY <2>3, <2>4, Sizes
  <2>6. VerifyExact'  BY <2>2, <2>4, <2>5 DEF VerifyExact
  <2>7. QED  BY <2>2, <2>6 DEF CompareInv
<1>4. CASE CompareDone
  <2>1. Judging  BY <1>4 DEF CompareDone, Judging, args
  <2>2. VerifyExact' /\ Stage' # "compare"
    BY <1>4, <2>1, CompareAll DEF CompareDone, Return, Stage, Waiting
  <2>3. QED  BY <2>2 DEF CompareInv
<1>5. CASE FlashDone \/ UNCHANGED vars
  <2>1. Judging /\ (Stage = "compare" \/ pc = "end")
    BY <1>5 DEF FlashDone, vars, args, poll, Judging, Stage, Waiting
  <2>2. pc \in {"compare", "end"}
    BY <1>1, <2>1 DEF Stage, Waiting, Shape, StageOK
  <2>3. UNCHANGED vars  BY <1>5, <2>1, <2>2, IdleJudge DEF FlashDone
  <2>4. (Holds' <=> Holds) /\ (Lookback' <=> Lookback)
    BY <2>3 DEF Holds, InRange, Lookback, vars, args, loop
  <2>5. QED
    BY <2>3, <2>4 DEF vars, args, loop, poll, CompareInv, Compared, VerifyExact, Judging,
                      InRange, Stage, Waiting
<1>6. CASE EndProgram \/ \E offset \in Offsets, length \in RLengths, f \in Files :
                           Verify(f, offset, length)
  <2>1. \E f, start, length : BeginVerify(f, start, length)
    BY <1>6 DEF EndProgram, Verify
  <2>2. /\ page' = first' /\ k' = 0 /\ pc' = "compare"
    BY <2>1 DEF BeginVerify, BeginLoop, Refuse, Goto, Judging
  <2>3. page' - first' - 1 < 0 /\ ~(page' > first')
    <3>1. \A m \in Nat : m - m - 1 < 0 /\ ~(m > m)  OBVIOUS
    <3>2. first' \in Nat  BY <1>1, Sizes DEF Shape, HostOK
    <3>3. QED  BY <2>2, <3>1, <3>2
  <2>4. \A n \in PageNr : ~(n < page' - first' - 1)
    <3>1. \A n \in PageNr, m \in Nat : ~(n < m - m - 1)  BY Sizes DEF PageNr
    <3>2. first' \in Nat  BY <1>1, Sizes DEF Shape, HostOK
    <3>3. QED  BY <2>2, <3>1, <3>2
  <2>5. Compared'  BY <2>2, <2>3, <2>4 DEF Compared, Lookback
  <2>6. QED  BY <2>2, <2>5 DEF CompareInv, VerifyExact
<1>7. QED  BY <1>2, <1>3, <1>4, <1>5, <1>6

LEMMA CompareInit == Init => CompareInv
BY DEF Init, CompareInv, VerifyExact, Judging, Stage, Waiting

(* A verify of whole pages returns 0 exactly if the flash holds the data,  *)
(* although each transfer brings the page the one before it asked for, and *)
(* a verify of a page that is cut short raises no false alarm.             *)
THEOREM VerifyIsExact ==
  ASSUME Pages <= AddrPages
  PROVE  Spec => []VerifyExact
<1>1. CompareInv => VerifyExact  BY DEF CompareInv
<1>2. TypeInv /\ BusyInv /\ CompareInv /\ [Next]_vars => CompareInv'
  BY CompareStep
<1>3. QED
  BY <1>1, <1>2, CompareInit, TypeInit, TypeStep, BusyInit, BusyStep, PTL DEF Spec


------------------------------------------------------------------------------
(***************************************************************************)
(* ProgramWrites.                                                          *)
(***************************************************************************)
AllBlank == \A q \in PageNr : chip.todo[q] = Blank

(* What erase started and did not wait for leaves nothing behind.          *)
LeftInv ==
  family # "at45" /\ chip.busy /\ (call = "erase" \/ LeftBehind) => AllBlank

InWalk == Stage \in {"page", "erase", "enable", "program", "advance"}

(* The pages done, and the sectors below which all has been erased.        *)
Walked   == page - first + (IF Stage = "advance" THEN 1 ELSE 0)
ErasedTo == IF Stage = "erase" THEN sector_nr - 1 ELSE sector_nr

Written(n) == \A b \in ByteNr : InRange(n, b) => chip.todo[first + n][b] = file.data[n][b]

EraseReady == Stage = "erase" => (chip.wel /\ ~chip.busy) \/ AllBlank

(* A sector is erased before its first page is written and not after it.   *)
GenericInv ==
  InWalk /\ family = "generic" =>
    /\ Walked > 0 => SectorOf(first + Walked - 1) < ErasedTo
    /\ Stage = "erase" => sector_nr = SectorOf(page) + 1
    /\ Stage \in {"enable", "program", "advance"} => SectorOf(page) < sector_nr
    /\ Stage = "program" => chip.wel /\ ~chip.busy
    /\ ~chip.protect =>
         /\ \A n \in PageNr : n < Walked => Written(n)
         /\ \A q \in PageNr :
              q >= first + Walked /\ SectorOf(q) < ErasedTo => chip.todo[q] = Blank

At45Inv ==
  InWalk /\ family = "at45" /\ ~chip.protect /\ ~ignored
    => \A n \in PageNr : n < Walked => Written(n)

(* program_sst visits one page of each sector.                             *)
SstInv ==
  InWalk /\ family = "sst" =>
    /\ \E m \in 0..page : page = first + m * SectorPages
    /\ Stage = "page" => sector_nr <= SectorOf(page)
    /\ Stage \in {"erase", "advance"} => sector_nr = SectorOf(page) + 1
    /\ ~chip.protect =>
         \A q \in PageNr :
           /\ SectorOf(first) <= SectorOf(q)
           /\ SectorOf(q) < SectorOf(page) + (IF Stage = "advance" THEN 1 ELSE 0)
           => chip.todo[q] = Blank

(* Then it writes word by word into what is blank.                         *)
WordsInv ==
  Stage = "words" =>
    /\ left > 0 => chip.wel /\ ~chip.busy
    /\ ~chip.protect /\ SstErasesAll =>
         \A n \in PageNr, b \in ByteNr : InRange(n, b) =>
           chip.todo[first + n][b] =
             IF n < page - first \/ (n = page - first /\ b < word) THEN file.data[n][b] ELSE 1

WrittenInv ==
  /\ Stage = "end" /\ call = "write" /\ ret = 0 /\ ~chip.protect
  /\ family = "at45" => ~ignored
  /\ family = "sst" => SstErasesAll
  => \A n \in PageNr : Written(n)

PathInv ==
  EraseReady /\ GenericInv /\ At45Inv /\ SstInv /\ WordsInv /\ WrittenInv

(* The end of the work and of a wait change nothing the walk rests on.     *)
LEMMA Quiet ==
  ASSUME TypeInv, FlashDone \/ UNCHANGED vars \/ WaitAsk \/ WaitPoll
  PROVE  /\ UNCHANGED <<family, args, loop, ignored, erased>>
         /\ chip'.todo = chip.todo /\ chip'.protect = chip.protect
         /\ chip'.wel = chip.wel /\ (chip'.busy => chip.busy)
         /\ (Stage' = Stage /\ ret' = ret) \/ (Stage' = "end" /\ ret' = -1)
<1>1. Shape /\ chip \in Chip  BY TypeParts DEF Wires
<1>2. CASE FlashDone
  BY <1>1, <1>2 DEF FlashDone, Chip, Stage, Waiting, poll
<1>3. CASE UNCHANGED vars
  BY <1>1, <1>3 DEF vars, Stage, Waiting, poll
<1>4. CASE WaitAsk \/ WaitPoll
  <2>1. UNCHANGED <<family, args, loop, ignored, erased, chip, back>>
    BY <1>4 DEF WaitAsk, WaitPoll, ReadStatus, Goto, poll
  <2>2. (Stage' = Stage /\ ret' = ret) \/ (Stage' = "end" /\ ret' = -1)
    BY <1>1, <1>4
    DEF WaitAsk, WaitPoll, Goto, poll, Stage, Waiting, Shape, StageOK
  <2>3. QED  BY <2>1, <2>2
<1>5. QED  BY <1>2, <1>3, <1>4

(* Who makes the flash busy, and that the others leave a busy one alone.   *)
LEMMA WhoStartsWork ==
  ASSUME TypeInv, BusyInv, [Next]_vars, chip'.busy,
         ~EraseSector, ~ProgramPage, ~EraseBulk, ~EraseSectors
  PROVE  chip.busy /\ chip' = chip
<1>1. chip \in Chip /\ Settled(chip)  BY TypeParts DEF Wires, BusyInv, Settled
<1>2. \A new : Command(new) /\ (new.busy => chip.busy) => chip.busy /\ chip' = chip
  BY DEF Command
<1>3. CASE FlashDone
  BY <1>1, <1>3 DEF FlashDone, Chip
<1>4. CASE \/ SstSetup \/ NextSector \/ EnableProgram \/ SstArm \/ SstWord \/ SstDisarm
           \/ Ewsr \/ Wrsr \/ BulkEnable
  <2>1. [chip EXCEPT !.wel = FALSE].busy = chip.busy  BY <1>1 DEF Chip
  <2>2. \/ Command(Setup(SetupScript[j + 1])) \/ Command(Setup("EWSR"))
        \/ Command(Setup("WRSR")) \/ Command(AaiWord(page, word, file.data[page - first]))
        \/ Command(WriteEnable) \/ Command([chip EXCEPT !.wel = FALSE])
    BY <1>4 DEF SstSetup, NextSector, EnableProgram, SstArm, SstWord, SstDisarm, Ewsr, Wrsr,
           BulkEnable
  <2>3. QED  BY <1>1, <1>2, <2>1, <2>2, IdleCommands
<1>5. CASE chip' = chip  BY <1>5
<1>6. QED
  BY <1>3, <1>4, <1>5
  DEF Next, Session, Host, NoTransfer, ReadStatus, ReadPage, vars, WaitAsk, WaitPoll,
      NextPage, Advance, ProgramDone, Compare, CompareDone, Fetch, FetchDone,
      EraseCheck, EraseLocked, EraseSectorsDone, EndErase, EndProgram, EndCall,
      Erase, Exit, Read, Program, Verify

LEMMA LeftStep ==
  ASSUME TypeInv, BusyInv, LeftInv, [Next]_vars
  PROVE  LeftInv'
<1> SUFFICES ASSUME family' # "at45", chip'.busy, call' = "erase" \/ LeftBehind'
             PROVE  AllBlank'
  BY DEF LeftInv
<1>1. Shape /\ Shape' /\ chip \in Chip /\ Settled(chip)
  BY TypeParts, ShapeStep DEF Wires, BusyInv, Settled
<1>2. CASE EraseBulk
  <2>1. ~chip.busy  BY <1>2, IdleErase DEF EraseBulk, Erasing
  <2>2. chip' = BulkErase  BY <1>2, <2>1 DEF EraseBulk, Command
  <2>3. chip.wel /\ ~chip.protect
    BY <1>1, <2>1, <2>2, StartEffect DEF BulkErase, IfEnabled
  <2>4. 0 \in Nat  OBVIOUS
  <2>5. \A q \in PageNr : chip'.todo[q] = Blank
    BY <1>1, <2>1, <2>2, <2>3, <2>4, EraseEffect
  <2>6. QED  BY <2>5 DEF AllBlank
<1>3. CASE EraseSectors
  BY <1>1, <1>3 DEF EraseSectors, Shape, FamilyOK, Stage, Waiting
<1>4. CASE EraseSector \/ ProgramPage
  <2>1. /\ pc \in {"erase", "program"} /\ pc' = "wait" /\ back' \in {"enable", "advance"}
        /\ UNCHANGED <<call, size>>
    BY <1>4 DEF EraseSector, ProgramPage, Await, args
  <2>2. call = "write" /\ left > 0 /\ Stage \in {"erase", "program"}
    BY <1>1, <2>1 DEF Shape, StageOK, PlaceOK, Stage, Waiting, Writing
  <2>3. page - first \in Nat /\ (page - first) * PageSize < size
    BY <1>1, <2>2, AtPage, Sizes DEF PageNr
  <2>4. size # 0
    <3>1. (page - first) * PageSize \in Int /\ 0 * PageSize <= (page - first) * PageSize
      BY <2>3, Products
    <3>2. QED  BY <2>3, <3>1, Products
  <2>5. QED  BY <2>1, <2>2, <2>4 DEF LeftBehind, Stage, Waiting
<1>5. CASE ~EraseBulk /\ ~EraseSectors /\ ~EraseSector /\ ~ProgramPage
  <2>1. chip.busy /\ chip' = chip  BY <1>5, WhoStartsWork
  <2>2. call = "erase" \/ LeftBehind
    <3>1. CASE pc \notin {"wait", "poll", "end", "exit"}
      BY <2>1, <3>1 DEF BusyInv, BusyOnlyIf, Waiting
    <3>2. CASE pc \in {"wait", "poll", "end", "exit"}
      <4>1. \/ WaitAsk \/ WaitPoll \/ EndErase \/ EndProgram \/ EndCall
            \/ FlashDone \/ UNCHANGED vars
        BY <3>2
        DEF Next, Session, Host, SstSetup, NextSector, EraseSector, NextPage,
            EnableProgram, ProgramPage, Advance, ProgramDone, SstArm, SstWord, SstDisarm,
            Compare, CompareDone, Fetch, FetchDone, Read, Program, Verify, Erase, Exit,
            Ewsr, Wrsr, EraseCheck, BulkEnable, EraseBulk, EraseLocked, EraseSectors,
            EraseSectorsDone
      <4>2. CASE EndErase \/ EndProgram
        BY <2>1, <4>2 DEF EndErase, EndProgram, BusyInv, BusyOnlyIf, Waiting
      <4>3. CASE EndCall
        <5>1. ~(pc' = "idle") \/ LeftBehind
          BY <2>1, <4>3 DEF EndCall, Goto, BusyInv, BusyOnlyIf, Waiting
        <5>2. QED
          BY <4>3, <5>1 DEF EndCall, Goto, LeftBehind, Stage, Waiting, args, loop
      <4>4. CASE WaitAsk \/ WaitPoll \/ FlashDone \/ UNCHANGED vars
        <5>1. UNCHANGED <<args, loop, family, erased>>
              /\ (Stage' = Stage \/ Stage' = "end")
          BY <4>4, Quiet
        <5>2. pc' = "idle" => pc = "idle"
          BY <1>1, <4>4 DEF WaitAsk, WaitPoll, FlashDone, vars, Goto, Shape, StageOK, Waiting
        <5>3. QED  BY <5>1, <5>2 DEF LeftBehind, args, loop
      <4>5. QED  BY <4>1, <4>2, <4>3, <4>4
    <3>3. QED  BY <3>1, <3>2
  <2>3. family = family'
    BY DEF Next, Session, Host, SstSetup, NextSector, EraseSector, NextPage, WaitAsk,
           WaitPoll, EnableProgram, ProgramPage, Advance, ProgramDone, SstArm, SstWord,
           SstDisarm, Compare, CompareDone, Fetch, FetchDone, Read, Program, Verify, Erase,
           Exit, Ewsr, Wrsr, EraseCheck, BulkEnable, EraseBulk, EraseLocked, EraseSectors,
           EraseSectorsDone, EndErase, EndProgram, EndCall, FlashDone, vars
  <2>4. QED  BY <2>1, <2>2, <2>3 DEF LeftInv, AllBlank
<1>6. QED  BY <1>2, <1>3, <1>4, <1>5

LEMMA QuietPath ==
  ASSUME TypeInv, PathInv, FlashDone \/ UNCHANGED vars \/ WaitAsk \/ WaitPoll
  PROVE  PathInv'
<1>1. /\ UNCHANGED <<family, args, loop, ignored, erased>>
      /\ chip'.todo = chip.todo /\ chip'.protect = chip.protect
      /\ chip'.wel = chip.wel /\ (chip'.busy => chip.busy)
      /\ (Stage' = Stage /\ ret' = ret) \/ (Stage' = "end" /\ ret' = -1)
  BY Quiet
<1>2. /\ \A n : Written(n)' <=> Written(n)
      /\ SstErasesAll' <=> SstErasesAll
      /\ AllBlank' <=> AllBlank
  BY <1>1 DEF Written, InRange, SstErasesAll, AllBlank, args
<1>3. CASE Stage' = Stage /\ ret' = ret
  BY <1>1, <1>2, <1>3
  DEF PathInv, EraseReady, GenericInv, At45Inv, SstInv, WordsInv, WrittenInv, InWalk,
      Walked, ErasedTo, InRange, args, loop
<1>4. CASE Stage' = "end" /\ ret' = -1
  BY <1>4
  DEF PathInv, EraseReady, GenericInv, At45Inv, SstInv, WordsInv, WrittenInv, InWalk
<1>5. QED  BY <1>1, <1>3, <1>4


(* The calls of program and the head of the walk, at its first page.       *)
LEMMA BeginPath ==
  ASSUME TypeInv, BusyInv, Shape',
         \/ SstSetup
         \/ \E f \in Files, offset \in Offsets, length \in RLengths : Program(f, offset, length)
  PROVE  PathInv'
<1>1. \/ Stage' = "setup"
      \/ Stage' = "page" /\ page' = first' /\ sector_nr' = 0
      \/ Stage' = "end" /\ ret' = -1
  <2>1. CASE SstSetup
    <3>1. pc = "setup" /\ Stage = "setup"  BY <2>1 DEF SstSetup, Stage, Waiting
    <3>2. page = first /\ sector_nr = 0
      BY <3>1, TypeParts DEF Shape, PlaceOK, BusyInv
    <3>3. QED  BY <2>1, <3>1, <3>2 DEF SstSetup, Await, Stage, Waiting, args, loop
  <2>2. CASE ~SstSetup
    BY <2>2 DEF Program, BeginLoop, Refuse, Return, Stage, Waiting
  <2>3. QED  BY <2>1, <2>2
<1>2. CASE Stage' = "page" /\ page' = first' /\ sector_nr' = 0
  <2>1. page' \in Nat /\ first' \in Nat  BY Sizes DEF Shape, HostOK
  <2>2. Walked' = 0 /\ ErasedTo' = 0
    <3>1. \A m \in Nat : m - m + 0 = 0  OBVIOUS
    <3>2. Walked' = page' - first' + 0  BY <1>2 DEF Walked
    <3>3. QED  BY <1>2, <2>1, <3>1, <3>2 DEF ErasedTo
  <2>3. \A q \in PageNr : q \in Nat /\ SectorOf(q) \in Nat  BY Sizes, Sectors DEF PageNr
  <2>4. SectorOf(page') \in Nat  BY <2>1, Sectors
  <2>5. \A q \in PageNr : ~(q < 0) /\ ~(SectorOf(q) < 0)  BY <2>3
  <2>6. GenericInv' /\ At45Inv'  BY <1>2, <2>2, <2>5 DEF GenericInv, At45Inv
  <2>7. SstInv'
    <3>1. page' = first' + 0 * SectorPages /\ 0 \in 0..page'
      <4>1. \A m \in Nat : m = m + 0 * SectorPages /\ 0 \in 0..m  BY Sizes
      <4>2. QED  BY <1>2, <2>1, <4>1
    <3>2. \A q \in PageNr : ~(SectorOf(first') <= SectorOf(q) /\ SectorOf(q) < SectorOf(page') + 0)
      BY <1>2, <2>3, <2>4
    <3>3. sector_nr' <= SectorOf(page')  BY <1>2, <2>4
    <3>4. QED  BY <1>2, <3>1, <3>2, <3>3 DEF SstInv
  <2>8. QED  BY <1>2, <2>6, <2>7 DEF PathInv, EraseReady, WordsInv, WrittenInv
<1>3. CASE Stage' = "setup" \/ (Stage' = "end" /\ ret' = -1)
  BY <1>3
  DEF PathInv, EraseReady, GenericInv, At45Inv, SstInv, WordsInv, WrittenInv, InWalk
<1>4. QED  BY <1>1, <1>2, <1>3

LEMMA NextSectorPath ==
  ASSUME TypeInv, BusyInv, LeftInv, PathInv, NextSector
  PROVE  PathInv'
<1>1. /\ pc = "page" /\ Stage = "page" /\ Stage' = "erase" /\ left > 0 /\ family # "at45"
      /\ sector_nr <= SectorOf(page) /\ sector_nr' = SectorOf(page) + 1
      /\ Command(WriteEnable) /\ UNCHANGED <<family, first, page, size>>
  BY DEF NextSector, Goto, Stage, Waiting, args
<1>2. /\ chip \in Chip /\ page \in Nat /\ first \in Nat /\ sector_nr \in Nat /\ page >= first
      /\ SectorOf(page) \in Nat
  BY <1>1, Sizes, Sectors, TypeParts DEF Wires, Shape, HostOK, PlaceOK, Walking
<1>3. /\ chip'.todo = chip.todo /\ chip'.protect = chip.protect
      /\ (chip'.wel /\ ~chip'.busy) \/ AllBlank'
  <2>1. CASE chip.busy
    <3>1. LeftBehind  BY <1>1, <2>1 DEF BusyInv, BusyOnlyIf, Waiting
    <3>2. AllBlank  BY <1>1, <2>1, <3>1 DEF LeftInv
    <3>3. QED  BY <1>1, <2>1, <3>2 DEF Command, AllBlank
  <2>2. CASE ~chip.busy
    BY <1>1, <1>2, <2>2, PrepareEffect DEF Command
  <2>3. QED  BY <2>1, <2>2
<1>4. GenericInv'
  <2> SUFFICES ASSUME family = "generic"
               PROVE  GenericInv'
    BY <1>1 DEF GenericInv
  <2>1. /\ Walked > 0 => SectorOf(first + Walked - 1) < ErasedTo
        /\ ~chip.protect => \A n \in PageNr : n < Walked => Written(n)
    BY <1>1 DEF PathInv, GenericInv, InWalk
  <2>2. /\ Walked = page - first /\ Walked' = page - first
        /\ ErasedTo = sector_nr /\ ErasedTo' = SectorOf(page)
    BY <1>1, <1>2 DEF Walked, ErasedTo
  <2>3. Walked' > 0 => SectorOf(first' + Walked' - 1) < ErasedTo'
    <3>1. Walked > 0 => first + Walked - 1 \in Nat  BY <1>2, <2>2
    <3>2. QED  BY <1>1, <1>2, <2>1, <2>2, <3>1, Sectors
  <2>4. \A q \in PageNr : ~(q >= first' + Walked' /\ SectorOf(q) < ErasedTo')
    <3>1. first' + Walked' = page  BY <1>1, <1>2, <2>2
    <3>2. QED  BY <1>2, <2>2, <3>1, Sectors, Sizes DEF PageNr
  <2>5. \A n : Written(n)' <=> Written(n)
    BY <1>1, <1>3 DEF Written, InRange, NextSector, args
  <2>6. QED  BY <1>1, <1>3, <2>1, <2>2, <2>3, <2>4, <2>5 DEF GenericInv
<1>5. SstInv'
  BY <1>1, <1>3 DEF PathInv, SstInv, InWalk
<1>6. QED
  BY <1>1, <1>3, <1>4, <1>5 DEF PathInv, EraseReady, At45Inv, WordsInv, WrittenInv

LEMMA EraseSectorPath ==
  ASSUME TypeInv, BusyInv, PathInv, EraseSector, Pages <= AddrPages
  PROVE  PathInv'
<1>1. /\ pc = "erase" /\ Stage = "erase" /\ Command(SectorErase(page))
      /\ Stage' = (IF family = "sst" THEN "advance" ELSE "enable")
      /\ UNCHANGED <<family, args, loop>>
  BY DEF EraseSector, Await, Stage, Waiting
<1>2. /\ chip \in Chip /\ Settled(chip) /\ Shape /\ family # "at45" /\ left > 0
      /\ page \in Nat /\ first \in Nat /\ sector_nr \in Nat /\ page >= first
      /\ SectorOf(page) \in Nat
  BY <1>1, Sizes, Sectors, TypeParts
  DEF Wires, Shape, HostOK, PlaceOK, FamilyOK, Walking, BusyInv, Settled
<1>3. page \in PageNr /\ PageAddress(page) = page
  BY <1>1, <1>2, AtPage, Addresses, Sizes DEF PageNr
<1>4. /\ \A q \in PageNr :
           IF SectorOf(q) = SectorOf(page) THEN ~chip.protect => chip'.todo[q] = Blank
           ELSE chip'.todo[q] = chip.todo[q]
      /\ chip'.protect = chip.protect
  <2>1. EraseReady  BY DEF PathInv
  <2>2. CASE chip.busy
    BY <1>1, <2>1, <2>2 DEF EraseReady, AllBlank, Command
  <2>3. CASE ~chip.busy
    <3>1. chip' = SectorErase(page)  BY <1>1, <2>3 DEF Command
    <3>2. /\ \A q \in PageNr : chip'.todo[q] =
               IF chip.wel /\ ~chip.protect /\ SectorOf(q) = SectorOf(page)
               THEN Blank ELSE chip.todo[q]
          /\ chip'.protect = chip.protect
      <4>1. /\ \A q \in PageNr : SectorErase(page).todo[q] =
                 IF chip.wel /\ ~chip.protect /\ SectorOf(q) = SectorOf(PageAddress(page))
                 THEN Blank ELSE chip.todo[q]
            /\ SectorErase(page).protect = chip.protect
        <5>1. chip \in Chip /\ ~chip.busy /\ Settled(chip) /\ page \in Nat  BY <1>2, <2>3
        <5>2. QED  BY ONLY <5>1, EraseEffect
      <4>2. QED  BY <1>3, <3>1, <4>1
    <3>3. QED  BY <1>1, <2>1, <3>2 DEF EraseReady, AllBlank
  <2>4. QED  BY <2>2, <2>3
<1>5. GenericInv'
  <2> SUFFICES ASSUME family = "generic"
               PROVE  GenericInv'
    BY <1>1 DEF GenericInv
  <2>1. /\ Walked > 0 => SectorOf(first + Walked - 1) < ErasedTo
        /\ sector_nr = SectorOf(page) + 1
        /\ ~chip.protect =>
             /\ \A n \in PageNr : n < Walked => Written(n)
             /\ \A q \in PageNr :
                  q >= first + Walked /\ SectorOf(q) < ErasedTo => chip.todo[q] = Blank
    BY <1>1 DEF PathInv, GenericInv, InWalk
  <2>2. /\ Walked = page - first /\ Walked' = page - first
        /\ ErasedTo = SectorOf(page) /\ ErasedTo' = SectorOf(page) + 1
    BY <1>1, <1>2, <2>1 DEF Walked, ErasedTo, loop, args
  <2>3. Walked > 0 => first + Walked - 1 \in Nat  BY <1>2, <2>2
  <2>4. Walked' > 0 => SectorOf(first' + Walked' - 1) < ErasedTo'
    BY <1>1, <1>2, <2>1, <2>2, <2>3, Sectors DEF args
  <2>5. ASSUME ~chip.protect, NEW n \in PageNr, n < Walked'
        PROVE  Written(n)'
    <3>1. n \in Nat /\ Written(n) /\ Walked > 0  BY <2>1, <2>2, <2>5, Sizes DEF PageNr
    <3>2. SectorOf(first + n) < SectorOf(page)
      <4>1. first + n \in Nat /\ first + Walked - 1 \in Nat /\ first + n <= first + Walked - 1
        BY <1>2, <2>2, <2>3, <2>5, <3>1
      <4>2. SectorOf(first + n) <= SectorOf(first + Walked - 1) /\ SectorOf(first + n) \in Nat
            /\ SectorOf(first + Walked - 1) \in Nat
        BY <4>1, Sectors
      <4>3. QED  BY <1>2, <2>1, <2>2, <3>1, <4>2
    <3>3. SectorOf(first + n) # SectorOf(page)
      BY <1>2, <3>2, <3>1, Sectors
    <3>4. ASSUME NEW b \in ByteNr, InRange(n, b)
          PROVE  chip'.todo[first + n] = chip.todo[first + n]
      <4>1. n * PageSize < size /\ call = "write"
        BY <1>1, <1>2, <3>1, <3>4, Sizes, Products
        DEF InRange, ByteNr, Shape, HostOK, StageOK, Writing
      <4>2. first + n \in PageNr  BY <1>2, <3>1, <4>1, PageInRange
      <4>3. QED  BY <1>4, <3>3, <4>2
    <3>5. QED  BY <1>1, <3>1, <3>4 DEF Written, InRange, args
  <2>6. ASSUME ~chip.protect, NEW q \in PageNr, q >= first' + Walked',
               SectorOf(q) < ErasedTo'
        PROVE  chip'.todo[q] = Blank
    <3>1. q \in Nat /\ q >= page
      BY <1>1, <1>2, <2>2, <2>6, Sizes DEF PageNr, args
    <3>2. SectorOf(q) = SectorOf(page)
      BY <1>2, <2>2, <2>6, <3>1, Sectors
    <3>3. QED  BY <1>4, <2>6, <3>2
  <2>7. SectorOf(page') < sector_nr'
    BY <1>1, <1>2, <2>1 DEF loop
  <2>8. QED  BY <1>1, <1>4, <2>4, <2>5, <2>6, <2>7 DEF GenericInv
<1>6. SstInv'
  <2> SUFFICES ASSUME family = "sst"
               PROVE  SstInv'
    BY <1>1 DEF SstInv
  <2>1. /\ \E m \in 0..page : page = first + m * SectorPages
        /\ sector_nr = SectorOf(page) + 1
        /\ ~chip.protect =>
             \A q \in PageNr : SectorOf(first) <= SectorOf(q) /\ SectorOf(q) < SectorOf(page) + 0
               => chip.todo[q] = Blank
    BY <1>1 DEF PathInv, SstInv, InWalk
  <2>2. ASSUME ~chip.protect, NEW q \in PageNr, SectorOf(first) <= SectorOf(q),
               SectorOf(q) < SectorOf(page) + 1
        PROVE  chip'.todo[q] = Blank
    <3>1. SectorOf(q) \in Nat  BY Sizes, Sectors DEF PageNr
    <3>2. SectorOf(q) = SectorOf(page) \/ SectorOf(q) < SectorOf(page) + 0
      BY <1>2, <2>2, <3>1
    <3>3. QED  BY <1>2, <1>4, <2>1, <2>2, <3>1, <3>2
  <2>3. QED  BY <1>1, <1>4, <2>1, <2>2 DEF SstInv, args, loop
<1>7. QED
  BY <1>1, <1>2, <1>5, <1>6 DEF PathInv, EraseReady, At45Inv, WordsInv, WrittenInv


LEMMA NextPagePath ==
  ASSUME TypeInv, PathInv, NextPage
  PROVE  PathInv'
<1>1. /\ pc = "page" /\ Stage = "page" /\ (family = "at45" \/ sector_nr > SectorOf(page))
      /\ Stage' = (IF family = "at45" THEN "program"
                   ELSE IF family = "sst" THEN "advance" ELSE "enable")
      /\ UNCHANGED <<chip, ignored, family, args, loop>>
  BY DEF NextPage, NoTransfer, Goto, Stage, Waiting
<1>2. family \in {"generic", "at45", "sst"} /\ sector_nr \in Nat /\ SectorOf(page) \in Nat
  BY ArgumentAssumption, TypeParts, Sectors DEF Shape, HostOK
<1>3. family # "sst"
  BY <1>1, <1>2 DEF PathInv, SstInv, InWalk
<1>4. /\ \A n : Written(n)' <=> Written(n)
      /\ Walked' = Walked /\ ErasedTo' = ErasedTo
  BY <1>1, <1>3 DEF Written, InRange, Walked, ErasedTo, args, loop
<1>5. GenericInv' /\ At45Inv'
  BY <1>1, <1>2, <1>3, <1>4 DEF PathInv, GenericInv, At45Inv, InWalk, args, loop
<1>6. QED
  BY <1>1, <1>3, <1>5 DEF PathInv, EraseReady, SstInv, WordsInv, WrittenInv

(* The flash is not busy where the host has waited for it in this call.    *)
LEMMA IdleWrite ==
  ASSUME TypeInv, BusyInv, pc \in {"enable", "words"} \/ (pc = "program" /\ family # "at45"),
         left > 0
  PROVE  ~chip.busy
<1>1. Stage = pc /\ pc \in {"enable", "words", "program"} /\ Shape
  BY TypeParts DEF Stage, Waiting
<1>2. call = "write" /\ page - first \in Nat /\ (page - first) * PageSize < size
  BY <1>1, AtPage, Sizes DEF PageNr, Shape, StageOK, Writing
<1>3. size # 0
  <2>1. (page - first) * PageSize \in Int /\ 0 * PageSize <= (page - first) * PageSize
    BY <1>2, Products
  <2>2. QED  BY <1>2, <2>1, Products
<1>4. QED  BY <1>1, <1>2, <1>3 DEF BusyInv, BusyOnlyIf, LeftBehind, Waiting

LEMMA EnableProgramPath ==
  ASSUME TypeInv, BusyInv, PathInv, EnableProgram
  PROVE  PathInv'
<1>1. /\ pc = "enable" /\ Stage = "enable" /\ Stage' = "program" /\ Command(WriteEnable)
      /\ UNCHANGED <<family, args, loop>>
  BY DEF EnableProgram, Goto, Stage, Waiting
<1>2. chip \in Chip /\ family = "generic" /\ left > 0
  BY <1>1, TypeParts DEF Wires, Shape, FamilyOK, PlaceOK
<1>3. ~chip.busy  BY <1>1, <1>2, IdleWrite
<1>4. /\ chip'.todo = chip.todo /\ chip'.protect = chip.protect /\ chip'.wel /\ ~chip'.busy
  BY <1>1, <1>2, <1>3, PrepareEffect DEF Command
<1>5. /\ \A n : Written(n)' <=> Written(n)
      /\ Walked' = Walked /\ ErasedTo' = ErasedTo
  BY <1>1, <1>4 DEF Written, InRange, Walked, ErasedTo, args, loop
<1>6. GenericInv'
  BY <1>1, <1>2, <1>4, <1>5 DEF PathInv, GenericInv, InWalk, args, loop
<1>7. QED
  BY <1>1, <1>2, <1>6 DEF PathInv, EraseReady, At45Inv, SstInv, WordsInv, WrittenInv

(* The bytes of this page that are in the range are sent.                  *)
LEMMA BytesSent ==
  ASSUME Shape, Stage = "program", NEW b \in ByteNr, InRange(page - first, b)
  PROVE  b < PageLength
<1>1. /\ left = size - (page - first) * PageSize /\ page - first \in Int
      /\ size \in Nat /\ left \in Int /\ b \in Nat /\ b < PageSize
  BY Sizes DEF Shape, HostOK, PlaceOK, Walking, ByteNr
<1>2. (page - first) * PageSize \in Int  BY <1>1, Products
<1>3. b < left  BY <1>1, <1>2 DEF InRange
<1>4. QED  BY <1>1, <1>3 DEF PageLength

(* What a page sent to a flash that takes it leaves there.                 *)
LEMMA PageSent ==
  ASSUME TypeInv, BusyInv, PathInv, ProgramPage, Pages <= AddrPages, ~chip.protect,
         family = "at45" => ~chip.busy
  PROVE  /\ \A q \in PageNr : q # page => chip'.todo[q] = chip.todo[q]
         /\ \A b \in ByteNr : InRange(page - first, b)
              => chip'.todo[page][b] = file.data[page - first][b]
<1> DEFINE D == file.data[page - first]
           n == PageLength
<1>1. /\ pc = "program" /\ Stage = "program"
      /\ Command(IF family = "at45" THEN BufferProgram(page, D, n) ELSE PageProgram(page, D, n))
  BY DEF ProgramPage, Stage, Waiting
<1>2. /\ Shape /\ chip \in Chip /\ Settled(chip) /\ left > 0 /\ page \in Nat
      /\ family \in {"at45", "generic"}
  BY <1>1, ArgumentAssumption, TypeParts
  DEF Wires, Shape, HostOK, FamilyOK, PlaceOK, BusyInv, Settled
<1>3. page \in PageNr /\ page - first \in PageNr /\ PageAddress(page) = page
  BY <1>1, <1>2, AtPage, Addresses, Sizes DEF PageNr
<1>4. D \in Page  BY <1>2, <1>3 DEF Shape, HostOK, File, Cells
<1>5. ~chip.busy  BY <1>1, <1>2, IdleWrite
<1>6. \A b \in ByteNr : InRange(page - first, b) => b < n
  BY <1>1, <1>2, BytesSent
<1> HIDE DEF D, n
<1>7. CASE family = "at45"
  <2>1. chip' = BufferProgram(page, D, n)  BY <1>1, <1>5, <1>7 DEF Command
  <2>2. /\ \A q \in PageNr : q # page => chip'.todo[q] = chip.todo[q]
        /\ \A b \in ByteNr : b < n => chip'.todo[page][b] = D[b]
    BY <1>2, <1>3, <1>4, <1>5, <2>1, BufferProgramEffect
  <2>3. QED  BY <1>6, <2>2 DEF D
<1>8. CASE family = "generic"
  <2>1. chip' = PageProgram(page, D, n)  BY <1>1, <1>5, <1>8 DEF Command
  <2>2. chip.wel /\ chip.todo[page] = Blank
    <3>1. /\ chip.wel /\ SectorOf(page) < sector_nr
          /\ \A q \in PageNr :
               q >= first + Walked /\ SectorOf(q) < ErasedTo => chip.todo[q] = Blank
      BY <1>1, <1>8 DEF PathInv, GenericInv, InWalk
    <3>2. first + Walked = page /\ ErasedTo = sector_nr
      BY <1>1, <1>2, Sizes DEF Walked, ErasedTo, Shape, HostOK
    <3>3. page >= page  BY <1>2
    <3>4. QED  BY <1>3, <3>1, <3>2, <3>3
  <2>3. /\ \A q \in PageNr : q # page => chip'.todo[q] = chip.todo[q]
        /\ chip'.todo[page] = Burn(Blank, D, n)
    BY <1>2, <1>3, <1>4, <1>5, <2>1, <2>2, PageProgramEffect
  <2>4. ASSUME NEW b \in ByteNr, b < n PROVE Burn(Blank, D, n)[b] = D[b]
    <3>1. D[b] \in {0, 1}  BY <1>4 DEF Page
    <3>2. QED  BY <2>4, <3>1 DEF Burn, Blank
  <2>5. QED  BY <1>6, <2>3, <2>4 DEF D
<1>9. QED  BY <1>2, <1>7, <1>8

LEMMA ProgramPagePath ==
  ASSUME TypeInv, BusyInv, PathInv, ProgramPage, Pages <= AddrPages
  PROVE  PathInv'
<1>1. /\ pc = "program" /\ Stage = "program" /\ Stage' = "advance"
      /\ UNCHANGED <<family, args, loop>>
      /\ chip.busy => ignored'
  BY DEF ProgramPage, Await, Stage, Waiting, Command
<1>2. /\ Shape /\ chip \in Chip /\ Settled(chip) /\ family \in {"at45", "generic"} /\ left > 0
      /\ page \in Nat /\ first \in Nat /\ page >= first /\ sector_nr \in Nat
      /\ SectorOf(page) \in Nat
  <2>1. Shape /\ chip \in Chip /\ Settled(chip)
    BY TypeParts DEF Wires, BusyInv, Settled
  <2>2. family \in {"at45", "generic"}
    BY <1>1, <2>1, ArgumentAssumption DEF Shape, HostOK, FamilyOK
  <2>3. left > 0 /\ page \in Nat /\ first \in Nat /\ page >= first /\ sector_nr \in Nat
    BY <1>1, <2>1, Sizes DEF Shape, HostOK, PlaceOK, Walking
  <2>4. QED  BY <2>1, <2>2, <2>3, Sectors
<1>3. chip'.protect = chip.protect
  <2>1. page - first \in PageNr  BY <1>1, <1>2, AtPage
  <2>2. file.data[page - first] \in Page  BY <1>2, <2>1 DEF Shape, HostOK, File, Cells
  <2>3. QED
    BY <1>2, <2>2, PageProgramEffect, BufferProgramEffect DEF ProgramPage, Command
<1>4. Walked = page - first /\ Walked' = page - first + 1 /\ ErasedTo' = sector_nr
      /\ ErasedTo = sector_nr
  BY <1>1, <1>2 DEF Walked, ErasedTo, args, loop
<1>5. ASSUME ~chip.protect, family = "at45" => ~chip.busy,
             \A n \in PageNr : n < Walked => Written(n)
      PROVE  \A n \in PageNr : n < Walked' => Written(n)'
  <2> SUFFICES ASSUME NEW n \in PageNr, n < Walked', NEW b \in ByteNr, InRange(n, b)
               PROVE  chip'.todo[first + n][b] = file.data[n][b]
    BY <1>1 DEF Written, InRange, args
  <2>1. /\ \A q \in PageNr : q # page => chip'.todo[q] = chip.todo[q]
        /\ \A c \in ByteNr : InRange(page - first, c)
             => chip'.todo[page][c] = file.data[page - first][c]
    BY <1>5, PageSent
  <2>2. n \in Nat  BY Sizes DEF PageNr
  <2>3. CASE n = page - first
    <3>1. first + n = page  BY <1>2, <2>3
    <3>2. QED  BY <2>1, <2>3, <3>1
  <2>4. CASE n < page - first
    <3>1. n * PageSize < size /\ call = "write"
      BY <1>1, <1>2, <2>2, Sizes, Products
      DEF InRange, ByteNr, Shape, HostOK, StageOK, Writing
    <3>2. first + n \in PageNr /\ first + n # page
      BY <1>2, <2>2, <2>4, <3>1, PageInRange
    <3>3. Written(n)  BY <1>4, <1>5, <2>4
    <3>4. QED  BY <2>1, <3>2, <3>3 DEF Written
  <2>5. QED  BY <1>2, <1>4, <2>2, <2>3, <2>4
<1>6. At45Inv'
  <2> SUFFICES ASSUME family = "at45", ~chip.protect, ~ignored'
               PROVE  \A n \in PageNr : n < Walked' => Written(n)'
    BY <1>1, <1>3 DEF At45Inv
  <2>1. ~chip.busy /\ ~ignored
    BY <1>1 DEF ProgramPage, Command
  <2>2. \A n \in PageNr : n < Walked => Written(n)
    BY <1>1, <2>1 DEF PathInv, At45Inv, InWalk
  <2>3. QED  BY <1>5, <2>1, <2>2
<1>7. GenericInv'
  <2> SUFFICES ASSUME family = "generic"
               PROVE  GenericInv'
    BY <1>1 DEF GenericInv
  <2>1. /\ SectorOf(page) < sector_nr
        /\ ~chip.protect =>
             /\ \A n \in PageNr : n < Walked => Written(n)
             /\ \A q \in PageNr :
                  q >= first + Walked /\ SectorOf(q) < ErasedTo => chip.todo[q] = Blank
    BY <1>1 DEF PathInv, GenericInv, InWalk
  <2>2. /\ Walked' > 0 => SectorOf(first' + Walked' - 1) < ErasedTo'
        /\ SectorOf(page') < sector_nr'
    <3>1. first' + Walked' - 1 = page  BY <1>1, <1>2, <1>4 DEF args
    <3>2. QED  BY <1>1, <1>4, <2>1, <3>1 DEF loop
  <2>3. ASSUME ~chip.protect, NEW q \in PageNr, q >= first' + Walked',
               SectorOf(q) < ErasedTo'
        PROVE  chip'.todo[q] = Blank
    <3>1. q \in Nat  BY Sizes DEF PageNr
    <3>2. q >= page + 1 /\ q # page /\ q >= first + Walked
      BY <1>1, <1>2, <1>4, <2>3, <3>1 DEF args
    <3>3. chip'.todo[q] = chip.todo[q]  BY <2>3, <3>2, PageSent
    <3>4. QED  BY <1>4, <2>1, <2>3, <3>2, <3>3
  <2>4. QED  BY <1>1, <1>3, <1>5, <2>1, <2>2, <2>3 DEF GenericInv
<1>8. QED
  BY <1>1, <1>2, <1>6, <1>7 DEF PathInv, EraseReady, SstInv, WordsInv, WrittenInv

LEMMA AdvancePath ==
  ASSUME TypeInv, PathInv, Advance
  PROVE  PathInv'
<1>1. /\ pc = "advance" /\ Stage = "advance" /\ Stage' = "page"
      /\ page' = page + (IF family = "sst" THEN SectorPages ELSE 1)
      /\ UNCHANGED <<chip, ignored, family, args, sector_nr>>
  BY DEF Advance, NoTransfer, Goto, Stage, Waiting
<1>2. /\ page \in Nat /\ first \in Nat /\ sector_nr \in Nat /\ SectorOf(page) \in Nat
      /\ SectorPages \in Nat /\ SectorPages > 0
  BY Sizes, Sectors, TypeParts DEF Shape, HostOK
<1>3. /\ \A n : Written(n)' <=> Written(n)
      /\ ErasedTo' = ErasedTo /\ (family # "sst" => Walked' = Walked)
  BY <1>1, <1>2 DEF Written, InRange, Walked, ErasedTo, args
<1>4. GenericInv' /\ At45Inv'
  BY <1>1, <1>2, <1>3 DEF PathInv, GenericInv, At45Inv, InWalk, args
<1>5. SstInv'
  <2> SUFFICES ASSUME family = "sst"
               PROVE  SstInv'
    BY <1>1 DEF SstInv
  <2>1. /\ \E m \in 0..page : page = first + m * SectorPages
        /\ sector_nr = SectorOf(page) + 1
        /\ ~chip.protect =>
             \A q \in PageNr : SectorOf(first) <= SectorOf(q) /\ SectorOf(q) < SectorOf(page) + 1
               => chip.todo[q] = Blank
    BY <1>1 DEF PathInv, SstInv, InWalk
  <2>2. page' = page + SectorPages /\ SectorOf(page') = SectorOf(page) + 1
    BY <1>1, <1>2, Sectors
  <2>3. \E m \in 0..page' : page' = first' + m * SectorPages
    <3>1. PICK m \in 0..page : page = first + m * SectorPages  BY <2>1
    <3>2. m + 1 \in 0..page' /\ page' = first' + (m + 1) * SectorPages
      BY <1>1, <1>2, <2>2, <3>1, SectorBlock DEF args
    <3>3. QED  BY <3>2
  <2>4. SectorOf(page') + 0 = SectorOf(page) + 1  BY <1>2, <2>2
  <2>5. sector_nr' <= SectorOf(page')  BY <1>1, <1>2, <2>1, <2>2
  <2>6. QED  BY <1>1, <2>1, <2>3, <2>4, <2>5 DEF SstInv, args
<1>6. QED
  BY <1>1, <1>4, <1>5 DEF PathInv, EraseReady, WordsInv, WrittenInv

(* A page of the range lies before the place where nothing is left.        *)
LEMMA AllWalked ==
  ASSUME Shape, Stage = "page", left <= 0, NEW n \in PageNr, NEW b \in ByteNr, InRange(n, b)
  PROVE  n < page - first /\ n * PageSize < size /\ InRange(n, 0)
<1>1. /\ page \in Nat /\ first \in Nat /\ left \in Int /\ size \in Nat
      /\ left = size - (page - first) * PageSize /\ n \in Nat /\ b \in Nat
  BY Sizes DEF Shape, HostOK, PlaceOK, Walking, PageNr, ByteNr
<1>2. n * PageSize \in Int /\ n * PageSize + b < size /\ (page - first) * PageSize \in Int
  BY <1>1, Products DEF InRange
<1>3. n * PageSize < (page - first) * PageSize /\ n * PageSize + 0 < size /\ n * PageSize < size
  BY <1>1, <1>2
<1>4. page - first \in Int  BY <1>1
<1>5. QED  BY <1>1, <1>3, <1>4, Products DEF InRange

LEMMA ProgramDonePath ==
  ASSUME TypeInv, PathInv, ProgramDone
  PROVE  PathInv'
<1>1. /\ pc = "page" /\ Stage = "page" /\ Stage' = "end" /\ left <= 0 /\ family # "sst"
      /\ UNCHANGED <<chip, ignored, family, args>>
  BY DEF ProgramDone, NoTransfer, Return, Stage, Waiting
<1>2. Shape /\ family \in {"generic", "at45", "sst"} /\ page \in Nat /\ first \in Nat
  <2>1. Shape /\ page \in Nat /\ first \in Nat  BY Sizes, TypeParts DEF Shape, HostOK
  <2>2. family \in {"generic", "at45", "sst"}  BY <2>1, ArgumentAssumption DEF Shape, HostOK
  <2>3. QED  BY <2>1, <2>2
<1>3. ASSUME ~chip.protect, family = "at45" => ~ignored,
             NEW n \in PageNr, NEW b \in ByteNr, InRange(n, b)
      PROVE  chip.todo[first + n][b] = file.data[n][b]
  <2>1. Walked = page - first  BY <1>1, <1>2 DEF Walked
  <2>2. n < Walked  BY <1>1, <1>2, <1>3, <2>1, AllWalked
  <2>3. Written(n)
    BY <1>1, <1>2, <1>3, <2>2 DEF PathInv, GenericInv, At45Inv, InWalk
  <2>4. QED  BY <1>3, <2>3 DEF Written
<1>4. WrittenInv'
  BY <1>1, <1>3 DEF WrittenInv, Written, InRange, args
<1>5. QED
  BY <1>1, <1>4 DEF PathInv, EraseReady, GenericInv, At45Inv, SstInv, WordsInv, InWalk


(* The sectors program_sst visited are all those with pages of the range,  *)
(* if the offset is at a sector boundary.                                  *)
LEMMA SectorsVisited ==
  ASSUME Shape, PathInv, Stage = "page", family = "sst", left <= 0, SstErasesAll,
         NEW n \in PageNr, InRange(n, 0)
  PROVE  /\ first + n \in PageNr
         /\ SectorOf(first) <= SectorOf(first + n) /\ SectorOf(first + n) < SectorOf(page)
<1>1. /\ page \in Nat /\ first \in Nat /\ left \in Int /\ size \in Nat /\ call = "write"
      /\ left = size - (page - first) * PageSize /\ n \in Nat
      /\ SectorPages \in Nat /\ SectorPages > 0
  BY Sizes DEF Shape, HostOK, StageOK, PlaceOK, Walking, Writing, PageNr
<1>2. n * PageSize \in Int /\ n * PageSize < size
  BY <1>1, Products DEF InRange
<1>3. first + n \in PageNr  BY <1>1, <1>2, PageInRange
<1>4. PICK m \in PageNr : /\ InRange(m * SectorPages, 0)
                          /\ SectorOf(first + m * SectorPages) = SectorOf(first + n)
  BY DEF SstErasesAll
<1>5. PICK M \in 0..page : page = first + M * SectorPages
  BY DEF PathInv, SstInv, InWalk
<1>6. m \in Nat /\ M \in Nat /\ m * SectorPages \in Nat /\ M * SectorPages \in Nat
  BY <1>1, <1>5, Sizes, SectorBlock DEF PageNr
<1>7. m * SectorPages < M * SectorPages
  <2>1. /\ (m * SectorPages) * PageSize \in Int /\ (m * SectorPages) * PageSize < size
    BY <1>1, <1>4, <1>6, Products DEF InRange
  <2>2. page - first = M * SectorPages /\ (page - first) * PageSize \in Int
    BY <1>1, <1>5, <1>6, Products
  <2>3. (m * SectorPages) * PageSize < (M * SectorPages) * PageSize
    BY <1>1, <2>1, <2>2
  <2>4. \A x, y \in Int : x * PageSize < y * PageSize => x < y  BY Products
  <2>5. QED  BY <1>6, <2>3, <2>4
<1>8. m * SectorPages + SectorPages <= M * SectorPages
  BY <1>1, <1>6, <1>7
<1>9. SectorOf(first + m * SectorPages) + 1 <= SectorOf(page)
  <2>1. first + m * SectorPages \in Nat /\ first + m * SectorPages + SectorPages \in Nat
        /\ first + m * SectorPages + SectorPages <= page
    BY <1>1, <1>5, <1>6, <1>8
  <2>2. SectorOf(first + m * SectorPages + SectorPages) = SectorOf(first + m * SectorPages) + 1
    BY <2>1, Sectors
  <2>3. SectorOf(first + m * SectorPages + SectorPages) <= SectorOf(page)
    BY <1>1, <2>1, Sectors
  <2>4. QED  BY <2>2, <2>3
<1>10. SectorOf(first) <= SectorOf(first + n) /\ SectorOf(first + n) \in Nat
       /\ SectorOf(page) \in Nat
  <2>1. first + n \in Nat /\ first <= first + n  BY <1>1
  <2>2. QED  BY <1>1, <2>1, Sectors
<1>11. QED  BY <1>3, <1>4, <1>9, <1>10

LEMMA SstArmPath ==
  ASSUME TypeInv, BusyInv, PathInv, SstArm
  PROVE  PathInv'
<1>1. /\ pc = "page" /\ Stage = "page" /\ Stage' = "words" /\ left <= 0 /\ family = "sst"
      /\ Command(WriteEnable) /\ page' = first /\ left' = size /\ word' = word
      /\ UNCHANGED <<family, args>>
  BY DEF SstArm, Await, Stage, Waiting
<1>2. /\ Shape /\ chip \in Chip /\ page \in Nat /\ first \in Nat /\ size \in Nat /\ word = 0
      /\ call = "write" /\ left = size - (page - first) * PageSize
  BY <1>1, Sizes, TypeParts DEF Wires, Shape, HostOK, StageOK, PlaceOK, Walking, Writing
<1>3. size > 0 => ~chip.busy
  <2>1. page = first => left = size
    <3>1. first - first = 0 /\ 0 * PageSize = 0  BY <1>2, Products
    <3>2. QED  BY <1>2, <3>1
  <2>2. QED
    BY <1>1, <1>2, <2>1 DEF BusyInv, BusyOnlyIf, LeftBehind, Waiting
<1>4. /\ chip'.todo = chip.todo /\ chip'.protect = chip.protect
      /\ left' > 0 => chip'.wel /\ ~chip'.busy
  BY <1>1, <1>2, <1>3, PrepareEffect DEF Command
<1>5. ASSUME ~chip.protect, SstErasesAll, NEW n \in PageNr, NEW b \in ByteNr, InRange(n, b)
      PROVE  /\ chip.todo[first + n][b] = 1
             /\ ~(n < page' - first') /\ ~(b < word')
  <2>1. n \in Nat /\ b \in Nat  BY Sizes DEF PageNr, ByteNr
  <2>2. InRange(n, 0)  BY <1>1, <1>2, <1>5, AllWalked
  <2>3. /\ first + n \in PageNr
        /\ SectorOf(first) <= SectorOf(first + n) /\ SectorOf(first + n) < SectorOf(page) + 0
    <3>1. SectorOf(page) \in Nat  BY <1>2, Sectors
    <3>2. QED  BY <1>1, <1>2, <1>5, <2>2, <3>1, SectorsVisited
  <2>4. chip.todo[first + n] = Blank
    BY <1>1, <1>5, <2>3 DEF PathInv, SstInv, InWalk
  <2>5. page' - first' = 0  BY <1>1, <1>2 DEF args
  <2>6. QED  BY <1>1, <1>2, <2>1, <2>4, <2>5 DEF Blank
<1>6. (SstErasesAll' <=> SstErasesAll) /\ \A n, b : InRange(n, b)' <=> InRange(n, b)
  BY <1>1 DEF SstErasesAll, InRange, args
<1>7. WordsInv'
  BY <1>1, <1>4, <1>5, <1>6 DEF WordsInv, args
<1>8. QED
  BY <1>1, <1>7 DEF PathInv, EraseReady, GenericInv, At45Inv, SstInv, WrittenInv, InWalk

LEMMA SstWordPath ==
  ASSUME TypeInv, BusyInv, PathInv, SstWord
  PROVE  PathInv'
<1> DEFINE D == file.data[page - first]
<1>1. /\ pc = "words" /\ Stage = "words" /\ Stage' = "words" /\ left > 0
      /\ Command(AaiWord(page, word, D)) /\ left' = left - 2
      /\ \/ word + 2 < PageSize /\ word' = word + 2 /\ page' = page
         \/ ~(word + 2 < PageSize) /\ word' = 0 /\ page' = page + 1
      /\ UNCHANGED <<family, args>>
  BY DEF SstWord, Stage, Waiting, poll
<1>2. /\ Shape /\ chip \in Chip /\ Settled(chip) /\ left \in Int /\ size \in Nat
      /\ page \in Nat /\ first \in Nat /\ page >= first /\ word \in ByteNr /\ word \in Nat
  BY <1>1, Sizes, TypeParts DEF Wires, Shape, HostOK, PlaceOK, BusyInv, Settled, ByteNr
<1>3. page \in PageNr /\ page - first \in PageNr /\ D \in Page
  <2>1. page \in PageNr /\ page - first \in PageNr  BY <1>1, <1>2, AtPage
  <2>2. QED  BY <1>2, <2>1 DEF Shape, HostOK, File, Cells
<1> HIDE DEF D
<1>4. chip.wel /\ ~chip.busy  BY <1>1 DEF PathInv, WordsInv
<1>5. chip' = AaiWord(page, word, D)  BY <1>1, <1>4 DEF Command
<1>6. /\ \A c \in ByteNr : chip'.todo[page][c] =
           IF ~chip.protect /\ c \in {word, word + 1} /\ D[c] < chip.todo[page][c]
           THEN D[c] ELSE chip.todo[page][c]
      /\ \A q \in PageNr : q # page => chip'.todo[q] = chip.todo[q]
      /\ chip'.protect = chip.protect /\ chip'.wel /\ ~chip'.busy
  <2>1. /\ \A q \in PageNr, c \in ByteNr : chip'.todo[q][c] =
             IF chip.wel /\ ~chip.protect /\ q = page /\ c \in {word, word + 1}
                /\ D[c] < chip.todo[q][c]
             THEN D[c] ELSE chip.todo[q][c]
        /\ \A q \in PageNr : q # page => chip'.todo[q] = chip.todo[q]
        /\ chip'.protect = chip.protect /\ chip'.wel = chip.wel /\ chip'.busy = chip.busy
    <3> DEFINE new == AaiWord(page, word, D)
    <3>1. /\ \A q \in PageNr, c \in ByteNr : new.todo[q][c] =
               IF chip.wel /\ ~chip.protect /\ q = page /\ c \in {word, word + 1}
                  /\ D[c] < chip.todo[q][c]
               THEN D[c] ELSE chip.todo[q][c]
          /\ \A q \in PageNr : q # page => new.todo[q] = chip.todo[q]
          /\ new.protect = chip.protect /\ new.wel = chip.wel /\ new.busy = chip.busy
      BY <1>2, <1>3, <1>4, AaiEffect
    <3> HIDE DEF new
    <3>2. chip' = new  BY <1>5 DEF new
    <3>3. QED  BY <3>1, <3>2
  <2>2. \A c \in ByteNr : chip'.todo[page][c] =
             IF chip.wel /\ ~chip.protect /\ page = page /\ c \in {word, word + 1}
                /\ D[c] < chip.todo[page][c]
             THEN D[c] ELSE chip.todo[page][c]
    BY <1>3, <2>1
  <2>3. QED  BY <1>4, <2>1, <2>2
<1>7. ASSUME ~chip.protect, SstErasesAll, NEW n \in PageNr, NEW b \in ByteNr, InRange(n, b)
      PROVE  chip'.todo[first + n][b] =
               IF n < page' - first \/ (n = page' - first /\ b < word')
               THEN file.data[n][b] ELSE 1
  <2>1. chip.todo[first + n][b] =
          IF n < page - first \/ (n = page - first /\ b < word) THEN file.data[n][b] ELSE 1
    BY <1>1, <1>7 DEF PathInv, WordsInv
  <2>2. n \in Nat /\ b \in Nat /\ b < PageSize  BY Sizes DEF PageNr, ByteNr
  <2>3. CASE n = page - first
    <3>1. first + n = page /\ file.data[n] = D  BY <1>2, <2>3 DEF D
    <3>2. D[b] \in {0, 1}  BY <1>3 DEF Page
    <3>3. b \in {word, word + 1} => chip.todo[page][b] = 1
      BY <1>2, <2>1, <2>2, <2>3, <3>1
    <3>4. chip'.todo[page][b] = IF b < word + 2 THEN D[b] ELSE 1
      <4>1. CASE b \in {word, word + 1}
        BY <1>2, <1>6, <1>7, <2>2, <3>2, <3>3, <4>1
      <4>2. CASE b < word
        BY <1>2, <1>6, <2>1, <2>2, <2>3, <3>1, <4>2
      <4>3. CASE b > word + 1
        BY <1>2, <1>6, <2>1, <2>2, <2>3, <3>1, <4>3
      <4>4. QED  BY <1>2, <2>2, <4>1, <4>2, <4>3
    <3>5. (n < page' - first \/ (n = page' - first /\ b < word')) <=> b < word + 2
      <4>1. CASE word + 2 < PageSize /\ word' = word + 2 /\ page' = page
        BY <1>2, <2>2, <2>3, <4>1
      <4>2. CASE ~(word + 2 < PageSize) /\ word' = 0 /\ page' = page + 1
        BY <1>2, <2>2, <2>3, <4>2, Sizes
      <4>3. QED  BY <1>1, <4>1, <4>2
    <3>6. QED  BY <3>1, <3>4, <3>5
  <2>4. CASE n # page - first
    <3>1. n * PageSize < size /\ call = "write"
      BY <1>1, <1>2, <1>7, <2>2, Sizes, Products
      DEF InRange, Shape, HostOK, StageOK, Writing
    <3>2. first + n \in PageNr /\ first + n # page
      BY <1>2, <2>2, <2>4, <3>1, PageInRange
    <3>3. (n < page' - first \/ (n = page' - first /\ b < word')) <=> n < page - first
      BY <1>1, <1>2, <2>2, <2>4
    <3>4. QED  BY <1>6, <2>1, <2>4, <3>2, <3>3
  <2>5. QED  BY <2>3, <2>4
<1>8. (SstErasesAll' <=> SstErasesAll) /\ \A n, b : InRange(n, b)' <=> InRange(n, b)
  BY <1>1 DEF SstErasesAll, InRange, args
<1>9. WordsInv'
  BY <1>1, <1>6, <1>7, <1>8 DEF WordsInv, args
<1>10. QED
  BY <1>1, <1>9 DEF PathInv, EraseReady, GenericInv, At45Inv, SstInv, WrittenInv, InWalk

LEMMA SstDisarmPath ==
  ASSUME TypeInv, PathInv, SstDisarm
  PROVE  PathInv'
<1>1. /\ pc = "words" /\ Stage = "words" /\ Stage' = "end" /\ left <= 0
      /\ Command([chip EXCEPT !.wel = FALSE]) /\ UNCHANGED <<family, args>>
  BY DEF SstDisarm, Await, Stage, Waiting
<1>2. /\ Shape /\ chip \in Chip /\ size \in Nat /\ left \in Int
      /\ page \in Nat /\ first \in Nat /\ word \in Nat /\ page - first \in Int
      /\ left = size - (page - first) * PageSize - word /\ family = "sst"
  BY <1>1, Sizes, TypeParts DEF Wires, Shape, HostOK, FamilyOK, PlaceOK, ByteNr
<1>3. chip'.todo = chip.todo /\ chip'.protect = chip.protect
  BY <1>1, <1>2, PrepareEffect DEF Command
<1>4. ASSUME NEW n \in PageNr, NEW b \in ByteNr, InRange(n, b)
      PROVE  n < page - first \/ (n = page - first /\ b < word)
  <2>1. n \in Nat /\ b \in Nat /\ n * PageSize \in Int /\ (page - first) * PageSize \in Int
    BY <1>2, Sizes, Products DEF PageNr, ByteNr
  <2>2. n * PageSize + b < (page - first) * PageSize + word
    BY <1>1, <1>2, <1>4, <2>1 DEF InRange
  <2>3. CASE n = page - first  BY <1>2, <2>1, <2>2, <2>3
  <2>4. CASE n > page - first
    <3>1. (page - first) * PageSize + PageSize <= n * PageSize
      <4>1. ((page - first) + 1) * PageSize = (page - first) * PageSize + 1 * PageSize
            /\ 1 * PageSize = PageSize
        BY <1>2, Products
      <4> DEFINE next == (page - first) + 1
      <4>2. next \in Int /\ next <= n  BY <1>2, <2>1, <2>4
      <4>3. next * PageSize = (page - first) * PageSize + PageSize
        BY <4>1
      <4> HIDE DEF next
      <4>4. next * PageSize <= n * PageSize  BY <2>1, <4>2, Products
      <4>5. QED  BY <4>3, <4>4
    <3>2. word < PageSize  BY <1>2, Sizes DEF Shape, HostOK, ByteNr
    <3>3. QED  BY <1>2, <2>1, <2>2, <3>1, <3>2, Sizes
  <2>5. QED  BY <1>2, <2>1, <2>3, <2>4
<1>5. (SstErasesAll' <=> SstErasesAll) /\ \A n, b : InRange(n, b)' <=> InRange(n, b)
  BY <1>1 DEF SstErasesAll, InRange, args
<1>6. WrittenInv'
  BY <1>1, <1>2, <1>3, <1>4, <1>5 DEF PathInv, WordsInv, WrittenInv, Written, args
<1>7. QED
  BY <1>1, <1>6 DEF PathInv, EraseReady, GenericInv, At45Inv, SstInv, WordsInv, InWalk

LEMMA PathStep ==
  ASSUME TypeInv, BusyInv, LeftInv, PathInv, [Next]_vars, Pages <= AddrPages
  PROVE  PathInv'
<1>1. Shape /\ Shape'  BY TypeParts, ShapeStep
<1>2. CASE call' # "write"
  BY <1>1, <1>2
  DEF Shape, StageOK, Writing, PathInv, EraseReady, GenericInv, At45Inv, SstInv, WordsInv,
      WrittenInv, InWalk
<1>3. CASE EndCall \/ Exit
  <2>1. Stage' \in {"idle", "exit"}  BY <1>3 DEF EndCall, Exit, Goto, Stage, Waiting
  <2>2. QED
    BY <2>1 DEF PathInv, EraseReady, GenericInv, At45Inv, SstInv, WordsInv, WrittenInv, InWalk
<1>4. CASE FlashDone \/ UNCHANGED vars \/ WaitAsk \/ WaitPoll
  BY <1>4, QuietPath
<1>5. CASE \/ SstSetup
           \/ \E f \in Files, offset \in Offsets, length \in RLengths :
                Program(f, offset, length)
  BY <1>1, <1>5, BeginPath
<1>6. CASE NextSector \/ EraseSector \/ NextPage \/ EnableProgram \/ ProgramPage \/ Advance
           \/ ProgramDone \/ SstArm \/ SstWord \/ SstDisarm
  BY <1>6, NextSectorPath, EraseSectorPath, NextPagePath, EnableProgramPath,
     ProgramPagePath, AdvancePath, ProgramDonePath, SstArmPath, SstWordPath, SstDisarmPath
<1>7. \/ call' # "write" \/ EndCall \/ Exit \/ FlashDone \/ UNCHANGED vars
      \/ WaitAsk \/ WaitPoll \/ SstSetup
      \/ \E f \in Files, offset \in Offsets, length \in RLengths : Program(f, offset, length)
      \/ NextSector \/ EraseSector \/ NextPage \/ EnableProgram \/ ProgramPage \/ Advance
      \/ ProgramDone \/ SstArm \/ SstWord \/ SstDisarm
  BY <1>1
  DEF Next, Session, Host, Compare, CompareDone, Fetch, FetchDone, Read, Verify, Erase,
      Ewsr, Wrsr, EraseCheck, BulkEnable, EraseBulk, EraseLocked, EraseSectors,
      EraseSectorsDone, EndErase, EndProgram, args, Shape, StageOK, Erasing, Comparing,
      Stage, Waiting
<1>8. QED  BY <1>2, <1>3, <1>4, <1>5, <1>6, <1>7

LEMMA PathInit == Init => LeftInv /\ PathInv
BY DEF Init, LeftInv, PathInv, EraseReady, GenericInv, At45Inv, SstInv, WordsInv, WrittenInv,
       InWalk, Stage, Waiting

(* A program that returns 0 has put the data into an unprotected flash,    *)
(* whatever the flash held and however its erase ended.                    *)
THEOREM ProgramPuts ==
  ASSUME Pages <= AddrPages
  PROVE  Spec => []ProgramWrites
<1>1. TypeInv /\ BusyInv /\ PathInv => ProgramWrites
  <2> SUFFICES ASSUME TypeInv, BusyInv, PathInv, pc = "end", call = "write", ret = 0,
                      ~chip.protect, family = "at45" => ~ignored,
                      family = "sst" => SstErasesAll,
                      NEW n \in PageNr, NEW b \in ByteNr, InRange(n, b)
               PROVE  chip.cells[first + n][b] = file.data[n][b]
    BY DEF ProgramWrites, Holds
  <2>1. Written(n)  BY DEF PathInv, WrittenInv, Stage, Waiting
  <2>2. size > 0
    <3>1. n \in Nat /\ b \in Nat /\ size \in Nat
      BY TypeParts, Sizes DEF PageNr, ByteNr, Shape, HostOK
    <3>2. n * PageSize \in Int /\ 0 * PageSize <= n * PageSize /\ 0 * PageSize = 0
      BY <3>1, Products
    <3>3. QED  BY <3>1, <3>2 DEF InRange
  <2>3. ~chip.busy
    BY <2>2 DEF BusyInv, BusyOnlyIf, LeftBehind, Waiting, Stage
  <2>4. QED  BY <2>1, <2>3 DEF BusyInv, Written
<1>2. TypeInv /\ BusyInv /\ LeftInv /\ PathInv /\ [Next]_vars => LeftInv' /\ PathInv'
  BY LeftStep, PathStep
<1>3. QED
  BY <1>1, <1>2, PathInit, TypeInit, TypeStep, BusyInit, BusyStep, PTL DEF Spec
==============================================================================
