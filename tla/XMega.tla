------------------------------- MODULE XMega -------------------------------
(***************************************************************************)
(* programXMega (src/xc3sprog.cpp), ProgAlgNVM (src/xmega_pdi_nvm.cpp) and *)
(* PDIoverJTAG (src/pdioverjtag.cpp).  A cell is a byte; the sections lie  *)
(* one after the other.                                                    *)
(*                                                                         *)
(* The NVM controller takes commands while it is not busy.  The line may   *)
(* delay a byte or spoil it whenever it likes.                             *)
(***************************************************************************)
EXTENDS Programmer

CONSTANTS
  Page,             \* flash_page and eeprom_page
  Sizes,            \* bytes of the sections a, b, e, f and l
  LengthRange,      \* 2^16: xnvm_read_memory counts in 16 bits
  PdiRetries        \* bound: WAIT_RETRIES_NUM

Sections == <<"a", "b", "e", "f", "l">>
ASSUME XMegaAssumption ==
  /\ {Page, LengthRange, PdiRetries} \subseteq Nat \ {0}
  /\ Sizes \in [{"a", "b", "e", "f", "l"} -> Nat \ {0}]
  /\ \A s \in {"a", "b", "e"} : Sizes[s] % Page = 0

AtX(stage) == Running("xmega", stage)

Before[k \in 0..5] == IF k = 0 THEN 0 ELSE Before[k - 1] + Sizes[Sections[k]]
base(s) == Before[(CHOOSE k \in 1..5 : Sections[k] = s) - 1]
ASSUME MemoryAssumption ==
  \A r \in Requests : r.kind = "xmega" => Len(r.cells) = Before[5]
Within(s) == (base(s) + 1)..(base(s) + Sizes[s])
Flash == Within("a") \cup Within("b")

Call(stage, then) == [Go(stage) EXCEPT !.then = then, !.polls = 0, !.wait = 0]
Release(ret) == [Tell(Go("release"), TRUE) EXCEPT !.ret = ret]

------------------------------------------------------------------------------
(***************************************************************************)
(* xnvm_ctrl_wait_nvmbusy does not look at whether the status could be     *)
(* read: at first the variable then holds anything, later the last status, *)
(* which was busy.  xnvm_wait_for_nvmen gives up at once.                  *)
(***************************************************************************)
Seen(read) == IF read THEN {dev.busy} ELSE IF host.polls = 0 THEN BOOLEAN ELSE {TRUE}
Returned(wait) == [Go(host.then) EXCEPT !.wait = wait]
PollAgain_wrong == [host EXCEPT !.polls = @ + 1]
PollAgain == IF host.polls + 1 = PdiRetries THEN Returned(1) ELSE [host EXCEPT !.polls = @ + 1]
wait_nvmbusy ==
  /\ AtX("nvmbusy") /\ Quiet
  /\ \E read \in BOOLEAN : \E busy \in Seen(read) :
       host' = IF busy THEN PollAgain ELSE [Returned(0) EXCEPT !.blind = @ \/ dev.busy]
wait_for_nvmen ==
  /\ AtX("nvmen") /\ Quiet
  /\ \E read \in BOOLEAN :
       host' = IF ~read THEN Tell(Returned(1), TRUE)
               ELSE IF dev.busy THEN PollAgain ELSE Returned(0)

(* pdi_read: one count of delays for all the bytes of an answer; a good    *)
(* byte after the last delay is one too late.                              *)
PdiDone == host.i = Len(host.out)
PdiGood == /\ AtX("pdi") /\ ~PdiDone /\ ~dev.busy /\ Quiet
           /\ LET a == base(Arg.section) + host.res + host.i + 1 IN
              host' = [host EXCEPT !.i = @ + 1,
                         !.out[host.i + 1] = IF a <= N THEN dev.cells[a] ELSE Erased]
Delays == host.polls + 1 < PdiRetries
PdiDelay == /\ AtX("pdi") /\ ~PdiDone /\ Delays /\ Quiet
            /\ host' = [host EXCEPT !.polls = @ + 1]
ReadFailed == host' = Release(IF Arg.action = "r" THEN host.ret ELSE 1)
PdiFails == AtX("pdi") /\ ~PdiDone /\ ReadFailed /\ Quiet

(* The length read comes back in 16 bits, and that of the whole section is *)
(* not the one asked for.                                                  *)
Counted == Len(host.out) % LengthRange = Len(host.out)
PdiWraps == AtX("pdi") /\ PdiDone /\ ~Counted /\ ReadFailed /\ Quiet
ReadMemory(offset, n) ==
  [Call("pdi", "") EXCEPT !.i = 0, !.res = offset, !.out = Fill(n, Erased)]

------------------------------------------------------------------------------
BeginX == /\ AtX("begin") /\ host' = Call("nvmbusy", "inited")
          /\ dev' = [dev EXCEPT !.isc = TRUE] /\ UNCHANGED <<req, disk>>
InitX == /\ AtX("inited") /\ Quiet
         /\ host' = IF host.wait # 0 THEN Exit(Tell(host, TRUE), 1)
                    ELSE Go(IF req.erase THEN "chiperase" ELSE "args")
chip_erase == /\ AtX("chiperase") /\ Command(Working(Blank)) /\ host' = Call("nvmen", "erased")
              /\ UNCHANGED <<req, disk>>

(* After -e, and after the erase of a section.                             *)
ErasedX == /\ AtX("erased") /\ Quiet
           /\ host' = IF host.wait # 0 THEN Release(1)
                      ELSE IF host.n = 0 \/ Arg.action = "e" THEN Go("args") ELSE Go("write")

OpenX == AtX("args") /\ TakeArg("file")
DoneX == AtX("args") /\ NoMoreArgs /\ host' = Go("release") /\ Quiet
ReleaseX == /\ AtX("release") /\ dev' = [dev EXCEPT !.isc = FALSE]
            /\ host' = Exit(host, host.ret) /\ UNCHANGED <<req, disk>>

Skipped == (Arg.action # "e" /\ ~host.fp) \/ Arg.section \notin DOMAIN Sizes
SkipX == AtX("file") /\ Skipped /\ host' = Tell(Go("args"), TRUE) /\ Quiet
IgnoreX == /\ AtX("file") /\ ~Skipped /\ Arg.action \notin {"r", "v", "e", "w", "W"}
           /\ host' = Go("args") /\ Quiet

------------------------------------------------------------------------------
(***************************************************************************)
(* Reading and verifying.  The offset counts for reading only; a failed    *)
(* read sets another variable than the one returned.                       *)
(***************************************************************************)
ReadLength == IF Arg.length # 0 THEN Arg.length ELSE Sizes[Arg.section]
StartReadX == /\ AtX("file") /\ ~Skipped /\ Arg.action = "r" /\ Quiet
              /\ host' = ReadMemory(Arg.offset, ReadLength)
StartVerifyX == /\ AtX("file") /\ ~Skipped /\ Arg.action = "v" /\ Quiet
                /\ \E r \in readFile(Arg.style, File) :
                     host' = [Tell(ReadMemory(0, Len(r.bytes)), r.res # 0)
                                EXCEPT !.bytes = r.bytes]
Explicit == IF Arg.section \in {"f", "l"} THEN ReadLength ELSE 0
SaveX == /\ AtX("pdi") /\ PdiDone /\ Counted /\ Arg.action = "r"
         /\ host' = Tell(Go("args"), Arg.style \notin Savable)
         /\ Written(saveAs(Arg.style, host.out, Explicit), FALSE) /\ UNCHANGED <<req, dev>>
VerifiedX == /\ AtX("pdi") /\ PdiDone /\ Counted /\ Arg.action = "v" /\ Quiet
             /\ host' = IF host.out = host.bytes THEN Go("args") ELSE Release(1)

------------------------------------------------------------------------------
(***************************************************************************)
(* Erasing and writing.                                                    *)
(***************************************************************************)
ErasesFirst == ~req.erase /\ Arg.action \in {"w", "e"}
FileX == /\ AtX("file") /\ ~Skipped /\ Arg.action \in {"e", "w", "W"} /\ Quiet
         /\ \E r \in readFile(Arg.style, File) :
              host' = [Tell(Go(IF ErasesFirst THEN "erase" ELSE "write"), r.res # 0)
                         EXCEPT !.bytes = r.bytes, !.i = Page * (Arg.offset \div Page)]
EraseX ==
  /\ AtX("erase") /\ UNCHANGED <<req, disk>>
  /\ IF Arg.section \in {"f", "l"}
     THEN host' = Call("erased", "") /\ UNCHANGED dev
     ELSE /\ Command(Working([a \in 1..N |-> IF a \in Within(Arg.section) THEN Erased
                                             ELSE dev.cells[a]]))
          /\ host' = Call(IF Arg.section = "a" THEN "nvmen" ELSE "nvmbusy", "erased")

(* xnvm_program_flash_page, xnvm_erase_program_flash_page and the same for *)
(* the EEPROM: the page buffer is erased and loaded, whatever the wait in  *)
(* between says.  What comes after the end of the file is not the file's.  *)
Writes == Arg.section \in {"a", "b", "e"} /\ host.i < Len(host.bytes)
WrittenX == AtX("write") /\ ~Writes /\ host' = Go("args") /\ Quiet
erase_buffer == /\ AtX("write") /\ Writes /\ host' = Call("nvmbusy", "load")
                /\ Command([Working(dev.cells) EXCEPT !.latch = Blank])
                /\ UNCHANGED <<req, disk>>
PageAt == base(Arg.section) + host.i
OfPage(a) == a - PageAt \in 1..Page
load_buffer ==
  /\ AtX("load") /\ UNCHANGED <<req, disk>>
  /\ \E rest \in {0, Erased} :
       Command([dev EXCEPT !.latch = [a \in DOMAIN @ |->
         IF ~OfPage(a) THEN @[a]
         ELSE LET k == a - base(Arg.section)
              IN  Burn(@[a], IF k \in DOMAIN host.bytes THEN host.bytes[k] ELSE rest)]])
  /\ host' = [Go("page") EXCEPT !.blind = @ \/ host.wait # 0]

(* Pages past the end of the flash have no effect.                         *)
Programs == Arg.action = "w" /\ Arg.section # "e"
Reaches(a) == OfPage(a) /\ (Arg.section = "e" \/ a \in Flash)
write_page ==
  /\ AtX("page") /\ host' = Call("nvmbusy", "next") /\ UNCHANGED <<req, disk>>
  /\ Command(Working([a \in 1..N |->
       IF ~Reaches(a) THEN dev.cells[a]
       ELSE IF Programs THEN Burn(dev.cells[a], dev.latch[a]) ELSE dev.latch[a]]))
Following_wrong == host.i
Following == host.i + Page
(* The loop over the pages of the EEPROM ends after the first.             *)
NextPage ==
  /\ AtX("next") /\ Quiet
  /\ host' = IF host.wait # 0 THEN Release(1)
             ELSE IF Arg.section = "e" THEN Go("args")
             ELSE [Go("write") EXCEPT !.i = Following]

NextX == \/ wait_nvmbusy \/ wait_for_nvmen \/ PdiGood \/ PdiDelay \/ PdiFails \/ PdiWraps \/ BeginX
         \/ InitX \/ chip_erase \/ ErasedX \/ OpenX \/ DoneX \/ ReleaseX \/ SkipX \/ IgnoreX
         \/ StartReadX \/ StartVerifyX \/ SaveX \/ VerifiedX \/ FileX \/ EraseX
         \/ WrittenX \/ erase_buffer \/ load_buffer \/ write_page \/ NextPage
==============================================================================
