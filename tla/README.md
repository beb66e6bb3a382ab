# A verification project for xc3sprog

xc3sprog programs Xilinx FPGAs, CPLDs, configuration PROMs, serial flashes behind
an FPGA, and AVR/XMega microcontrollers over a JTAG cable.  This directory holds
TLA+ models of its core, TLC configurations that check them on small instances,
and TLAPS proofs of what matters most for every instance.

The program is one thread.  What makes it hard is that it drives hardware it can
hardly observe: it never reads the TAP state back, it sees the status of a flash
one transfer late, commands to the cable are buffered and executed later, devices
take their time and may never finish, and the calls of its layers must follow
protocols no type enforces.  That is what the models are about.

## 1. Inventory

Paths are relative to `src/`.

| Component | State it keeps | Operations | What makes it correct |
|---|---|---|---|
| `Jtag` (jtag.cpp) | `current_state` (a shadow of the TAP), `postDRState`, `postIRState`, the device list, `deviceIndex`, `shiftDRincomplete` | getChain, selectDevice, setDeviceIRLength, setPost*State, setTapState, nextTapState, shiftDR, shiftIR, cycleTCK, tapTestLogicReset | the shadow agrees with the hardware; every scan reaches exactly the registers it is meant for; a scan in pieces is one scan |
| `IOBase` (iobase.cpp) | `tms_buf`, `tms_len` | set_tms, flush_tms, shift*, Usleep | bits keep their order; the buffer never overflows; a sleep starts after the cable is done |
| `ProgAlgSPIFlash`, `programSPI` (progalgspiflash.cpp, xc3sprog.cpp) | page geometry, the offset and page of the running call | program (three kinds), verify, read, erase (three kinds), wait | success means that the flash holds the data; nothing is sent to a busy flash; no other page is touched |
| bscan_spi bridge (bscan_spi/) | the answer to the last transfer | one transfer | answers come one transfer late |
| `ProgAlgXCF`, `ProgAlgXCFP`, `programXCF` | position in the file and in each PROM | erase, program, verify, read, disable | each byte of a range goes to the right place of the right PROM; a failure is reported |
| `ProgAlgXC3S`, `ProgAlgXC95X`, `ProgAlgXC2C` | the mode of the device | enable, erase, program, verify, read, disable | the device is left in its operating mode; polls end; pipelined answers are assigned to the right word |
| `ProgAlgNVM`, `PDIoverJTAG` | the NVM command buffer, a retry count | PDI frames, NVM busy waits, page writes | a corrupted byte or a time-out is reported, a retry does not lose a byte |
| `ProgAlgAVR` | programming mode | progmode, erase, fuses, pages | mode entered and left in pairs |
| `IOFtdi`, `IOXPC`, `IOFX2` | command buffers, the device handle | tx_tms, txrx_block, flush, Usleep | what is sent is what was asked for, in order; buffers hold; the handle is opened and closed in pairs |
| parallel port, GPIO | none between calls | txrx | one edge per call |
| `BitFile`, `JedecFile`, `SrecFile`, `AvrFuseFile` | the data and its length | read, save | what is saved can be read back |
| `DeviceDB`, `CableDB` | tables | look up | first match |
| main, `programXC*` (xc3sprog.cpp) | options | dispatch, file loop | the exit code tells of failures |
| javr, stand-alone tools, shell wrappers | | | separate programs |

**Interaction.**  main detects the chain (`init_chain`: getChain, then a length from
the data base for each device), selects one and hands the `Jtag` object to an
algorithm.  Algorithms call `shiftIR`, `shiftDR`, `cycleTCK`, `Usleep`; `Jtag` calls
`set_tms` and `shift*` of `IOBase`, which calls the virtual `tx_tms`, `txrx_block`
and `flush` of a cable.  Only a read of TDO, a flush or a sleep waits for the cable.

**Hard behaviours.**  Cable and host run apart (interleaving); the shadow state
(staleness); calls in orders nobody wrote a test for (`exit = false` scans, post
states, chain test); late answers (SPI bridge, XC95X pipeline); busy devices,
time-outs and results that are dropped; page, sector and chunk boundaries.  The
list with lines is `PROJECT.json`, "hazards".

## 2. Plan

1. **Jtag** over **Tap**: the layer everything goes through.  *Done*, with proofs.
2. **SpiFlash**: the largest algorithm, with a device that works by itself.  *Done*.
3. **PromChain**: `programXCF` and `ProgAlgXCF`/`XCFP`: the range of a file mapped
   to several PROMs, erase/program/verify/read of each, failures.  *Done*.
4. **Cables**: what a cable promises (CableContract), and that each cable keeps it.
   *Done*.
5. **Session**: main, the files, and the algorithms for FPGA, CPLD, XMega and AVR, against one
   contract about the memory of the device (DeviceContract).  *Done*.
6. Proofs of the safety properties of all five.  *Done* (section 6).
7. The refinement of DeviceContract by Session, a step at a time, for every file, option, device and
   delay.  *Done*.
8. Left: the refinement ImplementsContract of Cables, a step at a time.

## 3. Modules

### Tap, Jtag, MCJtag

`Tap` is the TAP controller of IEEE 1149.1.  It is the environment: the edges that
follow from its two tables are compared with the arms of `setTapState`, which
`Jtag` takes from the code (`Arms`), never from Tap.

| Model | Code |
|---|---|
| `queue`, `sent` | what `IOBase` was given and has not been clocked: the first `sent` blocks are with the cable, the rest is `tms_buf` |
| `set_tms`, `flush_tms`, `shiftTDITDO`, `shift` | the `IOBase` methods of that name, with the early return on length 0 |
| `current_state`, `postDRState`, ... | the members of `Jtag` |
| `Walk`, `WalkHop`, `WalkLead`, `WalkUnknown` | `setTapState`: one turn of its loop per step; the pre bits; the default arm |
| `Reset`, `ResetBit`, `ResetDone` | `tapTestLogicReset`: five bits, then the forced flush |
| `nextTapState` | the same, called by DrData, DrTail, IrPost, RawShift |
| `ShiftDR`, `DrData`, `DrTail`, `DrDone` | `shiftDR`: entry, the data, the post bits, the post state |
| `ShiftIR`, `IrPre`, `IrData`, `IrPost`, `IrDone` | `shiftIR` |
| `GetChain`, `ChainWord`, `ChainEnd` | `getChain` |
| `RawShift` | the shifts `test_IRChain` makes through `IOBase`, then nextTapState |
| `Usleep`, `Wake` | `IOBase::Usleep` up to and after `flush()` |
| `CableClock` | the cable clocks its oldest block (external) |
| `clocked`, `want`, `erase`, `lands` | history, read by no guard but the bounds |

A block of edges is one element of the queue: `Block` gives the state it ends in.
The cable interleaves with every step of every method; a method that reads TDO and
waits is the interleaving in which only the cable moves.  A read-back is therefore
not a separate step, and no property is about the value read.  The data itself is
abstracted to how many bits were clocked in SHIFT_xR before, with and after the
caller's data (`lead`, `load`, `tail`), which is what decides in whose register
they end.  With both tdi and tdo absent the code shifts through `shift`, which also
flushes when the length is 0; the model uses `shiftTDITDO` for all four variants.
That only concerns whether bits wait in `tms_buf`, which no property of a run with
empty scans tells apart.

`Misuse` names four things callers do or could do against the protocol: leave a
scan open and call shiftIR ("abandon"), shift nothing ("zero"), scan before all
lengths are set ("stale"), clock in Test-Logic-Reset ("reset").  The main
run has none of them, because then the layer keeps its promises; the first two are
done by code of this repository, and a run for each shows the consequence.

### SpiFlash, MCSpiFlash

| Model | Code |
|---|---|
| `Command`, `ReadStatus`, `ReadPage` | one `spi_xfer_user1` (shiftIR USER1, one shiftDR) through the bridge; `latch` is the answer the next transfer fetches |
| `WaitAsk`, `WaitPoll` | both `wait` functions |
| `Program` to `ProgramDone` | `program`, `sectorerase_and_program`, `program_at45` |
| `SstSetup`, `SstArm`, `SstWord`, `SstDisarm` | `program_sst` with `sst_disable_write_protect` |
| `Verify`, `Compare`, `CompareDone` | `verify` |
| `Read`, `Fetch`, `FetchDone` | `read` |
| `Erase`, `Ewsr`, `Wrsr`, `EraseCheck`, `BulkEnable`, `EraseBulk`, `EraseLocked`, `EraseSectors` | `erase`, `erase_sst`, `erase_bulk`, `erase_at45` |
| `EndErase`, `EndProgram`, `EndCall`, `Exit` | the file loop of `programSPI`: erase's result dropped, program then verify, stop at the first failure |
| `chip`, `Start`, `FlashDone`, ... | the flash (external): ignores all but a status request while busy, needs the write-enable latch, programs only towards 0 |

Abstractions: a byte is one bit, erased or not (programming clears, erasing sets);
positions are a page and a byte within it (`page` = i / pgsize, `left` = data_end - i);
the limits of the waits are one constant; a word of an SST is done before the next
transfer ends (10 microseconds against more than 80 clocks and a shiftIR), so the
code's missing wait is not questioned; the flash is identified (`spi_flashinfo`
chose the constants).  A transfer is one step: what Jtag makes of it is Jtag's
business.  The bridge drops the answer of a transfer the host does not fetch.
An erase command is taken to erase one sector, of the size the code believes in.  Where the two
are not the same thing on the chip, the model does not show it: an SST gets sectors of 4096 bytes, and the
default command 0xD8, which is the one for 64 KByte (progalgspiflash.cpp:73, 330, 1251).  StaysInScope is
about what the code asks for, then, not about what such a chip erases.

The specification has an initial state for each kind of flash, protected or not.

### PromChain, MCPromChain

| Model | Code |
|---|---|
| `EraseAll` | the erase of every PROM asked for with -e, results dropped |
| `OpenFile`, `Argument`, `Fits` | the head of the file loop of `programXCF`: default lengths, and the two checks that skip an argument |
| `Advance`, `EndOfRange`, `ServeProm` | the loop over the PROMs: `continue`, `break`, the piece |
| `Piece`, `CurrentOffset`, `CurrentLength`, `Copied`, `OutOfBounds` | `cur_bitfile`, current_offset, current_rlength, the memcpy, the assertions |
| `EraseRefused`, `Erase`, `ErasePoll`, `Erased` | both `erase`, and what is done with the result |
| `Program` to `Programmed` | both `program`; `WriteRegister` is BTC, CCB, SUCR and DONE in their order |
| `Verify` to `Verified` | both `verify`, and the `disable` after it |
| `Read` to `Fetched` | both `read`, and the copy to the output |
| `CloseFile`, `Return` | `saveAs`, the return |
| `prom`, `Start`, `PromDone`, `IscProgram`, ... | the PROMs (external) |
| `dropped`, `late` | history, read by no guard |

The two classes share their shape, so an action serves both, with `IsP` where they
part: an XCF gets an address with every block, refuses an offset inside a block and
stops at the first failed one; an XCFP gets an address with every array, throws for
less than a whole file, goes on with the next array after a failure, and has
registers.  `isc` is between ISC_ENABLE and ISC_DISABLE.  A PROM that is busy ignores
erase, program and read; it ends when it likes, and may fail: an XCFP says so in its
status, an XCF does not.  An XC18V is never asked for its status and is taken to be done
after the time the code sleeps.

Abstractions: a byte is one bit (programming clears, erasing sets); lengths are
counted in bytes with small blocks and arrays; the memory before a file buffer is any
byte when read, and writing there may kill the process or not.  A file that cannot be
opened is one that does not fit.  The final `reconfig` and the bits of CCB are left out, and so is
what an XC18V is sent after its last block (SERASE at address 1, progalgxcf.cpp:271-280), of which the code tells
nothing but the time.  A verify that refuses its offset returns 1 in the model and -1 in the code; no caller looks.

### CableContract, Wire, Cable, FtdiCable, UsbCables, BitCables, Cables, MCCables

`Jtag` takes a cable for a queue that keeps its order.  `CableContract` says that for
real calls: blocks, TMS patterns and sleeps are clocked in order, each edge once; a call
that reads returns with exactly the bits captured on its own edges; closing waits for
what is under way.  A call may fail, but then the user is told.  The modules of the
cables are shown to implement it (`Contract` in Cables; the mapping takes `init` and
`closing` for idle, and a failure, or one of the calls named by `Trouble`, for "failed").

`Wire` counts edges in runs: a run of edges of one call, all alike, is one record, so that a
block of 32,000 bits is as small as one of nine.

| Model | Code |
|---|---|
| `Open`, `Ready`, `Return`, `Terminate` (Cable) | `getIO`, the start and the return of a call, the end of the object, and the end of a process nobody catches an exception in |
| `FtdiBlock`, `FtdiChunk`, `FtdiRest`, `FtdiTms`, `IdleFast`, `IdleSlow` | `IOFtdi::txrx_block`, `tx_tms` and `Usleep` as scripts of MPSSE commands |
| `mpsse_add_cmd`, `mpsse_send`, `FtdiRead`, `FtdiReadDone` | the same, and `readusb` |
| `FtdiSetup`, `FtdiOpen`, `FtdiRefused`, `FtdiClose`, `FtdiDestroy` | `Init`, `deinit` and the destructor |
| `Ticks`, `SlowDivisor`, `FastDivisor` | the clock and the length of a sleep, with the 32-bit product |
| `ChipStep` | the MPSSE (external): it tells commands from data by the lengths announced only, and works when it likes |
| `XpcScript`, `XpcWrite`, `XpcRead`, `Fx2Block`, `Fx2Out`, `Fx2In`, ... | the transfers of IOXPC and IOFX2, with what each does when a USB transfer fails |
| `detectcable`, `SetPins`, `Capture`, `StoreByte`, `InternalBlock` | the parallel port, GPIO, and the XPC in internal mode, pin by pin |

A cable runs its script, an instruction at a time; each USB transfer may fail.  A read that fails puts the script
of deinit in the place of the rest (`TearDown`), and so may the read in that one.  The bytes deinit sends are
static and its read overwrites the first five of them; the model sends the same bytes again.  History
variables: `silent` (a failure the code passes over), `told`, `misuse` (a handle used that is
not open).

### ImageFile, Programmer, Fpga, CpldXC95X, CpldXC2C, XMega, Avr, DeviceContract, Session, MCSession

`Session` is a whole run of xc3sprog for the devices that are neither a PROM nor a flash
behind an FPGA.  `DeviceContract` is what a user expects of it: a run is a sequence of jobs
(erase, write, verify, read an area); while one is open only its area changes, and that only
towards its aim; a job ends achieved, or with the user told.

| Model | Code |
|---|---|
| `readFile`, `saveAs` and the readers of each style (ImageFile) | `BitFile`: what a file holds is a sequence of lines; a result is a set, where the code uses what it never set |
| `readJed`, `saveAsJed`, `jedecfile2bitfile`, `bitfile2jedecfile` | `JedecFile`, `MapFile_XC2C` |
| `TakeArg`, `Arg` (Programmer) | `getFile_and_Attribute_from_name`, which creates the file of a read |
| `OnDisk`, `Written` | the buffer of the C library: the files of XC95X and XMega are never closed |
| `init_chain`, `get_id`, `Dispatch` (Session) | main, from the chain on |
| `FpgaNext` | `programXC3S`, `ProgAlgXC3S` |
| `Next95`, `Next2C` | `programXC95X`, `programXC2C` with their classes; a step of the model is a word or a row |
| `NextX` | `programXMega`, `ProgAlgNVM`, `PDIoverJTAG`: both waits, the page buffer, one byte of an answer at a time |
| `AvrNext` | `jAVR`, as far as it can get |
| `DeviceDone`, `Command`, `Fetch` (Programmer) | the device (external): busy for as long as it likes, deaf meanwhile |

Abstractions: a byte has two bits (one cannot show a reversed order); a CPLD row has two
cells, the second standing for the last byte the blank check skips; a word of an XC95X is a
cell; the polls are few; MCS and IHEX files stay below 64 KByte, so that their address records
do not matter; an XMega has the sections a, b, e, f and l one after the other, and is one of
those the code knows.  A transfer is one step: what Jtag makes of it is Jtag's business.

ImplementsDevice holds but for exceptions, each a named operator of Session.  `Untold` lists what
the code does wrong without a word (section 4, "Divergences without a run"): IgnoredErase,
UncheckedErase, IgnoredAction, OnlyShown, WritesOver, BeyondFirstPage.  `Astray` lists when the
program itself cannot know any more: it went on with a device that was still busy (`blind`), it
works with bytes that are not the file's (Misread), or a file that does not fit its section
(Overlong, PartOfPage) or reads and compares past the end of the memory (BeyondMemory), or was told to erase
twice (ErasesTwice).  `TooMany` is the third argument of an XC95X, which is not even opened.

What may be asked for is bounded by assumptions with names: RequestAssumption (a kind, arguments with
files on the disk, and a file used for fuses by all its arguments or by none), SectorAssumption and
RowAssumption (a CPLD is whole sectors, or whole rows), MemoryAssumption (an XMega is its five
sections), and XMegaAssumption (sections are whole pages, and the tries at least one).

### The modules with proofs

| Module | Theorems about | Rests on |
|---|---|---|
| `JtagProofs` | Jtag: types, the buffer, the shadow of the TAP, open scans, and which registers the bits of a scan end in | |
| `SpiFlashProofs` | SpiFlash | |
| `PromChainProofs` | PromChain | InductionFacts |
| `CableProofs` | Cables, with FtdiCable, UsbCables, BitCables and Wire | InductionFacts |
| `CableSleepProofs` | Cables: the sleeps of the FTDI cables | CableProofs |
| `ImageFileProofs` | ImageFile: what is saved reads back | InductionFacts |
| `SessionProofs` | Session, with all algorithms, files and DeviceContract | ImageFileProofs |
| `InductionFacts` | division into blocks; induction over sets, used for what is defined by recursion or a fold | |

They are described in section 6.

## 4. Runs

| Run | Checks | Shows |
|---|---|---|
| `jtag` | TypeOK, InStep, TmsBufFits, ScanStaysOpen, NoUnexpectedState, DrHitsTarget, IrHitsTarget, NoIdleBeforeData, SleepsInStep | all call sequences on an empty chain and on three devices with IR lengths 1, 2, 2, so that the selected device can have devices before it, behind it, both or none |
| `jtag_walk` | InStep, SleepsInStep, MethodsReturn | setTapState from each of the 16 states to each: it arrives, in step, and every method returns |
| `jtag_abandon` | NoUnexpectedState, violated | finding, below |
| `jtag_zero` | InStep, violated | finding, below |
| `spi` | TypeOK, ProgramWrites, VerifyExact, ReadExact, EraseErases, BusyIsWaitedFor, StaysInScope, CallsReturn | all sequences of up to two file arguments after an optional erase |
| `spi_verify_tail` | VerifyDocumented, violated | finding, below |
| `spi_protected` | ProtectedIsRefused, violated | finding, below |
| `prom` | TypeOK, JobHolds, VerifyExact, ReadExact, IscClosed, AbortExplained, StaysInScope, Terminates | up to two file arguments after an optional erase, on a PROM of each kind and on chains of two |
| `prom_inside` | OffsetDocumented, violated | finding, below |
| `prom_length` | LengthDocumented, violated | finding, below |
| `cables` | TypeOK, BuffersHold, SleepsLongEnough, CableRecognised, ImplementsContract, MisuseExplained, CallsEnd | two calls on every kind of cable, with the buffer sizes of the code, and failures |
| `session` | TypeOK, SavedReadsBack, ZeroMeansVerified, ImplementsDevice, Ends | 2798 runs of the program, each with every delay and failure of device and line |

### Bounds

* Jtag: three devices are enough for pre and post bits on both sides; a `tms_buf`
  of 2 bits is flushed inside every walk and every reset (the real one holds 1024);
  `QueueCap` 3 is one more than the buffer, so that buffered and sent blocks
  coexist; align is 0 or 3 (with 3, post bits of 0, 1 and 2 give all remainders);
  `MaxScan` ends scans that are continued for ever.  `MaxNumDevices` 3 is
  reached, and so is a chain cut short by a broken device (ChainEnd early).
  Stale irlen is 0: without "stale" no shift uses it.  jtag_walk takes one
  device and all goals instead.
* VIEW (jtag, jtag_abandon, jtag_zero): the locals of a method are left out of the
  fingerprint while no method runs, where the first thing every method does is to
  set them.  No invariant reads them there.  The run with a temporal property
  has no view.
* SpiFlash: 4 pages of 2 bytes, two sectors of 2 pages, an AT45 whose first sector is
  split after a page.  Files of 0, 3, 4, 6 and 9 bytes: empty, cut short, whole
  pages, across a sector, larger than the flash.  Offsets 0, 3 (rounded down to the
  second page of a sector), 8 (the end, which the code accepts) and 10 (refused);
  lengths 0 (the whole), 3 and 9.  `Polls` 3: done at once, in between, exactly
  at the last poll, or never.  `MaxBadPages` 2 is reached by wrong pages of one
  call.  Two files: the second meets what the first left.  Contents: all zeros,
  and a pattern.
* PromChain: blocks of 2 bytes and arrays of 4, PROMs of one to four blocks; chains
  of an XC18V, an XCF, an XCFP of two arrays, two XCF of different size, an XCF before an
  XCFP.  Offset 1 lies inside a block, 2 is a block or the boundary between two PROMs.
  Lengths 0 (default) and 3, files of 0, 3, 6 and 8 bytes: empty, padded, filling the
  chain, filling the XCFP or too long.  `Polls` 2: a PROM is done at once, at the last
  poll, or too late.  Two files: the second meets open ISC modes, late PROMs and
  what the first wrote.  The PROMs hold a
  pattern, and BTC is at first blank or names all arrays.
* Cables: two calls, so that what one leaves in a buffer meets the next.  Block lengths
  lie at the edges of the code's buffers (9 bits, a chunk of the MPSSE plus 8 and 13 bits, 8191
  and 16383 bits for the XPC, 512 and 1025 for the FX2, a TMS pattern of 64 and 65 bits);
  sleeps of 14,315 and 14,316 microseconds at 30 MHz, which lie just below and above the overflow, and of
  20 ms, from where on the host sleeps by itself.  `Retries` 1 bounds the retries of a read.  deinit within
  deinit has no bound, as in the code; `MaxBehind` 2 says how many commands the chip may lag behind, and how many
  unread answers are told apart, once a failure was told.  On the pins and the FX2 a run has one failure.
* Session: records of 4 bytes and HEXRAW lines of 4, sectors of 2 words, pages of 2 bytes,
  `StartPolls` and `SectorPolls` 2, `PdiRetries` 3, and `LengthRange` 6 in the place of 2^16, so that the
  largest section has just a length that wraps.  Files: whole, short, too long, cut at a record or within
  its data, broken, empty, missing; JEDEC fields with a foreign character, without data, or beyond the end.  Up to three arguments; a read followed by a verify of what it saved; -e or not.  Device
  contents: blank, full, blank but for the byte the blank check skips.  An XMega gets two files for one section, with
and without -e; offsets and lengths that end past the memory; a section letter that is none; an action that is
none.  An XC95X gets a third argument.
* CHECK_DEADLOCK FALSE in the SpiFlash and PromChain configurations: the program exits.

### Fairness

* Jtag: `WF(Run)`, `WF(CableClock)`.  Run holds the steps of a method that has been
  called; the program is one thread that does not wait for anything but the
  cable.  A cable that was given bits clocks them: `txrx_block` and `flush` block until
  the transfer is done or throw.  Calls are not fair: nothing must be called.
* SpiFlash: `WF(Host)` for the steps of a running call.  No fairness for the flash:
  CallsReturn holds for one that stays busy for ever, because wait gives up.
* PromChain: `WF(Host)`: the program is one thread.  No fairness for a PROM: Terminates
  holds for PROMs that never finish.
* Cables: weak fairness of all steps together, host and chip, written as
  `[]<>Ended \/ []<><<Next>>_vars`.  The program is one thread, and a chip with power goes on clocking.
  CallsEnd has a second way out, `[]<><<TearDown>>_vars`: when a read fails readusb calls deinit, and deinit
  calls readusb again (ioftdi.cpp:641-653, 667-682).  As long as reads fail and writes succeed that
  does not end, and nothing in the code bounds it.  CallsEnd says that nothing else keeps a call from ending.
* Session: `WF(Next)`.  The program is one thread, and a device that was told to do something is
  done some time.  That is needed: WaitInit in Fpga loops until INIT is seen, without a bound of its own.
  The line to an XMega may delay or spoil bytes for ever; Ends holds, because every wait counts.

### What the findings say

1. **An open scan is abandoned** (progalgxc2c.cpp:316).  `done_program` shifts 8 bits
   with exit = false and goes on with shiftIR; `shiftDRincomplete` stays set and the
   next shiftDR does not go to SHIFT_DR.  In the program the instruction that
   follows is BYPASS and the next data scan of the same Jtag object resets the TAP by
   way of "Unexpected state".
2. **A shift of nothing** (xc3sprog.cpp:175; also progalgxc3s.cpp:184 with an empty
   file): the shadow moves, the TAP does not.
3. **verify compares a page over the length of the next** (progalgspiflash.cpp:942),
   so the end of the page before a short last page is not verified.  VerifyExact is
   what does hold: exact for whole pages, no false alarm otherwise.
4. **erase_bulk does not read the status register** (progalgspiflash.cpp:1423): the
   check for block protection looks at the answer to another command.
5. **An offset inside one of several PROMs** (xc3sprog.cpp:1210) copies from before
   the file buffer, or trips an assertion (AbortExplained says when).  JobHolds and
   ReadExact leave these ranges out.
6. **The length of a read from a single PROM is ignored** (xc3sprog.cpp:1186): 0, which
   stands for "no length", is what a length equal to the file's becomes.

JobHolds has `~dropped` as a premise because `programXCF` does not look at what verify
returns: a PROM that fails silently, or one written with 'W' without being erased, is
noticed on stderr only, and the exit code is 0.

### Divergences without a run

The runs `cables` and `session` hold with the following as named exceptions, or model them as
they are.  They were met while modelling; none has a run of its own.

Cables:

* `ioftdi.cpp:800` says "we don't overflow and we round up!".  The product of microseconds and
  frequency overflows 32 bits from 14,316 microseconds on at 30 MHz, which is the clock of jtaghs1_fast, and
  below 1 MHz the sleep may be a clock short.
* On slow FTDI devices a sleep may send the first byte of a bit command only (CutsCommand); the
  chip waits for the rest, and takes the next command for it.
* The divisor of a slow FTDI clock is `6000000/freq - ((6000000&freq)?0:1)` (ioftdi.cpp:71), with `&`
  where `%` is meant: it is off by one wherever the two disagree about being 0.
* readusb and deinit call each other without a bound while reads fail and writes succeed.
* detectcable refuses a port whose status byte reads 0 or 0xff (ioparport.cpp:148).  0xff is no cable's
  answer, but 0 is that of a looped-back Byteblaster, if the lines it does not drive are low.
* IOXPC puts every part of a read longer than 8191 bits at the start of the caller's buffer.
  In internal mode it sets TMS with every bit when `last` is asked for, and masks TDO with `i%8`.
* IOFX2 drops a TMS pattern longer than 64 bits without a word.
* IOParport's destructor reads `cabletype`, which a refused Init never set; other destructors
  use handles that were never opened, or close them again.  Nothing in xc3sprog.cpp catches io_exception.

Algorithms:

* -e is taken and ignored for an FPGA and an AVR, against the usage text "Erase whole device".
* The usage text says of 'w' "erase whole area, write and verify"; for an XMega nothing is verified.
* XC95X: the result of the blank check is dropped, and so is that of reading the JEDEC file.
* CoolRunner-II: the blank check skips the last bytes of each row.  The done bits are programmed
  after a failed verify, too.
* CoolRunner-II: the result of reading a BIT file is not looked at (xc3sprog.cpp:1507).  A file cut short within
  its data has the length it announces, its rest is not initialized, and all of it is programmed (Misread).
* A read to a file that cannot be opened writes to a null FILE, unless the style is one that saveAs does not know.
* XMega: only the first page of an EEPROM file is written; fuses and lock bits are printed and not
  written; a read that fails exits with 0.  xnvm_read_memory returns 16 bits, so that a whole
  application section, 64 KByte or more on every device the code knows and the default length, always
  counts as a failed read.  xnvm_ctrl_wait_nvmbusy looks at a status it may not have been able to read.
* XMega: with -e, a second file for a section is programmed over the first, for 'w' no longer erases.
* An AVR cannot be written: DecodeSRecordLine answers -1 for every line.
* A record of an MCS or IHEX file that is one byte short of full announces 16 bytes
  (`clip - i < 0xf`), and a HEXRAW file whose last line is one byte short of full has no line end
  (`i%4 != 3` after the loop): neither reads back.
* A second QF field ends readFile of a JEDEC file with 2 and without a message (`m_Q`), and
  programXC95X does not look at that result.  The files XC95X and XMega write are not closed, so
  that a later argument of the same run reads them cut short.

## 5. Mutants

Each `X_wrong` (or `Hop_lost`, `NextSector_again`, `Compare_onemore`) stands in front
of the definition X it is a broken version of, and is used by no action.

| Property | Mutant | The bug |
|---|---|---|
| TypeOK (jtag) | SelectDevice_wrong | an index behind the end is accepted |
| InStep | IrData_wrong, Hop_wrong | the last bit without TMS; a wrong successor of PAUSE_IR |
| TmsBufFits | set_tms_wrong | flush one bit too late |
| ScanStaysOpen | DrDone_wrong | shiftDRincomplete not cleared |
| NoUnexpectedState | ShiftDR_wrong | the walk skipped by the argument, not by the state |
| DrHitsTarget | PreDR_wrong | one pre bit too many |
| IrHitsTarget | PreIR_wrong | the wrong side of the chain summed up |
| NoIdleBeforeData | IrDone_wrong | the post state ignored |
| SleepsInStep | Usleep_wrong, flush_tms_wrong | sleep without a flush; a flush that sends nothing |
| MethodsReturn | Hop_lost | a goal missing in one arm |
| TypeOK (spi) | Compare_onemore | one bad page too many |
| ProgramWrites | NextSector_again | the sector erased again for its next page |
| VerifyExact | Compare_wrong | the page asked for instead of the one before |
| ReadExact | Fetch_wrong | the first answer stored, too |
| EraseErases | EraseSectors_wrong | the second part of the split sector skipped |
| BusyIsWaitedFor | WaitAsk_wrong | the status not asked for before the loop |
| StaysInScope | NextSector_wrong | a sector more than the data needs |
| CallsReturn | WaitPoll_wrong | the count of polls stops before its limit |
| TypeOK (prom) | StillBusy_wrong | one poll too many |
| JobHolds | Source_wrong | the start of the range forgotten in the copy |
| VerifyExact (prom) | CompareBlock_wrong | the last byte not compared |
| ReadExact (prom) | Addressed_wrong | the offset in the PROM forgotten |
| IscClosed | Programmed_wrong | no disable after a failure |
| AbortExplained | OutOfBounds_wrong | an assertion with < for <= |
| StaysInScope (prom) | CurrentLength_wrong | the whole length for the last piece |
| Terminates | ProgramPoll_wrong | a failed array tried again without limit |
| TypeOK (cables) | ReadDone_wrong | a read ends one retry too late |
| BuffersHold | Fits_wrong | a command is added although the buffer has no room for it |
| SleepsLongEnough | Ticks_wrong | the frequency taken in kHz and the ticks rounded down |
| CableRecognised | PciiiProbes_wrong | the port probed with one value of the data lines only |
| ImplementsContract | Dummy_wrong | no extra bit for a transfer of a multiple of 4 |
| MisuseExplained | GpioInit_wrong | a line that cannot be had is not reported |
| CallsEnd | Count_wrong | only reads that bring something count as tries |
| TypeOK (session) | PollAgain_wrong | the limit of a wait for the NVM controller not looked at |
| SavedReadsBack | Announced_wrong | one more length rounded up to a full record |
| ZeroMeansVerified | EndOfArg_wrong | the result of a verify dropped |
| ImplementsDevice | Address_wrong | each word fetched under the address of the one before |
| Ends | Following_wrong | the page loop does not go on |

## 6. Proofs

### Jtag

`JtagProofs` proves, for every chain, buffer size, bound, set of post states, goals,
lengths and alignments that satisfies the assumptions of Jtag:

| Theorem | Statement | Assumed |
|---|---|---|
| TypeCorrect | `Spec => []TypeOK` | |
| TmsBufNeverOverflows | `Spec => []TmsBufFits` | |
| ShadowInStep | `Spec => []InStep` | no "zero", "stale", "reset" |
| SleepIsInStep | `Spec => []SleepsInStep` | no "zero", "stale", "reset" |
| OpenScansContinue | `Spec => []ScanStaysOpen` | no misuse |
| NextTapStateIsExpected | `Spec => []NoUnexpectedState` | no misuse |

The extra assumptions are what the runs jtag_zero and jtag_abandon show to be
needed.  The proofs go by three invariants, each inductive relative to the ones
before.

* `TypeInv` is TypeOK with the shape of the queue: `Follows` says that each block
  starts where the one before lands, so that clocking the first block takes the TAP to
  its `lands` and leaves `Ahead` alone; and that `tms_buf` holds no more than it can.
  CableClock and the four IOBase operations each have a lemma.
* `StepInv` is InStep with what it needs: `StagesInOrder` (which TAP state and which
  lengths each stage of a method starts with), `Resetting` (during a reset, after k high
  bits the TAP is k steps of OnHigh away from where it was, and after five it is in
  Test-Logic-Reset from every state: lemma over the sixteen states), `LeavingIR` (at
  "irPost" the TAP is already in EXIT1_IR if there are no post bits, and the shadow
  follows with nextTapState), `NothingBuffered` (the cable has everything while the
  program sleeps) and `NoEmptyShift` (each shift clocks a bit, which is where the
  exclusion of "zero" and "stale" enters).  The heart is a lemma that every arm of
  `Arms` agrees with the TAP: for all states and goals, the state the code assigns is
  the one an edge leads to.
* `ScanInv` says when shiftDRincomplete may be set: only in SHIFT_DR between calls
  and within the data stage.

### The bits of a scan

The second half of `JtagProofs` goes on from there, without misuse (`Misuse = {}`):

| Theorem | Statement |
|---|---|
| DataScansHitTheirTarget | `Spec => []DrHitsTarget` |
| InstructionScansHitTheirTarget | `Spec => []IrHitsTarget` |
| NoIdleComesBeforeData | `Spec => []NoIdleBeforeData` |

Its invariant ScanCountInv has four parts.  `DevicesInv`: the devices found are the last
ones of the chain, in its order, and a length that is set is the device's own, even if a broken
device cut the list short.  `DrInv` and `IrInv`: at each stage of a scan, how many
bits were clocked since the last CAPTURE_xR before, with and after the caller's; while
setTapState walks to SHIFT_xR there are none.  `DirectInv`: from an instruction that ends in
EXIT1_IR to the end of its data scan no walk passes Run-Test/Idle.  IrHitsTarget counts cells
of registers and the code adds lengths; the lemma IrBitsAreCells is the bijection between the two, and
AlignedLead the one for `align`.

### SpiFlash

| Theorem | Statement | Assumed |
|---|---|---|
| TypeCorrect | `Spec => []TypeOK` | |
| BusyFlashIsWaitedFor | `Spec => []BusyIsWaitedFor` | |
| CallStaysInScope | `Spec => StaysInScope` | `Pages <= AddrPages` |
| EraseErasesAll | `Spec => []EraseErases` | `Pages <= AddrPages`, `BlockPages <= SectorPages` |
| ReadIsExact | `Spec => []ReadExact` | `Pages <= AddrPages` |
| VerifyIsExact | `Spec => []VerifyExact` | `Pages <= AddrPages` |
| ProgramPuts | `Spec => []ProgramWrites` | `Pages <= AddrPages` |

`Pages <= AddrPages` says that the address bytes tell the pages apart.  It is false of the
W25 with ID 0x19 and of MX25L parts above 65536 pages, where the code sends two
address bytes only; that hazard is in the list.  `BlockPages <= SectorPages`: the first part of the
split sector of an AT45 is a block of 8 pages, and its sectors have 128 or 256.

* `TypeInv` is TypeOK with where each stage is.  `Stage` looks through a wait at
  the stage it returns to, so that WaitAsk and WaitPoll leave nearly everything alone.  StageOK and
  FamilyOK say which call and which flash a stage is part of; PlaceOK says how page, word and
  left fit together: what `left` counts is the rest of the range.
* `BusyInv` is what the host knows of a flash that works by itself: in which stages it may be
  busy.  `LeftBehind` is the case a test would not reach: erase gave up, its result is
  dropped, and the flash is still busy when the next call begins.
* For each promise one more: `EraseInv` (all pages before the sector reached are blank), `FetchInv` and
  `CompareInv` (answers are one transfer late: all pages but the last one asked for are done),
  and, for ProgramWrites, `LeftInv` and `PathInv`.  The latter has a part for each way to
  program: for generic flashes that a sector is erased before its first page is written and never
  after it; for an AT45 that each page erases itself; for an SST that all sectors of the range are
  blank before the first word, and that words go in one after the other.

The theorems speak about `todo`, what the flash will hold when it is done, until the call ends.

### PromChain

For all chains, block and array sizes, numbers of polls, contents and arguments that meet the
assumptions of PromChain (a PROM is whole blocks, an XCFP one to four whole arrays):

| Theorem | Statement |
|---|---|
| TypeCorrect | `Spec => []TypeOK` |
| AbortIsExplained | `Spec => []AbortExplained` |
| IscIsClosed | `Spec => []IscClosed` |
| CommandStaysInScope | `Spec => StaysInScope` |
| VerifyIsExact | `Spec => []VerifyExact` |
| JobIsHeld | `Spec => []JobHolds` |
| ReadIsExact | `Spec => []ReadExact` |

* `TypeInv`: which call a stage is part of, that the range fits the chain and starts where the code
  thinks it does (RangeOK), that the piece is the part of the range in this PROM
  (PieceOK), and how far in it the call is (PlaceOK): positions are multiples of the block, and the
  address an XCFP counts by itself is the one meant, from an array start on.
* `BusyOK`: while no call gave up (`late`), only the PROM waited for is at work.
* `CompareOK`, `FetchOK`: what verify has compared and read has fetched of the piece.
* `FileOK` puts the pieces together: every PROM before the one served holds, or the
  file has, all bytes of the range that lie in it.  When the file is saved this is JobHolds and ReadExact.
  That the pieces cover the range follows from `Base`, the start of each PROM, which
  is defined by recursion; that bases increase and meet is a lemma by induction over sets of
  positions (InductionFacts).

### Cables

For all requests, options, calls and buffer sizes that meet the assumptions of the modules:

| Theorem | Statement |
|---|---|
| CablesTyped | `Spec => []TypeOK` |
| NoBufferOverflows | `Spec => []BuffersHold` |
| CableIsWhatItSeems | `Spec => []CableRecognised` |
| MisuseIsExplained | `Spec => MisuseExplained` |

The assumptions: no empty block or pattern is passed (CallAssumption; the methods of IOBase
return before), TX_BUF is at least 32 bytes and at most 65536 (BufferAssumption; the largest
command without data has 16, and a length has two bytes), the CPLD's buffer is whole words of 16 bits
(TransferAssumption), and a cable at a parallel port loops back some of its lines (PortAssumption).
All four theorems follow from one invariant, IInv, that has a part for each thing they need:

* `Linked`: the object is one the data base describes, its calls are such as callers make.
* `Scripted`: which instructions the script of each cable can hold, with bounds on each
  command's length.  Most of the module shows that the scripts are made of these: an
  FTDI block in chunks, its last bits, TMS in bits, sleeps; the words of an XPC; the transfers of an
  FX2.  The scripts are folds and flattened sequences, so this goes by induction.
* `Ending`: a script closes at most once, as its last act unless a failure was told, and a throw was told.
* `Handled`: the handle is open, or a failure was told, or there is nothing to do yet or any more.
* `Wired`, `Held_usb`, `Pinned`: runs are not empty and belong to calls made.
* `Buffered`: bptr is the sum of the commands in usbuf and below TX_BUF between
  commands.  What mpsse_add_cmd adds to it is the size of one command, which Scripted bounds.
* `Reading`: the retries of readusb.
* `Recognised`: CableRecognised, in both directions, with the moment between Init and the first call.

### The sleeps of the FTDI cables

| Theorem | Statement |
|---|---|
| SleepsAreLongEnough | `Spec => []SleepsLongEnough` |

It needs no further assumption, and is in `CableSleepProofs`.  That a sleep puts enough clocks into its
commands is arithmetic: TicksEnough shows that `Ticks` is at least what the time needs wherever
the product fits 32 bits, and IdlesFast and IdlesSlow that the commands make that many clocks, below
the 524288 the length bytes can say.  That the chip makes them, and in time, is the hard part.  The chip runs
behind the host, takes what comes for data while it waits for some, and with usbuf and the script
there are three places where the commands of several calls may be.  The proof follows an ideal chip
(`Ideal`: bytes of data announced, bytes of answers owed, clocks given to each call, and whether an
answer was asked for after the last of them) through all three:

* `Leads(s, p, q, R)` says that the elements of s lead from p to q by steps of R; there are lemmas for
  the empty sequence, concatenation, one element more, and one taken away.
* `Carries(p, it, q, h, L)` is a command at the ideal chip: data come when they are announced,
  nothing else comes before they have, and no call gets clocks before the earlier ones
  have what L says they need.  ChipFollows: a step of the chip then does to want, fifo and wire what the
  command does to the ideal one (`Sync`).
* `Fair(s, d, h, L)`: from any ideal chip that waits for nothing, s leads to one that waits for
  nothing either and owes d bytes more.  Every script is fair with d = 0: it reads all it asks for.
  `Idles(s, g, h, L)` adds that the call gets g clocks; this fails for exactly the sleeps of `CutsCommand`.
* `Orderly`: what is in chip and usbuf leads from the present chip to q, the script from q to u, and u
  waits for nothing, owes nothing, and has given every call its clocks; after a destructor it is
  drained, so that the five bytes it has read came after all clocks (LinksDrained).
* `Disturbed`: an exception is on its way (`Doomed`) or the object is done (`Over`), and only words of deinit are
  sent.  A read that waited too long but has no error is no such case: the program goes on, and Orderly still holds.  A short write leaves usbuf as
  it was, so that commands may come twice; Orderly is lost, but each command that makes clocks still comes
  after those of the calls before (`Astray`, AstrayAgain), or the chip is lost.
* `Ordered`: no run on the wire is of a call later than one that still lacks clocks.

The invariant `Waits` is Ordered with Orderly or Disturbed, without Troubled; it is inductive together
with IInv, and TLC found it to hold on the instance of the run before it was proved.

### Files

`ImageFileProofs` is about the operators of ImageFile, for every content, length and record size:

| Lemma | Statement |
|---|---|
| FileReadsBack | what saveAs writes in a style, readFile reads back in it: the same bytes, or one of the exceptions that the operator Announced names |
| JedReadsBack | the same of a JEDEC file and its fuses |
| Pieces | the lines of a file are consecutive pieces of the bytes, together all of them |
| RecordsFold, RawFold, FieldFold | a reader is a fold over the lines, and every fold has a history: its value after each line, which is what an induction over the lines is about |
| ToBits, ToFuses | jedecfile2bitfile and bitfile2jedecfile stay in the range of the map, so that what they return is a file again |

### Session

For every kind of device, request, disk, content and delay that meets the assumptions of Session:

| Theorem | Statement |
|---|---|
| TypeCorrect | `Spec => []TypeOK` |
| SavedFilesReadBack | `Spec => []SavedReadsBack` |
| DeviceImplemented | `Spec => ImplementsDevice` |
| ZeroVerified | `Spec => []ZeroMeansVerified` |

* `TypeInv` is TypeOK with where each stage is: RequestOK and DiskOK (a file is one its arguments can
  use), HostOK and DeviceOK (each variable by itself), StageOK (which kind of device a stage is part of, and
  whether a file is open in it), CpldOK and XMegaOK (how far in the device, the row, the page or the section it is).
* `SavedInv`: each file on the disk is as it was given, or one that saveAs wrote whole; with
  FileReadsBack and JedReadsBack that is SavedReadsBack.  A file of another name is not touched (`Turns`, `Saves`).
* `DataInv` is what the program knows of the device.  Three parts hold for all kinds: ToldInv and FirstIdle
  (an argument without a file was complained of; before the first command the device is idle), IdleInv (in which stages a
  device may be busy if the program did not lose track of it), and TowardsInv (every cell outside the job's
  area is as before, every cell inside at its aim, on its way, or as before).  The others belong to one kind:
  - FpgaInv: what a started FPGA holds.
  - Inv95: verify and read are one word late, because the device answers with the word of the address before.
    `Piped` says which word waits in the device, `HoldsUpTo` how far the comparison got.
  - Inv2C: the same by rows, and the blank check.
  - EraseInv, WriteInv, XInv: the page loop of an XMega and the bytes read so far.  A page is either erased
    with its section, or by -e, or written over (WritesOver), which is why the actions so far count (`Untouched`).
  - VerifiedCpld, VerifiedX2: a verify that ended well has compared every cell.
* DeviceImplemented goes by the step: Init gives an initial state of DeviceContract, and each action of
  Session a step or a stutter of `Contract!Next`.  `Frame` and its lemmas say that the job stays the same while the
  argument does; TroubleStays, that what lets a job end unachieved is never taken back.
* ZeroVerified adds `EndInv`: the exit code is 0 only after the last argument, and a verify that failed has set it.

### How far this goes

All invariants were checked by TLC on the instances before they were proved.  No theorem rests on an
assumption but the named ones of the modules and those in the tables; each is evaluated on the instance,
and `Pages <= AddrPages` and `BlockPages <= SectorPages` hold there.

Induction over data is done without an operator as a parameter: `SubsetInduction` in InductionFacts is
about a set that contains a set whenever it contains that set without one element; what is to be
shown is collected in that set.  What Base and the folds of the scripts compute is proved in this way.

**Only model-checked:** the refinement ImplementsContract of Cables.  **Out of the prover's reach:** MethodsReturn, CallsReturn,
Terminates, CallsEnd, Ends (liveness under fairness) and facts about ENABLED.  No module uses a RECURSIVE operator.

## 7. Not modelled

See "components" in `PROJECT.json` for each part and its reason.  In short:

* option parsing, the data bases and their look-ups, printing, timing: no state that
  outlives a call;
* identification of SPI flashes and `test` of ProgAlgSPIFlash, `reconfig` of a PROM, XMega sections p
  and u, debug files, verbose output;
* the FTD2XX variant of IOFtdi, the firmware loader of the XPC, the search for a device on the USB;
* what the code never reaches: AVR writing, fuse and lock writes of an XMega, flow_array_program, flow_reinit;
* characters of the file formats: a file is its lines or fields; the map file of a CoolRunner-II, which
  the run takes as a small constant;
* `javr/`, the stand-alone tools and the shell wrappers: other programs;
* memory safety.
