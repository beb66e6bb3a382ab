------------------------------ MODULE ImageFile ------------------------------
(***************************************************************************)
(* The files xc3sprog reads and writes: BitFile (src/bitfile.cpp) with its *)
(* styles, JedecFile (src/jedecfile.cpp), SrecFile (src/srecfile.cpp) and  *)
(* the fuse map of a CoolRunner-II (src/mapfile_xc2c.cpp).                 *)
(*                                                                         *)
(* A file is a sequence of lines.  The two bits of a byte of the model     *)
(* stand for the eight of the program's, so that a reversal of their order *)
(* shows.                                                                  *)
(***************************************************************************)
EXTENDS Integers, SequencesExt

CONSTANTS
  LineLen,    \* bytes of a full record of an MCS or IHEX file, 16 in the code
  RawLen,     \* bytes of a line of a HEXRAW file, 4 in the code
  FuseMap     \* for each byte of the bit file its fuse, or -1 or -2

ASSUME LineAssumption == {LineLen, RawLen} \subseteq Nat \ (0..1)
(* Every fuse has one place among the bits, and there are fuses.           *)
ASSUME MapAssumption ==
  /\ FuseMap \in Seq(Int) /\ \E k \in DOMAIN FuseMap : FuseMap[k] > 0
  /\ \A k \in DOMAIN FuseMap : FuseMap[k] \in (1..Len(FuseMap)) \cup {-1, -2}
  /\ \A k, m \in DOMAIN FuseMap : FuseMap[k] = FuseMap[m] /\ FuseMap[k] > 0 => k = m

Byte == 0..3
Erased == 3                                \* 0xff
bitRev(b) == 2 * (b % 2) + b \div 2        \* bitRevTable
Burn(old, new) ==                          \* programming only clears bits
  2 * Min({old \div 2, new \div 2}) + Min({old % 2, new % 2})

Fill(n, b) == [k \in 1..n |-> b]
FillUp(bytes, n) == bytes \o Fill(n - Len(bytes), Erased)

------------------------------------------------------------------------------
(***************************************************************************)
(* BitFile.  `of` remembers the bytes a file was made from; `flushed` is   *)
(* false while its end is still in the buffer of the C library.            *)
(***************************************************************************)
Reversed == {"BIT", "BIN", "HEX", "HEXRAW", "MCS"}
Savable == Reversed \cup {"BPI", "IHEX"}
Readable == {"BIT", "BIN", "BPI", "HEXRAW", "MCS", "IHEX"}
Records == {"MCS", "IHEX"}
Oriented(style, bytes) ==
  IF style \in Reversed THEN [k \in DOMAIN bytes |-> bitRev(bytes[k])] ELSE bytes

Files(of) == [style : STRING, lines : Seq(of), of : Seq(Byte), flushed : BOOLEAN,
              device : STRING]
Missing == [style |-> "none", lines |-> <<>>, of |-> <<>>, flushed |-> TRUE,
            device |-> "none"]
Empty == [Missing EXCEPT !.style = "empty"]

(* Bytes of 0xff at the end are not stored, but for an explicit length.    *)
Clipped(bytes, rlength) ==
  IF rlength > 0 THEN SubSeq(bytes, 1, rlength)
  ELSE SubSeq(bytes, 1, Max({1} \cup {k \in DOMAIN bytes : bytes[k] # Erased}))

Chunks(bytes, n) ==
  [k \in 1..((Len(bytes) + n - 1) \div n) |->
     SubSeq(bytes, n * (k - 1) + 1, Min({n * k, Len(bytes)}))]

(* The bytes a record announces; the last one of LineLen - 1 bytes         *)
(* announces LineLen.                                                      *)
Announced_wrong(n) == IF n < LineLen - 2 THEN n ELSE LineLen
Announced(n) == IF n < LineLen - 1 THEN n ELSE LineLen

Lines == [data : Seq(Byte), count : Nat, ended : BOOLEAN]
Line(data, count, ended) == [data |-> data, count |-> count, ended |-> ended]
LinesOf(style, bytes) ==
  CASE style \in Records ->
         LET recs == Chunks(bytes, LineLen)
         IN  [k \in DOMAIN recs |-> Line(recs[k], Announced(Len(recs[k])), TRUE)]
               \o <<Line(<<>>, 0, FALSE)>>          \* the end-of-file record
    [] style = "HEXRAW" ->
         LET raws == Chunks(bytes, RawLen)
         IN  [k \in DOMAIN raws |->
                Line(raws[k], 0, k < Len(raws) \/ Len(bytes) % RawLen # RawLen - 1)]
    [] style = "BIT" -> <<Line(bytes, Len(bytes), TRUE)>>
    [] OTHER -> <<Line(bytes, 0, TRUE)>>

saveAs(style, bytes, rlength) ==
  IF bytes = <<>> \/ style \notin Savable THEN Empty
  ELSE LET kept == Clipped(bytes, rlength)
       IN  [style |-> style, lines |-> LinesOf(style, Oriented(style, kept)),
            of |-> kept, flushed |-> TRUE, device |-> "none"]

(* A record that announces a byte too many takes its checksum for that     *)
(* byte, and compares an uninitialized variable with the sum.  After a     *)
(* failure the length is half of the file's, and the rest uninitialized.   *)
Result(res, bytes) == [res |-> res, bytes |-> bytes]
MCSRecord(r, line) ==
  IF r.res # 0 THEN {r}
  ELSE IF line.count = Len(line.data) THEN {Result(0, r.bytes \o line.data)}
  ELSE {Result(res, r.bytes \o line.data \o <<b>>) : res \in {0, 3}, b \in Byte}
MCSRecords(records) ==
  FoldLeft(LAMBDA rs, line : UNION {MCSRecord(r, line) : r \in rs}, {Result(0, <<>>)}, records)
readMCSfile(lines) ==
  LET ended == lines # <<>> /\ ~Last(lines).ended
      read == MCSRecords(IF ended THEN Front(lines) ELSE lines)
  IN  IF ended \/ lines = <<>> THEN {IF ended THEN r ELSE Result(4, <<>>) : r \in read}
      ELSE {IF r.res # 0 THEN r ELSE Result(4, r.bytes \o <<b>>) : r \in read, b \in Byte}

(* A last line without its end is read on into what the buffer held: its   *)
(* last byte counts twice after a longer line, else any number of times.   *)
(* Nothing at all is no line.                                              *)
readHEXRAW(lines) ==
  LET data == FoldLeft(LAMBDA s, line : s \o line.data, <<>>, lines)
      tail == Fill(1, Last(data))
  IN  IF lines = <<>> \/ Last(lines).ended \/ Last(lines).data = <<>> THEN {Result(0, data)}
      ELSE IF Len(lines) > 1 THEN {Result(0, data \o tail)}
      ELSE {Result(0, data \o tail), Result(0, data \o tail \o tail)}

(* A BIT file cut within its data has the length it announces all the same, *)
(* its rest uninitialized.  One that announces nothing is empty, or no BIT  *)
(* file.                                                                   *)
readBitfile(lines) ==
  IF lines = <<>> THEN {Result(2, <<>>)}
  ELSE LET data == lines[1].data
           n == lines[1].count
       IN  IF n = 0 THEN {Result(0, <<>>), Result(2, <<>>)}
           ELSE IF n <= Len(data) THEN {Result(0, SubSeq(data, 1, n))}
           ELSE {Result(2, data \o rest) : rest \in [1..(n - Len(data)) -> Byte]}
readBIN(lines) == IF lines = <<>> THEN {Result(0, <<>>)} ELSE {Result(0, lines[1].data)}

(* What is on the disk: an unflushed file lacks at least its last line.    *)
OnDisk(file) == IF file.flushed THEN {file.lines}
                ELSE {SubSeq(file.lines, 1, k) : k \in {0, Len(file.lines) - 1}}
readLines(style, lines) ==
  CASE style \in Records -> readMCSfile(lines)
    [] style = "HEXRAW" -> readHEXRAW(lines)
    [] style = "BIT" -> readBitfile(lines)
    [] OTHER -> readBIN(lines)
readFile(style, file) ==
  IF file = Missing \/ style \notin Readable THEN {Result(1, <<>>)}
  ELSE {Result(r.res, Oriented(style, r.bytes)) :
          r \in UNION {readLines(style, lines) : lines \in OnDisk(file)}}

------------------------------------------------------------------------------
(***************************************************************************)
(* JedecFile: a file of fields.  "none" is a device nobody named.          *)
(***************************************************************************)
Fields == [f : {"QF", "L", "N", "dangling", "foreign"}, n : Nat, data : Seq(Byte), name : STRING]
Field(f, n, data, name) == [f |-> f, n |-> n, data |-> data, name |-> name]
QF(n) == Field("QF", n, <<>>, "")
L(at, data) == Field("L", at, data, "")
Named(device) == Field("N", 0, <<>>, device)
Dangling == Field("dangling", 0, <<>>, "")
Foreign == Field("foreign", 0, <<>>, "")   \* in C or QF a character neither takes

Thrown == 134                              \* an exception nobody catches
Segfault == 139
Jed(res, fuses, device) == [res |-> res, fuses |-> fuses, device |-> device]
JedField(s, field) ==
  CASE s.res # 0 -> s
    [] field.f = "QF" -> IF s.fuses # <<>> THEN [s EXCEPT !.res = 2]
                         ELSE [s EXCEPT !.fuses = Fill(field.n, 0)]
    [] field.f = "L" ->
         IF field.data # <<>> /\ field.n + Len(field.data) > Len(s.fuses) THEN [s EXCEPT !.res = Thrown]
         ELSE [s EXCEPT !.fuses = [k \in DOMAIN @ |->
                 IF k - field.n \in DOMAIN field.data THEN field.data[k - field.n] ELSE @[k]]]
    [] field.f = "N" -> [s EXCEPT !.device = field.name]
    [] field.f = "foreign" -> [s EXCEPT !.res = Thrown]
    [] OTHER -> [s EXCEPT !.res = 2]
JedFields(fields) ==
  LET s == FoldLeft(JedField, Jed(0, <<>>, "none"), fields)
  IN  IF s.res = 0 /\ s.fuses = <<>> THEN [s EXCEPT !.res = 3] ELSE s
readJed(file) == IF file = Missing THEN {Jed(1, <<>>, "none")}
                 ELSE {JedFields(fields) : fields \in OnDisk(file)}

JedecFile(fields, of) ==
  [style |-> "JEDEC", lines |-> fields, of |-> of, flushed |-> TRUE, device |-> "none"]
saveAsJed(fuses, device) == JedecFile(<<QF(Len(fuses)), Named(device), L(0, fuses)>>, fuses)

(* Fuses a shorter list no longer has are cleared, then forgotten.         *)
setFuses(fuses, n) == IF n > Len(fuses) THEN Fill(n, Erased) ELSE SubSeq(fuses, 1, n)

(* The map has -1 for a transfer bit, which is 0, and -2 for an unused one.*)
jedecfile2bitfile(fuses) ==
  [k \in DOMAIN FuseMap |->
     IF FuseMap[k] \in DOMAIN fuses THEN fuses[FuseMap[k]]
     ELSE IF FuseMap[k] = -1 THEN 0 ELSE Erased]
bitfile2jedecfile(bits) ==
  LET all == [n \in DOMAIN FuseMap |->
                IF \E k \in DOMAIN FuseMap : FuseMap[k] = n
                THEN bits[Max({k \in DOMAIN FuseMap : FuseMap[k] = n})] ELSE Erased]
  IN  setFuses(all, Max({FuseMap[k] : k \in DOMAIN FuseMap}))

(* DecodeSRecordLine answers -1 for every line, the good ones too.         *)
DecodeSRecordLine(line) == -1
readSrecFile(file) ==
  IF file = Missing THEN -1
  ELSE IF file.lines = <<>> THEN 0
  ELSE IF DecodeSRecordLine(file.lines[1]) < 0 THEN -3 ELSE 0

------------------------------------------------------------------------------
(***************************************************************************)
(* A job: what a file, or no file, is to be used for with a device.        *)
(***************************************************************************)
(* The cells low + 1 .. low + size are the job's; those after `from` are   *)
(* to hold the data.                                                       *)
Job(does, low, size, from, data) ==
  [does |-> does, low |-> low, size |-> size, from |-> from, data |-> data]
NoJob == Job("nothing", 0, 0, 0, <<>>)
==============================================================================
