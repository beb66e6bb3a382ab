----------------------------- MODULE MCSession ------------------------------
(***************************************************************************)
(* Small runs of Session: devices of a few cells, one or two files.        *)
(***************************************************************************)
EXTENDS Session

MCFuseMap == <<2, -1, 1, -2>>     \* rows of two cells; fuse 3 has no cell
MCSizes == [a |-> 6, b |-> 2, e |-> 4, f |-> 1, l |-> 1]

File1(style, bytes) == saveAs(style, bytes, Len(bytes))
Cut(file) == [file EXCEPT !.lines = SubSeq(@, 1, Len(@) - 1)]
CutShort(file) == [file EXCEPT !.lines[1].data = SubSeq(@, 1, Len(@) - 1)]
For(device, file) == [file EXCEPT !.device = device]
Take(name, action, style) ==
  [name |-> name, action |-> action, section |-> "a", offset |-> 0, style |-> style,
   length |-> 0]

Run(kind, device, cells, in, args) ==
  [kind |-> kind, device |-> device, cells |-> cells, args |-> args,
   disk |-> [in |-> in, out |-> Missing], erase |-> FALSE, verbose |-> FALSE,
   reconfig |-> FALSE, map |-> FALSE, known |-> TRUE, chain |-> <<TRUE>>, pos |-> 0, npos |-> 1]
Erasing(runs) == UNION {{r, [r EXCEPT !.erase = TRUE]} : r \in runs}

(* main: what is in the chain, and where.                                  *)
MainRuns ==
  LET one == Run("other", "none", <<0>>, Missing, <<>>)
  IN  {[one EXCEPT !.chain = c, !.pos = p, !.npos = n, !.erase = e] :
         c \in {<<>>, <<TRUE>>, <<TRUE, FALSE>>}, p \in 0..1, n \in 1..2, e \in BOOLEAN}

(* FPGA: a good file, a cut one, one too short; several; not for writing.  *)
FpgaArgs ==
  {<<Take("in", "w", s)>> : s \in {"BIT", "MCS", "HEX"}} \cup
  {<<Take("in", "r", "BIT"), Take("in", "W", "BIT")>>,
   <<Take("in", "w", "BIT"), Take("in", "w", "BIN")>>,
   <<[Take("in", "w", "BIT") EXCEPT !.offset = 1]>>, <<>>}
FpgaFiles == {File1("BIT", <<1, 2>>), File1("MCS", <<2, 0>>), Cut(File1("MCS", <<1, 2>>)),
              CutShort(File1("BIT", <<1, 2>>)), File1("BIN", <<1>>), Missing}
FpgaRuns ==
  {[Run("fpga", d, <<0, 1>>, in, args) EXCEPT !.verbose = v, !.erase = (args = <<>>) ] :
     d \in {"xc2s", "xc3s"}, in \in FpgaFiles, args \in FpgaArgs, v \in BOOLEAN}
  \cup {[Run("fpga", d, <<0, 1>>, Missing, <<>>) EXCEPT !.reconfig = TRUE] :
          d \in {"xc3s", "xc7"}}

(* CPLD: JEDEC files that are good, short, too long, broken, cut.          *)
Jedecs ==
  {saveAsJed(fuses, d) : fuses \in {<<0, 1, 2, 3>>, <<1, 2>>, <<2, 1, 3, 0, 0>>},
                         d \in {"dev", "another"}} \cup
  {JedecFile(<<L(0, <<0, 1>>), QF(4)>>, <<>>),
   JedecFile(<<QF(4), Named("dev"), L(0, <<0, 1, 2, 3>>), QF(4)>>, <<0, 1, 2, 3>>),
   JedecFile(<<QF(4), Named("dev"), L(2, <<1, 1>>), Dangling>>, <<0, 0, 1, 1>>),
   JedecFile(<<QF(4), Foreign>>, <<>>), JedecFile(<<QF(4), L(9, <<>>), Named("dev")>>, <<0, 0, 0, 0>>),
   JedecFile(<<>>, <<>>), Missing}
JedecArgs(in) ==
  {<<Take("in", a, "JEDEC")>> : a \in {"v", "w", "W"}} \cup
  IF in # saveAsJed(<<0, 1, 2, 3>>, "dev") THEN {}
  ELSE {<<Take("out", "r", "JEDEC"), Take("out", "v", "JEDEC")>>,
        <<Take("in", "v", "JEDEC"), Take("in", "W", "JEDEC"), Take("in", "v", "JEDEC")>>,
        <<Take("out", "R", "JEDEC"), Take("in", "w", "JEDEC")>>,
        <<Take("in", "v", "JEDEC"), Take("in", "W", "JEDEC"), Take("out", "r", "JEDEC")>>,
        <<Take("in", "r", "JEDEC")>>, <<Take("in", "x", "JEDEC")>>, <<>>}
CpldCells == {<<0, 1, 2, 3>>, <<3, 3, 3, 3>>, <<1, 1, 2, 3>>, <<1, 0, 0, 3>>}
JedecRuns(kind) ==
  UNION {{Run(kind, "dev", cells, in, args) : cells \in CpldCells, args \in JedecArgs(in)} :
           in \in Jedecs}
XC95XRuns == {r \in Erasing(JedecRuns("xc95x")) : r.args # <<>> \/ r.erase}

(* CoolRunner-II with its map, and without.                                *)
BitArgs ==
  {<<Take("in", a, s)>> : a \in {"v", "w"}, s \in {"BIT", "MCS", "HEXRAW"}} \cup
  {<<Take("out", "r", s), Take("out", "v", s)>> :
     s \in {"BIT", "BIN", "BPI", "MCS", "IHEX", "HEXRAW", "HEX", "JEDEC"}}
BitFiles == {For("dev", File1("BIT", <<0, 1, 2, 3>>)), For("dev", File1("BIT", <<1>>)),
             For("dev", CutShort(File1("BIT", <<0, 1, 2, 3>>))),
             Cut(File1("MCS", <<0, 1, 2, 3>>)), Missing}
XC2CRuns ==
  {[r EXCEPT !.map = TRUE] : r \in {r \in Erasing(JedecRuns("xc2c")) : r.args # <<>> \/ r.erase}}
  \cup {[Run("xc2c", "dev", cells, in, args) EXCEPT !.map = m] :
          cells \in CpldCells \cup {<<1, 3, 3, 3>>, <<0, 1, 2, 0>>, <<2, 1, 3, 3>>},
          in \in BitFiles, args \in BitArgs, m \in BOOLEAN}

(* XMega: sections, offsets, lengths.                                      *)
OfSection(s, arg) == [arg EXCEPT !.section = s]
XMegaCells == {<<0, 1, 2, 3, 3, 3, 1, 2, 3, 2, 1, 0, 2, 3>>,
                <<2, 1, 0, 2, 3, 3, 3, 3, 3, 3, 3, 3, 3, 0>>}
XMegaArgs ==
  {<<OfSection(s, Take("in", a, "IHEX"))>> : a \in {"v", "w", "W", "e"}, s \in {"a", "b", "e", "f"}}
  \cup {<<OfSection(s, Take("out", "r", "IHEX")), OfSection(s, Take("out", "v", "IHEX"))>> :
          s \in {"a", "b", "e", "l"}}
  \cup {<<OfSection(s, Take("in", a, "IHEX")), OfSection(s, Take("in", "v", "IHEX"))>> :
          a \in {"w", "W"}, s \in {"a", "b", "e"}}
  \cup {<<[Take("in", "w", "IHEX") EXCEPT !.offset = 3]>>, <<OfSection("z", Take("in", "v", "IHEX"))>>,
        <<[Take("out", "R", "MCS") EXCEPT !.offset = 1, !.length = 2]>>,
        <<OfSection("l", [Take("out", "r", "MCS") EXCEPT !.offset = 1])>>,
        <<Take("in", "x", "IHEX")>>}
XMegaFiles == {File1("IHEX", <<2, 1, 0, 2>>), File1("IHEX", <<3, 2>>),
               File1("IHEX", <<2, 1, 0, 2, 0, 1, 2, 1>>), File1("IHEX", <<2, 1, 0, 2, 3, 0>>), Cut(File1("IHEX", <<1, 2>>)), File1("IHEX", <<1>>),
               Missing}
XMegaTwice ==           \* two files for one section
  {[Run("xmega", "x", <<0, 1, 2, 3, 3, 3, 1, 2, 3, 2, 1, 0, 2, 3>>, File1("IHEX", <<2, 1>>),
        <<OfSection(s, Take("in", a, "IHEX")), OfSection(s, Take("out", b, "IHEX"))>>)
      EXCEPT !.disk.out = File1("IHEX", <<1, 2, 0, 0>>)] :
     s \in {"a", "e"}, a \in {"w", "e"}, b \in {"w", "W"}}
XMegaRuns == Erasing(XMegaTwice \cup {Run("xmega", "x", cells, in, args) :
                        cells \in XMegaCells, in \in XMegaFiles, args \in XMegaArgs})

AvrRuns ==
  {[Run("avr", "avr", <<0, 1>>, in, args) EXCEPT !.known = k, !.erase = (args = <<>>)] :
     in \in {Missing, File1("BIN", <<1>>), Empty}, args \in {<<>>, <<Take("in", "w", "BIT")>>},
     k \in BOOLEAN}

AllRuns == MainRuns \cup FpgaRuns \cup XC95XRuns \cup XC2CRuns \cup XMegaRuns \cup AvrRuns
MCRequests == AllRuns
=============================================================================
