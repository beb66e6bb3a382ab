-------------------------------- MODULE Wire --------------------------------
(***************************************************************************)
(* What a cable does at its connector, as data: runs of clock edges and    *)
(* runs of captured bits.  A run stands for bits from .. from + n - 1 of   *)
(* one call, so that blocks of tens of thousands of bits stay one record.  *)
(***************************************************************************)
EXTENDS Integers, SequencesExt

(* A call made of a cable.  `read' and `write' say which of the pointers   *)
(* of txrx_block are not NULL; a length is in bits, or in microseconds.    *)
Ops == {"tms", "block", "sleep"}
Call(op, len, last, write, read) ==
  [op |-> op, len |-> len, last |-> last, write |-> write, read |-> read]
Tms(len) == Call("tms", len, FALSE, TRUE, FALSE)
Sleep(usec) == Call("sleep", usec, FALSE, FALSE, FALSE)
NoCall == Call("none", 0, FALSE, FALSE, FALSE)

(* Edges of call number `call'.  "tms": bits of a TMS pattern; "data":     *)
(* bits shifted with TMS low; "last": a bit shifted with TMS high;         *)
(* "idle": clocks that only pass the time.                                 *)
Run(call, kind, from, n) == [call |-> call, kind |-> kind, from |-> from, n |-> n]

Continues(a, b) == /\ a.call = b.call /\ a.kind = b.kind
                   /\ a.from + a.n = b.from

Join(w, r) ==
  IF r.n = 0 THEN w
  ELSE IF w # <<>> /\ Continues(w[Len(w)], r)
       THEN [w EXCEPT ![Len(w)].n = @ + r.n]
       ELSE Append(w, r)

(* The edges a call asks for, and those of all calls so far.               *)
Edges(k, c) ==
  IF c.op = "tms" THEN <<Run(k, "tms", 0, c.len)>>
  ELSE IF c.op = "block" /\ c.last
       THEN Join(Join(<<>>, Run(k, "data", 0, c.len - 1)), Run(k, "last", c.len - 1, 1))
       ELSE IF c.op = "block" THEN <<Run(k, "data", 0, c.len)>> ELSE <<>>
Expected(calls) == FlattenSeq([k \in DOMAIN calls |-> Edges(k, calls[k])])

Busy(w) == SelectSeq(w, LAMBDA r : r.kind # "idle")

(* w is the beginning of e.                                                *)
IsPartOf(w, e) ==
  /\ Len(w) <= Len(e)
  /\ \A x \in DOMAIN w :
       IF x < Len(w) THEN w[x] = e[x]
       ELSE w[x].n <= e[x].n /\ w[x] = [e[x] EXCEPT !.n = w[x].n]

(* Captured bits: bits from .. from + n - 1 of the call, which the cable   *)
(* puts at position `at' of the caller's buffer.                           *)
Placed(at, call, from, n) == [at |-> at, call |-> call, from |-> from, n |-> n]

Place(g, p) ==
  IF p.n = 0 THEN g
  ELSE IF /\ g # <<>> /\ g[Len(g)].call = p.call
          /\ g[Len(g)].at + g[Len(g)].n = p.at
          /\ g[Len(g)].from + g[Len(g)].n = p.from
       THEN [g EXCEPT ![Len(g)].n = @ + p.n]
       ELSE Append(g, p)

Whole(k, c) == IF c.read THEN <<Placed(0, k, 0, c.len)>> ELSE <<>>
==============================================================================
