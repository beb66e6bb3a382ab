-------------------------------- MODULE Cable --------------------------------
(***************************************************************************)
(* What the cables have in common: the life of an object of class IOBase,  *)
(* from getIO (src/utilities.cpp) through the calls of txrx_block, tx_tms  *)
(* and Usleep to the destructor.                                           *)
(*                                                                         *)
(* A call unfolds into a script of operations on the device.  The cables   *)
(* write the scripts as the loops of their methods would run; none of them *)
(* depends on the data.  The scripts are carried out one operation at a    *)
(* time, each of which may fail.                                           *)
(***************************************************************************)
EXTENDS Wire

CONSTANTS
  MaxCalls,     \* bound: calls in the life of a cable
  Requests,     \* ways to open a cable: kind, freq (as asked for with -J),
                \* cap (the cable's own), opt (the fields of its optstring)
  Calls         \* the calls for a kind of cable

Kinds == {"ftdi", "ftdi_h", "xpc", "xpc_internal", "fx2", "parport", "gpio"}

ASSUME RequestAssumption ==
  /\ MaxCalls \in Nat
  /\ \A r \in Requests : r.kind \in Kinds /\ {r.freq, r.cap} \subseteq Nat

(* The callers pass no empty block and no empty pattern (src/iobase.cpp).  *)
ASSUME CallAssumption ==
  \A x \in Kinds : \A c \in Calls[x] :
    /\ c.op \in Ops /\ c.len \in Nat /\ (c.op # "sleep" => c.len > 0)
    /\ {c.last, c.write, c.read} \subseteq BOOLEAN

VARIABLES
  kind,         \* the class of the cable
  freq,         \* the frequency its Init is called with
  opt,          \* the option string of its entry in the data base, by fields
  calls, wire, got,   \* as in CableContract
  state,        \* where the object is in its life
  script,       \* the operations left of the current method
  handle,       \* the device handle: "none", "open", "closed"
  told,         \* history: a message on stderr spoke of a failure
  silent,       \* history: an operation failed, and nobody was told
  misuse        \* history: the device was used without an open handle

link == <<kind, freq, opt>>
vars_cable == <<kind, freq, opt, calls, wire, got, state, script, handle,
                told, silent, misuse>>
hist == <<told, silent, misuse>>

States == {"init", "idle", "busy", "refused", "thrown", "closing", "closed", "aborted"}

Here == Len(calls)
Asked == IF calls = <<>> THEN NoCall ELSE calls[Here]
Op == Head(script)
Doing(d) == script # <<>> /\ Op.do = d
Done == script' = Tail(script)
If(cond, s) == IF cond THEN s ELSE <<>>

------------------------------------------------------------------------------
(***************************************************************************)
(* getIO: the frequency asked for, or the cable's own where there is none  *)
(* or where it is too high for the cable.                                  *)
(***************************************************************************)
getIO_freq(cap, f) == IF f = 0 \/ (cap # 0 /\ f > cap) THEN cap ELSE f

Open == \E r \in Requests :
          /\ kind = r.kind /\ freq = getIO_freq(r.cap, r.freq) /\ opt = r.opt
          /\ calls = <<>> /\ wire = <<>> /\ got = <<>> /\ script = <<>>
          /\ state = "init" /\ handle = "none" /\ told = FALSE
          /\ silent = FALSE /\ misuse = FALSE

(* Init returned an error: main ends with it, and the destructor runs.     *)
Refuse == state' = "refused" /\ script' = <<>> /\ told' = TRUE

Begin(Script(_)) ==
  /\ state = "idle" /\ Here < MaxCalls
  /\ \E c \in Calls[kind] : calls' = Append(calls, c) /\ script' = Script(c)
  /\ state' = "busy" /\ got' = <<>>
  /\ UNCHANGED <<link, wire, handle, hist>>

Return ==
  /\ state = "busy" /\ script = <<>> /\ state' = "idle"
  /\ UNCHANGED <<link, calls, wire, got, script, handle, hist>>

Ready ==
  /\ state = "init" /\ handle = "open" /\ script = <<>> /\ state' = "idle"
  /\ UNCHANGED <<link, calls, wire, got, script, handle, hist>>

(* An exception: nothing in xc3sprog.cpp catches it, so that the program   *)
(* is terminated; whether the destructors run before that is up to the     *)
(* implementation.  One that leaves a destructor terminates it as well.    *)
Throw == /\ script' = <<>>
         /\ state' = IF state = "closing" THEN "aborted" ELSE "thrown"

Terminate ==
  /\ state = "thrown" /\ state' = "aborted"
  /\ UNCHANGED <<link, calls, wire, got, script, handle, hist>>
==============================================================================
