---------------------------- MODULE CableContract ----------------------------
(***************************************************************************)
(* What the rest of xc3sprog takes for granted about a cable: the abstract *)
(* specification of class IOBase (src/iobase.h).                           *)
(*                                                                         *)
(* The cable may fall behind what it was asked for, but it clocks the      *)
(* edges in the order of the calls, each once, and a call that reads       *)
(* returns only with the bits that were captured on its own edges, at      *)
(* their places.  A call may fail; then the program is told, and nothing   *)
(* is promised any more.  Closing waits for what is still under way.       *)
(***************************************************************************)
EXTENDS Wire

CONSTANT Calls          \* the calls a caller may make

VARIABLES calls,        \* the calls made so far
          wire,         \* the edges the chain has seen
          got,          \* what the buffer of the current call holds
          state         \* "idle" between calls, "busy" in one, "failed", "closed"

vars == <<calls, wire, got, state>>

Init == calls = <<>> /\ wire = <<>> /\ got = <<>> /\ state = "idle"

Current == calls[Len(calls)]
InOrder(w) == IsPartOf(Busy(w), Expected(calls))

Ask == /\ state = "idle" /\ calls' # calls
       /\ \E c \in Calls : calls' = Append(calls, c)
       /\ state' = "busy" /\ got' = <<>> /\ UNCHANGED wire

(* The cable clocks some more of the edges asked for.                      *)
Advances == InOrder(wire') /\ IsPartOf(Busy(wire), Busy(wire'))

Clock == /\ state \in {"idle", "busy"} /\ wire' # wire /\ Advances
         /\ UNCHANGED <<calls, got, state>>

(* Captured bits reach the buffer of the call.                             *)
Deliver == /\ state = "busy" /\ got' # got /\ Advances
           /\ IsPartOf(got, got') /\ IsPartOf(got', Whole(Len(calls), Current))
           /\ UNCHANGED <<calls, state>>

Return == /\ state = "busy" /\ state' = "idle" /\ UNCHANGED <<calls, wire, got>>
          /\ got = Whole(Len(calls), Current)
          /\ Current.read => Busy(wire) = Expected(calls)

Close == /\ state = "idle" /\ state' = "closed" /\ UNCHANGED <<calls, wire, got>>
         /\ Busy(wire) = Expected(calls)

(* A failure, of the call under way or of the one that is made.            *)
Fail == /\ state' = "failed" /\ UNCHANGED wire
        /\ \/ UNCHANGED <<calls, got>>
           \/ got' = <<>> /\ \E c \in Calls : calls' = Append(calls, c)
Failed == state = "failed" /\ state' = "failed"

Next == Ask \/ Clock \/ Deliver \/ Return \/ Close \/ Fail \/ Failed

Spec == Init /\ [][Next]_vars
==============================================================================
