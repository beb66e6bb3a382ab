--------------------------- MODULE DeviceContract ---------------------------
(***************************************************************************)
(* What a run of xc3sprog promises about the memory of a device: the       *)
(* abstract specification of the programming algorithms.                   *)
(*                                                                         *)
(* A run is a sequence of jobs.  While a job is open the cells of its area *)
(* may change, each towards what the job is for, and no other cell does.   *)
(* A job ends with what it was for achieved, or with trouble: the user was *)
(* told.  When the program lost track of the device nothing is promised.   *)
(***************************************************************************)
EXTENDS ImageFile

VARIABLES
  cells,    \* the memory of the device
  job,      \* the last job: see Job
  open,     \* it is under way
  saved,    \* what it read, once it is done
  trouble   \* "none", "told" or "lost"

contract == <<cells, job, open, saved, trouble>>

Part(s, low, size) == SubSeq(s, low + 1, low + size)
Area == Part(cells, job.low, job.size)
Wanted(a) == IF a - job.from \in DOMAIN job.data THEN job.data[a - job.from] ELSE Erased

Achieved(result) ==
  CASE job.does = "erase" -> Area = Fill(job.size, Erased)
    [] job.does = "read" -> result = Area
    [] job.does \in {"write", "verify"} -> Part(cells, job.from, Len(job.data)) = job.data
    [] job.does = "nothing" -> TRUE
    [] OTHER -> FALSE                  \* a file that is no file of its kind

Init == job = NoJob /\ ~open /\ saved = <<>> /\ trouble = "none"

Start == /\ ~open /\ open' /\ saved' = <<>> /\ UNCHANGED cells
Refuse == ~open /\ ~open' /\ saved' = <<>> /\ trouble' # "none" /\ UNCHANGED cells

(* Towards the aim: not at all, to erased, or to what is burnt.            *)
Towards(a) == {cells[a], Erased, Wanted(a), Burn(cells[a], Wanted(a))}
Change ==
  /\ (job.does \in {"erase", "write"} /\ open) \/ trouble # "none"
  /\ \A a \in DOMAIN cells :
       cells'[a] \in IF a - job.low \in 1..job.size THEN Towards(a) ELSE {cells[a]}
  /\ UNCHANGED <<job, open, saved>>

Finish == /\ open /\ ~open' /\ (trouble' # "none" \/ Achieved(saved'))
          /\ UNCHANGED <<cells, job>>
Note == UNCHANGED <<cells, job, open, saved>>
Lost == trouble' = "lost" /\ UNCHANGED <<job, open, saved>>

Next == Start \/ Refuse \/ Change \/ Finish \/ Note \/ Lost

Spec == Init /\ [][Next]_contract
==============================================================================
