-------------------------- MODULE LogicalCommands --------------------------
(***************************************************************************)
(* What packages/delivery promises about one logical command, whatever its *)
(* jobs go through: it is opened once, it gets one result, and it is open  *)
(* again only after it was parked for a person to look at. There are no    *)
(* jobs, leases, workers or clocks here.                                   *)
(***************************************************************************)

CONSTANT Commands

VARIABLE status

Init == status = [c \in Commands |-> "new"]

Move(c, from, to) ==
  /\ status[c] = from
  /\ status' = [status EXCEPT ![c] = to]

Open(c) == Move(c, "new", "open")
Finish(c) == Move(c, "open", "done")
Park(c) == Move(c, "open", "parked")
Reopen(c) == Move(c, "parked", "open")

Next == \E c \in Commands : Open(c) \/ Finish(c) \/ Park(c) \/ Reopen(c)

Spec == Init /\ [][Next]_status

=============================================================================
