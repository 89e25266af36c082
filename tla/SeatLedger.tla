------------------------------ MODULE SeatLedger ------------------------------
(***************************************************************************)
(* What activation promises of a licence's seats: each is free or held by  *)
(* one machine, a machine takes a free seat and gives back its own.  The   *)
(* promise is kept for as long as the ledger is sound; what follows its    *)
(* first unsound step is left open.                                        *)
(***************************************************************************)
EXTENDS Integers

CONSTANTS Machines, Seats

VARIABLES
  taken,  \* machines that hold a seat
  free,   \* seats left
  sound   \* no change has been made from an outdated view of the ledger

vars == <<taken, free, sound>>

Init == taken = {} /\ free = Seats /\ sound = TRUE

Take(m) ==
  /\ m \notin taken /\ free > 0
  /\ taken' = taken \cup {m} /\ free' = free - 1

GiveBack(m) ==
  /\ m \in taken
  /\ taken' = taken \ {m} /\ free' = free + 1

Next ==
  \/ sound /\ sound' /\ \E m \in Machines : Take(m) \/ GiveBack(m)
  \/ ~sound'

Spec == Init /\ [][Next]_vars
=============================================================================
