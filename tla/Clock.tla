-------------------------------- MODULE Clock --------------------------------
(* The wall clock the in-memory engines read, in ticks, up to a bound. *)
EXTENDS Integers

CONSTANT MaxTime
ASSUME MaxTimeAssumption == MaxTime \in Nat

VARIABLE now

Time == 0 .. MaxTime

Tick == now < MaxTime /\ now' = now + 1
=============================================================================
