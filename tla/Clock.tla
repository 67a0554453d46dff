------------------------------- MODULE Clock -------------------------------
(* The clock of a server, in ticks. *)
EXTENDS Integers

CONSTANT MaxTime  \* bound on the clock

ASSUME MaxTimeAssumption == MaxTime \in Nat

VARIABLE now

Tick ==
  /\ now < MaxTime
  /\ now' = now + 1
=============================================================================
