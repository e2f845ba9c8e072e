-------------------------------- MODULE Clock --------------------------------
(* The clock (platform/domain/clock.go) that the lease manager, the counter *)
(* ledger, the coordinator and the hotspot splitter are given.              *)
EXTENDS Integers

CONSTANT MaxTime  \* bound on the clock

ASSUME ClockAssumption == MaxTime \in Nat

VARIABLE now

Tick == now < MaxTime /\ now' = now + 1
=============================================================================
