-------------------------- MODULE TelemetryBufferMC --------------------------
(* A tracker with two packets, another with one, and two flush timers.      *)
EXTENDS TelemetryBuffer, TLC

CONSTANTS tracker, other, first, second, single

Owner == [b \in Batches |-> IF b = single THEN other ELSE tracker]
SendOrder == [b \in Batches |-> IF b = second THEN 2 ELSE 1]
=============================================================================
