-------------------------- MODULE VehiclePositionMC --------------------------
(* One vehicle, two sources that are alike but for their ranks, and a       *)
(* handful of reports.                                                      *)
EXTENDS VehiclePosition, TLC

Alike == Permutations(Sources)
===============================================================================
