------------------------------ MODULE FileScanMC ------------------------------
(* Uploads and the workers that scan them.                                   *)
EXTENDS FileScan, TLC
===============================================================================
