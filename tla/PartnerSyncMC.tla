----------------------------- MODULE PartnerSyncMC -----------------------------
(* Jobs that poll one partner, and the workers that execute them.             *)
EXTENDS PartnerSync, TLC
===============================================================================
