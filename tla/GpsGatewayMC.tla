----------------------------- MODULE GpsGatewayMC -----------------------------
(* One gateway process and the device connections it accepts.                 *)
EXTENDS GpsGateway, TLC
===============================================================================
