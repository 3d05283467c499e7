---------------------------- MODULE MCConfigReads ----------------------------
(* All checks of the plans; the lists they go through hold two items each.     *)
EXTENDS ConfigReads
===============================================================================
