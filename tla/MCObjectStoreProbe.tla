-------------------------- MODULE MCObjectStoreProbe --------------------------
(* Four payloads and the baseline. *)
EXTENDS ObjectStoreProbe
===============================================================================
