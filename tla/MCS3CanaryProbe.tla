--------------------------- MODULE MCS3CanaryProbe ---------------------------
(* The check's own four canary keys. *)
EXTENDS S3CanaryProbe
===============================================================================
