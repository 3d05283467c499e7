------------------------------ MODULE MCHostScan ------------------------------
(* Every content the verifier can make of the evidence: chain, signature,    *)
(* tcb and measurement pass or fail, nonce and debug may also be unassessed. *)
EXTENDS HostScan

CONSTANTS NA, Unread  \* model values

Readable ==
  {e \in [Controls -> {TRUE, FALSE, NA}] :
     \A k \in Controls : e[k] = NA => k \in {"nonce", "debug"}}

MCContents == Readable \cup {Unread}
MCModes == {"scan", "read-only", "demo"}
===============================================================================
