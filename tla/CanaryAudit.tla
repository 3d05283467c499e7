----------------------------- MODULE CanaryAudit -----------------------------
(***************************************************************************)
(* What a canary-write check promises of its finding: it tries to write    *)
(* some keys to a bucket, may remove what it wrote, and in the end decides *)
(* whether the bucket takes such writes.  S3CanaryProbe and                *)
(* ObjectStoreProbe implement it.                                          *)
(***************************************************************************)
CONSTANT Keys

VARIABLES
  stored,  \* the keys in the bucket
  landed,  \* the keys ever written to it
  verdict  \* "none", then "PASS", "FAIL", "ERROR" or "SKIP"

vars == <<stored, landed, verdict>>

Init ==
  /\ stored = {}
  /\ landed = {}
  /\ verdict = "none"

Write(k) ==
  /\ verdict = "none"
  /\ stored' = stored \cup {k}
  /\ landed' = landed \cup {k}
  /\ UNCHANGED verdict

Remove(k) ==
  /\ verdict = "none"
  /\ stored' = stored \ {k}
  /\ UNCHANGED <<landed, verdict>>

\* The last write or removal may take effect although it is what failed.
GiveUp ==
  /\ verdict = "none"
  /\ verdict' \in {"ERROR", "SKIP"}
  /\ \E K \in SUBSET Keys :
       /\ stored' \in SUBSET (stored \cup K)
       /\ landed' = landed \cup K

\* PASS only if nothing landed, FAIL only if something did.
Decide ==
  /\ verdict = "none"
  /\ verdict' = IF landed = {} THEN "PASS" ELSE "FAIL"
  /\ UNCHANGED <<stored, landed>>

Next == (\E k \in Keys : Write(k) \/ Remove(k)) \/ GiveUp \/ Decide

\* The check does come to a verdict.
Spec == Init /\ [][Next]_vars /\ WF_vars(GiveUp \/ Decide)
===============================================================================
