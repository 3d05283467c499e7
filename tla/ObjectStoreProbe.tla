--------------------------- MODULE ObjectStoreProbe ---------------------------
(***************************************************************************)
(* GCS-BOOT-02 and GPUCC-MODEL-01: probe_surface over an                   *)
(* ObjectStoreSurface.  A benign baseline object and then one object per   *)
(* payload are put; each accepted one is deleted before the next put.      *)
(***************************************************************************)
EXTENDS Naturals, FiniteSets

CONSTANT NumPayloads  \* payloads of the catalog that apply; one is its position

ASSUME NumPayloadsAssumption == NumPayloads \in Nat \ {0}

VARIABLES
  pc,         \* "start", "put", "delete" or "done"
  next,       \* the object the probe is at; 0 is the baseline
  vulnerable, \* payloads the oracle flagged
  tested,     \* payloads in report.results
  verdict,
  stored,     \* the canaries in the bucket
  landed,     \* history: every canary that was ever written
  ambiguous,  \* history: a put that raised landed all the same
  undeleted   \* history: canaries whose delete raised

bucket == <<stored, landed>>
report == <<vulnerable, tested>>
vars == <<pc, next, vulnerable, tested, verdict, stored, landed, ambiguous, undeleted>>

Payloads == 1..NumPayloads
Objects == 0..NumPayloads

Init ==
  /\ pc = "start"
  /\ next = 0
  /\ vulnerable = {} /\ tested = {}
  /\ verdict = "none"
  /\ stored = {} /\ landed = {}
  /\ ambiguous = FALSE
  /\ undeleted = {}

-------------------------------------------------------------------------------
Land(k) == stored' = stored \cup {k} /\ landed' = landed \cup {k}
End(status) == pc' = "done" /\ verdict' = status

\* Mutant: the baseline is reported like a payload.
ObserveAll(k, isAccepted) ==
  /\ tested' = tested \cup {k}
  /\ vulnerable' = IF isAccepted THEN vulnerable \cup {k} ELSE vulnerable

\* AcceptedOracle on a payload's observation, and its result in the report.
\* The baseline is observed but not reported.
Observe(k, isAccepted) ==
  /\ tested' = IF k \in Payloads THEN tested \cup {k} ELSE tested
  /\ vulnerable' = IF k \in Payloads /\ isAccepted THEN vulnerable \cup {k} ELSE vulnerable

\* The bucket is not given, the client cannot be built, or the probe begins.
Start ==
  /\ pc = "start"
  /\ \/ End("SKIP")
     \/ End("ERROR")
     \/ pc' = "put" /\ UNCHANGED verdict
  /\ UNCHANGED <<next, report, bucket, ambiguous, undeleted>>

Putting == pc = "put" /\ next \in Objects

PutAccepted ==
  /\ Putting
  /\ Land(next)
  /\ pc' = "delete"
  /\ UNCHANGED <<next, report, verdict, ambiguous, undeleted>>

\* Forbidden and Unauthorized become WriteBlocked.
PutBlocked ==
  /\ Putting
  /\ Observe(next, FALSE)
  /\ next' = next + 1
  /\ UNCHANGED <<pc, verdict, bucket, ambiguous, undeleted>>

\* Any other exception leaves probe_surface and run(): an ERROR finding.
PutFails ==
  /\ Putting
  /\ \/ Land(next) /\ ambiguous' = TRUE
     \/ UNCHANGED <<bucket, ambiguous>>
  /\ End("ERROR")
  /\ UNCHANGED <<next, report, undeleted>>

\* Mutant: the baseline object is not deleted.
DeletedPayload ==
  /\ stored' = IF next \in Payloads THEN stored \ {next} ELSE stored
  /\ UNCHANGED undeleted

Deleted ==
  /\ stored' = stored \ {next}
  /\ UNCHANGED undeleted
DeleteRaised ==  \* whatever it raised is suppressed
  /\ stored' \in {stored, stored \ {next}}
  /\ undeleted' = undeleted \cup {next}

Delete ==
  /\ pc = "delete"
  /\ Deleted \/ DeleteRaised
  /\ Observe(next, TRUE)
  /\ pc' = "put"
  /\ next' = next + 1
  /\ UNCHANGED <<verdict, landed, ambiguous>>

\* Mutant: one blocked payload is enough to pass.
FinishLenient ==
  /\ pc = "put"
  /\ next \notin Objects
  /\ End(IF vulnerable = Payloads THEN "FAIL" ELSE "PASS")
  /\ UNCHANGED <<next, report, bucket, ambiguous, undeleted>>

Finish ==
  /\ pc = "put"
  /\ next \notin Objects
  /\ End(IF vulnerable = {} THEN "PASS" ELSE "FAIL")
  /\ UNCHANGED <<next, report, bucket, ambiguous, undeleted>>

Next == Start \/ PutAccepted \/ PutBlocked \/ PutFails \/ Delete \/ Finish

Spec == Init /\ [][Next]_vars /\ WF_vars(Next)

-------------------------------------------------------------------------------
\* Properties

TypeOK ==
  /\ pc \in {"start", "put", "delete", "done"}
  /\ next \in 0..NumPayloads + 1
  /\ vulnerable \in SUBSET Payloads
  /\ tested \in SUBSET Payloads
  /\ verdict \in {"none", "PASS", "FAIL", "ERROR", "SKIP"}
  /\ stored \in SUBSET Objects
  /\ landed \in SUBSET Objects
  /\ ambiguous \in BOOLEAN
  /\ undeleted \in SUBSET Objects

\* The finding tells the truth about the payload keys: PASS only if none ever
\* landed (the benign baseline may have), FAIL only if one did.
Audit == INSTANCE CanaryAudit WITH
  Keys <- Payloads, stored <- stored \cap Payloads, landed <- landed \cap Payloads
ImplementsAudit == Audit!Spec

\* The evidence of a verdict covers every payload, and flags those that landed.
EvidenceIsExact ==
  verdict \in {"PASS", "FAIL"} =>
    tested = Payloads /\ vulnerable = landed \cap Payloads

\* README.md:512 "write and then delete canary objects in the target bucket":
\* however the probe ends, a canary stays only if deleting it raised, or the
\* put that wrote it did.
NothingLeftBehind == pc = "done" /\ ~ambiguous => stored \subseteq undeleted
===============================================================================
