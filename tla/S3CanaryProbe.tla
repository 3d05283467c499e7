---------------------------- MODULE S3CanaryProbe ----------------------------
(***************************************************************************)
(* BOOTSTRAP-01: put each canary key, then delete the accepted ones.  Each *)
(* call to S3 may succeed, be refused, or fail in a way that leaves open   *)
(* whether it took effect.                                                 *)
(***************************************************************************)
EXTENDS Naturals, FiniteSets

CONSTANT NumKeys  \* Len(CANARY_KEYS); a key is its position

ASSUME NumKeysAssumption == NumKeys \in Nat \ {0}

VARIABLES
  phase,      \* "start", "put", "delete" or "done"
  next,       \* the key the loop is at
  accepted,   \* the locals of the same names
  blocked,
  verdict,    \* status of the finding, "none" before
  stored,     \* the canaries in the bucket
  landed,     \* history: every canary that was ever written
  ambiguous,  \* history: a put that raised landed all the same
  undeleted   \* history: canaries whose delete raised

bucket == <<stored, landed>>
probeVars == <<phase, next, accepted, blocked, verdict, stored, landed, ambiguous, undeleted>>

Keys == 1..NumKeys

ProbeInit ==
  /\ phase = "start"
  /\ next = 1
  /\ accepted = {} /\ blocked = {}
  /\ verdict = "none"
  /\ stored = {} /\ landed = {}
  /\ ambiguous = FALSE
  /\ undeleted = {}

-------------------------------------------------------------------------------
Land(k) == stored' = stored \cup {k} /\ landed' = landed \cup {k}

\* A call that raised: its effect on the bucket may or may not have happened.
PutMayLand(k) ==
  \/ Land(k) /\ ambiguous' = TRUE
  \/ UNCHANGED <<bucket, ambiguous>>
DeleteMayHold(k) ==
  /\ stored' \in {stored, stored \ {k}}
  /\ undeleted' = undeleted \cup {k}
  /\ UNCHANGED landed

End(status) == phase' = "done" /\ verdict' = status

-------------------------------------------------------------------------------
\* Without a bucket the check is skipped.
Start(given) ==
  /\ phase = "start"
  /\ IF given THEN phase' = "put" /\ UNCHANGED verdict ELSE End("SKIP")
  /\ UNCHANGED <<next, accepted, blocked, bucket, ambiguous, undeleted>>

Putting == phase = "put" /\ next \in Keys

PutAccepted ==
  /\ Putting
  /\ Land(next)
  /\ accepted' = accepted \cup {next}
  /\ next' = next + 1
  /\ UNCHANGED <<phase, blocked, verdict, ambiguous, undeleted>>

\* Any client-side rejection: the object was not created.
PutRejected ==
  /\ Putting
  /\ blocked' = blocked \cup {next}
  /\ next' = next + 1
  /\ UNCHANGED <<phase, accepted, verdict, bucket, ambiguous, undeleted>>

\* Mutant: a failure counts as a rejection.
PutFailsBlocked ==
  /\ Putting
  /\ PutMayLand(next)
  /\ blocked' = blocked \cup {next}
  /\ next' = next + 1
  /\ UNCHANGED <<phase, accepted, verdict, undeleted>>

\* A transient ClientError returns ERROR at once; an exception of another
\* class leaves run(), and run_checks makes it an ERROR.
PutFails ==
  /\ Putting
  /\ PutMayLand(next)
  /\ End("ERROR")
  /\ UNCHANGED <<next, accepted, blocked, undeleted>>

\* Mutant: the delete loop starts where the puts ended.
PutsDoneNoRestart ==
  /\ phase = "put"
  /\ next \notin Keys
  /\ phase' = "delete"
  /\ UNCHANGED <<next, accepted, blocked, verdict, bucket, ambiguous, undeleted>>

PutsDone ==
  /\ phase = "put"
  /\ next \notin Keys
  /\ phase' = "delete"
  /\ next' = 1
  /\ UNCHANGED <<accepted, blocked, verdict, bucket, ambiguous, undeleted>>

\* The delete loop runs over the accepted keys in order.
Deleting(k) ==
  /\ phase = "delete"
  /\ k \in accepted /\ k >= next
  /\ \A j \in accepted : j >= next => k <= j

Delete(k) ==
  /\ Deleting(k)
  /\ stored' = stored \ {k}
  /\ next' = k + 1
  /\ UNCHANGED <<phase, accepted, blocked, verdict, landed, ambiguous, undeleted>>

\* A ClientError is suppressed, and the loop goes on.
DeleteSuppressed(k) ==
  /\ Deleting(k)
  /\ DeleteMayHold(k)
  /\ next' = k + 1
  /\ UNCHANGED <<phase, accepted, blocked, verdict, ambiguous>>

\* Any other exception ends the check.
DeleteFails(k) ==
  /\ Deleting(k)
  /\ DeleteMayHold(k)
  /\ End("ERROR")
  /\ UNCHANGED <<next, accepted, blocked, ambiguous>>

DeletesDone == phase = "delete" /\ \A k \in accepted : k < next

\* Mutant: one blocked key is enough to pass.
FinishLenient ==
  /\ DeletesDone
  /\ End(IF blocked = {} THEN "FAIL" ELSE "PASS")
  /\ UNCHANGED <<next, accepted, blocked, bucket, ambiguous, undeleted>>

Finish ==
  /\ DeletesDone
  /\ End(IF accepted # {} THEN "FAIL" ELSE "PASS")
  /\ UNCHANGED <<next, accepted, blocked, bucket, ambiguous, undeleted>>

ProbeNext ==
  \/ \E given \in BOOLEAN : Start(given)
  \/ PutAccepted \/ PutRejected \/ PutFails \/ PutsDone
  \/ \E k \in Keys : Delete(k) \/ DeleteSuppressed(k) \/ DeleteFails(k)
  \/ Finish

\* One thread runs the check: it goes on while it has a step.
ProbeSpec == ProbeInit /\ [][ProbeNext]_probeVars /\ WF_probeVars(ProbeNext)

-------------------------------------------------------------------------------
\* Properties

TypeOK ==
  /\ phase \in {"start", "put", "delete", "done"}
  /\ next \in 1..NumKeys + 1
  /\ accepted \in SUBSET Keys
  /\ blocked \in SUBSET Keys
  /\ verdict \in {"none", "PASS", "FAIL", "ERROR", "SKIP"}
  /\ stored \in SUBSET Keys
  /\ landed \in SUBSET Keys
  /\ ambiguous \in BOOLEAN
  /\ undeleted \in SUBSET Keys

\* The finding tells the truth about the bucket however its answers fall: PASS
\* only if no canary ever landed, FAIL only if one did, and a verdict comes.
Audit == INSTANCE CanaryAudit
ImplementsAudit == Audit!Spec

\* The evidence of a verdict accounts for every canary: the accepted keys are
\* those that landed, and the blocked ones all the others.
EvidenceIsExact ==
  verdict \in {"PASS", "FAIL"} => accepted = landed /\ blocked = Keys \ landed

\* A verdict leaves a canary behind only where deleting it raised.
VerdictCleansUp == verdict \in {"PASS", "FAIL"} => stored \subseteq undeleted

\* README.md:510 "writes canary objects to the target bucket and deletes them
\* after": when every put said what it did and every delete worked, nothing is
\* left in the bucket once the check is over.
NothingLeftBehind == phase = "done" /\ ~ambiguous /\ undeleted = {} => stored = {}
===============================================================================
