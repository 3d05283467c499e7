----------------------------- MODULE ConfigReads -----------------------------
(***************************************************************************)
(* One configuration check, of any cloud, from its first call to its       *)
(* finding.  Any call may be refused (a permission the audit role lacks,   *)
(* throttling, a resource deleted since it was listed); depending on the   *)
(* call that ends the check, counts as an issue, or is swallowed.          *)
(*                                                                         *)
(* What the account holds is chosen when the check gets there, also where  *)
(* it then makes no call or is refused: `truth` is the whole account, in   *)
(* the order of the plan, and `answers` what the check got to see of it.   *)
(***************************************************************************)
EXTENDS AwsPlans, GcpPlans, AzurePlans

Plan ==
  [c \in DOMAIN AwsPlan \cup DOMAIN GcpPlan \cup DOMAIN AzurePlan |->
     IF c \in DOMAIN AwsPlan THEN AwsPlan[c]
     ELSE IF c \in DOMAIN GcpPlan THEN GcpPlan[c] ELSE AzurePlan[c]]
CheckIds == DOMAIN Plan

VARIABLES
  check,    \* the check that runs
  given,    \* its identifier is given (for CLOUDTRAIL_01, a bucket)
  truth,    \* call -> what the account would answer, so far
  answers,  \* call -> what the check was answered, so far; {} if not made
  verdict   \* "none", then its status

vars == <<check, given, truth, answers, verdict>>

Init ==
  /\ check \in CheckIds
  /\ given \in BOOLEAN
  /\ truth = <<>>
  /\ answers = <<>>
  /\ verdict = "none"

At == Len(answers) + 1

\* An earlier answer makes the check go on past the call at i.
Skipped(i) ==
  \E j \in 1..(i - 1) : \E t \in answers[j] \cap DOMAIN Plan[check][j].past :
    i <= j + Plan[check][j].past[t]

\* No identifier: the check does not apply.
Skip ==
  /\ verdict = "none" /\ answers = <<>>
  /\ ~given
  /\ check # "CLOUDTRAIL_01"
  /\ verdict' = "SKIP"
  /\ UNCHANGED <<check, given, truth, answers>>

Reads ==
  /\ verdict = "none"
  /\ given \/ check = "CLOUDTRAIL_01"
  /\ At <= Len(Plan[check])

\* The next call is made, and answered or refused.
Ask ==
  /\ Reads
  /\ ~Skipped(At)
  /\ \E fact \in Plan[check][At].says : \E answer \in {fact, {"refused"}} :
       LET returns == Plan[check][At].returns
           ends == answer \cap DOMAIN returns
       IN /\ truth' = Append(truth, fact)
          /\ answers' = Append(answers, answer)
          /\ verdict' = IF ends = {} THEN "none" ELSE returns[CHOOSE t \in ends : TRUE]
  /\ UNCHANGED <<check, given>>

\* The next call is not made.
Pass ==
  /\ Reads
  /\ Skipped(At)
  /\ \E fact \in Plan[check][At].says : truth' = Append(truth, fact)
  /\ answers' = Append(answers, {})
  /\ UNCHANGED <<check, given, verdict>>

\* Mutant: a refusal loses what the call before it answered.
LostLenient(i) == i < Len(answers) /\ "refused" \in answers[i + 1]

\* The active peerings are counted when both calls succeeded.
Lost(i) == check = "VPC_01" /\ i = 2 /\ "refused" \in answers[3]

\* The calls with an issue in their answer.
Issues ==
  {i \in 1..Len(answers) : answers[i] \cap Plan[check][i].issues # {} /\ ~Lost(i)}

Answered(t) == \E i \in 1..Len(answers) : t \in answers[i]

\* Mutant: a trail that logs is enough.
UnauditedUnlessLogging ==
  CASE check = "CLOUDTRAIL_01"            -> ~Answered("logging")
    [] check \in {"DDB_01", "SECRETS_01"} ->
         "refused" \notin answers[Len(answers) - TrailCalls] /\ ~Answered("logging")
    [] OTHER                              -> FALSE

\* CLOUDTRAIL_01 wants a logging trail, and one that covers the bucket if that
\* is given; a state store wants one unless the trails could not be listed.
Unaudited ==
  CASE check = "CLOUDTRAIL_01"            -> ~Answered(IF given THEN "covers" ELSE "logging")
    [] check \in {"DDB_01", "SECRETS_01"} ->
         "refused" \notin answers[Len(answers) - TrailCalls] /\ ~Answered("covers")
    [] OTHER                              -> FALSE

Conclude ==
  /\ verdict = "none"
  /\ At > Len(Plan[check])
  /\ verdict' = IF Issues # {} \/ Unaudited THEN "FAIL" ELSE "PASS"
  /\ UNCHANGED <<check, given, truth, answers>>

Next == Skip \/ Ask \/ Pass \/ Conclude

Spec == Init /\ [][Next]_vars

-------------------------------------------------------------------------------
\* Properties

\* What the documentation rules out (the README's tables, the checks' docstrings and
\* the remediations they print), and the checks count.
Counted ==
  {"disabled", "absent", "no_sse", "not_kms", "no_tls", "open", "unversioned", "unlogged",
   "no_retention", "imds_v1", "hop_limit", "public_ip", "active", "attached", "wildcard",
   "weak", "uncovered", "no_key", "aws_alias", "aws_managed", "unprotected", "no_recovery",
   "no_rotation", "unencrypted", "exposed", "public", "plaintext",
   "not_confidential", "unknown_type", "unattestable", "no_secure_boot", "no_vtpm",
   "no_monitoring", "broad_writer", "impersonators", "user_keys", "unsigned", "tagged",
   "public_access", "acls", "debug", "usable", "no_support", "bad_hardware", "bad_size",
   "guest_state_only", "not_compliant", "unaudited"}

\* What the documentation rules out and the checks overlook: for the form a policy has,
\* because it is on no page or in no policy they read, or as they do not ask.
Overlooked ==
  {"narrow_tls", "anyone", "veiled", "unseen", "unscoped", "unlisted", "other_ip",
   "other_writer", "other_impersonators", "hidden_launcher", "no_reference",
   "experimental", "unsaid", "other_issuer", "mismatch", "unknown_key",
   "partly_audited", "unmanaged", "unnamed_bucket"}

\* What the documentation allows and the checks count all the same.
Overstated == {"dual_kms", "other_form", "exempt", "workload", "attested"}

Bad == Counted \cup Overlooked

\* A fact that exists: the second key of a table without a first is not there.
Exists(i) ==
  ~\E j \in 1..(i - 1) : \E t \in truth[j] \cap DOMAIN Plan[check][j].past :
     i <= j + Plan[check][j].past[t]

\* The trails that log, each followed by what it logs.
Logging == {i \in 1..(Len(truth) - 1) : Exists(i) /\ truth[i] = {"logging"}}
Covering == {i \in Logging : "covers" \in truth[i + 1]}

\* What no trail records, of the data events of the bucket or the store and of the
\* management events (KMS Decrypt).  Without a bucket CLOUDTRAIL_01 wants a trail
\* that logs, and says that data events are captured.
AuditGap(gap) ==
  CASE gap = "unaudited"      -> Logging = {} \/ (given /\ Covering = {})
    [] gap = "unnamed_bucket" -> ~given /\ Covering = {}
    [] gap = "partly_audited" -> \A i \in Covering : "part" \in truth[i + 1]
    [] gap = "unmanaged"      -> /\ check = "CLOUDTRAIL_01"
                                 /\ \A i \in Logging : "no_management" \in truth[i + 1]
AuditGaps ==
  {gap \in {"unaudited", "unnamed_bucket", "partly_audited", "unmanaged"} :
     check \in {"CLOUDTRAIL_01", "DDB_01", "SECRETS_01"} /\ AuditGap(gap)}

\* What is wrong with the account by the documentation, and what is held against it.
Held(tokens) == UNION {truth[i] \cap tokens : i \in {j \in 1..Len(truth) : Exists(j)}}
Wrongs == Held(Bad) \cup AuditGaps

Complete == \A i \in 1..Len(answers) : answers[i] \cap {"refused", "garbled"} = {}

\* With every call answered the verdict is exact: the check passes on just the
\* accounts in which nothing is wrong but what all checks overlook, and nothing
\* overstated, whichever calls it leaves out and in what order.
ExactWhenAllRead ==
  verdict \in {"PASS", "FAIL"} /\ Complete =>
    (verdict = "PASS" <=> Wrongs \subseteq Overlooked /\ Held(Overstated) = {})

\* Whatever else was refused, what a call did show is not lost: of what the
\* documentation rules out no check passes over anything it has read but what is
\* overlooked.  VPC_01 is the exception, see below.
NothingReadIsLost ==
  verdict = "PASS" /\ check # "VPC_01" =>
    \A i \in 1..Len(answers) : answers[i] \cap Bad \subseteq Overlooked

\* VPC_01 verifies that the host's VPC "does not have VPC peering connections"
\* (vpc_isolation.py:3): it does not pass over an active peering it has read.
ActivePeeringIsReported ==
  verdict = "PASS" /\ check = "VPC_01" =>
    \A i \in 1..Len(answers) : "active" \notin answers[i]

\* "Callers must NOT treat this as a pass" (_backend_util.py:44): a state store
\* passes only with a key that was described as the customer's.
UnverifiedKeyIsNoPass ==
  verdict = "PASS" =>
    \A i \in 1..Len(answers) : Plan[check][i] = DescribeKey => answers[i] = truth[i]

\* An account with nothing wrong fails only over what is overstated, or an answer the
\* check reports as unverified (a key, the access log) or takes for an empty one (a
\* trail's status or selectors, a bucket policy that is not JSON).  Every other
\* refusal can hide an issue but never invents one.
FalseAlarmsAreKnown ==
  verdict = "FAIL" /\ Wrongs = {} =>
    \E i \in 1..Len(answers) :
      \/ answers[i] \cap Overstated # {}
      \/ /\ answers[i] = {"refused"}
         /\ \/ Plan[check][i] = DescribeKey
            \/ check = "AUDIT_01"
            \/ truth[i] \cap {"logging", "covers"} # {}
      \/ answers[i] = {"garbled"} /\ check = "S3_02"

\* The checks with reads they can do without: a refusal there may hide an issue.
BestEffort ==
  {"IAM_01", "VPC_01", "DDB_01", "SECRETS_01", "EFS_01", "RDS_01", "CSPACE_IMG_01"}

\* Every other check passes on no account in which anything is wrong but what all checks
\* overlook, whatever is refused or damaged and whatever it goes on past.
PassIsSound == verdict = "PASS" /\ check \notin BestEffort => Wrongs \subseteq Overlooked
===============================================================================
