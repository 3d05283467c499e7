------------------------- MODULE ConfigReadsProofs -------------------------
(***************************************************************************)
(* The properties of the configuration checks hold of every plan and every *)
(* number of items.  Three parts: an invariant that says how the answers   *)
(* follow from the account (ReadInv), the five properties from it and from *)
(* what is asked of a plan (PlanIsSound), and PlanIsSound of all plans.    *)
(***************************************************************************)
EXTENDS ConfigReads, TLAPS

-------------------------------------------------------------------------------
(***************************************************************************)
(* What is asked of a plan.                                                *)
(***************************************************************************)
TrailChecks == {"CLOUDTRAIL_01", "DDB_01", "SECRETS_01"}

\* What the checks notice, and the accounts they find nothing to say about.
Noticed == Counted \cup Overstated
AuditedAsRead ==
  \E i \in 1..(Len(truth) - 1) :
    Exists(i) /\ truth[i] = {"logging"} /\ (given => "covers" \in truth[i + 1])
SoundAsRead ==
  /\ \A i \in 1..Len(truth) : Exists(i) => truth[i] \cap Noticed = {}
  /\ check \in TrailChecks => AuditedAsRead

\* What a call's answers may say, and whether that includes nothing bad.
Said(call) == UNION call.says
Harmless(call) == Said(call) \cap Noticed = {}

\* What the proofs use of a single call of check c.
CallIsSound(c, call) ==
  /\ "refused" \notin Said(call)
  /\ \A f \in call.says : "garbled" \in f => f = {"garbled"}
  /\ Said(call) \cap Noticed \subseteq
       call.issues \cup DOMAIN call.returns \cup (IF c \in TrailChecks THEN {"uncovered"} ELSE {})
  /\ call.issues \subseteq Noticed \cup {"refused", "garbled"}
  /\ "refused" \in call.issues => c # "VPC_01" /\ (call = DescribeKey \/ c = "AUDIT_01")
  /\ "garbled" \in call.issues => c = "S3_02"
  /\ \A t \in DOMAIN call.returns :
       call.returns[t] \in {"ERROR", "SKIP"} \/ (call.returns[t] = "PASS" /\ c = "IAM_01")
  /\ \A t \in DOMAIN call.past : call.past[t] \in Nat
  /\ \A t \in Said(call) \cap DOMAIN call.past :
       \/ "refused" \in DOMAIN call.returns
       \/ "refused" \in DOMAIN call.past /\ call.past["refused"] >= call.past[t]
  /\ c \notin BestEffort =>
       "refused" \in DOMAIN call.returns \/ "refused" \in call.issues \/ Harmless(call)

CallsAreSound(c) == \A i \in 1..Len(Plan[c]) : CallIsSound(c, Plan[c][i])

\* The token t, in the answer to call j, makes the check go on past call i.
Reaches(c, j, t, i) ==
  t \in DOMAIN Plan[c][j].past /\ j < i /\ i <= j + Plan[c][j].past[t]

\* What a skipped call would have skipped is skipped with it.
SkipsAreNested(c) ==
  \A j, k, i \in 1..Len(Plan[c]) :
    \A t \in DOMAIN Plan[c][j].past, u \in DOMAIN Plan[c][k].past :
      Reaches(c, j, t, k) /\ Reaches(c, k, u, i) => Reaches(c, j, t, i)

\* Only an issue spares a key from being described; outside the best-effort checks
\* a refusal spares calls only that show nothing bad.
SkipsAreSafe(c) ==
  \A j, i \in 1..Len(Plan[c]) : \A t \in DOMAIN Plan[c][j].past :
    Reaches(c, j, t, i) =>
      /\ Plan[c][i] = DescribeKey => t \in Plan[c][j].issues
      /\ t = "refused" /\ c \notin BestEffort => Harmless(Plan[c][i])

\* IAM-01 passes early, before it has read any policy.
EarlyPassIsHarmless(c) ==
  \A i \in 1..Len(Plan[c]) : \A t \in DOMAIN Plan[c][i].returns :
    Plan[c][i].returns[t] = "PASS" => \A j \in 1..i : Harmless(Plan[c][j])

\* Where the trails are listed, and what follows.
Describe(c) == Len(Plan[c]) - TrailCalls
TrailsComeLast(c) ==
  c \in TrailChecks =>
    /\ Describe(c) \in 1..Len(Plan[c])
    /\ \A n \in 1..TrailCalls :
         Plan[c][Describe(c) + n] = IF n % 2 = 1 THEN TrailStatus ELSE TrailSelectors
    /\ Said(Plan[c][Describe(c)]) \subseteq {"uncovered"}
    /\ Plan[c][Describe(c)].past =
         IF c = "CLOUDTRAIL_01" THEN [uncovered |-> TrailCalls]
         ELSE [refused |-> TrailCalls, uncovered |-> TrailCalls]
    /\ c = "CLOUDTRAIL_01" => "refused" \in DOMAIN Plan[c][Describe(c)].returns
    /\ \A i \in 1..Describe(c) : Said(Plan[c][i]) \cap {"logging", "covers"} = {}
    /\ \A i \in 1..Len(Plan[c]) : i # Describe(c) => "uncovered" \notin Said(Plan[c][i])
    /\ \A i \in 1..(Describe(c) - 1) : \A t \in DOMAIN Plan[c][i].past :
         i + Plan[c][i].past[t] < Describe(c)

PlanIsSound(c) ==
  /\ Len(Plan[c]) \in Nat
  /\ CallsAreSound(c) /\ SkipsAreNested(c) /\ SkipsAreSafe(c)
  /\ EarlyPassIsHarmless(c) /\ TrailsComeLast(c)
  /\ (c = "VPC_01" => Len(Plan[c]) = 4)

-------------------------------------------------------------------------------
(***************************************************************************)
(* The inductive invariant: how the answers follow from the account.       *)
(***************************************************************************)
Facts == UNION {Plan[check][i].says : i \in 1..Len(Plan[check])}

\* Every answer is the account's, a refusal, or that of a call not made.
AnswersFollow ==
  /\ truth \in Seq(Facts)
  /\ answers \in Seq(Facts \cup {{}, {"refused"}})
  /\ Len(answers) = Len(truth)
  /\ Len(answers) <= Len(Plan[check])
  /\ \A i \in 1..Len(answers) :
       /\ truth[i] \in Plan[check][i].says
       /\ Skipped(i) => answers[i] = {}
       /\ ~Skipped(i) => answers[i] = truth[i] \/ answers[i] = {"refused"}

\* No answer but the last can have ended the check.
Ends(i) == answers[i] \cap DOMAIN Plan[check][i].returns # {}
OnlyTheLastEnds ==
  /\ \A i \in 1..Len(answers) : Ends(i) => i = Len(answers)
  /\ verdict = "none" => \A i \in 1..Len(answers) : ~Ends(i)

\* A verdict that judges is the conclusion's, or IAM-01's early pass.
Concluded ==
  /\ Len(answers) = Len(Plan[check])
  /\ \A i \in 1..Len(answers) : ~Ends(i)
  /\ verdict = IF Issues # {} \/ Unaudited THEN "FAIL" ELSE "PASS"
PassedEarly ==
  /\ verdict = "PASS" /\ check = "IAM_01" /\ answers # <<>>
  /\ \E t \in DOMAIN Plan[check][Len(answers)].returns :
       Plan[check][Len(answers)].returns[t] = "PASS"

ReadInv ==
  /\ check \in CheckIds
  /\ given \in BOOLEAN
  /\ AnswersFollow
  /\ OnlyTheLastEnds
  /\ verdict \in {"PASS", "FAIL"} => Concluded \/ PassedEarly
  /\ answers # <<>> => given \/ check = "CLOUDTRAIL_01"

\* A check is at a call it skips or makes, by what it was answered before.
LEMMA SkippedBy ==
  ASSUME ReadInv, NEW i \in 1..Len(answers)
  PROVE  Skipped(i) <=> \E j \in 1..(i - 1) : \E t \in answers[j] : Reaches(check, j, t, i)
BY DEF Skipped, Reaches, ReadInv, AnswersFollow

\* The step of Ask and Pass: one more fact and one more answer.
LEMMA OneMore ==
  ASSUME ReadInv, Reads, NEW n, n = At,
         NEW fact \in Plan[check][n].says, NEW answer,
         truth' = Append(truth, fact), answers' = Append(answers, answer),
         UNCHANGED <<check, given>>,
         IF Skipped(n) THEN answer = {} ELSE answer = fact \/ answer = {"refused"}
  PROVE  /\ AnswersFollow'
         /\ Len(answers') = n /\ n \in 1..Len(Plan[check])
         /\ \A i \in 1..(n - 1) : answers'[i] = answers[i]
         /\ answers'[n] = answer
<1>1. /\ n \in 1..Len(Plan[check]) /\ Len(answers) \in Nat /\ Len(truth) = Len(answers)
      /\ n = Len(answers) + 1
      /\ truth \in Seq(Facts) /\ answers \in Seq(Facts \cup {{}, {"refused"}})
  BY DEF ReadInv, AnswersFollow, Reads, At
<1>2. fact \in Facts /\ answer \in Facts \cup {{}, {"refused"}}
  BY <1>1 DEF Facts
<1>3. /\ truth' \in Seq(Facts) /\ answers' \in Seq(Facts \cup {{}, {"refused"}})
      /\ Len(answers') = n /\ Len(truth') = n
      /\ truth'[n] = fact /\ answers'[n] = answer
      /\ \A i \in 1..Len(answers) : truth'[i] = truth[i] /\ answers'[i] = answers[i]
  BY <1>1, <1>2
<1>4. Facts' = Facts /\ Plan[check]' = Plan[check]
  BY DEF Facts
<1>5. ASSUME NEW i \in 1..n
      PROVE  Skipped(i)' <=> Skipped(i)
  <2>1. \A j \in 1..(i - 1) : answers'[j] = answers[j]
    BY <1>1, <1>3
  <2>2. QED
    BY <1>4, <2>1 DEF Skipped
<1>6. ASSUME NEW i \in 1..Len(answers')
      PROVE  /\ truth'[i] \in Plan[check]'[i].says
             /\ Skipped(i)' => answers'[i] = {}
             /\ ~Skipped(i)' => answers'[i] = truth'[i] \/ answers'[i] = {"refused"}
  <2>1. CASE i = n
    BY <1>1, <1>3, <1>4, <1>5, <2>1
  <2>2. CASE i # n
    <3>1. i \in 1..Len(answers) /\ i \in 1..n
      BY <1>1, <1>3, <2>2
    <3>2. /\ truth[i] \in Plan[check][i].says
          /\ Skipped(i) => answers[i] = {}
          /\ ~Skipped(i) => answers[i] = truth[i] \/ answers[i] = {"refused"}
      BY <3>1 DEF ReadInv, AnswersFollow
    <3>3. Skipped(i)' <=> Skipped(i)
      BY <1>5, <3>1
    <3>4. QED
      BY <1>3, <1>4, <3>1, <3>2, <3>3
  <2>3. QED
    BY <2>1, <2>2
<1>7. AnswersFollow'
  <2>1. Len(answers') <= Len(Plan[check]')
    BY <1>1, <1>3, <1>4
  <2>2. truth' \in Seq(Facts') /\ answers' \in Seq(Facts' \cup {{}, {"refused"}})
    BY <1>3, <1>4
  <2>3. Len(answers') = Len(truth')
    BY <1>3
  <2>4. QED
    BY <1>6, <2>1, <2>2, <2>3 DEF AnswersFollow
<1>8. QED
  BY <1>1, <1>3, <1>7

\* A step makes one more call, or goes on past one.
LEMMA AskKeepsInv ==
  ASSUME ReadInv, CallsAreSound(check), Ask
  PROVE  ReadInv'
<1> DEFINE n == At
           call == Plan[check][n]
<1>1. /\ verdict = "none" /\ Reads /\ ~Skipped(n) /\ check' = check /\ given' = given
  BY DEF Ask, Reads
<1>2. PICK fact \in call.says :
        \E answer \in {fact, {"refused"}} :
          LET ends == answer \cap DOMAIN call.returns
          IN  /\ truth' = Append(truth, fact)
              /\ answers' = Append(answers, answer)
              /\ verdict' = IF ends = {} THEN "none" ELSE call.returns[CHOOSE t \in ends : TRUE]
  BY DEF Ask
<1>0. PICK answer \in {fact, {"refused"}} :
        LET ends == answer \cap DOMAIN call.returns
        IN  /\ truth' = Append(truth, fact)
            /\ answers' = Append(answers, answer)
            /\ verdict' = IF ends = {} THEN "none" ELSE call.returns[CHOOSE t \in ends : TRUE]
  BY <1>2
<1> HIDE DEF n
<1>3. /\ AnswersFollow'
      /\ Len(answers') = n /\ n \in 1..Len(Plan[check])
      /\ \A i \in 1..(n - 1) : answers'[i] = answers[i]
      /\ answers'[n] = answer
  <2>1. n = At
    BY DEF n
  <2>2. IF Skipped(n) THEN answer = {} ELSE answer = fact \/ answer = {"refused"}
    BY <1>0, <1>1
  <2>3. truth' = Append(truth, fact) /\ answers' = Append(answers, answer)
    BY <1>0
  <2>4. QED
    BY <1>1, <2>1, <2>2, <2>3, OneMore
<1>4. \A i \in 1..(n - 1) : answers[i] \cap DOMAIN Plan[check][i].returns = {}
  BY <1>1 DEF ReadInv, OnlyTheLastEnds, Ends, n, At, AnswersFollow
<1>5. CallIsSound(check, call)
  BY <1>3 DEF CallsAreSound
<1>6. ASSUME answer \cap DOMAIN call.returns # {}
      PROVE  \E t \in answer \cap DOMAIN call.returns :
               verdict' = call.returns[t]
                 /\ (verdict' \in {"ERROR", "SKIP"} \/ (verdict' = "PASS" /\ check = "IAM_01"))
  <2>1. PICK t : t = CHOOSE u \in answer \cap DOMAIN call.returns : TRUE
    OBVIOUS
  <2>2. t \in answer \cap DOMAIN call.returns
    BY <1>6, <2>1
  <2>3. verdict' = call.returns[t]
    BY <1>0, <1>6, <2>1
  <2>4. QED
    BY <1>5, <2>2, <2>3 DEF CallIsSound
<1>7. \A i \in 1..n : Ends(i)' => i = n
  BY <1>1, <1>3, <1>4 DEF Ends
<1>8. verdict' = "none" => \A i \in 1..n : ~Ends(i)'
  <2>1. verdict' = "none" => answer \cap DOMAIN call.returns = {}
    BY <1>6
  <2>2. QED
    BY <1>1, <1>3, <1>7, <2>1 DEF Ends
<1>9. OnlyTheLastEnds'
  BY <1>3, <1>7, <1>8 DEF OnlyTheLastEnds
<1>10. verdict' \in {"PASS", "FAIL"} => PassedEarly'
  <2> SUFFICES ASSUME verdict' \in {"PASS", "FAIL"}
               PROVE  PassedEarly'
    OBVIOUS
  <2>1. answer \cap DOMAIN call.returns # {}
    BY <1>0
  <2>2. PICK t \in answer \cap DOMAIN call.returns :
          /\ verdict' = call.returns[t]
          /\ verdict' \in {"ERROR", "SKIP"} \/ (verdict' = "PASS" /\ check = "IAM_01")
    BY <1>6, <2>1
  <2>3. answers' # <<>>
    BY <1>3
  <2>4. \E u \in DOMAIN Plan[check]'[Len(answers')].returns :
          Plan[check]'[Len(answers')].returns[u] = "PASS"
    BY <1>1, <1>3, <2>2
  <2>5. QED
    BY <1>1, <2>2, <2>3, <2>4 DEF PassedEarly
<1>11. check' \in CheckIds' /\ given' \in BOOLEAN /\ (given' \/ check' = "CLOUDTRAIL_01")
  BY <1>1 DEF ReadInv, Reads
<1>12. QED
  BY <1>3, <1>9, <1>10, <1>11 DEF ReadInv

LEMMA PassKeepsInv ==
  ASSUME ReadInv, Pass
  PROVE  ReadInv'
<1> DEFINE n == At
           call == Plan[check][n]
<1>1. /\ verdict = "none" /\ Reads /\ Skipped(n) /\ check' = check /\ given' = given
      /\ answers' = Append(answers, {}) /\ verdict' = "none"
  BY DEF Pass, Reads
<1>2. PICK fact \in call.says : truth' = Append(truth, fact)
  BY DEF Pass
<1> HIDE DEF n
<1>3. /\ AnswersFollow'
      /\ Len(answers') = n /\ n \in 1..Len(Plan[check])
      /\ \A i \in 1..(n - 1) : answers'[i] = answers[i]
      /\ answers'[n] = {}
  <2>1. n = At
    BY DEF n
  <2>2. QED
    BY <1>1, <1>2, <2>1, OneMore
<1>4. \A i \in 1..(n - 1) : answers[i] \cap DOMAIN Plan[check][i].returns = {}
  BY <1>1 DEF ReadInv, OnlyTheLastEnds, Ends, n, At, AnswersFollow
<1>5. \A i \in 1..n : ~Ends(i)'
  BY <1>1, <1>3, <1>4 DEF Ends
<1>6. OnlyTheLastEnds'
  BY <1>3, <1>5 DEF OnlyTheLastEnds
<1>7. check' \in CheckIds' /\ given' \in BOOLEAN /\ (given' \/ check' = "CLOUDTRAIL_01")
  BY <1>1 DEF ReadInv, Reads
<1>8. QED
  BY <1>1, <1>3, <1>6, <1>7 DEF ReadInv

\* The invariant says nothing of a verdict but what it judges on.
LEMMA VerdictKeepsInv ==
  ASSUME ReadInv, verdict = "none", UNCHANGED <<check, given, truth, answers>>,
         \/ verdict' = "SKIP"
         \/ /\ At > Len(Plan[check])
            /\ verdict' = IF Issues # {} \/ Unaudited THEN "FAIL" ELSE "PASS"
  PROVE  ReadInv'
<1>1. \A i \in 1..Len(answers) : Skipped(i)' <=> Skipped(i)
  BY DEF Skipped
<1>2. AnswersFollow'
  <2>1. /\ truth \in Seq(Facts) /\ answers \in Seq(Facts \cup {{}, {"refused"}})
        /\ Len(answers) = Len(truth) /\ Len(answers) <= Len(Plan[check])
    BY DEF ReadInv, AnswersFollow
  <2>2. Facts' = Facts
    BY DEF Facts
  <2>3. /\ truth' \in Seq(Facts') /\ answers' \in Seq(Facts' \cup {{}, {"refused"}})
        /\ Len(answers') = Len(truth') /\ Len(answers') <= Len(Plan[check]')
    BY <2>1, <2>2
  <2>4. ASSUME NEW i \in 1..Len(answers')
        PROVE  /\ truth'[i] \in Plan[check]'[i].says
               /\ Skipped(i)' => answers'[i] = {}
               /\ ~Skipped(i)' => answers'[i] = truth'[i] \/ answers'[i] = {"refused"}
    BY <1>1 DEF ReadInv, AnswersFollow
  <2>5. QED
    BY <2>3, <2>4 DEF AnswersFollow
<1>3. \A i \in 1..Len(answers) : ~Ends(i) /\ ~Ends(i)'
  BY DEF ReadInv, OnlyTheLastEnds, Ends
<1>4. OnlyTheLastEnds'
  BY <1>3 DEF OnlyTheLastEnds
<1>5. Issues' = Issues /\ Unaudited' = Unaudited
  BY DEF Issues, Lost, Unaudited, Answered
<1>6. verdict' \in {"PASS", "FAIL"} => Concluded'
  <2> SUFFICES ASSUME verdict' \in {"PASS", "FAIL"}
               PROVE  Concluded'
    OBVIOUS
  <2>1. At > Len(Plan[check]) /\ verdict' = IF Issues # {} \/ Unaudited THEN "FAIL" ELSE "PASS"
    OBVIOUS
  <2>2. verdict' = IF Issues' # {} \/ Unaudited' THEN "FAIL" ELSE "PASS"
    BY <1>5, <2>1
  <2>3. Len(answers') = Len(Plan[check]')
    BY <2>1 DEF At, ReadInv, AnswersFollow
  <2>4. QED
    BY <1>3, <2>2, <2>3 DEF Concluded
<1>7. QED
  BY <1>2, <1>4, <1>6 DEF ReadInv

LEMMA StutterKeepsInv ==
  ASSUME ReadInv, UNCHANGED vars
  PROVE  ReadInv'
<1>1. \A i \in 1..Len(answers) : (Skipped(i)' <=> Skipped(i)) /\ (Ends(i)' <=> Ends(i))
  BY DEF Skipped, Ends, vars
<1>2. Facts' = Facts /\ Issues' = Issues /\ Unaudited' = Unaudited
  BY DEF Facts, Issues, Lost, Unaudited, Answered, vars
<1>3. AnswersFollow'
  BY <1>1, <1>2 DEF AnswersFollow, ReadInv, vars
<1>4. OnlyTheLastEnds'
  BY <1>1 DEF OnlyTheLastEnds, ReadInv, vars
<1>5. (Concluded' <=> Concluded) /\ (PassedEarly' <=> PassedEarly)
  BY <1>1, <1>2 DEF Concluded, PassedEarly, vars
<1>6. QED
  BY <1>3, <1>4, <1>5 DEF ReadInv, vars

\* The tokens with a meaning of their own.
LEMMA Tokens ==
  /\ "refused" \notin Noticed /\ "garbled" \notin Noticed
  /\ "aws_managed" \in Noticed /\ "uncovered" \in Noticed
  /\ "refused" \in DescribeKey.issues /\ "aws_managed" \in Said(DescribeKey)
  /\ "IAM_01" \in BestEffort /\ "VPC_01" \in BestEffort
  /\ TrailChecks \ BestEffort = {"CLOUDTRAIL_01"}
  /\ "IAM_01" \notin TrailChecks /\ "VPC_01" \notin TrailChecks
BY DEF Noticed, Counted, Overstated, DescribeKey, Call, Said, BestEffort, TrailChecks

\* What is noticed is not overlooked, and the documentation rules it out unless it
\* is overstated.
LEMMA NoticedTokens ==
  /\ Noticed \cap Overlooked = {}
  /\ Bad \subseteq Noticed \cup Overlooked
  /\ Noticed \subseteq Bad \cup Overstated /\ Overstated \subseteq Noticed
<1>1. Noticed \cap Overlooked = {}
  BY DEF Noticed, Counted, Overstated, Overlooked
<1>2. QED
  BY <1>1 DEF Bad, Noticed

\* The audit the checks ask for is lacking.
LEMMA UnauditedIs == AuditGap("unaudited") <=> ~AuditedAsRead
<1>1. AuditGap("unaudited") <=> Logging = {} \/ (given /\ Covering = {})
  BY DEF AuditGap
<1>2. AuditedAsRead <=> \E i \in Logging : given => i \in Covering
  BY DEF AuditedAsRead, Logging, Covering
<1>3. Covering \subseteq Logging
  BY DEF Covering
<1>4. QED
  BY <1>1, <1>2, <1>3

\* An account the checks have nothing to say about is one with nothing wrong but
\* what is overlooked, and nothing overstated.
LEMMA SoundAsReadIs ==
  ASSUME truth \in Seq(Facts)
  PROVE  SoundAsRead <=> Wrongs \subseteq Overlooked /\ Held(Overstated) = {}
<1>1. ASSUME NEW tokens, NEW others, Held(tokens) \subseteq others
      PROVE  \A i \in 1..Len(truth) : Exists(i) => truth[i] \cap tokens \subseteq others
  BY <1>1 DEF Held
<1>2. ASSUME NEW tokens, NEW others,
             \A i \in 1..Len(truth) : Exists(i) => truth[i] \cap tokens \subseteq others
      PROVE  Held(tokens) \subseteq others
  BY <1>2 DEF Held
<1>3. Held(Bad) \subseteq Overlooked /\ Held(Overstated) = {}
        <=> \A i \in 1..Len(truth) : Exists(i) => truth[i] \cap Noticed = {}
  <2>1. ASSUME Held(Bad) \subseteq Overlooked, Held(Overstated) = {},
               NEW i \in 1..Len(truth), Exists(i)
        PROVE  truth[i] \cap Noticed = {}
    <3>1. truth[i] \cap Bad \subseteq Overlooked
      BY <1>1, <2>1
    <3>2. Held(Overstated) \subseteq {}
      BY <2>1
    <3>3. truth[i] \cap Overstated \subseteq {}
      BY <1>1, <2>1, <3>2
    <3>4. QED
      BY <3>1, <3>3, NoticedTokens
  <2>2. ASSUME \A i \in 1..Len(truth) : Exists(i) => truth[i] \cap Noticed = {}
        PROVE  Held(Bad) \subseteq Overlooked /\ Held(Overstated) = {}
    <3>1. \A i \in 1..Len(truth) : Exists(i) => truth[i] \cap Bad \subseteq Overlooked
      BY <2>2, NoticedTokens
    <3>2. Held(Bad) \subseteq Overlooked
      BY <1>2, <3>1
    <3>3. \A i \in 1..Len(truth) : Exists(i) => truth[i] \cap Overstated = {}
      BY <2>2, NoticedTokens
    <3>4. Held(Overstated) = {}
      BY <3>3 DEF Held
    <3>5. QED
      BY <3>2, <3>4
  <2>3. QED
    BY <2>1, <2>2
<1>4. AuditGaps \subseteq Overlooked <=> (check \in TrailChecks => ~AuditGap("unaudited"))
  <2>1. /\ {"unnamed_bucket", "partly_audited", "unmanaged"} \subseteq Overlooked
        /\ "unaudited" \notin Overlooked
    BY DEF Overlooked
  <2>2. QED
    BY <2>1 DEF AuditGaps, TrailChecks
<1>5. QED
  BY <1>3, <1>4, UnauditedIs DEF SoundAsRead, Wrongs

-------------------------------------------------------------------------------
(***************************************************************************)
(* What is skipped and what exists.                                        *)
(***************************************************************************)

\* An answer that says something was given: it is the account's, or a refusal.
LEMMA AnswersAreGiven ==
  ASSUME ReadInv, NEW i \in 1..Len(answers), answers[i] # {}
  PROVE  ~Skipped(i) /\ (answers[i] = truth[i] \/ answers[i] = {"refused"})
BY DEF ReadInv, AnswersFollow

LEMMA Positions ==
  ASSUME ReadInv
  PROVE  /\ Len(answers) \in Nat /\ Len(truth) = Len(answers)
         /\ Len(answers) <= Len(Plan[check])
         /\ \A i \in 1..Len(answers) :
              /\ i \in 1..Len(Plan[check])
              /\ truth[i] \in Plan[check][i].says
              /\ truth[i] \subseteq Said(Plan[check][i])
BY DEF ReadInv, AnswersFollow, Said

\* Only what exists is asked for.
LEMMA AskedExists ==
  ASSUME ReadInv, PlanIsSound(check), NEW i \in 1..Len(answers), ~Skipped(i)
  PROVE  Exists(i)
<1> SUFFICES ASSUME NEW j \in 1..(i - 1),
                    NEW t \in truth[j] \cap DOMAIN Plan[check][j].past,
                    i <= j + Plan[check][j].past[t]
             PROVE  FALSE
  BY DEF Exists
<1>1. /\ j \in 1..Len(answers) /\ j < i /\ i \in 1..Len(Plan[check])
      /\ j \in 1..Len(Plan[check]) /\ Reaches(check, j, t, i)
  BY DEF ReadInv, AnswersFollow, Reaches
<1>2. ~Skipped(j)
  <2>1. ASSUME Skipped(j)
        PROVE  FALSE
    <3>1. PICK k \in 1..(j - 1) : \E u \in answers[k] : Reaches(check, k, u, j)
      BY <1>1, <2>1, SkippedBy
    <3>2. PICK u \in answers[k] : Reaches(check, k, u, j)
      BY <3>1
    <3>3. k \in 1..Len(Plan[check]) /\ k \in 1..(i - 1)
      BY <1>1, <3>1
    <3>4. u \in DOMAIN Plan[check][k].past /\ t \in DOMAIN Plan[check][j].past
      BY <3>2 DEF Reaches
    <3>5. Reaches(check, k, u, i)
      BY <1>1, <3>2, <3>3, <3>4 DEF PlanIsSound, SkipsAreNested
    <3>6. Skipped(i)
      BY <3>2, <3>3, <3>5, SkippedBy
    <3>7. QED
      BY <3>6
  <2>2. QED
    BY <2>1
<1>3. answers[j] = {"refused"}
  <2>1. ASSUME answers[j] = truth[j]
        PROVE  FALSE
    BY <1>1, <2>1, SkippedBy
  <2>2. QED
    BY <1>1, <1>2, <2>1 DEF ReadInv, AnswersFollow
<1>4. CallIsSound(check, Plan[check][j]) /\ t \in Said(Plan[check][j])
  <2>1. truth[j] \subseteq Said(Plan[check][j])
    BY <1>1, Positions
  <2>2. QED
    BY <1>1, <2>1 DEF PlanIsSound, CallsAreSound
<1>5. CASE "refused" \in DOMAIN Plan[check][j].returns
  BY <1>1, <1>3, <1>5 DEF ReadInv, OnlyTheLastEnds, Ends
<1>6. CASE /\ "refused" \in DOMAIN Plan[check][j].past
           /\ Plan[check][j].past["refused"] >= Plan[check][j].past[t]
  <2>1. Plan[check][j].past["refused"] \in Nat /\ Plan[check][j].past[t] \in Nat
    BY <1>4, <1>6 DEF CallIsSound
  <2>2. Reaches(check, j, "refused", i)
    BY <1>1, <1>6, <2>1 DEF Reaches
  <2>3. QED
    BY <1>3, <2>2, SkippedBy
<1>7. QED
  BY <1>4, <1>5, <1>6 DEF CallIsSound

\* What is skipped does not exist, or stands behind a refusal.
LEMMA SkippedByRefusal ==
  ASSUME ReadInv, NEW i \in 1..Len(answers), Skipped(i), Exists(i)
  PROVE  \E j \in 1..(i - 1) :
           /\ answers[j] = {"refused"}
           /\ Reaches(check, j, "refused", i)
<1>1. PICK j \in 1..(i - 1) : \E t \in answers[j] : Reaches(check, j, t, i)
  BY SkippedBy
<1>2. PICK t \in answers[j] : Reaches(check, j, t, i)
  BY <1>1
<1>3. j \in 1..Len(answers)
  BY DEF ReadInv, AnswersFollow
<1>4. answers[j] = truth[j] \/ answers[j] = {"refused"}
  BY <1>2, <1>3, AnswersAreGiven
<1>5. t \notin truth[j]
  BY <1>2 DEF Exists, Reaches
<1>6. QED
  BY <1>2, <1>4, <1>5

-------------------------------------------------------------------------------
(***************************************************************************)
(* The trails: the last calls of three checks.                             *)
(***************************************************************************)

LEMMA TrailFacts ==
  ASSUME NEW c \in TrailChecks, TrailsComeLast(c), Len(Plan[c]) \in Nat,
         NEW d, d = Describe(c)
  PROVE  /\ TrailCalls \in Nat /\ TrailCalls = 2 * Items /\ Items \in Nat
         /\ Len(Plan[c]) = d + TrailCalls
         /\ d \in Nat /\ d >= 1 /\ d \in 1..Len(Plan[c])
         /\ \A n \in 1..TrailCalls :
              Plan[c][d + n] = IF n % 2 = 1 THEN TrailStatus ELSE TrailSelectors
         /\ "uncovered" \in DOMAIN Plan[c][d].past
         /\ \A t \in DOMAIN Plan[c][d].past :
              t \in {"uncovered", "refused"} /\ Plan[c][d].past[t] = TrailCalls
         /\ \A i \in 1..(d - 1) : \A t \in DOMAIN Plan[c][i].past : i + Plan[c][i].past[t] < d
         /\ \A i \in 1..d : "logging" \notin Said(Plan[c][i]) /\ "covers" \notin Said(Plan[c][i])
<1>1. TrailCalls \in Nat /\ TrailCalls = 2 * Items /\ Items \in Nat
  BY ItemsAssumption DEF TrailCalls
<1>2. d = Len(Plan[c]) - TrailCalls /\ d \in 1..Len(Plan[c])
  BY DEF TrailsComeLast, Describe
<1>3. Len(Plan[c]) = d + TrailCalls /\ d \in Nat /\ d >= 1
  BY <1>1, <1>2
<1>4. \A n \in 1..TrailCalls :
        Plan[c][d + n] = IF n % 2 = 1 THEN TrailStatus ELSE TrailSelectors
  BY DEF TrailsComeLast
<1>5. /\ "uncovered" \in DOMAIN Plan[c][d].past
      /\ \A t \in DOMAIN Plan[c][d].past :
           t \in {"uncovered", "refused"} /\ Plan[c][d].past[t] = TrailCalls
  <2>1. CASE c = "CLOUDTRAIL_01"
    <3>1. Plan[c][d].past = [uncovered |-> TrailCalls]
      BY <2>1 DEF TrailsComeLast
    <3>2. QED
      BY <3>1
  <2>2. CASE c # "CLOUDTRAIL_01"
    <3>1. Plan[c][d].past = [refused |-> TrailCalls, uncovered |-> TrailCalls]
      BY <2>2 DEF TrailsComeLast
    <3>2. QED
      BY <3>1
  <2>3. QED
    BY <2>1, <2>2
<1>7. \A i \in 1..(d - 1) : \A t \in DOMAIN Plan[c][i].past : i + Plan[c][i].past[t] < d
  BY DEF TrailsComeLast
<1>8. \A i \in 1..d : Said(Plan[c][i]) \cap {"logging", "covers"} = {}
  BY DEF TrailsComeLast
<1>9. QED
  BY <1>1, <1>2, <1>3, <1>4, <1>5, <1>7, <1>8

LEMMA TrailCallsSay ==
  /\ Said(TrailStatus) = {"logging", "stopped"}
  /\ Said(TrailSelectors) = {"covers", "part", "no_management", "silent"}
  /\ TrailStatus.says = {{"logging"}, {"stopped"}}
  /\ TrailSelectors.says =
       {{"covers"}, {"covers", "part"}, {"covers", "no_management"}, {"silent"}}
  /\ TrailStatus.past = [stopped |-> 1, refused |-> 1]
  /\ DOMAIN TrailSelectors.past = {}
BY DEF Said, TrailStatus, TrailSelectors, Call, None

\* A trail's status is skipped only with all the trails, its selectors also by its
\* status.
LEMMA TrailReach ==
  ASSUME NEW c \in TrailChecks, TrailsComeLast(c), Len(Plan[c]) \in Nat,
         NEW m \in 1..TrailCalls, NEW j \in 1..Len(Plan[c]), NEW t,
         \A u \in DOMAIN Plan[c][j].past : Plan[c][j].past[u] \in Nat,
         Reaches(c, j, t, Describe(c) + m)
  PROVE  \/ /\ j = Describe(c) /\ t \in {"uncovered", "refused"}
            /\ \A n \in 1..TrailCalls : Reaches(c, j, t, Describe(c) + n)
         \/ j = Describe(c) + (m - 1) /\ m % 2 = 0 /\ t \in {"stopped", "refused"}
<1>0. PICK d : d = Describe(c)
  OBVIOUS
<1>1. /\ TrailCalls \in Nat /\ Len(Plan[c]) = d + TrailCalls /\ d \in Nat /\ d >= 1
  BY <1>0, TrailFacts
<1>2. /\ t \in DOMAIN Plan[c][j].past /\ j < d + m /\ d + m <= j + Plan[c][j].past[t]
      /\ Plan[c][j].past[t] \in Nat
  BY <1>0 DEF Reaches
<1>3. ~(j < d)
  <2>1. \A i \in 1..(d - 1) : \A u \in DOMAIN Plan[c][i].past : i + Plan[c][i].past[u] < d
    BY <1>0, TrailFacts
  <2>2. QED
    BY <1>1, <1>2, <2>1
<1>4. CASE j = d
  <2>1. t \in {"uncovered", "refused"}
    BY <1>0, <1>2, <1>4, TrailFacts
  <2>2. Plan[c][j].past[t] = TrailCalls
    BY <1>0, <1>2, <1>4, TrailFacts
  <2>3. ASSUME NEW n \in 1..TrailCalls
        PROVE  Reaches(c, j, t, d + n)
    <3>1. j < d + n /\ d + n <= j + TrailCalls
      BY <1>1, <1>4
    <3>2. QED
      BY <1>2, <2>2, <3>1 DEF Reaches
  <2>4. QED
    BY <1>0, <1>4, <2>1, <2>3
<1>5. CASE j > d
  <2>1. PICK n \in 1..TrailCalls : j = d + n
    <3>1. j - d \in 1..TrailCalls /\ j = d + (j - d)
      BY <1>1, <1>5
    <3>2. QED
      BY <3>1
  <2>2. Plan[c][j] = IF n % 2 = 1 THEN TrailStatus ELSE TrailSelectors
    BY <1>0, <2>1, TrailFacts
  <2>3. n % 2 = 1 /\ t \in {"stopped", "refused"} /\ Plan[c][j].past[t] = 1
    BY <1>2, <2>2, TrailCallsSay
  <2>4. d + m = j + 1
    BY <1>1, <1>2, <2>3
  <2>5. m = n + 1
    BY <1>1, <2>1, <2>4
  <2>6. m % 2 = 0
    BY <2>3, <2>5
  <2>7. j = d + m - 1
    BY <1>1, <2>1, <2>5
  <2>8. QED
    BY <1>0, <2>3, <2>6, <2>7
<1>6. QED
  BY <1>1, <1>3, <1>4, <1>5

\* Only a trail's status says that it logs, only its selectors what it covers.
LEMMA TrailWords ==
  ASSUME NEW c \in TrailChecks, TrailsComeLast(c), Len(Plan[c]) \in Nat,
         NEW i \in 1..Len(Plan[c]), NEW w \in {"logging", "covers"},
         w \in Said(Plan[c][i])
  PROVE  \E m \in 1..TrailCalls :
           /\ i = Describe(c) + m
           /\ w = "logging" => m % 2 = 1 /\ m < TrailCalls /\ Plan[c][i] = TrailStatus
           /\ w = "covers" => m % 2 = 0 /\ m > 1 /\ Plan[c][i] = TrailSelectors
<1>0. PICK d : d = Describe(c)
  OBVIOUS
<1>1. /\ TrailCalls \in Nat /\ TrailCalls = 2 * Items /\ Items \in Nat
      /\ Len(Plan[c]) = d + TrailCalls /\ d \in Nat /\ d >= 1
  BY <1>0, TrailFacts
<1>2. i > d
  <2>1. \A k \in 1..d : "logging" \notin Said(Plan[c][k]) /\ "covers" \notin Said(Plan[c][k])
    BY <1>0, TrailFacts
  <2>2. QED
    BY <1>1, <2>1
<1>3. PICK m \in 1..TrailCalls : i = d + m
  <2>1. i - d \in 1..TrailCalls /\ i = d + (i - d)
    BY <1>1, <1>2
  <2>2. QED
    BY <2>1
<1>4. Plan[c][i] = IF m % 2 = 1 THEN TrailStatus ELSE TrailSelectors
  BY <1>0, <1>3, TrailFacts
<1>5. w = "logging" => m % 2 = 1 /\ Plan[c][i] = TrailStatus
  BY <1>4, TrailCallsSay
<1>6. w = "covers" => m % 2 = 0 /\ Plan[c][i] = TrailSelectors
  BY <1>3, <1>4, TrailCallsSay
<1>7. (m % 2 = 1 => m < TrailCalls) /\ (m % 2 = 0 => m > 1)
  BY <1>1, <1>3
<1>8. QED
  BY <1>0, <1>3, <1>5, <1>6, <1>7

\* A trail whose status does not say it is stopped has its selectors read, if its
\* status is: both exist.
LEMMA SelectorsExist ==
  ASSUME ReadInv, PlanIsSound(check), check \in TrailChecks,
         NEW m \in 1..TrailCalls, NEW i \in 1..Len(answers), i = Describe(check) + m
  PROVE  /\ m % 2 = 1 /\ Exists(i) /\ truth[i] = {"logging"} /\ i < Len(answers)
              => Exists(i + 1)
         /\ m % 2 = 0 /\ Exists(i)
              => i - 1 \in 1..Len(answers) /\ Exists(i - 1) /\ truth[i - 1] = {"logging"}
<1>0. /\ TrailsComeLast(check) /\ Len(Plan[check]) \in Nat /\ CallsAreSound(check)
  BY DEF PlanIsSound
<1>1. PICK d : d = Describe(check)
  OBVIOUS
<1>2. /\ TrailCalls \in Nat /\ TrailCalls = 2 * Items /\ Items \in Nat
      /\ Len(Plan[check]) = d + TrailCalls /\ d \in Nat /\ d >= 1
  BY <1>0, <1>1, TrailFacts
<1>3. /\ Len(answers) \in Nat /\ Len(answers) <= Len(Plan[check])
  BY <1>0, Positions
<1>4. ASSUME NEW j \in 1..Len(Plan[check])
      PROVE  \A u \in DOMAIN Plan[check][j].past : Plan[check][j].past[u] \in Nat
  BY <1>0 DEF CallsAreSound, CallIsSound
<1>5. ASSUME m % 2 = 1, Exists(i), truth[i] = {"logging"}, i < Len(answers), ~Exists(i + 1)
      PROVE  FALSE
  <2>1. PICK j \in 1..i : \E t \in truth[j] : Reaches(check, j, t, i + 1)
    <3>1. (i + 1) - 1 = i
      BY <1>3
    <3>2. \E j \in 1..i : \E t \in truth[j] \cap DOMAIN Plan[check][j].past :
            i + 1 <= j + Plan[check][j].past[t]
      BY <1>5, <3>1 DEF Exists
    <3>3. QED
      BY <3>2 DEF Reaches
  <2>2. PICK t \in truth[j] : Reaches(check, j, t, i + 1)
    BY <2>1
  <2>3. /\ j \in 1..Len(Plan[check]) /\ m + 1 \in 1..TrailCalls
        /\ i + 1 = Describe(check) + (m + 1) /\ (m + 1) - 1 = m
    <3>1. i = d + m /\ m \in Nat /\ m >= 1 /\ i \in Nat
      BY <1>1, <1>2
    <3>2. i < d + TrailCalls
      BY <1>2, <1>3, <1>5
    <3>3. m + 1 \in 1..TrailCalls /\ i + 1 = d + (m + 1) /\ (m + 1) - 1 = m
      BY <1>2, <3>1, <3>2
    <3>4. j \in 1..Len(Plan[check])
      BY <1>2, <1>3, <2>1
    <3>5. QED
      BY <1>1, <3>3, <3>4
  <2>4. CASE \A n \in 1..TrailCalls : Reaches(check, j, t, Describe(check) + n)
    <3>1. Reaches(check, j, t, i)
      BY <2>4
    <3>2. QED
      BY <1>5, <2>1, <2>2, <3>1 DEF Exists, Reaches
  <2>5. CASE j = Describe(check) + ((m + 1) - 1) /\ t \in {"stopped", "refused"}
    <3>1. j = i
      BY <1>1, <1>2, <2>3, <2>5
    <3>2. QED
      BY <1>5, <2>2, <2>5, <3>1
  <2>6. QED
    <3>1. Reaches(check, j, t, Describe(check) + (m + 1))
      BY <2>2, <2>3
    <3>2. QED
      BY <1>0, <1>4, <2>3, <2>4, <2>5, <3>1, TrailReach
<1>6. ASSUME m % 2 = 0, Exists(i)
      PROVE  i - 1 \in 1..Len(answers) /\ Exists(i - 1) /\ truth[i - 1] = {"logging"}
  <2>1. /\ m - 1 \in 1..TrailCalls /\ (m - 1) % 2 = 1 /\ i - 1 = Describe(check) + (m - 1)
        /\ i - 1 \in 1..Len(answers) /\ i - 1 \in 1..Len(Plan[check])
    BY <1>1, <1>2, <1>3, <1>6
  <2>2. PICK k : k = i - 1
    OBVIOUS
  <2>3. Plan[check][k] = TrailStatus
    <3>1. k = d + (m - 1) /\ m - 1 \in 1..TrailCalls /\ (m - 1) % 2 = 1
      BY <1>1, <2>1, <2>2
    <3>2. \A n \in 1..TrailCalls :
            Plan[check][d + n] = IF n % 2 = 1 THEN TrailStatus ELSE TrailSelectors
      BY <1>0, <1>1, TrailFacts
    <3>3. QED
      BY <3>1, <3>2
  <2>4. truth[k] = {"logging"} \/ truth[k] = {"stopped"}
    BY <2>1, <2>2, <2>3, Positions, TrailCallsSay
  <2>5. truth[k] # {"stopped"}
    <3>1. Plan[check][k].past["stopped"] = 1 /\ "stopped" \in DOMAIN Plan[check][k].past
      BY <2>3, TrailCallsSay
    <3>2. k \in 1..(i - 1) /\ i <= k + 1
      BY <1>3, <2>1, <2>2
    <3>3. QED
      BY <1>6, <3>1, <3>2 DEF Exists
  <2>6. ASSUME ~Exists(k)
        PROVE  FALSE
    <3>1. PICK j \in 1..(k - 1) : \E t \in truth[j] : Reaches(check, j, t, k)
      <4>1. PICK j \in 1..(k - 1) : \E t \in truth[j] \cap DOMAIN Plan[check][j].past :
                                      k <= j + Plan[check][j].past[t]
        BY <2>6 DEF Exists
      <4>2. j < k
        BY <2>1, <2>2
      <4>3. QED
        BY <4>1, <4>2 DEF Reaches
    <3>2. PICK t \in truth[j] : Reaches(check, j, t, k)
      BY <3>1
    <3>3. j \in 1..Len(Plan[check]) /\ j \in 1..(i - 1) /\ k = Describe(check) + (m - 1)
      <4>1. k \in 1..Len(answers) /\ k = i - 1 /\ i \in Nat
        BY <2>1, <2>2
      <4>2. k <= Len(Plan[check]) /\ k < i
        BY <1>2, <1>3, <4>1
      <4>3. j \in 1..Len(Plan[check]) /\ j \in 1..(i - 1)
        BY <1>2, <1>3, <4>1, <4>2
      <4>4. QED
        BY <2>1, <2>2, <4>3
    <3>4. \A n \in 1..TrailCalls : Reaches(check, j, t, Describe(check) + n)
      <4>1. Reaches(check, j, t, Describe(check) + (m - 1))
        BY <3>2, <3>3
      <4>2. (m - 1) % 2 # 0
        BY <2>1
      <4>3. QED
        BY <1>0, <1>4, <2>1, <3>3, <4>1, <4>2, TrailReach
    <3>5. Reaches(check, j, t, i)
      BY <3>4
    <3>6. QED
      BY <1>6, <3>2, <3>3, <3>5 DEF Exists, Reaches
  <2>7. QED
    BY <2>1, <2>2, <2>4, <2>5, <2>6
<1>7. QED
  BY <1>5, <1>6

\* What the trails were heard to say, they say: a logging trail was found, and one
\* that covers the bucket.
LEMMA HeardIsAudited ==
  ASSUME ReadInv, PlanIsSound(check), check \in TrailChecks,
         Len(answers) = Len(Plan[check])
  PROVE  /\ Answered("covers") => AuditedAsRead
         /\ Answered("logging") /\ ~given => AuditedAsRead
<1>0. /\ TrailsComeLast(check) /\ Len(Plan[check]) \in Nat
  BY DEF PlanIsSound
<1>1. ASSUME NEW w \in {"logging", "covers"}, NEW i \in 1..Len(answers), w \in answers[i]
      PROVE  /\ Exists(i) /\ w \in truth[i] /\ (w = "logging" => truth[i] = {"logging"})
             /\ \E m \in 1..TrailCalls :
                  /\ i = Describe(check) + m
                  /\ w = "logging" => m % 2 = 1 /\ m < TrailCalls
                  /\ w = "covers" => m % 2 = 0
  <2>1. ~Skipped(i) /\ answers[i] = truth[i]
    BY <1>1, AnswersAreGiven
  <2>2. w \in Said(Plan[check][i]) /\ i \in 1..Len(Plan[check])
    BY <1>1, <2>1, Positions
  <2>3. PICK m \in 1..TrailCalls :
          /\ i = Describe(check) + m
          /\ w = "logging" => m % 2 = 1 /\ m < TrailCalls /\ Plan[check][i] = TrailStatus
          /\ w = "covers" => m % 2 = 0 /\ m > 1 /\ Plan[check][i] = TrailSelectors
    BY <1>0, <2>2, TrailWords
  <2>4. w \in truth[i] /\ (w = "logging" => truth[i] = {"logging"})
    <3>1. truth[i] \in Plan[check][i].says
      BY Positions
    <3>2. QED
      BY <1>1, <2>1, <2>3, <3>1, TrailCallsSay
  <2>5. Exists(i)
    BY <2>1, AskedExists
  <2>6. QED
    BY <2>3, <2>4, <2>5
<1>2. Len(answers) \in Nat /\ Len(truth) = Len(answers)
  BY Positions
<1>3. ASSUME Answered("covers")
      PROVE  AuditedAsRead
  <2>1. PICK i \in 1..Len(answers) : "covers" \in answers[i]
    BY <1>3 DEF Answered
  <2>2. Exists(i) /\ "covers" \in truth[i]
    BY <1>1, <2>1
  <2>3. PICK m \in 1..TrailCalls : i = Describe(check) + m /\ m % 2 = 0
    BY <1>1, <2>1
  <2>4. i - 1 \in 1..Len(answers) /\ Exists(i - 1) /\ truth[i - 1] = {"logging"}
    BY <2>2, <2>3, SelectorsExist
  <2>5. PICK k : k = i - 1
    OBVIOUS
  <2>6. k \in 1..(Len(truth) - 1) /\ k + 1 = i
    BY <1>2, <2>4, <2>5
  <2>7. QED
    BY <2>2, <2>4, <2>5, <2>6 DEF AuditedAsRead
<1>4. ASSUME Answered("logging"), ~given
      PROVE  AuditedAsRead
  <2>1. PICK i \in 1..Len(answers) : "logging" \in answers[i]
    BY <1>4 DEF Answered
  <2>2. Exists(i) /\ truth[i] = {"logging"}
    BY <1>1, <2>1
  <2>3. PICK m \in 1..TrailCalls : i = Describe(check) + m /\ m < TrailCalls
    BY <1>1, <2>1
  <2>4. i \in 1..(Len(truth) - 1)
    <3>1. PICK d : d = Describe(check)
      OBVIOUS
    <3>2. Len(Plan[check]) = d + TrailCalls /\ d \in Nat /\ TrailCalls \in Nat
      BY <1>0, <3>1, TrailFacts
    <3>3. QED
      BY <1>2, <2>3, <3>1, <3>2
  <2>5. QED
    BY <1>4, <2>2, <2>4 DEF AuditedAsRead
<1>5. QED
  BY <1>3, <1>4

\* A trail the audit wants is heard, unless the trails, its status or its selectors
\* were refused.
LEMMA AuditedIsHeard ==
  ASSUME ReadInv, PlanIsSound(check), check \in TrailChecks,
         Len(answers) = Len(Plan[check]), AuditedAsRead,
         ~Ends(Describe(check)),
         check # "CLOUDTRAIL_01" => "refused" \notin answers[Describe(check)],
         \A i \in 1..Len(answers) :
           truth[i] \cap {"logging", "covers"} # {} => answers[i] # {"refused"}
  PROVE  Answered("logging") /\ (given => Answered("covers"))
<1>0. /\ TrailsComeLast(check) /\ Len(Plan[check]) \in Nat /\ CallsAreSound(check)
  BY DEF PlanIsSound
<1>1. PICK d : d = Describe(check)
  OBVIOUS
<1>2. /\ TrailCalls \in Nat /\ TrailCalls = 2 * Items /\ Items \in Nat
      /\ Len(Plan[check]) = d + TrailCalls /\ d \in Nat /\ d >= 1
  BY <1>0, <1>1, TrailFacts
<1>3. Len(answers) \in Nat /\ Len(truth) = Len(answers)
  BY Positions
<1>4. ASSUME NEW j \in 1..Len(Plan[check])
      PROVE  \A u \in DOMAIN Plan[check][j].past : Plan[check][j].past[u] \in Nat
  BY <1>0 DEF CallsAreSound, CallIsSound
<1>5. "refused" \notin answers[d]
  <2>1. CASE check = "CLOUDTRAIL_01"
    <3>1. "refused" \in DOMAIN Plan[check][d].returns
      BY <1>0, <1>1, <2>1 DEF TrailsComeLast
    <3>2. QED
      BY <1>1, <3>1 DEF Ends
  <2>2. QED
    BY <1>1, <2>1
<1>6. ASSUME NEW k \in 1..Len(answers), Exists(k), Skipped(k),
             NEW m \in 1..TrailCalls, k = Describe(check) + m
      PROVE  m % 2 = 0 /\ answers[k - 1] = {"refused"} /\ k - 1 \in 1..Len(answers)
  <2>1. PICK j \in 1..(k - 1) : answers[j] = {"refused"} /\ Reaches(check, j, "refused", k)
    BY <1>6, SkippedByRefusal
  <2>2. j \in 1..Len(Plan[check]) /\ j \in 1..Len(answers) /\ j # d
    BY <1>2, <1>3, <1>5, <2>1
  <2>3. Reaches(check, j, "refused", Describe(check) + m)
    BY <1>6, <2>1
  <2>4. j = Describe(check) + (m - 1) /\ m % 2 = 0
    BY <1>0, <1>1, <1>4, <2>2, <2>3, TrailReach
  <2>5. j = k - 1
    BY <1>1, <1>2, <1>6, <2>4
  <2>6. QED
    BY <2>1, <2>2, <2>4, <2>5
<1>7. PICK i \in 1..(Len(truth) - 1) :
        Exists(i) /\ truth[i] = {"logging"} /\ (given => "covers" \in truth[i + 1])
  BY DEF AuditedAsRead
<1>8. i \in 1..Len(answers) /\ i \in 1..Len(Plan[check]) /\ i + 1 \in 1..Len(answers)
  BY <1>2, <1>3
<1>9. PICK m \in 1..TrailCalls : i = Describe(check) + m /\ m % 2 = 1 /\ m < TrailCalls
  <2>1. "logging" \in Said(Plan[check][i])
    BY <1>7, <1>8, Positions
  <2>2. QED
    BY <1>0, <1>8, <2>1, TrailWords
<1>10. answers[i] = {"logging"}
  <2>1. ~Skipped(i)
    BY <1>6, <1>7, <1>8, <1>9
  <2>2. answers[i] = truth[i] \/ answers[i] = {"refused"}
    BY <1>8, <2>1 DEF ReadInv, AnswersFollow
  <2>3. QED
    BY <1>7, <1>8, <2>2
<1>11. Answered("logging")
  BY <1>8, <1>10 DEF Answered
<1>12. ASSUME given
       PROVE  Answered("covers")
  <2>1. Exists(i + 1)
    BY <1>3, <1>7, <1>8, <1>9, SelectorsExist
  <2>2. PICK k : k = i + 1
    OBVIOUS
  <2>3. PICK n : n = m + 1
    OBVIOUS
  <2>4. n \in 1..TrailCalls /\ k = Describe(check) + n /\ k \in 1..Len(answers) /\ k - 1 = i
    <3>1. i = d + m /\ m \in Nat /\ m >= 1 /\ m < TrailCalls /\ i \in Nat
      BY <1>1, <1>2, <1>8, <1>9
    <3>2. n \in 1..TrailCalls /\ k = d + n /\ k - 1 = i
      BY <1>2, <2>2, <2>3, <3>1
    <3>3. QED
      BY <1>1, <1>8, <2>2, <3>2
  <2>5. ~Skipped(k)
    BY <1>6, <1>10, <2>1, <2>2, <2>4
  <2>6. answers[k] = truth[k] \/ answers[k] = {"refused"}
    BY <2>4, <2>5 DEF ReadInv, AnswersFollow
  <2>7. "covers" \in answers[k]
    BY <1>7, <1>12, <2>2, <2>4, <2>6
  <2>8. QED
    BY <2>4, <2>7 DEF Answered
<1>13. QED
  BY <1>11, <1>12

-------------------------------------------------------------------------------
(***************************************************************************)
(* The five properties, of every state of the invariant.                   *)
(***************************************************************************)

\* A check that passed concluded without an issue, or is IAM-01 and had heard of
\* nothing bad yet.
LEMMA PassedHow ==
  ASSUME ReadInv, PlanIsSound(check), verdict = "PASS"
  PROVE  \/ /\ Len(answers) = Len(Plan[check])
            /\ \A i \in 1..Len(answers) : ~Ends(i)
            /\ Issues = {} /\ ~Unaudited
         \/ /\ check = "IAM_01"
            /\ \A i \in 1..Len(answers) : Harmless(Plan[check][i])
<1>1. Concluded \/ PassedEarly
  BY DEF ReadInv
<1>2. CASE Concluded
  BY <1>2 DEF Concluded
<1>3. CASE PassedEarly
  <2>1. PICK t \in DOMAIN Plan[check][Len(answers)].returns :
          Plan[check][Len(answers)].returns[t] = "PASS"
    BY <1>3 DEF PassedEarly
  <2>2. Len(answers) \in 1..Len(Plan[check])
    BY <1>3, Positions DEF PassedEarly, ReadInv, AnswersFollow, PlanIsSound
  <2>3. QED
    BY <1>3, <2>1, <2>2 DEF PassedEarly, PlanIsSound, EarlyPassIsHarmless
<1>4. QED
  BY <1>1, <1>2, <1>3

\* Over no issue does a check pass.
LEMMA NoBadAnswer ==
  ASSUME ReadInv, PlanIsSound(check), verdict = "PASS",
         check = "VPC_01" => Complete,
         NEW i \in 1..Len(answers)
  PROVE  answers[i] \cap Noticed = {}
<1> SUFFICES ASSUME NEW b \in answers[i], b \in Noticed
             PROVE  FALSE
  OBVIOUS
<1>1. ~Skipped(i) /\ answers[i] = truth[i]
  BY AnswersAreGiven, Tokens
<1>2. /\ i \in 1..Len(Plan[check]) /\ CallIsSound(check, Plan[check][i])
      /\ b \in Said(Plan[check][i])
  <2>1. i \in 1..Len(Plan[check]) /\ b \in Said(Plan[check][i])
    BY <1>1, Positions
  <2>2. QED
    BY <2>1 DEF PlanIsSound, CallsAreSound
<1>3. ~Harmless(Plan[check][i])
  BY <1>2 DEF Harmless
<1>4. /\ Len(answers) = Len(Plan[check]) /\ \A k \in 1..Len(answers) : ~Ends(k)
      /\ Issues = {} /\ ~Unaudited
  BY <1>3, PassedHow
<1>5. ~Lost(i)
  <2>1. ASSUME Lost(i)
        PROVE  FALSE
    <3>1. check = "VPC_01" /\ "refused" \in answers[3]
      BY <2>1 DEF Lost
    <3>2. 3 \in 1..Len(answers)
      BY <1>4, <3>1 DEF PlanIsSound
    <3>3. QED
      BY <3>1, <3>2 DEF Complete
  <2>2. QED
    BY <2>1
<1>6. b \notin Plan[check][i].issues
  BY <1>4, <1>5 DEF Issues
<1>7. b \notin DOMAIN Plan[check][i].returns
  BY <1>4 DEF Ends
<1>8. check \in TrailChecks /\ b = "uncovered"
  BY <1>2, <1>6, <1>7 DEF CallIsSound
<1>9. PICK d : d = Describe(check)
  OBVIOUS
<1>10. TrailsComeLast(check) /\ Len(Plan[check]) \in Nat
  BY <1>8 DEF PlanIsSound
<1>11. i = d /\ d = Len(answers) - TrailCalls
  <2>1. i = d
    BY <1>2, <1>8, <1>9, <1>10 DEF TrailsComeLast
  <2>2. QED
    BY <1>4, <1>9, <2>1 DEF Describe
<1>12. "refused" \notin answers[d]
  BY <1>1, <1>2, <1>11, Positions DEF CallIsSound
<1>13. ASSUME NEW w \in {"logging", "covers"}, Answered(w)
       PROVE  FALSE
  <2>1. PICK k \in 1..Len(answers) : w \in answers[k]
    BY <1>13 DEF Answered
  <2>2. ~Skipped(k) /\ answers[k] = truth[k]
    BY <2>1, AnswersAreGiven
  <2>3. w \in Said(Plan[check][k]) /\ k \in 1..Len(Plan[check])
    BY <2>1, <2>2, Positions
  <2>4. PICK m \in 1..TrailCalls : k = d + m
    BY <1>8, <1>9, <1>10, <2>3, TrailWords
  <2>5. Reaches(check, d, "uncovered", k)
    <3>1. /\ "uncovered" \in DOMAIN Plan[check][d].past
          /\ Plan[check][d].past["uncovered"] = TrailCalls
          /\ d \in Nat /\ TrailCalls \in Nat
      BY <1>8, <1>9, <1>10, TrailFacts
    <3>2. d < k /\ k <= d + TrailCalls
      BY <2>4, <3>1
    <3>3. QED
      BY <3>1, <3>2 DEF Reaches
  <2>6. d \in 1..(k - 1)
    BY <1>11, <2>3, <2>5 DEF Reaches
  <2>7. Skipped(k)
    BY <1>8, <1>11, <2>1, <2>5, <2>6, SkippedBy
  <2>8. QED
    BY <2>2, <2>7
<1>14. Unaudited
  <2>1. CASE check = "CLOUDTRAIL_01"
    BY <1>13, <2>1 DEF Unaudited
  <2>2. CASE check \in {"DDB_01", "SECRETS_01"}
    BY <1>11, <1>12, <1>13, <2>2 DEF Unaudited
  <2>3. QED
    BY <1>8, <2>1, <2>2 DEF TrailChecks
<1>15. QED
  BY <1>4, <1>14

\* NothingReadIsLost, in every state of the invariant.
LEMMA InvNothingReadIsLost ==
  ASSUME ReadInv, PlanIsSound(check)
  PROVE  NothingReadIsLost
BY NoBadAnswer, NoticedTokens DEF NothingReadIsLost

\* A key not described is an issue, or spared for one.
LEMMA InvUnverifiedKeyIsNoPass ==
  ASSUME ReadInv, PlanIsSound(check)
  PROVE  UnverifiedKeyIsNoPass
<1> SUFFICES ASSUME verdict = "PASS", NEW i \in 1..Len(answers),
                    Plan[check][i] = DescribeKey
             PROVE  answers[i] = truth[i]
  BY DEF UnverifiedKeyIsNoPass
<1>1. ~Harmless(Plan[check][i])
  BY Tokens DEF Harmless
<1>2. Issues = {}
  BY <1>1, PassedHow
<1>3. i \in 1..Len(Plan[check]) /\ CallIsSound(check, Plan[check][i])
  BY Positions DEF PlanIsSound, CallsAreSound
<1>4. check # "VPC_01"
  BY <1>3, Tokens DEF CallIsSound
<1>5. ASSUME NEW k \in 1..Len(answers)
      PROVE  answers[k] \cap Plan[check][k].issues = {}
  BY <1>2, <1>4 DEF Issues, Lost
<1>6. ~Skipped(i)
  <2>1. ASSUME Skipped(i)
        PROVE  FALSE
    <3>1. PICK j \in 1..(i - 1) : \E t \in answers[j] : Reaches(check, j, t, i)
      BY <2>1, SkippedBy
    <3>2. PICK t \in answers[j] : Reaches(check, j, t, i)
      BY <3>1
    <3>3. /\ j \in 1..Len(Plan[check]) /\ j \in 1..Len(answers)
          /\ t \in DOMAIN Plan[check][j].past
      BY <1>3, <3>2, Positions DEF Reaches
    <3>4. t \in Plan[check][j].issues
      BY <1>3, <3>2, <3>3 DEF PlanIsSound, SkipsAreSafe
    <3>5. QED
      BY <1>5, <3>2, <3>3, <3>4
  <2>2. QED
    BY <2>1
<1>7. answers[i] # {"refused"}
  BY <1>5, Tokens
<1>8. QED
  BY <1>6, <1>7 DEF ReadInv, AnswersFollow

\* A pass outside the best-effort checks is over an account with nothing in it that
\* the checks notice.
LEMMA InvPassIsSound ==
  ASSUME ReadInv, PlanIsSound(check)
  PROVE  PassIsSound
<1> SUFFICES ASSUME verdict = "PASS", check \notin BestEffort
             PROVE  SoundAsRead
  BY SoundAsReadIs DEF PassIsSound, ReadInv, AnswersFollow
<1>1. /\ Len(answers) = Len(Plan[check]) /\ \A i \in 1..Len(answers) : ~Ends(i)
      /\ Issues = {} /\ ~Unaudited
  BY PassedHow, Tokens
<1>2. check # "VPC_01"
  BY Tokens
<1>3. ASSUME NEW i \in 1..Len(truth), Exists(i)
      PROVE  truth[i] \cap Noticed = {}
  <2>1. /\ i \in 1..Len(answers) /\ i \in 1..Len(Plan[check])
        /\ truth[i] \subseteq Said(Plan[check][i]) /\ CallIsSound(check, Plan[check][i])
    BY Positions DEF PlanIsSound, CallsAreSound
  <2>2. CASE Skipped(i)
    <3>1. PICK j \in 1..(i - 1) : Reaches(check, j, "refused", i)
      BY <1>3, <2>1, <2>2, SkippedByRefusal
    <3>2. /\ j \in 1..Len(Plan[check])
          /\ "refused" \in DOMAIN Plan[check][j].past
      BY <2>1, <3>1 DEF Reaches, PlanIsSound
    <3>3. Harmless(Plan[check][i])
      BY <2>1, <3>1, <3>2 DEF PlanIsSound, SkipsAreSafe
    <3>4. QED
      BY <2>1, <3>3 DEF Harmless
  <2>3. CASE ~Skipped(i) /\ answers[i] = truth[i]
    BY <1>2, <2>1, <2>3, NoBadAnswer
  <2>4. CASE ~Skipped(i) /\ answers[i] = {"refused"}
    <3>1. "refused" \notin DOMAIN Plan[check][i].returns
      BY <1>1, <2>1, <2>4 DEF Ends
    <3>2. "refused" \notin Plan[check][i].issues
      BY <1>1, <1>2, <2>1, <2>4 DEF Issues, Lost
    <3>3. Harmless(Plan[check][i])
      BY <2>1, <3>1, <3>2 DEF CallIsSound
    <3>4. QED
      BY <2>1, <3>3 DEF Harmless
  <2>5. QED
    BY <2>1, <2>2, <2>3, <2>4 DEF ReadInv, AnswersFollow
<1>4. ASSUME check \in TrailChecks
      PROVE  AuditedAsRead
  <2>1. check = "CLOUDTRAIL_01"
    BY <1>4, Tokens
  <2>2. Answered(IF given THEN "covers" ELSE "logging")
    BY <1>1, <2>1 DEF Unaudited
  <2>3. QED
    BY <1>1, <1>4, <2>2, HeardIsAudited
<1>5. QED
  BY <1>3, <1>4 DEF SoundAsRead, TrailChecks

\* What a call was answered, but for a refusal, is so and exists.
LEMMA HeardIsThere ==
  ASSUME ReadInv, PlanIsSound(check),
         NEW i \in 1..Len(answers), NEW t \in answers[i], t # "refused"
  PROVE  i \in 1..Len(truth) /\ Exists(i) /\ t \in truth[i]
<1>1. ~Skipped(i) /\ answers[i] = truth[i]
  BY AnswersAreGiven
<1>2. QED
  BY <1>1, AskedExists, Positions

\* An alarm over nothing that was read is one of the known ones.
LEMMA AlarmsAreKnown ==
  ASSUME ReadInv, PlanIsSound(check), verdict = "FAIL",
         \A i \in 1..Len(answers) : answers[i] \cap Noticed = {},
         check \in TrailChecks => AuditedAsRead
  PROVE  \E i \in 1..Len(answers) :
            \/ /\ answers[i] = {"refused"}
               /\ \/ Plan[check][i] = DescribeKey
                  \/ check = "AUDIT_01"
                  \/ truth[i] \cap {"logging", "covers"} # {}
            \/ answers[i] = {"garbled"} /\ check = "S3_02"
<1>1. /\ Len(answers) = Len(Plan[check]) /\ \A i \in 1..Len(answers) : ~Ends(i)
      /\ Issues # {} \/ Unaudited
  BY DEF ReadInv, Concluded, PassedEarly
<1>2. CASE Issues # {}
  <2>1. PICK i \in 1..Len(answers) : \E t \in answers[i] : t \in Plan[check][i].issues
    BY <1>2 DEF Issues
  <2>2. PICK t \in answers[i] : t \in Plan[check][i].issues
    BY <2>1
  <2>3. ~Skipped(i) /\ (answers[i] = truth[i] \/ answers[i] = {"refused"})
    BY <2>2, AnswersAreGiven
  <2>4. CallIsSound(check, Plan[check][i])
    BY Positions DEF PlanIsSound, CallsAreSound
  <2>5. CASE answers[i] = {"refused"}
    BY <2>2, <2>4, <2>5 DEF CallIsSound
  <2>6. CASE answers[i] = truth[i]
    <3>2. t \notin Noticed
      BY <2>2
    <3>3. truth[i] \in Plan[check][i].says /\ truth[i] \subseteq Said(Plan[check][i])
      BY Positions
    <3>4. t = "garbled" /\ check = "S3_02"
      BY <2>2, <2>4, <2>6, <3>2, <3>3 DEF CallIsSound
    <3>5. answers[i] = {"garbled"}
      BY <2>2, <2>4, <2>6, <3>3, <3>4 DEF CallIsSound
    <3>6. QED
      BY <3>4, <3>5
  <2>7. QED
    BY <2>3, <2>5, <2>6
<1>3. CASE Unaudited
  <2>1. check \in TrailChecks
    BY <1>3 DEF Unaudited, TrailChecks
  <2>2. AuditedAsRead
    BY <2>1
  <2>3. Describe(check) \in 1..Len(answers) /\ Describe(check) = Len(answers) - TrailCalls
    BY <1>1, <2>1 DEF PlanIsSound, TrailsComeLast, Describe
  <2>4. ~Ends(Describe(check))
    BY <1>1, <2>3
  <2>5. check # "CLOUDTRAIL_01" => "refused" \notin answers[Describe(check)]
    BY <1>3, <2>1, <2>3 DEF Unaudited, TrailChecks
  <2>6. ~(Answered("logging") /\ (given => Answered("covers")))
    <3>1. CASE check = "CLOUDTRAIL_01"
      BY <1>3, <3>1 DEF Unaudited
    <3>2. CASE check # "CLOUDTRAIL_01"
      <4>1. answers # <<>>
        BY <2>3, Positions
      <4>2. given
        BY <3>2, <4>1 DEF ReadInv
      <4>3. QED
        BY <1>3, <2>1, <3>2, <4>2 DEF Unaudited, TrailChecks
    <3>3. QED
      BY <3>1, <3>2
  <2>7. PICK i \in 1..Len(answers) :
          truth[i] \cap {"logging", "covers"} # {} /\ answers[i] = {"refused"}
    BY <1>1, <2>1, <2>2, <2>4, <2>5, <2>6, AuditedIsHeard
  <2>8. QED
    BY <2>7
<1>4. QED
  BY <1>1, <1>2, <1>3

\* Nothing that was read is noticed, if nothing is wrong and nothing overstated was
\* read.
LEMMA InvFalseAlarmsAreKnown ==
  ASSUME ReadInv, PlanIsSound(check)
  PROVE  FalseAlarmsAreKnown
<1> SUFFICES ASSUME verdict = "FAIL", Wrongs = {},
                    \A i \in 1..Len(answers) : answers[i] \cap Overstated = {}
             PROVE  \E i \in 1..Len(answers) :
                      \/ /\ answers[i] = {"refused"}
                         /\ \/ Plan[check][i] = DescribeKey
                            \/ check = "AUDIT_01"
                            \/ truth[i] \cap {"logging", "covers"} # {}
                      \/ answers[i] = {"garbled"} /\ check = "S3_02"
  BY DEF FalseAlarmsAreKnown
<1>1. ASSUME NEW i \in 1..Len(answers), NEW t \in answers[i], t \in Noticed
      PROVE  FALSE
  <2>1. i \in 1..Len(truth) /\ Exists(i) /\ t \in truth[i]
    BY <1>1, HeardIsThere, Tokens
  <2>2. t \notin Bad
    BY <2>1 DEF Wrongs, Held
  <2>3. QED
    BY <1>1, <2>2, NoticedTokens
<1>2. ASSUME check \in TrailChecks
      PROVE  AuditedAsRead
  <2>1. ~AuditGap("unaudited")
    BY <1>2 DEF Wrongs, AuditGaps, TrailChecks
  <2>2. QED
    BY <2>1, UnauditedIs
<1>3. QED
  BY <1>1, <1>2, AlarmsAreKnown

\* With every call answered nothing was hidden.
LEMMA InvExactWhenAllRead ==
  ASSUME ReadInv, PlanIsSound(check)
  PROVE  ExactWhenAllRead
<1> SUFFICES ASSUME verdict \in {"PASS", "FAIL"}, Complete
             PROVE  verdict = "PASS" <=> SoundAsRead
  BY SoundAsReadIs DEF ExactWhenAllRead, ReadInv, AnswersFollow
<1>1. ASSUME verdict = "PASS"
      PROVE  SoundAsRead
  <2>1. ASSUME NEW i \in 1..Len(truth), Exists(i)
        PROVE  truth[i] \cap Noticed = {}
    <3>1. i \in 1..Len(answers)
      BY Positions
    <3>2. ~Skipped(i)
      <4>1. ASSUME Skipped(i)
            PROVE  FALSE
        <5>1. PICK j \in 1..(i - 1) : answers[j] = {"refused"}
          BY <2>1, <3>1, <4>1, SkippedByRefusal
        <5>2. j \in 1..Len(answers)
          BY <3>1, Positions
        <5>3. QED
          BY <5>1, <5>2 DEF Complete
      <4>2. QED
        BY <4>1
    <3>3. answers[i] = truth[i]
      BY <3>1, <3>2 DEF ReadInv, AnswersFollow, Complete
    <3>4. QED
      BY <1>1, <3>1, <3>3, NoBadAnswer
  <2>2. ASSUME check \in TrailChecks
        PROVE  AuditedAsRead
    <3>1. Len(answers) = Len(Plan[check]) /\ ~Unaudited
      BY <1>1, <2>2, PassedHow, Tokens
    <3>2. /\ Describe(check) \in 1..Len(answers)
          /\ Describe(check) = Len(answers) - TrailCalls
      BY <2>2, <3>1 DEF PlanIsSound, TrailsComeLast, Describe
    <3>3. "refused" \notin answers[Len(answers) - TrailCalls]
      BY <3>2 DEF Complete
    <3>4. Answered("covers") \/ (Answered("logging") /\ ~given)
      BY <2>2, <3>1, <3>3 DEF Unaudited, TrailChecks
    <3>5. QED
      BY <2>2, <3>1, <3>4, HeardIsAudited
  <2>3. QED
    BY <2>1, <2>2 DEF SoundAsRead, TrailChecks
<1>2. ASSUME verdict = "FAIL", SoundAsRead
      PROVE  FALSE
  <2>1. ASSUME NEW i \in 1..Len(answers), NEW t \in answers[i], t \in Noticed
        PROVE  FALSE
    BY <1>2, <2>1, HeardIsThere, Tokens DEF SoundAsRead
  <2>2. QED
    BY <1>2, <2>1, AlarmsAreKnown DEF SoundAsRead, Complete
<1>3. QED
  BY <1>1, <1>2

-------------------------------------------------------------------------------
(***************************************************************************)
(* The plans: what the proofs use of them holds of every check.            *)
(***************************************************************************)

\* IAM-01: where its calls stand, and what a refusal goes on past.
LEMMA IamCalls ==
  /\ Len(IamScope) = 4 + 3 * Items
  /\ IamScope[1] = Call({{}, {"no_profile"}, {"missing"}},
                        [refused |-> "ERROR", missing |-> "ERROR", no_profile |-> "PASS"], {}, None)
  /\ IamScope[2] = Call({{}, {"no_roles"}}, [refused |-> "ERROR", no_roles |-> "PASS"], {}, None)
  /\ IamScope[3] = Listing(Items)
  /\ \A n \in 1..Items :
       IamScope[3 + n] = Call(Document, None, {"wildcard"}, [refused |-> Items - n])
  /\ IamScope[4 + Items] = Listing(2 * Items)
  /\ \A n \in 1..(2 * Items) :
       IamScope[(4 + Items) + n] =
         IF n % 2 = 1 THEN Call({{}}, None, {}, [refused |-> 1])
         ELSE Tolerant(Document, {"wildcard"})
<1>1. Items \in Nat
  BY ItemsAssumption
<1>2. /\ Len(InlinePolicies) = 1 + Items /\ InlinePolicies[1] = Listing(Items)
      /\ \A n \in 1..Items :
           InlinePolicies[1 + n] = Call(Document, None, {"wildcard"}, [refused |-> Items - n])
  BY <1>1 DEF InlinePolicies
<1>3. /\ Len(AttachedPolicies) = 1 + 2 * Items /\ AttachedPolicies[1] = Listing(2 * Items)
      /\ \A n \in 1..(2 * Items) :
           AttachedPolicies[1 + n] =
             IF n % 2 = 1 THEN Call({{}}, None, {}, [refused |-> 1])
             ELSE Tolerant(Document, {"wildcard"})
  BY <1>1 DEF AttachedPolicies
<1>4. /\ Len(IamScope) = 4 + 3 * Items
      /\ \A n \in 1..(1 + Items) : IamScope[2 + n] = InlinePolicies[n]
      /\ \A n \in 1..(1 + 2 * Items) : IamScope[(3 + Items) + n] = AttachedPolicies[n]
  <2>1. Len(IamScope) = 4 + 3 * Items
    BY <1>1, <1>2, <1>3 DEF IamScope
  <2>2. ASSUME NEW n \in 1..(1 + Items)
        PROVE  IamScope[2 + n] = InlinePolicies[n]
    BY <1>1, <1>2, <1>3 DEF IamScope
  <2>3. ASSUME NEW n \in 1..(1 + 2 * Items)
        PROVE  IamScope[(3 + Items) + n] = AttachedPolicies[n]
    BY <1>1, <1>2, <1>3 DEF IamScope
  <2>4. QED
    BY <2>1, <2>2, <2>3
<1>5. IamScope[3] = Listing(Items) /\ IamScope[4 + Items] = Listing(2 * Items)
  <2>1. IamScope[3] = InlinePolicies[1] /\ IamScope[4 + Items] = AttachedPolicies[1]
    BY <1>1, <1>4
  <2>2. QED
    BY <1>2, <1>3, <2>1
<1>6. ASSUME NEW n \in 1..Items
      PROVE  IamScope[3 + n] = Call(Document, None, {"wildcard"}, [refused |-> Items - n])
  <2>1. IamScope[3 + n] = InlinePolicies[1 + n]
    BY <1>1, <1>4
  <2>2. QED
    BY <1>2, <2>1
<1>7. ASSUME NEW n \in 1..(2 * Items)
      PROVE  IamScope[(4 + Items) + n] =
               IF n % 2 = 1 THEN Call({{}}, None, {}, [refused |-> 1])
               ELSE Tolerant(Document, {"wildcard"})
  <2>1. IamScope[(4 + Items) + n] = AttachedPolicies[1 + n]
    BY <1>1, <1>4
  <2>2. QED
    BY <1>3, <2>1
<1>8. /\ IamScope[1] = Call({{}, {"no_profile"}, {"missing"}},
                        [refused |-> "ERROR", missing |-> "ERROR", no_profile |-> "PASS"], {}, None)
      /\ IamScope[2] = Call({{}, {"no_roles"}}, [refused |-> "ERROR", no_roles |-> "PASS"], {}, None)
  BY <1>1, <1>2, <1>3 DEF IamScope
<1>9. QED
  <2>1. Len(IamScope) = 4 + 3 * Items
    BY <1>4
  <2>2. \A n \in 1..Items :
          IamScope[3 + n] = Call(Document, None, {"wildcard"}, [refused |-> Items - n])
    BY <1>6
  <2>3. \A n \in 1..(2 * Items) :
          IamScope[(4 + Items) + n] =
            IF n % 2 = 1 THEN Call({{}}, None, {}, [refused |-> 1])
            ELSE Tolerant(Document, {"wildcard"})
    BY <1>7
  <2>4. QED
    BY <1>5, <1>8, <2>1, <2>2, <2>3, Zenon

\* A call of IAM-01 is one of the first two, or of the inline or the attached
\* policies.
LEMMA IamPositions ==
  ASSUME NEW i \in 1..Len(IamScope)
  PROVE  \/ i \in {1, 2, 3, 4 + Items}
         \/ \E n \in 1..Items : i = 3 + n
         \/ \E n \in 1..(2 * Items) : i = (4 + Items) + n
<1>1. Items \in Nat /\ Len(IamScope) = 4 + 3 * Items
  BY ItemsAssumption, IamCalls
<1>2. CASE i > 3 /\ i < 4 + Items
  <2>1. i - 3 \in 1..Items /\ i = 3 + (i - 3)
    BY <1>1, <1>2
  <2>2. QED
    BY <2>1
<1>3. CASE i > 4 + Items
  <2>1. i - (4 + Items) \in 1..(2 * Items) /\ i = (4 + Items) + (i - (4 + Items))
    BY <1>1, <1>3
  <2>2. QED
    BY <2>1
<1>4. QED
  BY <1>1, <1>2, <1>3

\* The trails of a plan.
LEMMA TrailsAre ==
  ASSUME NEW x
  PROVE  /\ Items \in Nat /\ TrailCalls \in Nat /\ Len(Trails(x)) = 1 + TrailCalls
         /\ Trails(x)[1] = x
         /\ \A n \in 1..TrailCalls :
              Trails(x)[1 + n] = IF n % 2 = 1 THEN TrailStatus ELSE TrailSelectors
<1>1. Items \in Nat /\ TrailCalls \in Nat
  BY ItemsAssumption DEF TrailCalls
<1>2. QED
  BY <1>1 DEF Trails

\* A plan whose call d lists the trails, and that has them after it.
LEMMA TrailsEnd ==
  ASSUME NEW c \in TrailChecks, NEW d \in Nat, d >= 1,
         Len(Plan[c]) = d + TrailCalls,
         \A n \in 1..TrailCalls :
           Plan[c][d + n] = IF n % 2 = 1 THEN TrailStatus ELSE TrailSelectors,
         Said(Plan[c][d]) \subseteq {"uncovered"},
         Plan[c][d].past = IF c = "CLOUDTRAIL_01" THEN [uncovered |-> TrailCalls]
                           ELSE [refused |-> TrailCalls, uncovered |-> TrailCalls],
         c = "CLOUDTRAIL_01" => "refused" \in DOMAIN Plan[c][d].returns,
         \A i \in 1..(d - 1) : Said(Plan[c][i]) \cap {"logging", "covers", "uncovered"} = {},
         \A i \in 1..(d - 1) : \A t \in DOMAIN Plan[c][i].past : i + Plan[c][i].past[t] < d
  PROVE  TrailsComeLast(c) /\ d = Describe(c)
<1>1. TrailCalls \in Nat
  BY TrailsAre
<1>2. Describe(c) = d
  BY <1>1 DEF Describe
<1>3. d \in 1..Len(Plan[c])
  BY <1>1
<1>4. \A i \in 1..d : Said(Plan[c][i]) \cap {"logging", "covers"} = {}
  <2>1. \A i \in 1..d : i = d \/ i \in 1..(d - 1)
    OBVIOUS
  <2>2. Said(Plan[c][d]) \cap {"logging", "covers"} = {}
    OBVIOUS
  <2>3. QED
    BY <2>1, <2>2
<1>5. ASSUME NEW i \in 1..Len(Plan[c]), i # d
      PROVE  "uncovered" \notin Said(Plan[c][i])
  <2>1. CASE i > d
    <3>1. PICK n \in 1..TrailCalls : i = d + n
      <4>1. i - d \in 1..TrailCalls /\ i = d + (i - d)
        BY <1>1, <2>1
      <4>2. QED
        BY <4>1
    <3>2. Plan[c][i] = TrailStatus \/ Plan[c][i] = TrailSelectors
      BY <3>1
    <3>3. "uncovered" \notin Said(TrailStatus) /\ "uncovered" \notin Said(TrailSelectors)
      BY TrailCallsSay
    <3>4. QED
      BY <3>2, <3>3
  <2>2. CASE i < d
    <3>1. i \in 1..(d - 1)
      BY <1>1, <2>2
    <3>2. QED
      BY <3>1
  <2>3. QED
    BY <1>1, <1>5, <2>1, <2>2
<1>6. \A i \in 1..Len(Plan[c]) : i # d => "uncovered" \notin Said(Plan[c][i])
  BY <1>5
<1>7. QED
  BY <1>2, <1>3, <1>4, <1>6 DEF TrailsComeLast

\* A plan that ends with the trails, and before them goes on only past calls that
\* skip nothing.
LEMMA TrailPlan ==
  ASSUME NEW c \in TrailChecks, TrailsComeLast(c), Len(Plan[c]) \in Nat,
         NEW d, d = Describe(c),
         \A i \in 1..d : CallIsSound(c, Plan[c][i]),
         \A j, k \in 1..d : \A t \in DOMAIN Plan[c][j].past :
           Reaches(c, j, t, k) =>
             /\ DOMAIN Plan[c][k].past = {}
             /\ Plan[c][k] = DescribeKey => t \in Plan[c][j].issues,
         c = "CLOUDTRAIL_01" => d = 1
  PROVE  PlanIsSound(c)
<1>1. /\ TrailCalls \in Nat /\ Len(Plan[c]) = d + TrailCalls /\ d \in Nat /\ d >= 1
      /\ \A n \in 1..TrailCalls :
           Plan[c][d + n] = IF n % 2 = 1 THEN TrailStatus ELSE TrailSelectors
  BY TrailFacts
<1>2. ASSUME NEW i \in 1..Len(Plan[c])
      PROVE  i \in 1..d \/ \E n \in 1..TrailCalls : i = d + n
  <2>1. CASE i > d
    <3>1. i - d \in 1..TrailCalls /\ i = d + (i - d)
      BY <1>1, <2>1
    <3>2. QED
      BY <3>1
  <2>2. QED
    BY <1>1, <2>1
<1>3. /\ CallIsSound(c, TrailStatus) /\ CallIsSound(c, TrailSelectors)
      /\ Harmless(TrailSelectors)
      /\ TrailStatus # DescribeKey /\ TrailSelectors # DescribeKey
  <2>1. /\ TrailStatus.issues = {} /\ TrailSelectors.issues = {}
        /\ DOMAIN TrailStatus.returns = {} /\ DOMAIN TrailSelectors.returns = {}
    BY DEF TrailStatus, TrailSelectors, Call, None
  <2>2. /\ Said(TrailStatus) \cap Noticed = {} /\ Said(TrailSelectors) \cap Noticed = {}
    BY TrailCallsSay DEF Noticed, Counted, Overstated
  <2>3. CallIsSound(c, TrailStatus)
    BY <2>1, <2>2, TrailCallsSay DEF CallIsSound, Harmless
  <2>4. CallIsSound(c, TrailSelectors)
    BY <2>1, <2>2, TrailCallsSay DEF CallIsSound, Harmless
  <2>5. QED
    BY <2>1, <2>2, <2>3, <2>4, Tokens DEF Harmless
<1>4. CallsAreSound(c)
  BY <1>1, <1>2, <1>3 DEF CallsAreSound
<1>5. ASSUME NEW j \in 1..Len(Plan[c])
      PROVE  \A u \in DOMAIN Plan[c][j].past : Plan[c][j].past[u] \in Nat
  BY <1>4 DEF CallsAreSound, CallIsSound
<1>6. ASSUME NEW j \in 1..Len(Plan[c]), NEW t, NEW k \in 1..Len(Plan[c]), Reaches(c, j, t, k),
             k \notin 1..d
      PROVE  \/ /\ j = d /\ t \in {"uncovered", "refused"}
                /\ \A n \in 1..TrailCalls : Reaches(c, j, t, d + n)
             \/ /\ k = j + 1 /\ Plan[c][k] = TrailSelectors
  <2>1. PICK m \in 1..TrailCalls : k = d + m
    BY <1>2, <1>6
  <2>2. Reaches(c, j, t, Describe(c) + m)
    BY <1>6, <2>1
  <2>3. \/ /\ j = Describe(c) /\ t \in {"uncovered", "refused"}
           /\ \A n \in 1..TrailCalls : Reaches(c, j, t, Describe(c) + n)
        \/ j = Describe(c) + (m - 1) /\ m % 2 = 0 /\ t \in {"stopped", "refused"}
    BY <1>5, <2>2, TrailReach
  <2>4. CASE j = Describe(c) + (m - 1) /\ m % 2 = 0
    <3>1. k = j + 1
      BY <1>1, <2>1, <2>4
    <3>2. Plan[c][k] = TrailSelectors
      BY <1>1, <2>1, <2>4
    <3>3. QED
      BY <3>1, <3>2
  <2>5. QED
    BY <2>3, <2>4
<1>7. ASSUME NEW j \in 1..Len(Plan[c]), NEW t, NEW k \in 1..d, Reaches(c, j, t, k)
      PROVE  j \in 1..d /\ t \in DOMAIN Plan[c][j].past
  BY <1>1, <1>7 DEF Reaches
<1>8. SkipsAreNested(c)
  <2> SUFFICES ASSUME NEW j \in 1..Len(Plan[c]), NEW k \in 1..Len(Plan[c]),
                      NEW i \in 1..Len(Plan[c]), NEW t \in DOMAIN Plan[c][j].past,
                      NEW u \in DOMAIN Plan[c][k].past,
                      Reaches(c, j, t, k), Reaches(c, k, u, i)
               PROVE  Reaches(c, j, t, i)
    BY DEF SkipsAreNested
  <2>1. DOMAIN Plan[c][k].past # {}
    OBVIOUS
  <2>2. k \notin 1..d
    BY <1>7, <2>1
  <2>3. Plan[c][k] # TrailSelectors
    BY <2>1, TrailCallsSay
  <2>4. \A n \in 1..TrailCalls : Reaches(c, j, t, d + n)
    BY <1>6, <2>2, <2>3
  <2>5. i > d
    BY <1>1, <2>2 DEF Reaches
  <2>6. PICK n \in 1..TrailCalls : i = d + n
    <3>1. i \notin 1..d
      BY <1>1, <2>5
    <3>2. QED
      BY <1>2, <3>1
  <2>7. QED
    BY <2>4, <2>6
<1>9. SkipsAreSafe(c)
  <2> SUFFICES ASSUME NEW j \in 1..Len(Plan[c]), NEW i \in 1..Len(Plan[c]),
                      NEW t \in DOMAIN Plan[c][j].past, Reaches(c, j, t, i)
               PROVE  /\ Plan[c][i] = DescribeKey => t \in Plan[c][j].issues
                      /\ t = "refused" /\ c \notin BestEffort => Harmless(Plan[c][i])
    BY DEF SkipsAreSafe
  <2>1. CASE i \in 1..d
    <3>1. j \in 1..d /\ j # i
      BY <1>1, <1>7, <2>1 DEF Reaches
    <3>2. c # "CLOUDTRAIL_01"
      BY <1>1, <2>1, <3>1
    <3>3. c \in BestEffort
      BY <3>2, Tokens
    <3>4. QED
      BY <2>1, <3>1, <3>3
  <2>2. CASE i \notin 1..d
    <3>1. Plan[c][i] # DescribeKey
      <4>1. PICK n \in 1..TrailCalls : i = d + n
        BY <1>2, <2>2
      <4>2. QED
        BY <1>1, <1>3, <4>1
    <3>2. ASSUME t = "refused", c \notin BestEffort
          PROVE  Harmless(Plan[c][i])
      <4>1. c = "CLOUDTRAIL_01"
        BY <3>2, Tokens
      <4>2. Plan[c][d].past = [uncovered |-> TrailCalls]
        BY <4>1 DEF TrailsComeLast
      <4>3. j # d
        BY <3>2, <4>2
      <4>4. Plan[c][i] = TrailSelectors
        BY <1>6, <2>2, <4>3
      <4>5. QED
        BY <1>3, <4>4
    <3>3. QED
      BY <3>1, <3>2
  <2>3. QED
    BY <2>1, <2>2
<1>10. EarlyPassIsHarmless(c)
  BY <1>4, Tokens DEF EarlyPassIsHarmless, CallsAreSound, CallIsSound
<1>11. QED
  BY <1>4, <1>8, <1>9, <1>10, Tokens DEF PlanIsSound

\* What a key reference with flags may say.
LEMMA WithSays ==
  ASSUME NEW flag, NEW f \in With(KeyReferences, {flag})
  PROVE  f \subseteq {"no_key", "aws_alias", flag}
<1>1. PICK k \in KeyReferences : \E g \in SUBSET {flag} : f = k \cup g
  BY DEF With
<1>2. k \subseteq {"no_key", "aws_alias"}
  BY DEF KeyReferences
<1>3. QED
  BY <1>1, <1>2

\* The call that reads a state store's key reference and one flag.
LEMMA StoreCall ==
  ASSUME NEW c \in {"DDB_01", "SECRETS_01"}, NEW flag \in {"unprotected", "no_rotation"},
         NEW store,
         store = Call(With(KeyReferences, {flag}), Must, {"no_key", "aws_alias", flag}, UnlessKeyed)
  PROVE  /\ CallIsSound(c, store)
         /\ Said(store) \cap {"logging", "covers", "uncovered"} = {}
         /\ \A t \in DOMAIN store.past : store.past[t] = 1 /\ t \in store.issues
<1>1. /\ store.says = With(KeyReferences, {flag}) /\ store.returns = Must
      /\ store.issues = {"no_key", "aws_alias", flag} /\ store.past = UnlessKeyed
  BY DEF Call
<1>2. \A f \in store.says : f \subseteq {"no_key", "aws_alias", flag}
  BY <1>1, WithSays
<1>3. Said(store) \subseteq {"no_key", "aws_alias", flag}
  BY <1>2 DEF Said
<1>4. \A t \in DOMAIN store.past : store.past[t] = 1 /\ t \in store.issues
  <2>1. \A t \in DOMAIN UnlessKeyed : UnlessKeyed[t] = 1 /\ t \in {"no_key", "aws_alias"}
    BY DEF UnlessKeyed
  <2>2. QED
    BY <1>1, <2>1
<1>5. CallIsSound(c, store)
  <2>1. {"no_key", "aws_alias", flag} \subseteq Noticed
    BY DEF Noticed, Counted
  <2>2. "refused" \in DOMAIN Must /\ \A t \in DOMAIN Must : Must[t] = "ERROR"
    BY DEF Must
  <2>3. flag # "refused" /\ flag # "garbled"
    OBVIOUS
  <2>4. /\ "refused" \notin Said(store) /\ "refused" \notin store.issues
        /\ "garbled" \notin store.issues
        /\ \A f \in store.says : "garbled" \notin f
    BY <1>1, <1>2, <1>3, <2>3
  <2>5. Said(store) \subseteq store.issues /\ store.issues \subseteq Noticed
    BY <1>1, <1>3, <2>1
  <2>6. \A t \in DOMAIN store.past : store.past[t] \in Nat
    BY <1>1 DEF UnlessKeyed
  <2>7. /\ "refused" \in DOMAIN store.returns
        /\ \A t \in DOMAIN store.returns : store.returns[t] \in {"ERROR", "SKIP"}
    BY <1>1, <2>2
  <2>8. QED
    BY <2>4, <2>5, <2>6, <2>7 DEF CallIsSound
<1>6. QED
  BY <1>3, <1>4, <1>5

\* The call that lists the trails of a state store's account.
LEMMA ListCall ==
  ASSUME NEW c \in {"DDB_01", "SECRETS_01"}, NEW list,
         list = Call({{}, {"uncovered"}}, None, {},
                     [refused |-> TrailCalls, uncovered |-> TrailCalls])
  PROVE  /\ CallIsSound(c, list) /\ Said(list) \subseteq {"uncovered"}
         /\ list.past = [refused |-> TrailCalls, uncovered |-> TrailCalls]
<1>1. /\ Said(list) \subseteq {"uncovered"}
      /\ list.past = [refused |-> TrailCalls, uncovered |-> TrailCalls]
      /\ list.issues = {} /\ DOMAIN list.returns = {}
      /\ \A f \in list.says : "garbled" \notin f
  BY DEF Call, Said, None
<1>2. \A t \in DOMAIN list.past : list.past[t] = TrailCalls
  BY <1>1
<1>3. "refused" \in DOMAIN list.past /\ "refused" \notin Said(list)
  BY <1>1
<1>4. c \in TrailChecks /\ c \in BestEffort /\ TrailCalls \in Nat
  BY TrailsAre DEF TrailChecks, BestEffort
<1>5. CallIsSound(c, list)
  BY <1>1, <1>2, <1>3, <1>4 DEF CallIsSound
<1>6. QED
  BY <1>1, <1>5

LEMMA DescribeKeyCall ==
  ASSUME NEW c \in {"DDB_01", "SECRETS_01"}
  PROVE  /\ CallIsSound(c, DescribeKey) /\ DOMAIN DescribeKey.past = {}
         /\ Said(DescribeKey) \cap {"logging", "covers", "uncovered"} = {}
BY DEF CallIsSound, DescribeKey, Call, None, Said, Noticed, Counted, Overstated, BestEffort, Harmless

\* A state store that is read by one call, then its key, then by calls that skip
\* nothing, then by its trails.
LEMMA StateStorePlan ==
  ASSUME NEW c \in {"DDB_01", "SECRETS_01"}, NEW d \in Nat, d >= 3,
         Len(Plan[c]) = d + TrailCalls,
         CallIsSound(c, Plan[c][1]),
         Said(Plan[c][1]) \cap {"logging", "covers", "uncovered"} = {},
         \A t \in DOMAIN Plan[c][1].past : Plan[c][1].past[t] = 1 /\ t \in Plan[c][1].issues,
         Plan[c][2] = DescribeKey,
         \A i \in 3..(d - 1) : /\ CallIsSound(c, Plan[c][i]) /\ DOMAIN Plan[c][i].past = {}
                               /\ Said(Plan[c][i]) \cap {"logging", "covers", "uncovered"} = {},
         CallIsSound(c, Plan[c][d]), Said(Plan[c][d]) \subseteq {"uncovered"},
         Plan[c][d].past = [refused |-> TrailCalls, uncovered |-> TrailCalls],
         \A n \in 1..TrailCalls :
           Plan[c][d + n] = IF n % 2 = 1 THEN TrailStatus ELSE TrailSelectors
  PROVE  PlanIsSound(c)
<1>1. /\ CallIsSound(c, DescribeKey) /\ DOMAIN DescribeKey.past = {}
      /\ Said(DescribeKey) \cap {"logging", "covers", "uncovered"} = {}
  BY DescribeKeyCall
<1>2. c \in TrailChecks /\ c # "CLOUDTRAIL_01" /\ TrailCalls \in Nat
  BY TrailsAre DEF TrailChecks
<1>3. \A i \in 1..d : i = 1 \/ i = 2 \/ i \in 3..(d - 1) \/ i = d
  OBVIOUS
<1>4. TrailsComeLast(c) /\ d = Describe(c)
  <2>1. ASSUME NEW i \in 1..(d - 1)
        PROVE  Said(Plan[c][i]) \cap {"logging", "covers", "uncovered"} = {}
    <3>1. CASE i = 2
      BY <1>1, <3>1
    <3>2. CASE i \in 3..(d - 1)
      BY <3>2
    <3>3. QED
      BY <1>3, <3>1, <3>2
  <2>2. ASSUME NEW i \in 1..(d - 1), NEW t \in DOMAIN Plan[c][i].past
        PROVE  i + Plan[c][i].past[t] < d
    <3>1. i = 1
      BY <1>1, <1>3, <2>2
    <3>2. Plan[c][i].past[t] = 1
      BY <2>2, <3>1
    <3>3. QED
      BY <3>1, <3>2
  <2>3. Plan[c][d].past = IF c = "CLOUDTRAIL_01" THEN [uncovered |-> TrailCalls]
                          ELSE [refused |-> TrailCalls, uncovered |-> TrailCalls]
    BY <1>2
  <2>4. /\ \A i \in 1..(d - 1) : Said(Plan[c][i]) \cap {"logging", "covers", "uncovered"} = {}
        /\ \A i \in 1..(d - 1) :
             \A t \in DOMAIN Plan[c][i].past : i + Plan[c][i].past[t] < d
    BY <2>1, <2>2
  <2>5. d >= 1 /\ (c = "CLOUDTRAIL_01" => "refused" \in DOMAIN Plan[c][d].returns)
    BY <1>2
  <2>6. QED
    BY <1>2, <2>3, <2>4, <2>5, TrailsEnd
<1>5. \A i \in 1..d : CallIsSound(c, Plan[c][i])
  BY <1>1, <1>3
<1>6. ASSUME NEW j \in 1..d, NEW k \in 1..d, NEW t \in DOMAIN Plan[c][j].past,
             Reaches(c, j, t, k)
      PROVE  /\ DOMAIN Plan[c][k].past = {}
             /\ Plan[c][k] = DescribeKey => t \in Plan[c][j].issues
  <2>1. j < k /\ k <= j + Plan[c][j].past[t]
    BY <1>6 DEF Reaches
  <2>2. j = 1
    BY <1>1, <1>3, <1>6, <2>1
  <2>3. k = 2
    <3>1. Plan[c][j].past[t] = 1
      BY <1>6, <2>2
    <3>2. QED
      BY <2>1, <2>2, <3>1
  <2>4. QED
    BY <1>1, <1>6, <2>2, <2>3
<1>7. Len(Plan[c]) \in Nat
  BY <1>2
<1>8. QED
  BY <1>2, <1>4, <1>5, <1>6, <1>7, TrailPlan

LEMMA DynamoDbStateIsSound == PlanIsSound("DDB_01")
<1> DEFINE store == Call(With(KeyReferences, {"unprotected"}), Must,
                         {"no_key", "aws_alias", "unprotected"}, UnlessKeyed)
           head == <<store, DescribeKey,
                     Tolerant({{}, {"no_recovery"}}, {"no_recovery"}),
                     Tolerant({{}, {"absent"}, {"unscoped"}}, {"absent"})>>
           list == Call({{}, {"uncovered"}}, None, {},
                        [refused |-> TrailCalls, uncovered |-> TrailCalls])
<1>1. Plan["DDB_01"] = DynamoDbState
  BY DEF Plan, AwsPlan, GcpPlan, AzurePlan
<1>2. \A i \in 3..4 : /\ CallIsSound("DDB_01", head[i]) /\ DOMAIN head[i].past = {}
                      /\ Said(head[i]) \cap {"logging", "covers", "uncovered"} = {}
  <2>1. /\ CallIsSound("DDB_01", head[3]) /\ DOMAIN head[3].past = {}
        /\ Said(head[3]) \cap {"logging", "covers", "uncovered"} = {}
    BY DEF CallIsSound, Tolerant, Call, None, Said, Noticed, Counted, Overstated, BestEffort, TrailChecks, Harmless
  <2>2. /\ CallIsSound("DDB_01", head[4]) /\ DOMAIN head[4].past = {}
        /\ Said(head[4]) \cap {"logging", "covers", "uncovered"} = {}
    BY DEF CallIsSound, Tolerant, Call, None, Said, Noticed, Counted, Overstated, BestEffort, TrailChecks, Harmless
  <2>3. \A i \in 3..4 : i = 3 \/ i = 4
    OBVIOUS
  <2> HIDE DEF head
  <2>4. QED
    BY <2>1, <2>2, <2>3
<1>3. head[1] = store /\ head[2] = DescribeKey /\ Len(head) = 4
  OBVIOUS
<1>4. /\ Len(DynamoDbState) = 5 + TrailCalls /\ DynamoDbState[5] = list
      /\ \A i \in 1..4 : DynamoDbState[i] = head[i]
      /\ \A n \in 1..TrailCalls :
           DynamoDbState[5 + n] = IF n % 2 = 1 THEN TrailStatus ELSE TrailSelectors
  <2>1. /\ TrailCalls \in Nat /\ Len(DataEvents) = 1 + TrailCalls /\ DataEvents[1] = list
        /\ \A n \in 1..TrailCalls :
             DataEvents[1 + n] = IF n % 2 = 1 THEN TrailStatus ELSE TrailSelectors
    BY TrailsAre DEF DataEvents
  <2>2. Len(DataEvents) \in Nat
    BY <2>1
  <2>3. Len(DynamoDbState) = 4 + Len(DataEvents)
    BY <2>2 DEF DynamoDbState
  <2>4. \A i \in 1..4 : DynamoDbState[i] = head[i]
    BY <2>2 DEF DynamoDbState
  <2>5. ASSUME NEW i \in 1..Len(DataEvents)
        PROVE  DynamoDbState[4 + i] = DataEvents[i]
    BY <2>2 DEF DynamoDbState
  <2> HIDE DEF store, head, list
  <2>6. Len(DynamoDbState) = 5 + TrailCalls /\ DynamoDbState[5] = list
    BY <2>1, <2>3, <2>5
  <2>7. ASSUME NEW n \in 1..TrailCalls
        PROVE  DynamoDbState[5 + n] = IF n % 2 = 1 THEN TrailStatus ELSE TrailSelectors
    <3>1. 1 + n \in 1..Len(DataEvents) /\ 4 + (1 + n) = 5 + n
      BY <2>1
    <3>2. QED
      BY <2>1, <2>5, <3>1
  <2>8. QED
    BY <2>4, <2>6, <2>7
<1> HIDE DEF store, head, list
<1>5. \A i \in 3..4 :
        /\ CallIsSound("DDB_01", Plan["DDB_01"][i]) /\ DOMAIN Plan["DDB_01"][i].past = {}
        /\ Said(Plan["DDB_01"][i]) \cap {"logging", "covers", "uncovered"} = {}
  BY <1>1, <1>2, <1>4
<1>6. /\ CallIsSound("DDB_01", store)
      /\ Said(store) \cap {"logging", "covers", "uncovered"} = {}
      /\ \A t \in DOMAIN store.past : store.past[t] = 1 /\ t \in store.issues
  BY StoreCall DEF store
<1>7. /\ CallIsSound("DDB_01", list) /\ Said(list) \subseteq {"uncovered"}
      /\ list.past = [refused |-> TrailCalls, uncovered |-> TrailCalls]
  BY ListCall DEF list
<1>8. Plan["DDB_01"][1] = store /\ Plan["DDB_01"][2] = DescribeKey
  BY <1>1, <1>3, <1>4
<1>9. /\ Len(Plan["DDB_01"]) = 5 + TrailCalls /\ Plan["DDB_01"][5] = list
      /\ \A n \in 1..TrailCalls :
           Plan["DDB_01"][5 + n] = IF n % 2 = 1 THEN TrailStatus ELSE TrailSelectors
  BY <1>1, <1>4
<1>10. PICK d \in Nat : d = 5 /\ d >= 3 /\ d - 1 = 4
  OBVIOUS
<1>11. QED
  BY <1>5, <1>6, <1>7, <1>8, <1>9, <1>10, StateStorePlan

LEMMA SecretsManagerIsSound == PlanIsSound("SECRETS_01")
<1> DEFINE store == Call(With(KeyReferences, {"no_rotation"}), Must,
                         {"no_key", "aws_alias", "no_rotation"}, UnlessKeyed)
           head == <<store, DescribeKey,
                     Tolerant({{}, {"absent"}, {"wildcard"}, {"unscoped"}, {"garbled"}},
                              {"absent", "wildcard"})>>
           list == Call({{}, {"uncovered"}}, None, {},
                        [refused |-> TrailCalls, uncovered |-> TrailCalls])
<1>1. Plan["SECRETS_01"] = SecretsManager
  BY DEF Plan, AwsPlan, GcpPlan, AzurePlan
<1>2. \A i \in 3..3 : /\ CallIsSound("SECRETS_01", head[i]) /\ DOMAIN head[i].past = {}
                      /\ Said(head[i]) \cap {"logging", "covers", "uncovered"} = {}
  <2>1. /\ CallIsSound("SECRETS_01", head[3]) /\ DOMAIN head[3].past = {}
        /\ Said(head[3]) \cap {"logging", "covers", "uncovered"} = {}
    BY DEF CallIsSound, Tolerant, Call, None, Said, Noticed, Counted, Overstated, BestEffort, TrailChecks, Harmless
  <2>2. \A i \in 3..3 : i = 3
    OBVIOUS
  <2> HIDE DEF head
  <2>3. QED
    BY <2>1, <2>2
<1>3. head[1] = store /\ head[2] = DescribeKey /\ Len(head) = 3
  OBVIOUS
<1>4. /\ Len(SecretsManager) = 4 + TrailCalls /\ SecretsManager[4] = list
      /\ \A i \in 1..3 : SecretsManager[i] = head[i]
      /\ \A n \in 1..TrailCalls :
           SecretsManager[4 + n] = IF n % 2 = 1 THEN TrailStatus ELSE TrailSelectors
  <2>1. /\ TrailCalls \in Nat /\ Len(DataEvents) = 1 + TrailCalls /\ DataEvents[1] = list
        /\ \A n \in 1..TrailCalls :
             DataEvents[1 + n] = IF n % 2 = 1 THEN TrailStatus ELSE TrailSelectors
    BY TrailsAre DEF DataEvents
  <2>2. Len(DataEvents) \in Nat
    BY <2>1
  <2>3. Len(SecretsManager) = 3 + Len(DataEvents)
    BY <2>2 DEF SecretsManager
  <2>4. \A i \in 1..3 : SecretsManager[i] = head[i]
    BY <2>2 DEF SecretsManager
  <2>5. ASSUME NEW i \in 1..Len(DataEvents)
        PROVE  SecretsManager[3 + i] = DataEvents[i]
    BY <2>2 DEF SecretsManager
  <2> HIDE DEF store, head, list
  <2>6. Len(SecretsManager) = 4 + TrailCalls /\ SecretsManager[4] = list
    BY <2>1, <2>3, <2>5
  <2>7. ASSUME NEW n \in 1..TrailCalls
        PROVE  SecretsManager[4 + n] = IF n % 2 = 1 THEN TrailStatus ELSE TrailSelectors
    <3>1. 1 + n \in 1..Len(DataEvents) /\ 3 + (1 + n) = 4 + n
      BY <2>1
    <3>2. QED
      BY <2>1, <2>5, <3>1
  <2>8. QED
    BY <2>4, <2>6, <2>7
<1> HIDE DEF store, head, list
<1>5. \A i \in 3..3 :
        /\ CallIsSound("SECRETS_01", Plan["SECRETS_01"][i])
        /\ DOMAIN Plan["SECRETS_01"][i].past = {}
        /\ Said(Plan["SECRETS_01"][i]) \cap {"logging", "covers", "uncovered"} = {}
  BY <1>1, <1>2, <1>4
<1>6. /\ CallIsSound("SECRETS_01", store)
      /\ Said(store) \cap {"logging", "covers", "uncovered"} = {}
      /\ \A t \in DOMAIN store.past : store.past[t] = 1 /\ t \in store.issues
  BY StoreCall DEF store
<1>7. /\ CallIsSound("SECRETS_01", list) /\ Said(list) \subseteq {"uncovered"}
      /\ list.past = [refused |-> TrailCalls, uncovered |-> TrailCalls]
  BY ListCall DEF list
<1>8. Plan["SECRETS_01"][1] = store /\ Plan["SECRETS_01"][2] = DescribeKey
  BY <1>1, <1>3, <1>4
<1>9. /\ Len(Plan["SECRETS_01"]) = 4 + TrailCalls /\ Plan["SECRETS_01"][4] = list
      /\ \A n \in 1..TrailCalls :
           Plan["SECRETS_01"][4 + n] = IF n % 2 = 1 THEN TrailStatus ELSE TrailSelectors
  BY <1>1, <1>4
<1>10. PICK d \in Nat : d = 4 /\ d >= 3 /\ d - 1 = 3
  OBVIOUS
<1>11. QED
  BY <1>5, <1>6, <1>7, <1>8, <1>9, <1>10, StateStorePlan

\* What a proof of CallIsSound looks into: how a call is written down, and the
\* names of tokens and checks it mentions.
USE DEF Call, None, Must, MustDecode, MustExist, Flags, Tolerant, CallIsSound, Said, Harmless,
        Noticed, Counted, Overstated, TrailChecks, BestEffort

\* A plan that never goes on past a call asks nothing of their order.
LEMMA PlainPlan ==
  ASSUME NEW c \in CheckIds \ (TrailChecks \cup {"VPC_01", "IAM_01"}), Len(Plan[c]) \in Nat,
         CallsAreSound(c), \A i \in 1..Len(Plan[c]) : DOMAIN Plan[c][i].past = {}
  PROVE  PlanIsSound(c)
<1>1. SkipsAreNested(c) /\ SkipsAreSafe(c)
  BY DEF SkipsAreNested, SkipsAreSafe
<1>2. EarlyPassIsHarmless(c)
  BY DEF EarlyPassIsHarmless, CallsAreSound
<1>3. TrailsComeLast(c)
  BY DEF TrailsComeLast
<1>4. QED
  BY <1>1, <1>2, <1>3 DEF PlanIsSound

\* Nor does one that goes on only past calls that skip nothing.
LEMMA ShortSkips ==
  ASSUME NEW c \in CheckIds \ (TrailChecks \cup {"IAM_01"}), Len(Plan[c]) \in Nat,
         CallsAreSound(c), SkipsAreSafe(c), c = "VPC_01" => Len(Plan[c]) = 4,
         \A j, k \in 1..Len(Plan[c]) : \A t \in DOMAIN Plan[c][j].past :
           Reaches(c, j, t, k) => DOMAIN Plan[c][k].past = {}
  PROVE  PlanIsSound(c)
<1>1. SkipsAreNested(c)
  BY DEF SkipsAreNested
<1>2. EarlyPassIsHarmless(c)
  BY DEF EarlyPassIsHarmless, CallsAreSound
<1>3. TrailsComeLast(c)
  BY DEF TrailsComeLast
<1>4. QED
  BY <1>1, <1>2, <1>3 DEF PlanIsSound

LEMMA S3PublicAccessIsSound == PlanIsSound("S3_01")
<1>1. "S3_01" \in CheckIds /\ Plan["S3_01"] = S3PublicAccess /\ Len(S3PublicAccess) = 1
  BY DEF CheckIds, Plan, AwsPlan, GcpPlan, AzurePlan, S3PublicAccess
<1>2. \A i \in 1..1 : /\ CallIsSound("S3_01", S3PublicAccess[i])
                      /\ DOMAIN S3PublicAccess[i].past = {}
  BY DEF S3PublicAccess
<1>3. QED
  BY <1>1, <1>2, PlainPlan DEF CallsAreSound

LEMMA S3EncryptionIsSound == PlanIsSound("S3_02")
<1>1. "S3_02" \in CheckIds /\ Plan["S3_02"] = S3Encryption /\ Len(S3Encryption) = 2
  BY DEF CheckIds, Plan, AwsPlan, GcpPlan, AzurePlan, S3Encryption
<1>2. \A i \in 1..2 : CallIsSound("S3_02", S3Encryption[i]) /\ DOMAIN S3Encryption[i].past = {}
  BY DEF S3Encryption
<1>3. QED
  BY <1>1, <1>2, PlainPlan DEF CallsAreSound

LEMMA BucketPolicyIsSound == PlanIsSound("BOOTSTRAP_02")
<1>1. /\ "BOOTSTRAP_02" \in CheckIds /\ Plan["BOOTSTRAP_02"] = BucketPolicy
      /\ Len(BucketPolicy) = 1
  BY DEF CheckIds, Plan, AwsPlan, GcpPlan, AzurePlan, BucketPolicy
<1>2. \A i \in 1..1 : /\ CallIsSound("BOOTSTRAP_02", BucketPolicy[i])
                      /\ DOMAIN BucketPolicy[i].past = {}
  BY DEF BucketPolicy
<1>3. QED
  BY <1>1, <1>2, PlainPlan DEF CallsAreSound

LEMMA AuditLogIsSound == PlanIsSound("AUDIT_01")
<1>1. "AUDIT_01" \in CheckIds /\ Plan["AUDIT_01"] = AuditLog /\ Len(AuditLog) = 2
  BY DEF CheckIds, Plan, AwsPlan, GcpPlan, AzurePlan, AuditLog
<1>2. \A i \in 1..2 : CallIsSound("AUDIT_01", AuditLog[i]) /\ DOMAIN AuditLog[i].past = {}
  BY DEF AuditLog
<1>3. QED
  BY <1>1, <1>2, PlainPlan DEF CallsAreSound

LEMMA StateRollbackIsSound == PlanIsSound("ROLLBACK_01")
<1>1. /\ "ROLLBACK_01" \in CheckIds /\ Plan["ROLLBACK_01"] = StateRollback
      /\ Len(StateRollback) = 1
  BY DEF CheckIds, Plan, AwsPlan, GcpPlan, AzurePlan, StateRollback
<1>2. \A i \in 1..1 : /\ CallIsSound("ROLLBACK_01", StateRollback[i])
                      /\ DOMAIN StateRollback[i].past = {}
  BY DEF StateRollback
<1>3. QED
  BY <1>1, <1>2, PlainPlan DEF CallsAreSound

LEMMA ImdsEnforcementIsSound == PlanIsSound("IMDS_01")
<1>1. "IMDS_01" \in CheckIds /\ Plan["IMDS_01"] = ImdsEnforcement /\ Len(ImdsEnforcement) = 1
  BY DEF CheckIds, Plan, AwsPlan, GcpPlan, AzurePlan, ImdsEnforcement
<1>2. \A i \in 1..1 : /\ CallIsSound("IMDS_01", ImdsEnforcement[i])
                      /\ DOMAIN ImdsEnforcement[i].past = {}
  BY DEF ImdsEnforcement
<1>3. QED
  BY <1>1, <1>2, PlainPlan DEF CallsAreSound

LEMMA KmsAttestationIsSound == PlanIsSound("KMS_01")
<1>1. "KMS_01" \in CheckIds /\ Plan["KMS_01"] = KmsAttestation /\ Len(KmsAttestation) = 2
  BY DEF CheckIds, Plan, AwsPlan, GcpPlan, AzurePlan, KmsAttestation
<1>2. \A i \in 1..2 : /\ CallIsSound("KMS_01", KmsAttestation[i])
                      /\ DOMAIN KmsAttestation[i].past = {}
  BY DEF KmsAttestation
<1>3. QED
  BY <1>1, <1>2, PlainPlan DEF CallsAreSound

LEMMA GcsBootstrapIsSound == PlanIsSound("GCS_BOOT_01")
<1>1. "GCS_BOOT_01" \in CheckIds /\ Plan["GCS_BOOT_01"] = GcsBootstrap /\ Len(GcsBootstrap) = 2
  BY DEF CheckIds, Plan, AwsPlan, GcpPlan, AzurePlan, GcsBootstrap
<1>2. \A i \in 1..2 : /\ CallIsSound("GCS_BOOT_01", GcsBootstrap[i])
                      /\ DOMAIN GcsBootstrap[i].past = {}
  BY DEF GcsBootstrap
<1>3. QED
  BY <1>1, <1>2, PlainPlan DEF CallsAreSound

LEMMA MetadataMutabilityIsSound == PlanIsSound("CSPACE_META_01")
<1>1. /\ "CSPACE_META_01" \in CheckIds /\ Plan["CSPACE_META_01"] = MetadataMutability
      /\ Len(MetadataMutability) = 2
  BY DEF CheckIds, Plan, AwsPlan, GcpPlan, AzurePlan, MetadataMutability
<1>2. \A i \in 1..2 : /\ CallIsSound("CSPACE_META_01", MetadataMutability[i])
                      /\ DOMAIN MetadataMutability[i].past = {}
  BY DEF MetadataMutability
<1>3. QED
  BY <1>1, <1>2, PlainPlan DEF CallsAreSound

LEMMA SaImpersonationIsSound == PlanIsSound("CSPACE_SA_01")
<1>1. /\ "CSPACE_SA_01" \in CheckIds /\ Plan["CSPACE_SA_01"] = SaImpersonation
      /\ Len(SaImpersonation) = 2
  BY DEF CheckIds, Plan, AwsPlan, GcpPlan, AzurePlan, SaImpersonation
<1>2. \A i \in 1..2 : /\ CallIsSound("CSPACE_SA_01", SaImpersonation[i])
                      /\ DOMAIN SaImpersonation[i].past = {}
  BY DEF SaImpersonation, WithAccount
<1>3. QED
  BY <1>1, <1>2, PlainPlan DEF CallsAreSound

LEMMA SaKeysIsSound == PlanIsSound("CSPACE_SAKEY_01")
<1>1. "CSPACE_SAKEY_01" \in CheckIds /\ Plan["CSPACE_SAKEY_01"] = SaKeys /\ Len(SaKeys) = 2
  BY DEF CheckIds, Plan, AwsPlan, GcpPlan, AzurePlan, SaKeys
<1>2. \A i \in 1..2 : CallIsSound("CSPACE_SAKEY_01", SaKeys[i]) /\ DOMAIN SaKeys[i].past = {}
  BY DEF SaKeys, WithAccount
<1>3. QED
  BY <1>1, <1>2, PlainPlan DEF CallsAreSound

LEMMA VmSkuIsSound == PlanIsSound("AZ_SKU_01")
<1>1. "AZ_SKU_01" \in CheckIds /\ Plan["AZ_SKU_01"] = VmSku /\ Len(VmSku) = 1
  BY DEF CheckIds, Plan, AwsPlan, GcpPlan, AzurePlan, VmSku
<1>2. \A i \in 1..1 : CallIsSound("AZ_SKU_01", VmSku[i]) /\ DOMAIN VmSku[i].past = {}
  BY DEF VmSku
<1>3. QED
  BY <1>1, <1>2, PlainPlan DEF CallsAreSound

LEMMA VmBootIsSound == PlanIsSound("AZ_BOOT_01")
<1>1. "AZ_BOOT_01" \in CheckIds /\ Plan["AZ_BOOT_01"] = VmBoot /\ Len(VmBoot) = 1
  BY DEF CheckIds, Plan, AwsPlan, GcpPlan, AzurePlan, VmBoot
<1>2. \A i \in 1..1 : CallIsSound("AZ_BOOT_01", VmBoot[i]) /\ DOMAIN VmBoot[i].past = {}
  BY DEF VmBoot
<1>3. QED
  BY <1>1, <1>2, PlainPlan DEF CallsAreSound

LEMMA VmDiskIsSound == PlanIsSound("AZ_DISK_01")
<1>1. "AZ_DISK_01" \in CheckIds /\ Plan["AZ_DISK_01"] = VmDisk /\ Len(VmDisk) = 1
  BY DEF CheckIds, Plan, AwsPlan, GcpPlan, AzurePlan, VmDisk
<1>2. \A i \in 1..1 : CallIsSound("AZ_DISK_01", VmDisk[i]) /\ DOMAIN VmDisk[i].past = {}
  BY DEF VmDisk
<1>3. QED
  BY <1>1, <1>2, PlainPlan DEF CallsAreSound

LEMMA VpcIsolationIsSound == PlanIsSound("VPC_01")
<1>1. "VPC_01" \in CheckIds /\ Plan["VPC_01"] = VpcIsolation /\ Len(VpcIsolation) = 4
  BY DEF CheckIds, Plan, AwsPlan, GcpPlan, AzurePlan, VpcIsolation
<1>2. CallIsSound("VPC_01", VpcIsolation[1]) /\ CallIsSound("VPC_01", VpcIsolation[2])
  BY DEF VpcIsolation
<1>3. CallIsSound("VPC_01", VpcIsolation[3]) /\ CallIsSound("VPC_01", VpcIsolation[4])
  BY DEF VpcIsolation
<1>4. CallsAreSound("VPC_01")
  <2>1. \A i \in 1..4 : i = 1 \/ i = 2 \/ i = 3 \/ i = 4
    OBVIOUS
  <2>2. QED
    BY <1>1, <1>2, <1>3, <2>1 DEF CallsAreSound
<1>5. SkipsAreSafe("VPC_01")
  BY <1>1 DEF SkipsAreSafe, Reaches, VpcIsolation, DescribeKey
<1>6. ASSUME NEW j \in 1..4, NEW k \in 1..4, NEW t \in DOMAIN VpcIsolation[j].past,
             Reaches("VPC_01", j, t, k)
      PROVE  DOMAIN VpcIsolation[k].past = {}
  BY <1>1, <1>6 DEF Reaches, VpcIsolation, DescribeKey
<1>7. QED
  BY <1>1, <1>4, <1>5, <1>6, ShortSkips

LEMMA EfsStateIsSound == PlanIsSound("EFS_01")
<1>1. "EFS_01" \in CheckIds /\ Plan["EFS_01"] = EfsState /\ Len(EfsState) = 4
  BY DEF CheckIds, Plan, AwsPlan, GcpPlan, AzurePlan, EfsState
<1>2. CallIsSound("EFS_01", EfsState[1]) /\ CallIsSound("EFS_01", EfsState[2])
  BY DEF EfsState, StorageKeys, UnlessEncrypted, DescribeKey
<1>3. CallIsSound("EFS_01", EfsState[3]) /\ CallIsSound("EFS_01", EfsState[4])
  BY DEF EfsState, StorageKeys, UnlessEncrypted, DescribeKey
<1>4. CallsAreSound("EFS_01")
  <2>1. \A i \in 1..4 : i = 1 \/ i = 2 \/ i = 3 \/ i = 4
    OBVIOUS
  <2>2. QED
    BY <1>1, <1>2, <1>3, <2>1 DEF CallsAreSound
<1>5. SkipsAreSafe("EFS_01")
  BY <1>1 DEF SkipsAreSafe, Reaches, EfsState, StorageKeys, UnlessEncrypted, DescribeKey
<1>6. ASSUME NEW j \in 1..4, NEW k \in 1..4, NEW t \in DOMAIN EfsState[j].past,
             Reaches("EFS_01", j, t, k)
      PROVE  DOMAIN EfsState[k].past = {}
  BY <1>1, <1>6 DEF Reaches, EfsState, StorageKeys, UnlessEncrypted, DescribeKey
<1>7. QED
  BY <1>1, <1>4, <1>5, <1>6, ShortSkips

LEMMA VmConfigIsSound == PlanIsSound("CSPACE_VM_01")
<1>1. "CSPACE_VM_01" \in CheckIds /\ Plan["CSPACE_VM_01"] = VmConfig /\ Len(VmConfig) = 1
  <2>1. "CSPACE_VM_01" \in CheckIds /\ Plan["CSPACE_VM_01"] = VmConfig
    BY DEF CheckIds, Plan, AwsPlan, GcpPlan, AzurePlan
  <2>2. Len(VmConfig) = 1
    BY DEF VmConfig
  <2>3. QED
    BY <2>1, <2>2
<1> DEFINE tokens == ShieldedFlags \cup {"plain_snp", "hidden_launcher", "unknown_type", "unattestable"}
<1>2. \A f \in VmConfig[1].says : f \subseteq tokens
  BY DEF VmConfig, ConfidentialType
<1>3. UNION VmConfig[1].says \subseteq tokens
  BY <1>2
<1>4. /\ VmConfig[1].returns = Must /\ DOMAIN VmConfig[1].past = {}
      /\ VmConfig[1].issues = ShieldedFlags \cup {"unknown_type", "unattestable"}
  BY DEF VmConfig
<1>5. "refused" \notin tokens /\ "garbled" \notin tokens
      /\ {"plain_snp", "hidden_launcher"} \cap Noticed = {}
  BY DEF ShieldedFlags
<1>6. tokens \cap Noticed \subseteq VmConfig[1].issues /\ VmConfig[1].issues \subseteq Noticed
  BY <1>4, <1>5 DEF ShieldedFlags
<1>7. CallIsSound("CSPACE_VM_01", VmConfig[1])
  BY <1>2, <1>3, <1>4, <1>5, <1>6
<1>8. QED
  BY <1>1, <1>4, <1>7, PlainPlan DEF CallsAreSound

LEMMA TokenClaimsIsSound == PlanIsSound("CSPACE_ATT_01")
<1>1. /\ "CSPACE_ATT_01" \in CheckIds /\ Plan["CSPACE_ATT_01"] = TokenClaims
      /\ Len(TokenClaims) = 1
  <2>1. "CSPACE_ATT_01" \in CheckIds /\ Plan["CSPACE_ATT_01"] = TokenClaims
    BY DEF CheckIds, Plan, AwsPlan, GcpPlan, AzurePlan
  <2>2. Len(TokenClaims) = 1
    BY DEF TokenClaims
  <2>3. QED
    BY <2>1, <2>2
<1> DEFINE tokens == TokenFlags \cup {"usable", "no_support", "experimental"}
<1>2. \A f \in TokenClaims[1].says : f = {"garbled"} \/ f \subseteq tokens
  BY DEF TokenClaims
<1>3. UNION TokenClaims[1].says \subseteq tokens \cup {"garbled"}
  BY <1>2
<1>4. DOMAIN TokenClaims[1].past = {}
  BY DEF TokenClaims
<1>5. CallIsSound("CSPACE_ATT_01", TokenClaims[1])
  <2>1. /\ TokenClaims[1].returns = MustDecode /\ TokenClaims[1].past = None
        /\ TokenClaims[1].issues = TokenFlags \cup {"usable", "no_support"}
    BY DEF TokenClaims
  <2>2. /\ "refused" \notin tokens /\ "garbled" \notin tokens /\ "experimental" \notin Noticed
        /\ TokenFlags \cup {"usable", "no_support"} \subseteq Noticed
    BY DEF TokenFlags
  <2>3. /\ Said(TokenClaims[1]) \cap Noticed \subseteq TokenClaims[1].issues \cup {"garbled"}
        /\ "refused" \notin Said(TokenClaims[1]) /\ "refused" \notin TokenClaims[1].issues
        /\ TokenClaims[1].issues \subseteq Noticed /\ "garbled" \notin TokenClaims[1].issues
        /\ \A f \in TokenClaims[1].says : "garbled" \in f => f = {"garbled"}
    BY <1>2, <1>3, <2>1, <2>2
  <2>4. "refused" \in DOMAIN TokenClaims[1].returns /\ "garbled" \in DOMAIN TokenClaims[1].returns
    BY <2>1
  <2>5. QED
    BY <2>1, <2>3, <2>4
<1>6. QED
  BY <1>1, <1>4, <1>5, PlainPlan DEF CallsAreSound

LEMMA ImageSigningIsSound == PlanIsSound("CSPACE_IMG_01")
<1>1. /\ "CSPACE_IMG_01" \in CheckIds /\ Plan["CSPACE_IMG_01"] = ImageSigning
      /\ Len(ImageSigning) = 2
  <2>1. "CSPACE_IMG_01" \in CheckIds /\ Plan["CSPACE_IMG_01"] = ImageSigning
    BY DEF CheckIds, Plan, AwsPlan, GcpPlan, AzurePlan
  <2>2. Len(ImageSigning) = 2
    BY DEF ImageSigning
  <2>3. QED
    BY <2>1, <2>2
<1> DEFINE tokens == {"tagged", "no_reference", "unsigned"}
<1>2. \A f \in ImageSigning[1].says : f \subseteq tokens
  BY DEF ImageSigning
<1>3. UNION ImageSigning[1].says \subseteq tokens
  BY <1>2
<1>4. CallIsSound("CSPACE_IMG_01", ImageSigning[1])
  <2>1. /\ ImageSigning[1].returns = Must /\ ImageSigning[1].past = [no_reference |-> 1]
        /\ ImageSigning[1].issues = {"tagged", "unsigned"}
    BY DEF ImageSigning
  <2>2. QED
    BY <1>2, <1>3, <2>1
<1>5. CallIsSound("CSPACE_IMG_01", ImageSigning[2]) /\ DOMAIN ImageSigning[2].past = {}
  BY DEF ImageSigning
<1>6. CallsAreSound("CSPACE_IMG_01")
  <2>1. \A i \in 1..2 : i = 1 \/ i = 2
    OBVIOUS
  <2>2. QED
    BY <1>1, <1>4, <1>5, <2>1 DEF CallsAreSound
<1>7. ASSUME NEW j \in 1..2, NEW k \in 1..2, NEW t, Reaches("CSPACE_IMG_01", j, t, k)
      PROVE  k = 2
  BY <1>1, <1>7 DEF Reaches
<1>8. ImageSigning[2] # DescribeKey
  <2>1. "aws_managed" \notin ImageSigning[2].issues /\ "aws_managed" \in DescribeKey.issues
    BY DEF ImageSigning, DescribeKey
  <2>2. QED
    BY <2>1
<1>9. SkipsAreSafe("CSPACE_IMG_01")
  BY <1>1, <1>7, <1>8 DEF SkipsAreSafe
<1>10. QED
  BY <1>1, <1>5, <1>6, <1>7, <1>9, ShortSkips

LEMMA MaaTokenIsSound == PlanIsSound("AZ_DBG_01")
<1>1. "AZ_DBG_01" \in CheckIds /\ Plan["AZ_DBG_01"] = MaaToken /\ Len(MaaToken) = 2
  <2>1. "AZ_DBG_01" \in CheckIds /\ Plan["AZ_DBG_01"] = MaaToken
    BY DEF CheckIds, Plan, AwsPlan, GcpPlan, AzurePlan
  <2>2. Len(MaaToken) = 2
    BY DEF MaaToken
  <2>3. QED
    BY <2>1, <2>2
<1> DEFINE tokens == MaaFlags \cup {"other_issuer", "unsaid"}
<1>2. \A f \in MaaToken[1].says : f = {"garbled"} \/ f \subseteq tokens
  BY DEF MaaToken
<1>3. UNION MaaToken[1].says \subseteq tokens \cup {"garbled"}
  BY <1>2
<1>4. CallIsSound("AZ_DBG_01", MaaToken[1])
  <2>1. /\ MaaToken[1].returns = MustDecode /\ MaaToken[1].past = [other_issuer |-> 1]
        /\ MaaToken[1].issues = MaaFlags
    BY DEF MaaToken
  <2>2. /\ "refused" \notin tokens /\ "garbled" \notin tokens /\ MaaFlags \subseteq Noticed
        /\ "other_issuer" \notin Noticed /\ "unsaid" \notin Noticed
    BY DEF MaaFlags
  <2>3. QED
    BY <1>2, <1>3, <2>1, <2>2
<1>5. /\ CallIsSound("AZ_DBG_01", MaaToken[2]) /\ DOMAIN MaaToken[2].past = {}
  BY DEF MaaToken
<1>6. CallsAreSound("AZ_DBG_01")
  <2>1. \A i \in 1..2 : i = 1 \/ i = 2
    OBVIOUS
  <2>2. QED
    BY <1>1, <1>4, <1>5, <2>1 DEF CallsAreSound
<1>7. ASSUME NEW j \in 1..2, NEW k \in 1..2, NEW t, Reaches("AZ_DBG_01", j, t, k)
      PROVE  k = 2
  BY <1>1, <1>7 DEF Reaches
<1>8. MaaToken[2] # DescribeKey /\ Harmless(MaaToken[2])
  <2>1. "aws_managed" \notin MaaToken[2].issues /\ "aws_managed" \in DescribeKey.issues
    BY DEF MaaToken, DescribeKey
  <2>2. Harmless(MaaToken[2])
    BY DEF MaaToken
  <2>3. QED
    BY <2>1, <2>2
<1>9. SkipsAreSafe("AZ_DBG_01")
  BY <1>1, <1>7, <1>8 DEF SkipsAreSafe
<1>10. QED
  BY <1>1, <1>5, <1>6, <1>7, <1>9, ShortSkips

LEMMA SsmParameterIsSound == PlanIsSound("SSM_01")
<1>1. "SSM_01" \in CheckIds /\ Plan["SSM_01"] = SsmParameter
  BY DEF CheckIds, Plan, AwsPlan, GcpPlan, AzurePlan
<1>2. /\ Len(SsmParameter) = 1 + Items
      /\ \A i \in 1..Len(SsmParameter) : i # 1 => SsmParameter[i] = DescribeKey
  <2>1. Items \in Nat
    BY ItemsAssumption
  <2>2. QED
    BY <2>1 DEF SsmParameter
<1> DEFINE tokens == {"aws_alias", "plaintext", "nothing"}
<1>3. \A f \in SsmParameter[1].says : f \subseteq tokens
  BY DEF SsmParameter, With
<1>4. UNION SsmParameter[1].says \subseteq tokens
  BY <1>3
<1>5. CallIsSound("SSM_01", SsmParameter[1]) /\ DOMAIN SsmParameter[1].past = {}
  BY <1>3, <1>4 DEF SsmParameter
<1>6. CallIsSound("SSM_01", DescribeKey) /\ DOMAIN DescribeKey.past = {}
  BY DEF DescribeKey
<1>7. CallsAreSound("SSM_01") /\ \A i \in 1..Len(SsmParameter) : DOMAIN SsmParameter[i].past = {}
  BY <1>1, <1>2, <1>5, <1>6 DEF CallsAreSound
<1>8. Len(SsmParameter) \in Nat
  BY <1>2, ItemsAssumption
<1>9. QED
  BY <1>1, <1>7, <1>8, PlainPlan

LEMMA RdsStateIsSound == PlanIsSound("RDS_01")
<1>1. "RDS_01" \in CheckIds /\ Plan["RDS_01"] = RdsState
  BY DEF CheckIds, Plan, AwsPlan, GcpPlan, AzurePlan
<1> DEFINE snapshot == Tolerant({{}, {"public"}}, {"public"})
<1>2. /\ Len(RdsState) = 4 + Items /\ RdsState[2] = DescribeKey
      /\ RdsState[3] = Tolerant({{}, {"open"}}, {"open"}) /\ RdsState[4] = Listing(Items)
      /\ \A i \in 5..Len(RdsState) : RdsState[i] = snapshot
  <2>1. Items \in Nat
    BY ItemsAssumption
  <2>2. QED
    BY <2>1 DEF RdsState
<1>3. Items \in Nat
  BY ItemsAssumption
<1> DEFINE tokens == {"unencrypted", "aws_alias", "exposed", "missing"}
<1>4. /\ \A f \in RdsState[1].says : f \subseteq tokens
      /\ RdsState[1].past = UnlessEncrypted
  BY DEF RdsState, With, StorageKeys
<1>5. UNION RdsState[1].says \subseteq tokens
  BY <1>4
<1>6. CallIsSound("RDS_01", RdsState[1])
  BY <1>4, <1>5 DEF RdsState, UnlessEncrypted
<1>7. /\ CallIsSound("RDS_01", DescribeKey) /\ DOMAIN DescribeKey.past = {}
      /\ CallIsSound("RDS_01", RdsState[3]) /\ DOMAIN RdsState[3].past = {}
      /\ CallIsSound("RDS_01", snapshot) /\ DOMAIN snapshot.past = {}
  BY <1>2 DEF DescribeKey
<1>8. CallIsSound("RDS_01", Listing(Items)) /\ Listing(Items).past = [refused |-> Items]
  <2>1. /\ Listing(Items).past = [refused |-> Items] /\ Listing(Items).returns = None
        /\ Listing(Items).issues = {} /\ Listing(Items).says = {{}, {"unlisted"}}
    BY DEF Listing
  <2>2. Said(Listing(Items)) \subseteq {"unlisted"}
    BY <2>1
  <2>3. QED
    BY <1>3, <2>1, <2>2
<1>9. \A i \in 1..Len(RdsState) : i = 1 \/ i = 2 \/ i = 3 \/ i = 4 \/ i \in 5..Len(RdsState)
  BY <1>2, <1>3
<1>10. CallsAreSound("RDS_01")
  <2> HIDE DEF CallIsSound, snapshot
  <2>1. QED
    BY <1>1, <1>2, <1>6, <1>7, <1>8, <1>9 DEF CallsAreSound
<1>11. ASSUME NEW j \in 1..Len(RdsState), NEW k \in 1..Len(RdsState),
              NEW t \in DOMAIN RdsState[j].past, Reaches("RDS_01", j, t, k)
       PROVE  (j = 1 /\ k = 2) \/ (j = 4 /\ k \in 5..Len(RdsState))
  <2>1. j < k /\ k <= j + RdsState[j].past[t]
    BY <1>1, <1>11 DEF Reaches
  <2>2. CASE j = 1
    BY <1>4, <2>1, <2>2 DEF UnlessEncrypted
  <2>3. CASE j = 4
    BY <2>1, <2>3
  <2>4. QED
    BY <1>2, <1>7, <1>9, <2>2, <2>3
<1>12. SkipsAreSafe("RDS_01")
  <2>1. snapshot # DescribeKey
    <3>1. "aws_managed" \notin snapshot.issues /\ "aws_managed" \in DescribeKey.issues
      BY DEF DescribeKey
    <3>2. QED
      BY <3>1
  <2>2. \A t \in DOMAIN RdsState[1].past : t \in RdsState[1].issues
    BY <1>4 DEF RdsState, UnlessEncrypted
  <2>3. QED
    BY <1>1, <1>2, <1>11, <2>1, <2>2 DEF SkipsAreSafe
<1>13. Len(RdsState) \in Nat
  BY <1>2, <1>3
<1>14. QED
  BY <1>1, <1>2, <1>7, <1>10, <1>11, <1>12, <1>13, ShortSkips

\* A refusal among the inline policies leads to the attached ones, among these to
\* the next one or to the end.
LEMMA IamSkips ==
  ASSUME NEW j \in 1..Len(IamScope), NEW t \in DOMAIN IamScope[j].past
  PROVE  /\ t = "refused" /\ IamScope[j].past[t] \in Nat
         /\ \/ j \in 3..(3 + Items) /\ j + IamScope[j].past[t] = 3 + Items
            \/ j = 4 + Items /\ j + IamScope[j].past[t] = Len(IamScope)
            \/ \E n \in 1..(2 * Items) :
                 j = (4 + Items) + n /\ n % 2 = 1 /\ IamScope[j].past[t] = 1
<1>1. Items \in Nat /\ Len(IamScope) = 4 + 3 * Items
  BY ItemsAssumption, IamCalls
<1>2. CASE j \in {1, 2}
  BY <1>2, IamCalls
<1>3. CASE j = 3
  BY <1>1, <1>3, IamCalls DEF Listing
<1>4. CASE j = 4 + Items
  BY <1>1, <1>4, IamCalls DEF Listing
<1>5. ASSUME NEW n \in 1..Items, j = 3 + n
      PROVE  t = "refused" /\ IamScope[j].past[t] = Items - n /\ j \in 3..(3 + Items)
  <2>1. IamScope[j] = Call(Document, None, {"wildcard"}, [refused |-> Items - n])
    BY <1>5, IamCalls
  <2>2. IamScope[j].past = [refused |-> Items - n]
    BY <2>1
  <2>3. j \in 3..(3 + Items)
    BY <1>1, <1>5
  <2>4. QED
    BY <2>2, <2>3
<1>6. ASSUME NEW n \in 1..(2 * Items), j = (4 + Items) + n
      PROVE  t = "refused" /\ IamScope[j].past[t] = 1 /\ n % 2 = 1
  BY <1>6, IamCalls
<1>7. ASSUME NEW n \in 1..Items, j = 3 + n
      PROVE  IamScope[j].past[t] \in Nat /\ j + IamScope[j].past[t] = 3 + Items
  BY <1>1, <1>5, <1>7
<1>8. CASE \E n \in 1..Items : j = 3 + n
  BY <1>5, <1>7, <1>8
<1>9. CASE \E n \in 1..(2 * Items) : j = (4 + Items) + n
  BY <1>6, <1>9
<1>10. QED
  BY <1>2, <1>3, <1>4, <1>8, <1>9, IamPositions

LEMMA IamScopeIsSound == PlanIsSound("IAM_01")
<1>1. "IAM_01" \in CheckIds /\ Plan["IAM_01"] = IamScope
  BY DEF CheckIds, Plan, AwsPlan, GcpPlan, AzurePlan
<1>2. Items \in Nat /\ Len(IamScope) = 4 + 3 * Items
  BY ItemsAssumption, IamCalls
<1>3. ASSUME NEW i \in 1..Len(IamScope)
      PROVE  CallIsSound("IAM_01", IamScope[i]) /\ "aws_managed" \notin IamScope[i].issues
  <2>1. CASE i \in {1, 2}
    BY <2>1, IamCalls
  <2>2. CASE i = 3 \/ i = 4 + Items
    <3>1. ASSUME NEW n \in Nat
          PROVE  CallIsSound("IAM_01", Listing(n)) /\ "aws_managed" \notin Listing(n).issues
      BY DEF Listing
    <3>2. 2 * Items \in Nat
      BY <1>2
    <3>3. QED
      BY <1>2, <2>2, <3>1, <3>2, IamCalls
  <2>3. CASE \E n \in 1..Items : i = 3 + n
    <3>1. PICK n \in 1..Items : i = 3 + n
      BY <2>3
    <3>2. IamScope[i] = Call(Document, None, {"wildcard"}, [refused |-> Items - n])
      BY <3>1, IamCalls
    <3>3. Items - n \in Nat
      BY <1>2
    <3>4. QED
      BY <3>2, <3>3 DEF Document
  <2>4. CASE \E n \in 1..(2 * Items) : i = (4 + Items) + n
    <3>1. PICK n \in 1..(2 * Items) : i = (4 + Items) + n
      BY <2>4
    <3>2. \/ IamScope[i] = Call({{}}, None, {}, [refused |-> 1])
          \/ IamScope[i] = Tolerant(Document, {"wildcard"})
      BY <3>1, IamCalls
    <3>3. /\ CallIsSound("IAM_01", Call({{}}, None, {}, [refused |-> 1]))
          /\ CallIsSound("IAM_01", Tolerant(Document, {"wildcard"}))
          /\ "aws_managed" \notin Call({{}}, None, {}, [refused |-> 1]).issues
          /\ "aws_managed" \notin Tolerant(Document, {"wildcard"}).issues
      BY DEF Document
    <3>4. QED
      BY <3>2, <3>3
  <2>5. QED
    BY <2>1, <2>2, <2>3, <2>4, IamPositions
<1>4. CallsAreSound("IAM_01")
  BY <1>1, <1>3 DEF CallsAreSound
<1>5. SkipsAreSafe("IAM_01")
  <2>1. ASSUME NEW i \in 1..Len(IamScope)
        PROVE  IamScope[i] # DescribeKey
    <3>1. "aws_managed" \in DescribeKey.issues
      BY DEF DescribeKey
    <3>2. QED
      BY <1>3, <3>1
  <2>2. QED
    BY <1>1, <2>1 DEF SkipsAreSafe
<1>6. SkipsAreNested("IAM_01")
  <2> HIDE DEF CallIsSound, Said, Harmless, Noticed, Counted, Overstated, TrailChecks, BestEffort
  <2> SUFFICES ASSUME NEW j \in 1..Len(IamScope), NEW k \in 1..Len(IamScope),
                      NEW i \in 1..Len(IamScope),
                      NEW t \in DOMAIN IamScope[j].past, NEW u \in DOMAIN IamScope[k].past,
                      j < k, k <= j + IamScope[j].past[t],
                      k < i, i <= k + IamScope[k].past[u]
               PROVE  i <= j + IamScope[j].past[t]
    BY <1>1, <1>2 DEF SkipsAreNested, Reaches
  <2>1. CASE j \in 3..(3 + Items)
    <3>1. j + IamScope[j].past[t] = 3 + Items
      BY <1>2, <2>1, IamSkips
    <3>2. k \in 3..(3 + Items)
      BY <1>2, <2>1, <3>1
    <3>3. \/ k \in 3..(3 + Items) /\ k + IamScope[k].past[u] = 3 + Items
          \/ k = 4 + Items
          \/ \E n \in 1..(2 * Items) : k = (4 + Items) + n
      BY IamSkips
    <3>4. k + IamScope[k].past[u] = 3 + Items
      BY <1>2, <3>2, <3>3
    <3>5. QED
      BY <3>1, <3>4
  <2>2. CASE j = 4 + Items
    BY <1>2, <2>2, IamSkips
  <2>3. ASSUME NEW n \in 1..(2 * Items), j = (4 + Items) + n, n % 2 = 1
        PROVE  FALSE
    <3>1. k = (4 + Items) + (n + 1)
      BY <1>2, <2>3, IamSkips
    <3>2. PICK m \in 1..(2 * Items) : k = (4 + Items) + m /\ m % 2 = 1
      BY <1>2, <3>1, IamSkips
    <3>3. m = n + 1
      BY <1>2, <3>1, <3>2
    <3>4. QED
      BY <2>3, <3>2, <3>3
  <2>4. QED
    BY <2>1, <2>2, <2>3, IamSkips
<1>7. EarlyPassIsHarmless("IAM_01")
  <2>1. Harmless(IamScope[1]) /\ Harmless(IamScope[2])
    BY IamCalls
  <2>2. ASSUME NEW i \in 1..Len(IamScope), NEW t \in DOMAIN IamScope[i].returns
        PROVE  i \in {1, 2}
    <3>1. CASE i = 3 \/ i = 4 + Items
      BY <3>1, IamCalls DEF Listing
    <3>2. ASSUME NEW n \in 1..Items, i = 3 + n
          PROVE  FALSE
      <4>1. IamScope[i] = Call(Document, None, {"wildcard"}, [refused |-> Items - n])
        BY <3>2, IamCalls
      <4>2. IamScope[i].returns = None
        BY <4>1
      <4>3. QED
        BY <2>2, <4>2
    <3>3. ASSUME NEW n \in 1..(2 * Items), i = (4 + Items) + n
          PROVE  FALSE
      BY <2>2, <3>3, IamCalls
    <3>4. QED
      BY <3>1, <3>2, <3>3, IamPositions
  <2>3. \A i \in {1, 2} : \A j \in 1..i : j = 1 \/ j = 2
    OBVIOUS
  <2>4. QED
    BY <1>1, <2>1, <2>2, <2>3 DEF EarlyPassIsHarmless
<1>8. QED
  BY <1>1, <1>2, <1>4, <1>5, <1>6, <1>7 DEF PlanIsSound, TrailsComeLast

LEMMA CloudTrailAuditIsSound == PlanIsSound("CLOUDTRAIL_01")
<1> DEFINE list == Call({{}, {"uncovered"}}, Must, {"uncovered"}, [uncovered |-> TrailCalls])
<1>1. "CLOUDTRAIL_01" \in CheckIds /\ Plan["CLOUDTRAIL_01"] = Trails(list)
  BY DEF CheckIds, Plan, AwsPlan, GcpPlan, AzurePlan, CloudTrailAudit
<1>2. PICK c : c = "CLOUDTRAIL_01"
  OBVIOUS
<1>3. PICK x : x = list
  OBVIOUS
<1>4. /\ TrailCalls \in Nat /\ Len(Plan[c]) = 1 + TrailCalls /\ Plan[c][1] = x
      /\ \A n \in 1..TrailCalls :
           Plan[c][1 + n] = IF n % 2 = 1 THEN TrailStatus ELSE TrailSelectors
  BY <1>1, <1>2, <1>3, TrailsAre
<1>5. /\ CallIsSound(c, x) /\ Said(x) \subseteq {"uncovered"} /\ "refused" \in DOMAIN x.returns
      /\ x.past = [uncovered |-> TrailCalls]
  BY <1>2, <1>3, <1>4
<1>6. c \in TrailChecks
  BY <1>2
<1> HIDE DEF CallIsSound, Said, Harmless, Noticed, Counted, Overstated, TrailChecks, BestEffort,
             list
<1>7. TrailsComeLast(c) /\ 1 = Describe(c)
  <2>1. \A i \in 1..(1 - 1) : FALSE
    OBVIOUS
  <2>2. QED
    BY <1>2, <1>4, <1>5, <1>6, <2>1, TrailsEnd
<1>8. \A j, k \in 1..1 : \A t : ~Reaches(c, j, t, k)
  BY DEF Reaches
<1>9. \A i \in 1..1 : CallIsSound(c, Plan[c][i])
  BY <1>4, <1>5
<1>10. Len(Plan[c]) \in Nat
  BY <1>4
<1>11. PlanIsSound(c)
  BY <1>2, <1>6, <1>7, <1>8, <1>9, <1>10, TrailPlan
<1>12. QED
  BY <1>2, <1>11

-------------------------------------------------------------------------------
(***************************************************************************)
(* The theorems.                                                           *)
(***************************************************************************)
HIDE DEF Call, None, Must, MustDecode, MustExist, Flags, Tolerant, CallIsSound, Said, Harmless,
         Noticed, Counted, Overstated, TrailChecks, BestEffort

LEMMA PlansAreSound == \A c \in CheckIds : PlanIsSound(c)
<1>1. CheckIds =
        {"S3_01", "S3_02", "BOOTSTRAP_02", "AUDIT_01", "ROLLBACK_01", "IMDS_01", "VPC_01",
         "IAM_01", "KMS_01", "CLOUDTRAIL_01", "DDB_01", "SECRETS_01", "EFS_01", "RDS_01",
         "SSM_01", "GCS_BOOT_01", "CSPACE_VM_01", "CSPACE_ATT_01", "CSPACE_META_01",
         "CSPACE_SA_01", "CSPACE_SAKEY_01", "CSPACE_IMG_01", "AZ_SKU_01", "AZ_BOOT_01",
         "AZ_DISK_01", "AZ_DBG_01"}
  BY DEF CheckIds, Plan, AwsPlan, GcpPlan, AzurePlan
<1>2. QED
  BY <1>1, S3PublicAccessIsSound, S3EncryptionIsSound, BucketPolicyIsSound, AuditLogIsSound,
     StateRollbackIsSound, ImdsEnforcementIsSound, VpcIsolationIsSound, IamScopeIsSound,
     KmsAttestationIsSound, CloudTrailAuditIsSound, DynamoDbStateIsSound, SecretsManagerIsSound,
     EfsStateIsSound, RdsStateIsSound, SsmParameterIsSound, GcsBootstrapIsSound,
     VmConfigIsSound, TokenClaimsIsSound, MetadataMutabilityIsSound, SaImpersonationIsSound,
     SaKeysIsSound, ImageSigningIsSound, VmSkuIsSound, VmBootIsSound, VmDiskIsSound,
     MaaTokenIsSound

LEMMA InitReadInv ==
  ASSUME Init
  PROVE  ReadInv
<1>1. Len(Plan[check]) \in Nat
  BY PlansAreSound DEF Init, PlanIsSound
<1>2. AnswersFollow
  BY <1>1 DEF Init, AnswersFollow
<1>3. OnlyTheLastEnds
  BY DEF Init, OnlyTheLastEnds
<1>4. QED
  BY <1>2, <1>3 DEF Init, ReadInv

LEMMA NextReadInv ==
  ASSUME ReadInv, [Next]_vars
  PROVE  ReadInv'
<1>1. PlanIsSound(check)
  BY PlansAreSound DEF ReadInv
<1>2. CASE Ask
  BY <1>1, <1>2, AskKeepsInv DEF PlanIsSound
<1>3. CASE Pass
  BY <1>3, PassKeepsInv
<1>4. CASE Skip
  <2>1. verdict = "none" /\ UNCHANGED <<check, given, truth, answers>> /\ verdict' = "SKIP"
    BY <1>4 DEF Skip
  <2>2. QED
    BY <2>1, VerdictKeepsInv
<1>5. CASE Conclude
  <2>1. /\ verdict = "none" /\ UNCHANGED <<check, given, truth, answers>>
        /\ At > Len(Plan[check])
        /\ verdict' = IF Issues # {} \/ Unaudited THEN "FAIL" ELSE "PASS"
    BY <1>5 DEF Conclude
  <2>2. QED
    BY <2>1, VerdictKeepsInv
<1>6. CASE UNCHANGED vars
  BY <1>6, StutterKeepsInv
<1>7. QED
  BY <1>2, <1>3, <1>4, <1>5, <1>6 DEF Next

\* The answers follow from the account in every state of every check.
THEOREM ReadInvariance == Spec => []ReadInv
<1>1. Init => ReadInv
  BY InitReadInv
<1>2. ReadInv /\ [Next]_vars => ReadInv'
  BY NextReadInv
<1>3. QED
  BY <1>1, <1>2, PTL DEF Spec

\* With every call answered a check passes on just the accounts with nothing wrong but
\* what all checks overlook, and nothing overstated, however many items its lists have.
THEOREM VerdictsAreExact == Spec => []ExactWhenAllRead
<1>1. ReadInv => ExactWhenAllRead
  BY PlansAreSound, InvExactWhenAllRead DEF ReadInv
<1>2. QED
  BY <1>1, ReadInvariance, PTL

\* No check but VPC-01 passes over anything it has read that the documentation rules
\* out, unless all checks overlook it, whatever else is refused.
THEOREM ReadIssuesAreReported == Spec => []NothingReadIsLost
<1>1. ReadInv => NothingReadIsLost
  BY PlansAreSound, InvNothingReadIsLost DEF ReadInv
<1>2. QED
  BY <1>1, ReadInvariance, PTL

\* A check passes only with a key that was described, never on a refused one
\* (_backend_util.py).
THEOREM PassMeansKeyVerified == Spec => []UnverifiedKeyIsNoPass
<1>1. ReadInv => UnverifiedKeyIsNoPass
  BY PlansAreSound, InvUnverifiedKeyIsNoPass DEF ReadInv
<1>2. QED
  BY <1>1, ReadInvariance, PTL

\* An account with nothing wrong fails only over what is overstated, or a refusal the
\* check reports as an issue or takes for an empty answer.
THEOREM FalseAlarmsAreOfKnownKinds == Spec => []FalseAlarmsAreKnown
<1>1. ReadInv => FalseAlarmsAreKnown
  BY PlansAreSound, InvFalseAlarmsAreKnown DEF ReadInv
<1>2. QED
  BY <1>1, ReadInvariance, PTL

\* A check without best-effort reads passes only where nothing is wrong but what all
\* checks overlook, whatever is refused.
THEOREM PassMeansSound == Spec => []PassIsSound
<1>1. ReadInv => PassIsSound
  BY PlansAreSound, InvPassIsSound DEF ReadInv
<1>2. QED
  BY <1>1, ReadInvariance, PTL

===============================================================================
