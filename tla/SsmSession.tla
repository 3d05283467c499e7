------------------------------ MODULE SsmSession ------------------------------
(***************************************************************************)
(* The SSM checks of one scan, one after the other.  Each sends a command  *)
(* to the instance and polls for its result; ENV-01 then sends a second    *)
(* command, whose failures it tolerates.                                   *)
(*                                                                         *)
(* Meanwhile SSM and the instance go their own way: a command may be       *)
(* delivered late, finish after the check gave up, be killed halfway, be   *)
(* cancelled, or run although sending it raised; a tool of it may fail and *)
(* its output be truncated, with no word of it in the status; calls to SSM *)
(* may raise; and the host changes.  A command reads the host when it      *)
(* runs.                                                                   *)
(***************************************************************************)
EXTENDS ShellChecks, Sequences

CONSTANTS
  Plans,       \* the sequences of checks considered
  MaxPolls,    \* polls of a command before a check gives up (10 in the code)
  MaxChanges   \* bound: changes of the host during the scan

ASSUME PlansAssumption == Plans \subseteq Seq(ShellIds)
ASSUME PollsAssumption == MaxPolls \in Nat \ {0} /\ MaxChanges \in Nat

VARIABLES
  plan,      \* the checks of this scan
  host,      \* position -> the facts its check's commands see now
  changes,   \* how often the host changed
  commands,  \* <<position, 1 or 2>> -> the command at SSM
  at,        \* the position running
  pc,        \* "send" or "poll"
  second,    \* the check is at its second command
  polls,     \* polls made of the current command
  result,    \* the last answer of get_command_invocation, or None
  output,    \* ENV-01's `output`, kept while the second command runs
  findings,  \* position -> status, "none" before
  heard      \* history: the commands whose final answer the checks received

service == <<host, changes>>
vars == <<plan, host, changes, commands, at, pc, second, polls, result, output, findings, heard>>

Positions == DOMAIN plan
CommandIds == Positions \X {1, 2}
Current == <<at, IF second THEN 2 ELSE 1>>

Terminal == {"Success", "Failed"}
None == [status |-> "None", out |-> {}]
\* History fields: `saw`, the facts of the host when the command ran; `whole`,
\* its tools worked and all of its output arrived.  No check learns of either.
Unsent == [status |-> "Unsent", out |-> {}, saw |-> {}, whole |-> FALSE]

Init ==
  /\ plan \in Plans
  /\ host \in {h \in [Positions -> UNION {HostFacts[c] : c \in ShellIds}] :
                 \A i \in Positions : h[i] \in HostFacts[plan[i]]}
  /\ changes = 0
  /\ commands = [k \in CommandIds |-> Unsent]
  /\ at = 1
  /\ pc = "send"
  /\ second = FALSE
  /\ polls = 0
  /\ result = None
  /\ output = {}
  /\ findings = [i \in Positions |-> "none"]
  /\ heard = {}

-------------------------------------------------------------------------------
\* The service and the host (external)

auditor == <<at, pc, second, polls, result, output, findings, heard>>

SetStatus(k, status) == commands' = [commands EXCEPT ![k].status = status]

Deliver(k) ==
  /\ commands[k].status = "Pending"
  /\ SetStatus(k, "InProgress")
  /\ UNCHANGED <<plan, service, auditor>>

EndsWith(k, status, out, whole) ==
  commands' = [commands EXCEPT ![k] =
                 [status |-> status, out |-> out, saw |-> host[k[1]], whole |-> whole]]

\* The command runs on the host as it is: to its end, with all of its tools or
\* without, or until it is killed.
Execute(k) ==
  /\ commands[k].status = "InProgress"
  /\ \/ \E out \in Prints(plan[k[1]], k[2], host[k[1]]) : EndsWith(k, "Success", out, TRUE)
     \/ \E out \in Partial(plan[k[1]], k[2], host[k[1]]), status \in Terminal :
          EndsWith(k, status, out, FALSE)
  /\ UNCHANGED <<plan, service, auditor>>

\* Cancelled, timed out or undeliverable: a status the checks do not end on.
Expire(k) ==
  /\ commands[k].status \in {"Pending", "InProgress"}
  /\ SetStatus(k, "TimedOut")
  /\ UNCHANGED <<plan, service, auditor>>

ChangeHost(i) ==
  /\ changes < MaxChanges
  /\ changes' = changes + 1
  /\ \E F \in HostFacts[plan[i]] \ {host[i]} : host' = [host EXCEPT ![i] = F]
  /\ UNCHANGED <<plan, commands, auditor>>

-------------------------------------------------------------------------------
\* The checks

Running == at \in Positions

\* Mutant: the last answer is carried over to the next check.
ReturnKeeping(status) ==
  /\ findings' = [findings EXCEPT ![at] = status]
  /\ at' = at + 1
  /\ pc' = "send"
  /\ second' = FALSE
  /\ polls' = 0
  /\ output' = {}
  /\ UNCHANGED <<result, heard>>

\* The check at hand returns; the scan goes on with the next one.
Return(status) ==
  /\ findings' = [findings EXCEPT ![at] = status]
  /\ at' = at + 1
  /\ pc' = "send"
  /\ second' = FALSE
  /\ polls' = 0
  /\ result' = None
  /\ output' = {}
  /\ UNCHANGED heard

\* ENV-01 without its second output: perms_output = "UNKNOWN".
WithoutModes == Return(Judge(plan[at], output, {"UNKNOWN"}))

Send ==
  /\ Running
  /\ pc = "send"
  /\ SetStatus(Current, "Pending")
  /\ pc' = "poll"
  /\ UNCHANGED <<plan, service, at, second, polls, result, output, findings, heard>>

\* send_command raised; the command may have been accepted all the same.
SendRaises ==
  /\ Running
  /\ pc = "send"
  /\ UNCHANGED commands \/ SetStatus(Current, "Pending")
  /\ IF second THEN WithoutModes ELSE Return("ERROR")
  /\ UNCHANGED <<plan, service>>

LoopOver == polls = MaxPolls \/ result.status \in Terminal
Polling == Running /\ pc = "poll" /\ ~LoopOver

Poll ==
  /\ Polling
  /\ result' = [status |-> commands[Current].status, out |-> commands[Current].out]
  /\ polls' = polls + 1
  /\ heard' = IF commands[Current].status \in Terminal THEN heard \cup {Current} ELSE heard
  /\ UNCHANGED <<plan, service, commands, at, pc, second, output, findings>>

\* A ClientError: the answer before it is kept.
PollRefused ==
  /\ Polling
  /\ polls' = polls + 1
  /\ UNCHANGED <<plan, service, commands, at, pc, second, result, output, findings, heard>>

\* Any other exception leaves a first command's check; ENV-01 catches it for
\* the second.
PollRaises ==
  /\ Polling
  /\ IF second THEN WithoutModes ELSE Return("ERROR")
  /\ UNCHANGED <<plan, service, commands>>

Answered == result.status \in Terminal

\* Mutant: a command that never gave an answer is not reported.
GiveUpOnAnswer ==
  /\ Running /\ pc = "poll" /\ LoopOver
  /\ ~Answered /\ result # None
  /\ IF second THEN WithoutModes ELSE Return("ERROR")
  /\ UNCHANGED <<plan, service, commands>>

GiveUp ==
  /\ Running /\ pc = "poll" /\ LoopOver
  /\ ~Answered
  /\ IF second THEN WithoutModes ELSE Return("ERROR")
  /\ UNCHANGED <<plan, service, commands>>

\* ENV-01 goes on to the modes of the files it read.
AskModes ==
  /\ Running /\ pc = "poll" /\ LoopOver
  /\ Answered
  /\ ~second
  /\ SendsSecond(plan[at], result.out)
  /\ output' = result.out
  /\ second' = TRUE
  /\ pc' = "send"
  /\ polls' = 0
  /\ result' = None
  /\ UNCHANGED <<plan, service, commands, at, findings, heard>>

Evaluate ==
  /\ Running /\ pc = "poll" /\ LoopOver
  /\ Answered
  /\ \/ second /\ Return(Judge(plan[at], output, result.out))
     \/ ~second /\ ~SendsSecond(plan[at], result.out) /\ Return(Judge(plan[at], result.out, {}))
  /\ UNCHANGED <<plan, service, commands>>

Auditor ==
  Send \/ SendRaises \/ Poll \/ PollRefused \/ PollRaises \/ GiveUp \/ AskModes \/ Evaluate

Service ==
  \/ \E k \in CommandIds : Deliver(k) \/ Execute(k) \/ Expire(k)
  \/ \E i \in Positions : ChangeHost(i)

Next == Auditor \/ Service

\* The scan is one thread that keeps running.  Nothing is assumed of SSM.
Spec == Init /\ [][Next]_vars /\ WF_vars(Auditor)

-------------------------------------------------------------------------------
\* Properties

\* What the README's rows and the docstrings of the checks rule out, per command.
Unwanted(c, n) ==
  CASE c = "ENV-01"     -> IF n = 1 THEN {"HTTPS_PROXY", "other bucket"}
                           ELSE {".env 644", ".env 664", "environment 644"}
    [] c = "SSH-01"     -> {"sshd active", "ec2ic"}
    [] c = "PORT-01"    -> {"22", "443"}
    [] c = "HOST-01"    -> {"key 644", "key 604"}
    [] c = "HOST-02"    -> {"svc:root"}
    [] c = "EXEC-01"    -> {"entry", "other name"}
    [] c = "CORE-01"    -> {"core pattern", "hard limit"}
    [] c = "LOG-01"     -> {"journal 755", "group member", "adm member"}
    [] c = "RESTART-01" -> {"always+download"}
    [] c = "ENCLAVE-04" -> {"unsigned", "signed, does not verify", "running unsigned"}
    [] c \in {"ENCLAVE-01", "ENCLAVE-02"} -> {"debug zeroed"}
    [] OTHER            -> {"entry"}
Bad(c, n, F) ==
  CASE c = "NAT-01"     -> "imds dropped" \notin F
    [] c = "ENCLAVE-03" -> Cardinality(F \ {"nitro-cli"}) > 1
    [] c = "ENCLAVE-04" -> F \cap Unwanted(c, n) # {} /\ "running signed" \notin F
    [] OTHER            -> F \cap Unwanted(c, n) # {}

(***************************************************************************)
(* Where the checks disagree with those rows and docstrings even when      *)
(* their commands work.  Overlooked: modes outside the lists looked up, an *)
(* executable by another name, the adm group, an `environment` file, a     *)
(* rule that names the metadata address without dropping it, a running     *)
(* image that is not the one found.  Overstated: a restart without a       *)
(* download, an image found that is not the one running.                   *)
(***************************************************************************)
Unseen == {"key 604", "other name", "adm member", "environment 644", ".env 664", "running unsigned"}
Overlooked(c, n, F) ==
  IF c = "NAT-01" THEN "imds mentioned" \in F ELSE F \cap Unwanted(c, n) \subseteq Unseen
Overstated(c, F) ==
  \/ c = "RESTART-01" /\ "always" \in F
  \/ c = "ENCLAVE-04" /\ "running signed" \in F

\* The checks that pass only on what a working tool printed, and those of which
\* a failing tool or a cut line may make a FAIL.
PassesOnlyOnEvidence == {"ENCLAVE-01", "ENCLAVE-02", "ENCLAVE-03", "NAT-01"}
FailsOnRemains == {"NAT-01", "HOST-02", "ENV-01", "ENCLAVE-04"}

Heard(i) == {k \in heard : k[1] = i}
HeardWhole(i) == \A k \in Heard(i) : commands[k].whole

\* A PASS is true of the host as the check's own commands saw it: it never
\* comes from a stale poll, from another check's command, or from one still
\* running.  For most checks this needs all their tools to have worked and all
\* the output to have arrived, which they cannot tell; four pass on evidence
\* only.  True is by the docs, but for what is Overlooked.
PassWasTrue ==
  \A i \in Positions :
    findings[i] = "PASS" /\ (plan[i] \in PassesOnlyOnEvidence \/ HeardWhole(i)) =>
      /\ <<i, 1>> \in heard
      /\ \A k \in Heard(i) :
           Bad(plan[i], k[2], commands[k].saw) => Overlooked(plan[i], k[2], commands[k].saw)

\* A FAIL is never a false alarm, but for what is Overstated: some command of the
\* check saw what it reports, however little of the output was left.  Only four
\* checks may take what a failing tool or a cut line left for a fault.
FailWasTrue ==
  \A i \in Positions :
    findings[i] = "FAIL" /\ (plan[i] \notin FailsOnRemains \/ HeardWhole(i)) =>
      \E k \in Heard(i) :
        \/ Bad(plan[i], k[2], commands[k].saw)
        \/ Overstated(plan[i], commands[k].saw)

\* A verdict is true of what the check's own commands saw, in both directions,
\* within the limits that PassWasTrue and FailWasTrue name.
VerdictWasTrue == PassWasTrue /\ FailWasTrue

\* The scan reports on every check although SSM may never answer.
Terminates == <>(\A i \in Positions : findings[i] # "none")
===============================================================================
