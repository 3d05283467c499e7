------------------------------ MODULE ScanRunner ------------------------------
(***************************************************************************)
(* One `untrust scan`: the command line picks the checks of a platform,    *)
(* run_checks runs them one after the other, turning a check that raises   *)
(* into an ERROR finding, then a second pass notes every report-derived    *)
(* PASS whose dependencies did not all pass, and the command prints the    *)
(* findings, writes the report and exits.                                  *)
(*                                                                         *)
(* The checks are parameters: what a check may return when the input it    *)
(* reads holds a given content.  Each check opens its input by itself, so  *)
(* somebody else may replace the input between two checks (Replace).       *)
(*                                                                         *)
(* Abstracted: wording, severities, evidence dictionaries, terminal        *)
(* colours.  A note is the set of dependencies it names.                   *)
(***************************************************************************)
EXTENDS Naturals, FiniteSets

CONSTANTS
  Registry,         \* the platform's checks, a sequence of check ids in order
  Tier,             \* check id -> evidence tier stamped on the class
  DependsOn,        \* check id -> the ids in assurance_depends_on
  Intrusive,        \* ids in PLATFORM_INTRUSIVE_CHECK_IDS for the platform
  Contents,         \* what the input the checks read may hold
  Outcomes,         \* check id -> content -> the outcomes run() may have
  MaxReplacements,  \* bound: how often the input is replaced during a scan
  Modes             \* subset of {"scan", "read-only", "demo"}

Statuses == {"PASS", "FAIL", "SKIP", "ERROR"}
Tiers == {"probed", "report-derived", "operator-declared", "none"}
Positions == DOMAIN Registry
Ids == {Registry[i] : i \in Positions}

\* What run() may do: return a finding (with a tier only when the check sets
\* one itself) or raise.
Outcome == [raised : BOOLEAN, status : Statuses, tier : Tiers]

ASSUME RegistryAssumption ==
  /\ IsFiniteSet(Positions) /\ Positions = 1..Cardinality(Positions)
  /\ \A i, j \in Positions : Registry[i] = Registry[j] => i = j
ASSUME TierAssumption == Tier \in [Ids -> Tiers]
ASSUME DependsOnAssumption == DependsOn \in [Ids -> SUBSET Ids]
ASSUME IntrusiveAssumption == Intrusive \subseteq Ids
ASSUME OutcomesAssumption ==
  Outcomes \in [Ids -> [Contents -> SUBSET Outcome]]
ASSUME BoundAssumption == MaxReplacements \in Nat
ASSUME ModesAssumption == Modes \subseteq {"scan", "read-only", "demo"}

VARIABLES
  mode,      \* how the command was invoked
  usable,    \* an identifier was given, and --host-nonce (if any) is hex
  input,     \* what the input the checks read holds now
  replaced,  \* how often it was replaced
  pc,        \* "start", "run", "annotate", "report", "done"
  selected,  \* positions of the checks this scan runs
  findings,  \* position -> its finding
  exitCode   \* exit status, meaningful when pc = "done"

vars == <<mode, usable, input, replaced, pc, selected, findings, exitCode>>

\* No finding yet.  `seen` is a history field: the content the check read.
NoFinding == [status |-> "NONE", tier |-> "none", note |-> {}, seen |-> input]
FindingSet == [status : Statuses \cup {"NONE"}, tier : Tiers,
               note : SUBSET Ids, seen : Contents]

Init ==
  /\ mode \in Modes
  /\ usable \in BOOLEAN
  /\ input \in Contents
  /\ replaced = 0
  /\ pc = "start"
  /\ selected = {}
  /\ findings = [i \in Positions |-> NoFinding]
  /\ exitCode = 0

-------------------------------------------------------------------------------
\* Operators of the runner

Found(i) == findings[i].status # "NONE"
Pending == {i \in selected : ~Found(i)}

\* Mutant: the platform's intrusive checks are not looked up.
PassiveOnlyUnfiltered == Positions

\* runner.passive_only
PassiveOnly == {i \in Positions : Registry[i] \notin Intrusive}

\* The finding run_checks appends for an outcome of the check at i: a raise
\* becomes ERROR, and the class's tier is stamped unless the finding set one.
Stamped(i, o) ==
  [status |-> IF o.raised THEN "ERROR" ELSE o.status,
   tier   |-> IF o.raised \/ o.tier = "none" THEN Tier[Registry[i]] ELSE o.tier,
   note   |-> {},
   seen   |-> input]

\* Mutant: a declared dependency does not count as passed.
PassedIdsVerified ==
  {Registry[i] : i \in {j \in selected : findings[j].status = "PASS"
                                           /\ findings[j].tier # "operator-declared"}}

PassedIds == {Registry[i] : i \in {j \in selected : findings[j].status = "PASS"}}

\* Mutants: only a failed dependency is named; every dependency is.
MissingFailed(i) ==
  IF i \in selected /\ findings[i].status = "PASS" /\ findings[i].tier = "report-derived"
  THEN DependsOn[Registry[i]] \cap
         {Registry[j] : j \in {k \in selected : findings[k].status = "FAIL"}}
  ELSE {}
MissingAll(i) ==
  IF i \in selected /\ findings[i].status = "PASS" /\ findings[i].tier = "report-derived"
  THEN DependsOn[Registry[i]]
  ELSE {}

\* The dependencies the second pass names in the finding's assurance note.
Missing(i) ==
  IF /\ i \in selected
     /\ findings[i].status = "PASS"
     /\ findings[i].tier = "report-derived"
  THEN DependsOn[Registry[i]] \ PassedIds
  ELSE {}

WithStatus(s) == {i \in selected : findings[i].status = s}

\* format_console: the passes it tallies as verified.
Verified ==
  {i \in WithStatus("PASS") :
     \/ findings[i].tier = "probed"
     \/ findings[i].tier = "report-derived" /\ findings[i].note = {}}

-------------------------------------------------------------------------------
\* Actions

\* --demo prints the simulated findings: no check runs.  As in a scan, failing
\* to write the --output file ends the command with status 1.
Demo(written) ==
  /\ pc = "start"
  /\ mode = "demo"
  /\ pc' = "done"
  /\ exitCode' = IF written THEN 0 ELSE 1
  /\ UNCHANGED <<mode, usable, input, replaced, selected, findings>>

\* No identifier, or a --host-nonce that is not hex.
Refuse ==
  /\ pc = "start"
  /\ mode # "demo"
  /\ ~usable
  /\ pc' = "done"
  /\ exitCode' = 1
  /\ UNCHANGED <<mode, usable, input, replaced, selected, findings>>

Select ==
  /\ pc = "start"
  /\ mode # "demo"
  /\ usable
  /\ selected' = IF mode = "read-only" THEN PassiveOnly ELSE Positions
  /\ pc' = "run"
  /\ UNCHANGED <<mode, usable, input, replaced, findings, exitCode>>

\* Mutant: the try is around the loop, so a check that raises ends it.
RunCheckOrStop(i) ==
  /\ pc = "run"
  /\ i \in Pending
  /\ \A j \in Pending : i <= j
  /\ \E o \in Outcomes[Registry[i]][input] :
       IF o.raised
       THEN pc' = "annotate" /\ UNCHANGED findings
       ELSE findings' = [findings EXCEPT ![i] = Stamped(i, o)] /\ UNCHANGED pc
  /\ UNCHANGED <<mode, usable, input, replaced, selected, exitCode>>

\* The next check of the loop reads the input and returns or raises.
RunCheck(i) ==
  /\ pc = "run"
  /\ i \in Pending
  /\ \A j \in Pending : i <= j
  /\ \E o \in Outcomes[Registry[i]][input] :
       findings' = [findings EXCEPT ![i] = Stamped(i, o)]
  /\ UNCHANGED <<mode, usable, input, replaced, pc, selected, exitCode>>

\* Mutant: the loop waits for the whole registry.
LoopDoneForAll ==
  /\ pc = "run"
  /\ \A i \in Positions : Found(i)
  /\ pc' = "annotate"
  /\ UNCHANGED <<mode, usable, input, replaced, selected, findings, exitCode>>

LoopDone ==
  /\ pc = "run"
  /\ Pending = {}
  /\ pc' = "annotate"
  /\ UNCHANGED <<mode, usable, input, replaced, selected, findings, exitCode>>

\* Mutants: the note is added whatever the verdict; the verdict is lowered.
AnnotateAny ==
  /\ pc = "annotate"
  /\ findings' = [i \in Positions |->
                    [findings[i] EXCEPT !.note = DependsOn[Registry[i]] \ PassedIds]]
  /\ pc' = "report"
  /\ UNCHANGED <<mode, usable, input, replaced, selected, exitCode>>
AnnotateByLowering ==
  /\ pc = "annotate"
  /\ findings' = [i \in Positions |->
                    [findings[i] EXCEPT !.note = Missing(i),
                                        !.status = IF Missing(i) = {} THEN @ ELSE "SKIP"]]
  /\ pc' = "report"
  /\ UNCHANGED <<mode, usable, input, replaced, selected, exitCode>>

\* The second pass of run_checks.  It reads and writes only the findings.
Annotate ==
  /\ pc = "annotate"
  /\ findings' = [i \in Positions |-> [findings[i] EXCEPT !.note = Missing(i)]]
  /\ pc' = "report"
  /\ UNCHANGED <<mode, usable, input, replaced, selected, exitCode>>

\* The console report is printed; writing the --output file may raise, which
\* ends the command with status 1.
Report(written) ==
  /\ pc = "report"
  /\ exitCode' = IF written /\ WithStatus("FAIL") = {} THEN 0 ELSE 1
  /\ pc' = "done"
  /\ UNCHANGED <<mode, usable, input, replaced, selected, findings>>

\* The environment replaces what the checks read.
Replace ==
  /\ pc \in {"start", "run"}
  /\ replaced < MaxReplacements
  /\ \E c \in Contents \ {input} : input' = c
  /\ replaced' = replaced + 1
  /\ UNCHANGED <<mode, usable, pc, selected, findings, exitCode>>

Step ==
  \/ Refuse
  \/ Select
  \/ \E i \in Positions : RunCheck(i)
  \/ LoopDone
  \/ Annotate
  \/ \E written \in BOOLEAN : Demo(written) \/ Report(written)

Next == Step \/ Replace

\* The command is a sequential program: as long as it has a step it takes it.
\* (Every check returns or raises: its polling loops are bounded.)
Spec == Init /\ [][Next]_vars /\ WF_vars(Step)

-------------------------------------------------------------------------------
\* Properties

TypeOK ==
  /\ mode \in Modes
  /\ usable \in BOOLEAN
  /\ input \in Contents
  /\ replaced \in 0..MaxReplacements
  /\ pc \in {"start", "run", "annotate", "report", "done"}
  /\ selected \in SUBSET Positions
  /\ findings \in [Positions -> FindingSet]
  /\ exitCode \in {0, 1}

\* The findings of a scan that got past its check loop.
Ran == pc \in {"annotate", "report", "done"} /\ usable /\ mode # "demo"

\* The second pass pairs classes and findings with zip(strict=True), which
\* raises unless every selected check left exactly one finding, whatever the
\* checks before it did; a check that was not selected leaves none.
OneFindingPerCheck ==
  Ran => selected = {i \in Positions : Found(i)}

\* --read-only never runs a check that writes or executes: no finding of an
\* intrusive check exists in that mode, at any point of the scan.
ReadOnlyIsPassive ==
  mode = "read-only" => \A i \in Positions : Found(i) => Registry[i] \notin Intrusive

\* Every id a report-derived verdict rests on, directly or through others.
Rests(i) ==
  LET Closed(S) == \A d \in S : DependsOn[d] \subseteq S
      Start == DependsOn[Registry[i]]
      Candidates == {S \in SUBSET Ids : Start \subseteq S /\ Closed(S)}
  IN {d \in Ids : \A S \in Candidates : d \in S}

\* A report-derived pass the console counts as "verified" rests only on checks
\* that ran in this very scan and passed, directly or through dependencies:
\* a dependency that failed, errored, skipped, raised or was not selected, or
\* that comes later in the registry, never leaves the pass unmarked.
VerifiedRestsOnPasses ==
  pc \in {"report", "done"} =>
    \A i \in Verified : findings[i].tier = "report-derived" =>
      \A d \in Rests(i) : \E j \in WithStatus("PASS") : Registry[j] = d

\* Conversely a note is never a false alarm: every id it names is a dependency
\* of the check that did not pass, so an honest report is never played down.
NotesNameNonPasses ==
  \A i \in Positions : \A d \in findings[i].note :
    /\ d \in DependsOn[Registry[i]]
    /\ \A j \in selected : Registry[j] = d => findings[j].status # "PASS"

\* A finding, once appended, keeps its verdict: later checks and the second
\* pass may add a note, never change a status, a tier or what was read.
VerdictsAreFinal ==
  [][\A i \in Positions : Found(i) =>
       /\ findings'[i].status = findings[i].status
       /\ findings'[i].tier = findings[i].tier
       /\ findings'[i].seen = findings[i].seen]_vars

\* The scan ends whatever its checks do.
Terminates == <>(pc = "done")

===============================================================================
