------------------------------ MODULE ReadPlans ------------------------------
(***************************************************************************)
(* How a check that reads configuration is written down: as a plan, the    *)
(* sequence of its calls and what it makes of every answer.                *)
(*                                                                         *)
(* An answer is a set of tokens: what the check tells apart in a response, *)
(* {"refused"} for a call that raised, {"garbled"} for a document that     *)
(* cannot be decoded.                                                      *)
(***************************************************************************)
EXTENDS Naturals, Sequences

(***************************************************************************)
(* A call: the answers it may get besides a refusal; the tokens on which   *)
(* run() returns at once, and what; the tokens counted as issues; and the  *)
(* tokens on which it goes on past some of the calls that follow.          *)
(***************************************************************************)
Call(says, returns, issues, past) ==
  [says |-> says, returns |-> returns, issues |-> issues, past |-> past]

None == [t \in {} |-> 0]

\* Mutant: a refusal is swallowed.
Swallowed == None

Must == [refused |-> "ERROR"]
MustDecode == [refused |-> "ERROR", garbled |-> "ERROR"]

\* A call without which there is no verdict; everything it may say of `flags` is
\* an issue.
Flags(flags) == Call(SUBSET flags, Must, flags, None)

\* Mutant: what could not be read is an issue.
Intolerant(says, issues) == Call(says, None, issues \cup {"refused"}, None)

\* A fact that stays unknown when the call is refused.
Tolerant(says, issues) == Call(says, None, issues, None)
===============================================================================
