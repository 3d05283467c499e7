---------------------------- MODULE KmsKeyPolicy ----------------------------
(***************************************************************************)
(* KMS-01's reading of a key policy, and what KMS makes of it.             *)
(*                                                                         *)
(* A policy is a set of statements [effect, action, conditions]; a         *)
(* condition [operator, key, values] is one entry of a Condition block.    *)
(* Attestation keys are told apart as the code does: "code" for the        *)
(* measurements (PCR0, 1, 2, 8, ImageSha384), "identity" for PCR3 and      *)
(* PCR4, "custom" for the other PCRs; "source" is any other condition key. *)
(* Values: "expected" (a real measurement), "zeros" (what a debug enclave  *)
(* measures), "any" (an asterisk).  Operators: those the check counts, and *)
(* those it does not look at: "any_like" (ForAnyValue:StringLike, or any   *)
(* operator on a key written in another case), "if_exists" (...IfExists),  *)
(* "present" (Null: false) and "differs" (the negations).                  *)
(***************************************************************************)
AttestationKeys == {"code", "identity", "custom"}
ValidOperators == {"equals", "like", "for_all"}
OtherOperators == {"any_like", "if_exists", "present", "differs"}
Trivial == {"zeros"}

Condition ==
  [operator : ValidOperators \cup OtherOperators,
   key      : AttestationKeys \cup {"source"},
   values   : SUBSET {"expected", "zeros", "any"}]
Statement ==
  [effect     : {"Allow", "Deny"},
   action     : {"decrypt", "all", "pattern", "other"},
   conditions : SUBSET Condition]

\* "decrypt" is kms:Decrypt, "all" is kms:* or *; "pattern", one like kms:De* or
\* a NotAction, is neither.
GrantsDecrypt(statement) ==
  statement.effect = "Allow" /\ statement.action \in {"decrypt", "all"}

\* Conditions of the same key are merged, whatever their operators.
Expected(statement, key) ==
  UNION {c.values : c \in {d \in statement.conditions :
                             d.key = key /\ d.operator \in ValidOperators}}

\* Mutant: a key counts whatever its values.
EffectiveWithZeros(statement) ==
  {k \in AttestationKeys : Expected(statement, k) # {}}

\* The keys with at least one real value.
Effective(statement) ==
  {k \in AttestationKeys : Expected(statement, k) \ Trivial # {}}

\* Neither without conditions, nor trivial, nor bound to identity only.
Protected(statement) == Effective(statement) \cap {"code", "custom"} # {}

PolicyPasses(policy) == \A s \in policy : GrantsDecrypt(s) => Protected(s)

-------------------------------------------------------------------------------
\* KMS: who may decrypt

\* What an enclave measures; in debug mode zeros throughout; absent without one.
Measures(code, identity, custom) == [code |-> code, identity |-> identity, custom |-> custom]
Enclaves ==
  {Measures("absent", "absent", "absent"), Measures("zeros", "zeros", "zeros")}
  \cup [{"code", "identity", "custom"} -> {"expected", "other"}]

RunsExpectedCode(enclave) == "expected" \in {enclave.code, enclave.custom}

Holds(condition, enclave) ==
  \/ condition.key \notin AttestationKeys
  \/ LET value == enclave[condition.key]
     IN CASE condition.operator = "equals"  -> value \in condition.values
          [] condition.operator \in {"like", "any_like"} ->
               value # "absent" /\ {value, "any"} \cap condition.values # {}
          [] condition.operator \in {"for_all", "if_exists"} ->
               value \in condition.values \cup {"absent"}
          [] condition.operator = "present" -> value # "absent"
          [] condition.operator = "differs" -> value \notin condition.values

Applies(statement, enclave) ==
  /\ statement.action \in {"decrypt", "all", "pattern"}
  /\ \A c \in statement.conditions : Holds(c, enclave)

KmsDecrypts(policy, enclave) ==
  /\ \E s \in policy : s.effect = "Allow" /\ Applies(s, enclave)
  /\ ~\E s \in policy : s.effect = "Deny" /\ Applies(s, enclave)

-------------------------------------------------------------------------------
\* Where the reading is coarser than KMS

\* An action pattern is not looked at; an asterisk, a value beside zeros and a
\* set operator, which holds of an absent key, are taken for bindings.
PlainStatement(s) ==
  /\ s.action # "pattern"
  /\ \A c \in s.conditions :
       /\ c.operator # "for_all"
       /\ c.values \subseteq {"expected", "zeros"}
       /\ \A v, w \in c.values : v = w
PlainPolicy(policy) == \A s \in policy : PlainStatement(s)

\* Deny statements are not looked at, nor whether anybody meets the conditions,
\* nor those of its operators that bind but are not in the check's list.
Satisfiable(s) == \E e \in Enclaves : Applies(s, e)
UnreadBinding(s) ==
  \E c \in s.conditions : c.operator \in {"any_like", "if_exists"} /\ c.key \in {"code", "custom"}
ReadInFull(policy) ==
  \A s \in policy : s.effect = "Allow" /\ Satisfiable(s) /\ ~UnreadBinding(s)
===============================================================================
