----------------------------- MODULE MCSsmSession -----------------------------
(* Every check on its own; and sequences in which the commands of one check   *)
(* are still running while the next is polled, ENV-01 with its two commands   *)
(* among them.                                                                *)
EXTENDS SsmSession

MCPlans == {<<c>> : c \in ShellIds} \cup {<<"DNS-01", "ENCLAVE-01">>, <<"ENV-01", "SWAP-01">>}
===============================================================================
