--------------------------- MODULE MCEventLogReplay ---------------------------
(* Two banks and one algorithm the verifier has no hash for; PCR 0 (startup   *)
(* locality) and PCR 7; the SecureBoot variable on and off, a same-named      *)
(* vendor variable, an opaque blob and StartupLocality data.                  *)
EXTENDS EventLogReplay

MCAlgs == {"sha1", "sha256", "sm3"}
MCKnown == {"sha1", "sha256"}
MCPcrs == {0, 7}
MCData == {"SB=1", "SB=0", "vendor SB=1", "blob", "locality 3", "locality ?"}
MCLocality == [d \in {"locality 3"} |-> 3]

\* Digest lists: every declared algorithm or only some, the digests of the
\* data or, in one bank or all, of something else; a repeated algorithm.
Of(a, d) == [alg |-> a, of |-> d]
DigestLists(d) ==
  {<<Of("sha1", x), Of("sha256", y)>> : x \in {d, "SB=0"}, y \in {d, "SB=0"}}
    \cup {<<Of("sha256", d)>>, <<Of("sha256", "SB=0")>>, <<>>,
          <<Of("sha256", d), Of("sha256", d)>>,
          <<Of("sha1", d), Of("sha256", d), Of("sm3", d)>>}

MCEvents ==
  UNION {{[type |-> "EV_EFI_VARIABLE_DRIVER_CONFIG", pcr |-> 7, digests |-> s, data |-> d] :
            s \in DigestLists(d)} : d \in {"SB=1", "SB=0"}}
    \cup {[type |-> "EV_EFI_VARIABLE_DRIVER_CONFIG", pcr |-> 7, data |-> d,
           digests |-> <<Of("sha256", d)>>] : d \in {"vendor SB=1", "blob"}}
    \cup {[type |-> "EV_OTHER", pcr |-> p, digests |-> <<Of("sha256", d)>>, data |-> d] :
            p \in {0, 7}, d \in {"blob", "SB=0"}}
    \cup {[type |-> "EV_NO_ACTION", pcr |-> 0, digests |-> <<>>, data |-> d] :
            d \in {"locality 3", "locality ?"}}

Boot(l, s, t) ==
  [p \in MCPcrs |-> IF p = 0 THEN [loc |-> l, ext |-> s] ELSE [loc |-> 0, ext |-> t]]
MCBoots ==
  {Boot(l, s, t) : l \in {0, 3}, s \in {<<>>, <<"blob">>},
     t \in {<<"SB=1">>, <<"SB=0">>, <<"SB=1", "SB=1">>, <<"SB=1", "SB=0">>,
            <<"blob", "SB=1">>, <<"blob">>, <<"vendor SB=1">>}}
MCSelections == {{<<"sha256", 0>>, <<"sha256", 7>>}, {<<"sha1", 7>>, <<"sha256", 7>>}, {}}
===============================================================================
