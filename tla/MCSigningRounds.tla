--------------------------- MODULE MCSigningRounds ---------------------------
(* Two ECDSA keys and the Taproot key path; one signature of each mode. *)
EXTENDS SigningRounds
CONSTANTS k1, k2, path, a, b, d
MCModeOf == [s \in {a, b, d} |-> CASE s = a -> "all" [] s = b -> "single" [] s = d -> "default"]
MCPushes == {{}, {a}, {d}, {a, b}}
=============================================================================
