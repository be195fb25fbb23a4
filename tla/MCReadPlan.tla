----------------------------- MODULE MCReadPlan -----------------------------
(* ReadPlan on a map with an optional register between two required ones,  *)
(* the heartbeat register after those, and two optional ones apart.        *)
EXTENDS ReadPlan

CONSTANTS r1, r2, r3, o1, o2, o3,
    derived   \* a key asked for that is no register

MCRegisters == <<r1, o1, r2, r3, o2, o3>>
MCOptional == {o1, o2, o3}
MCAddress(k) ==
    CASE k = r1 -> 1 [] k = o1 -> 2 [] k = r2 -> 3 [] k = r3 -> 6 [] k = o2 -> 9 [] k = o3 -> 11
MCSize(k) == IF k \in {r3, o2} THEN 2 ELSE 1
MCOwnKeys == {r1, r2, o2}
MCContexts == {{o1, derived}, {r3, o3}}
=============================================================================
