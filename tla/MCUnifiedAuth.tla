---------------------------- MODULE MCUnifiedAuth ----------------------------
(* Instances of UnifiedAuth for TLC: who holds which key, who knows what.   *)
EXTENDS UnifiedAuth

CONSTANTS k1, k2, d1, d2, p1, p2

\* d1 and d2 connect directly, p1 and p2 through the wormhole; only p1 was
\* told the passcode
MCKeysOf == [s \in Sessions |-> IF s \in {d1, p1} THEN {k1} ELSE {k2}]
MCKnows == [s \in Sessions |-> IF s = p1 THEN {"temp"} ELSE
                               IF s = d1 THEN {"node"} ELSE {}]
=============================================================================
